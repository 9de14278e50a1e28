--------------------------- MODULE EncryptedStream ---------------------------
(***************************************************************************)
(* One direction of an EncryptedStream (aruaru-wire/src/payload_crypto.rs) *)
(* over a byte stream that takes and gives as many bytes as it likes and   *)
(* may be pending at any time.  The writer's poll_write encrypts what it   *)
(* was given into one frame, keeps the part that the stream below did not  *)
(* take, and pushes it on at its next poll; the reader collects bytes      *)
(* until a frame is complete.                                              *)
(*                                                                         *)
(* A message is its number, its plaintext two units; a byte of its frame   *)
(* is <<message, place>>, and the first byte stands for the length prefix. *)
(***************************************************************************)
EXTENDS Naturals, Sequences

CONSTANTS Messages,   \* how many writes the application makes
          FrameLen    \* bytes of a frame

ASSUME StreamAssumption == Messages \in Nat /\ FrameLen \in Nat \ {0, 1}

PlainLen == 2
Plain(m) == [p \in 1 .. PlainLen |-> <<m, p>>]
Frame(m) == [p \in 1 .. FrameLen |-> <<m, p>>]

VARIABLES
    accepted,         \* messages that poll_write answered with Ready(Ok)
    write_staged,     \* the frame being written ...
    write_pos,        \* ... and how much of it the stream below has taken
    flushed,          \* messages accepted before the last poll_flush that was ready
    sending,          \* the stream below: "open", "closed" by poll_shutdown, "broken"
    carried,          \* bytes taken from the writer, not yet given to the reader
    read_raw,         \* bytes of an incomplete frame
    read_plain, read_plain_pos,
    same_key,         \* both ends derived their session key from the same secret and session
    received,         \* plaintext the reader's caller has
    ending            \* what the reader was told last: "none", "eof", "error"

writerVars == <<accepted, write_staged, write_pos, flushed>>
readerVars == <<read_raw, read_plain, read_plain_pos, received, ending, same_key>>
streamVars == <<writerVars, sending, carried, readerVars>>

StreamInit ==
    /\ accepted = 0 /\ write_staged = <<>> /\ write_pos = 0 /\ flushed = 0
    /\ sending = "open" /\ carried = <<>>
    /\ read_raw = <<>> /\ read_plain = <<>> /\ read_plain_pos = 0 /\ same_key \in BOOLEAN
    /\ received = <<>> /\ ending = "none"
-----------------------------------------------------------------------------
Unsent == SubSeq(write_staged, write_pos + 1, Len(write_staged))

\* poll_write found the stream pending before the frame of an earlier write was out: it takes
\* nothing, and the caller, who has nothing written, may poll with other data.
WritePending(n) ==
    /\ sending = "open" /\ accepted < Messages /\ n < Len(Unsent)
    /\ carried' = carried \o SubSeq(Unsent, 1, n)
    /\ write_pos' = write_pos + n
    /\ UNCHANGED <<accepted, write_staged, flushed, sending, readerVars>>

\* poll_write wrote the earlier frame out, encrypts the new data and hands over what the stream
\* takes of it; the data is accepted even if that is nothing.
WriteAccepted(n) ==
    /\ sending = "open" /\ accepted < Messages /\ n \in 0 .. FrameLen
    /\ accepted' = accepted + 1
    /\ write_staged' = Frame(accepted + 1)
    /\ write_pos' = n
    /\ carried' = carried \o Unsent \o SubSeq(Frame(accepted + 1), 1, n)
    /\ UNCHANGED <<flushed, sending, readerVars>>

\* poll_flush writes the staged frame out and is ready when all of it is; a stream that takes
\* nothing leaves it pending.
PollFlush(n) ==
    /\ sending = "open" /\ flushed < accepted /\ n \in 1 .. Len(Unsent)
    /\ carried' = carried \o SubSeq(Unsent, 1, n)
    /\ write_pos' = write_pos + n
    /\ flushed' = IF n = Len(Unsent) THEN accepted ELSE flushed
    /\ UNCHANGED <<accepted, write_staged, sending, readerVars>>

\* ... or there is nothing left to write.
FlushNothing ==
    /\ sending = "open" /\ flushed < accepted /\ Unsent = <<>>
    /\ flushed' = accepted
    /\ UNCHANGED <<accepted, write_staged, write_pos, sending, carried, readerVars>>

\* poll_shutdown closes the stream below as it is, without the staged frame.
PollShutdown ==
    /\ sending = "open"
    /\ sending' = "closed"
    /\ UNCHANGED <<writerVars, carried, readerVars>>

\* The connection breaks: the writer gets an error at its next poll, bytes may be lost.
Break(n) ==
    /\ sending = "open" /\ n \in 0 .. Len(carried)
    /\ sending' = "broken"
    /\ carried' = SubSeq(carried, 1, n)
    /\ UNCHANGED <<writerVars, readerVars>>
-----------------------------------------------------------------------------
\* Plaintext that is decrypted goes first, as much as the caller's buffer holds.
GivePlain(room) ==
    LET n == IF room < Len(read_plain) - read_plain_pos THEN room ELSE Len(read_plain) - read_plain_pos IN
    /\ read_plain_pos < Len(read_plain)
    /\ received' = received \o SubSeq(read_plain, read_plain_pos + 1, read_plain_pos + n)
    /\ read_plain_pos' = read_plain_pos + n
    /\ UNCHANGED <<writerVars, sending, carried, read_raw, read_plain, ending, same_key>>

Complete == read_raw # <<>> /\ Len(read_raw) >= FrameLen

\* A complete frame is decrypted; with another key, or if its bytes are not as they were sealed,
\* that fails.
Decrypt ==
    LET frame == SubSeq(read_raw, 1, FrameLen) IN
    /\ ending # "error"
    /\ read_plain_pos = Len(read_plain) /\ Complete
    /\ IF same_key /\ frame = Frame(frame[1][1])
       THEN /\ read_plain' = Plain(frame[1][1])
            /\ read_plain_pos' = 0
            /\ read_raw' = SubSeq(read_raw, FrameLen + 1, Len(read_raw))
            /\ UNCHANGED ending
       ELSE ending' = "error" /\ UNCHANGED <<read_raw, read_plain, read_plain_pos>>
    /\ UNCHANGED <<writerVars, sending, carried, received, same_key>>

Hungry == read_plain_pos = Len(read_plain) /\ ~Complete /\ ending = "none"

\* Otherwise poll_read takes what has come, any part of it ...
Fill(n) ==
    /\ Hungry /\ n \in 1 .. Len(carried)
    /\ read_raw' = read_raw \o SubSeq(carried, 1, n)
    /\ carried' = SubSeq(carried, n + 1, Len(carried))
    /\ UNCHANGED <<writerVars, sending, read_plain, read_plain_pos, received, ending, same_key>>

\* ... or sees the end: of the stream between two frames, an error in the middle of one.
ReadEnd ==
    /\ Hungry /\ carried = <<>> /\ sending # "open"
    /\ ending' = IF read_raw = <<>> /\ sending = "closed" THEN "eof" ELSE "error"
    /\ UNCHANGED <<writerVars, sending, carried, read_raw, read_plain, read_plain_pos, received, same_key>>

StreamWrite == \E n \in 0 .. FrameLen : WritePending(n) \/ WriteAccepted(n)
StreamFlush == FlushNothing \/ \E n \in 1 .. FrameLen : PollFlush(n)
StreamRead ==
    \/ \E room \in 1 .. PlainLen : GivePlain(room)
    \/ Decrypt
    \/ \E n \in 1 .. Len(carried) : Fill(n)
    \/ ReadEnd
StreamEnds == PollShutdown \/ \E n \in 0 .. Len(carried) : Break(n)

StreamStep == StreamWrite \/ StreamFlush \/ StreamRead \/ StreamEnds
-----------------------------------------------------------------------------
Sent(m) == [i \in 1 .. PlainLen * m |-> <<((i - 1) \div PlainLen) + 1, ((i - 1) % PlainLen) + 1>>]

StreamOK ==
    /\ accepted \in 0 .. Messages /\ flushed \in 0 .. accepted
    /\ write_staged = IF accepted = 0 THEN <<>> ELSE Frame(accepted)
    /\ write_pos \in 0 .. Len(write_staged)
    /\ sending \in {"open", "closed", "broken"}
    /\ Len(read_raw) + Len(carried) <= Messages * FrameLen
    /\ read_plain_pos \in 0 .. Len(read_plain)
    /\ ending \in {"none", "eof", "error"}

\* However the stream below cuts and delays the bytes, the reader receives the plaintext of the
\* accepted writes in their order, none twice, and nothing without the key; it gets an error only
\* if the keys differ, the stream broke or poll_shutdown cut a frame; and an end without an error
\* hides nothing that was flushed.
StreamIsFaithful ==
    /\ Len(received) <= PlainLen * accepted
    /\ received = SubSeq(Sent(accepted), 1, Len(received))
    /\ ending = "error" => ~same_key \/ sending = "broken" \/ write_pos < Len(write_staged)
    /\ ending = "eof" => Len(received) >= PlainLen * flushed
    /\ ~same_key => received = <<>>

\* What was flushed has reached the reader, as long as the keys agree and the connection holds.
FlushedArrived == same_key /\ sending # "broken" => Len(received) >= PlainLen * flushed
=============================================================================
