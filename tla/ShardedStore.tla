---------------------------- MODULE ShardedStore -----------------------------
(***************************************************************************)
(* ShardedRowStore (aruaru-query/src/sharded_store.rs): every shard is a   *)
(* thread that alone owns the rows of its keys; callers send it messages   *)
(* and wait for the reply on a channel of their own.  A message is the     *)
(* call of its sender, so a queue holds senders.                           *)
(***************************************************************************)
EXTENDS Naturals, Sequences, FiniteSets

CONSTANTS Client, Key, Val, Absent,
          Shards,    \* how many shards
          ShardOf,   \* murmur3_32(key) % shard_count
          MaxCalls   \* bound on the calls, for TLC

Dropped == "dropped" \* stands for Shutdown in a queue

ASSUME ShardAssumption ==
    /\ Shards \in Nat \ {0} /\ ShardOf \in [Key -> 1 .. Shards]
    /\ Absent \notin Val /\ Dropped \notin Client /\ MaxCalls \in Nat

Shard == 1 .. Shards

VARIABLES
    map,      \* [Shard -> rows of its keys]: the HashMap of each thread
    queue,    \* [Shard -> messages that wait]
    call,     \* [Client -> the call it waits for]
    reply,    \* [Client -> what its reply channel holds]
    lens,     \* [Client -> the lengths it has gathered]
    threads,  \* shards whose thread runs
    calls,    \* how many calls were made
    lowest, highest  \* history: keys present throughout, and at any time, during a gathering

shardVars == <<map, queue, call, reply, lens, threads, calls, lowest, highest>>

NoCall == [do |-> "none", key |-> Absent, val |-> Absent]
NoReply == <<>>
Rows(s) == {k \in Key : ShardOf[k] = s /\ map[s][k] # Absent}
Present == UNION {Rows(s) : s \in Shard}

ShardInit ==
    /\ map = [s \in Shard |-> [k \in Key |-> Absent]]
    /\ queue = [s \in Shard |-> <<>>]
    /\ call = [c \in Client |-> NoCall]
    /\ reply = [c \in Client |-> NoReply]
    /\ lens = [c \in Client |-> <<>>]
    /\ threads = Shard
    /\ calls = 0
    /\ lowest = [c \in Client |-> {}] /\ highest = [c \in Client |-> {}]

\* Callers hold the store, which is not being dropped.
Held == threads = Shard /\ \A s \in Shard : queue[s] # <<Dropped>>
-----------------------------------------------------------------------------
\* Variant: reads go to the shard of another hash than writes.
SendReadsAstray(c, do, key, val) ==
    /\ call[c] = NoCall /\ Held /\ calls < MaxCalls
    /\ call' = [call EXCEPT ![c] = [do |-> do, key |-> key, val |-> val]]
    /\ queue' = [queue EXCEPT ![IF do = "get" THEN 1 ELSE ShardOf[key]] = Append(@, c)]
    /\ calls' = calls + 1
    /\ UNCHANGED <<map, reply, lens, threads, lowest, highest>>

\* put, get and delete: the key decides the shard, and the call goes into its queue.
Send(c, do, key, val) ==
    /\ call[c] = NoCall /\ Held /\ calls < MaxCalls
    /\ call' = [call EXCEPT ![c] = [do |-> do, key |-> key, val |-> val]]
    /\ queue' = [queue EXCEPT ![ShardOf[key]] = Append(@, c)]
    /\ calls' = calls + 1
    /\ UNCHANGED <<map, reply, lens, threads, lowest, highest>>

Put(c) == \E k \in Key, v \in Val : Send(c, "put", k, v)
Get(c) == \E k \in Key : Send(c, "get", k, Absent)
Delete(c) == \E k \in Key : Send(c, "delete", k, Absent)

\* total_len, and the stats of the admin API: the shards are asked one after the other.
StartGather(c) ==
    /\ call[c] = NoCall /\ Held /\ calls < MaxCalls
    /\ call' = [call EXCEPT ![c] = [do |-> "len", key |-> Absent, val |-> Absent]]
    /\ queue' = [queue EXCEPT ![1] = Append(@, c)]
    /\ lens' = [lens EXCEPT ![c] = <<>>]
    /\ calls' = calls + 1
    /\ lowest' = [lowest EXCEPT ![c] = Present] /\ highest' = [highest EXCEPT ![c] = Present]
    /\ UNCHANGED <<map, reply, threads>>

\* Variant: the shard that answered is asked again.
GatherSame(c) ==
    /\ call[c].do = "len" /\ reply[c] # NoReply /\ Len(lens[c]) + 1 < Shards
    /\ lens' = [lens EXCEPT ![c] = @ \o reply[c]]
    /\ reply' = [reply EXCEPT ![c] = NoReply]
    /\ queue' = [queue EXCEPT ![Len(lens[c]) + 1] = Append(@, c)]
    /\ UNCHANGED <<map, call, threads, calls, lowest, highest>>

\* The next shard is asked when the one before has answered; the last answer completes the sum.
GatherNext(c) ==
    /\ call[c].do = "len" /\ reply[c] # NoReply /\ Len(lens[c]) + 1 < Shards
    /\ lens' = [lens EXCEPT ![c] = @ \o reply[c]]
    /\ reply' = [reply EXCEPT ![c] = NoReply]
    /\ queue' = [queue EXCEPT ![Len(lens[c]) + 2] = Append(@, c)]
    /\ UNCHANGED <<map, call, threads, calls, lowest, highest>>

GatherLast(c) ==
    /\ call[c].do = "len" /\ reply[c] # NoReply /\ Len(lens[c]) + 1 = Shards
    /\ lens' = [lens EXCEPT ![c] = @ \o reply[c]]
    /\ reply' = [reply EXCEPT ![c] = NoReply]
    /\ call' = [call EXCEPT ![c] = NoCall]
    /\ UNCHANGED <<map, queue, threads, calls, lowest, highest>>

\* A caller of put, get or delete returns with the reply.
TakeReply(c) ==
    /\ call[c].do \in {"put", "get", "delete"} /\ reply[c] # NoReply
    /\ call' = [call EXCEPT ![c] = NoCall]
    /\ reply' = [reply EXCEPT ![c] = NoReply]
    /\ UNCHANGED <<map, queue, lens, threads, calls, lowest, highest>>
-----------------------------------------------------------------------------
\* shard_loop: one message after the other, each answered on its sender's channel.
Serve(s) ==
    LET c == Head(queue[s]) IN
    /\ s \in threads /\ queue[s] # <<>> /\ c # Dropped
    /\ queue' = [queue EXCEPT ![s] = Tail(@)]
    /\ map' = CASE call[c].do = "put" -> [map EXCEPT ![s][call[c].key] = call[c].val]
                [] call[c].do = "delete" -> [map EXCEPT ![s][call[c].key] = Absent]
                [] OTHER -> map
    /\ reply' = [reply EXCEPT ![c] = CASE call[c].do = "put" -> <<"done">>
                                        [] call[c].do = "len" -> <<Cardinality(Rows(s))>>
                                        [] OTHER -> <<map[s][call[c].key]>>]
    /\ lowest' = [g \in Client |-> lowest[g] \cap Present']
    /\ highest' = [g \in Client |-> IF call[g].do = "len" THEN highest[g] \cup Present' ELSE highest[g]]
    /\ UNCHANGED <<call, lens, threads, calls>>

\* Drop: nobody holds the store any more; every thread is told to stop and is joined.
Drop ==
    /\ \A c \in Client : call[c] = NoCall
    /\ \A s \in Shard : queue[s] = <<>>
    /\ threads = Shard
    /\ queue' = [s \in Shard |-> <<Dropped>>]
    /\ UNCHANGED <<map, call, reply, lens, threads, calls, lowest, highest>>

Shutdown(s) ==
    /\ s \in threads /\ queue[s] # <<>> /\ Head(queue[s]) = Dropped
    /\ threads' = threads \ {s}
    /\ UNCHANGED <<map, queue, call, reply, lens, calls, lowest, highest>>

ShardStep ==
    \/ \E c \in Client : \/ Put(c) \/ Get(c) \/ Delete(c) \/ StartGather(c)
                         \/ GatherNext(c) \/ GatherLast(c) \/ TakeReply(c)
    \/ \E s \in Shard : Serve(s) \/ Shutdown(s)
    \/ Drop
-----------------------------------------------------------------------------
ShardOK ==
    /\ \A s \in Shard : map[s] \in [Key -> Val \cup {Absent}]
    /\ threads \subseteq Shard /\ calls \in 0 .. MaxCalls
    /\ \A c \in Client : Len(lens[c]) <= Shards

\* The calls on keys, each sent to the thread of its key, together behave as one map on which
\* every call takes effect at a moment between its call and its return.
TheMap == INSTANCE AtomicMap WITH
    content <- [k \in Key |-> map[ShardOf[k]][k]],
    asked <- [c \in Client |-> IF call[c].do = "len" THEN NoCall ELSE call[c]],
    told <- [c \in Client |-> IF call[c].do = "len" THEN NoReply ELSE reply[c]]

\* This is TheMap!Spec, where what leaves shardVars alone need not be looked at.
ImplementsMap ==
    TheMap!Init /\ [][UNCHANGED shardVars \/ [TheMap!Next]_(TheMap!vars)]_shardVars

SumOf(seq) == LET sum[i \in 0 .. Len(seq)] == IF i = 0 THEN 0 ELSE sum[i - 1] + seq[i] IN sum[Len(seq)]

\* The sum of total_len is not the size at any one moment; but it counts every key that was
\* there throughout, and only keys that were there at some moment.
TotalIsBracketed ==
    [][\A c \in Client : call[c].do = "len" /\ call'[c] = NoCall =>
          SumOf(lens'[c]) \in Cardinality(lowest[c]) .. Cardinality(highest[c])]_shardVars

\* The shards are one map to those that save, delete and read (they implement AtomicMap), and its
\* size is told within what it was in the meantime.
ShardedIsOneMap == ImplementsMap /\ TotalIsBracketed
=============================================================================
