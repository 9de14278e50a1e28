------------------------------ MODULE AtomicMap ------------------------------
(***************************************************************************)
(* What a key-value store promises: a call takes effect at one moment      *)
(* between the client's question and its answer.                           *)
(***************************************************************************)
CONSTANTS Client, Key, Val, Absent

VARIABLES content, \* [Key -> Val \cup {Absent}]
          asked,   \* the call of each client, or Idle
          told     \* its answer; <<>> until the call took effect

Idle == [do |-> "none", key |-> Absent, val |-> Absent]

vars == <<content, asked, told>>

Call == [do : {"put"}, key : Key, val : Val] \cup [do : {"get", "delete"}, key : Key, val : {Absent}]

Init ==
    /\ content = [k \in Key |-> Absent]
    /\ asked = [c \in Client |-> Idle]
    /\ told = [c \in Client |-> <<>>]

Ask(c) ==
    /\ asked[c] = Idle
    /\ \E call \in Call : asked' = [asked EXCEPT ![c] = call]
    /\ UNCHANGED <<content, told>>

Act(c) ==
    /\ asked[c] # Idle /\ told[c] = <<>>
    /\ content' = [content EXCEPT ![asked[c].key] =
                     CASE asked[c].do = "put" -> asked[c].val
                       [] asked[c].do = "delete" -> Absent
                       [] OTHER -> @]
    /\ told' = [told EXCEPT ![c] = IF asked[c].do = "put" THEN <<"done">> ELSE <<content[asked[c].key]>>]
    /\ UNCHANGED asked

Answer(c) ==
    /\ told[c] # <<>>
    /\ asked' = [asked EXCEPT ![c] = Idle]
    /\ told' = [told EXCEPT ![c] = <<>>]
    /\ UNCHANGED content

Next == \E c \in Client : Ask(c) \/ Act(c) \/ Answer(c)

Spec == Init /\ [][Next]_vars
=============================================================================
