--------------------------- MODULE ServicesProofs ---------------------------
(***************************************************************************)
(* Theorems about the write path and the services (Services), for any      *)
(* clients, writers, frames and crawlers, from the invariants of           *)
(* DeliveryProofs and those of the other services.                         *)
(***************************************************************************)
EXTENDS Services, DeliveryProofs

-----------------------------------------------------------------------------
(***************************************************************************)
(* One map out of shards (ShardedStore).                                   *)
(***************************************************************************)
\* A set of numbers has a least one: this stands for induction.
LEMMA LeastOf ==
    ASSUME NEW T, T \subseteq Nat, T # {}
    PROVE  \E x \in T : \A y \in T : x <= y
<1>1. PICK x \in T : \A y \in T : <<y, x>> \notin OpToRel(<, Nat)
  BY WFMin, NatLessThanWellFounded
<1>2. \A y \in T : ~(y < x)
  BY <1>1 DEF OpToRel
<1> QED
  BY <1>2

\* The recursion of SumOf has a solution.
LEMMA SumIsSum ==
    ASSUME NEW seq, Len(seq) \in Nat, \A i \in 1 .. Len(seq) : seq[i] \in Int
    PROVE  \E sum \in [0 .. Len(seq) -> Int] :
             /\ \A i \in 0 .. Len(seq) : sum[i] = IF i = 0 THEN 0 ELSE sum[i - 1] + seq[i]
             /\ SumOf(seq) = sum[Len(seq)]
<1> DEFINE n == Len(seq)
           Sums(g, m) == g = [i \in 0 .. m |-> IF i = 0 THEN 0 ELSE g[i - 1] + seq[i]]
           Bad == {m \in 0 .. n : ~\E g : Sums(g, m)}
<1>1. ASSUME Bad # {} PROVE FALSE
  <2>1. PICK m \in 0 .. n : m \in Bad /\ \A k \in Bad : m <= k
    <3>1. Bad \subseteq 0 .. n /\ Bad \subseteq Nat
      OBVIOUS
    <3> HIDE DEF Bad
    <3> QED
      BY <1>1, <3>1, LeastOf
  <2>2. m # 0
    <3>1. Sums([i \in 0 .. 0 |-> 0], 0)
      OBVIOUS
    <3> QED
      BY <2>1, <3>1, Zenon
  <2>3. m \in 1 .. n /\ m - 1 \in 0 .. n /\ ~(m <= m - 1)
    BY <2>1, <2>2
  <2>4. PICK g : Sums(g, m - 1)
    BY <2>1, <2>3, Zenon
  <2> DEFINE h == [i \in 0 .. m |-> IF i = m THEN g[m - 1] + seq[m] ELSE g[i]]
  <2>5. \A i \in 0 .. m : h[i] = IF i = 0 THEN 0 ELSE h[i - 1] + seq[i]
    BY <2>3, <2>4
  <2>6. Sums(h, m)
    BY <2>5
  <2> HIDE DEF h, Sums
  <2> QED
    BY <2>1, <2>6
<1>2. \E g : Sums(g, n)
  BY <1>1
<1> DEFINE sum == CHOOSE g : Sums(g, n)
<1>3. sum = [i \in 0 .. n |-> IF i = 0 THEN 0 ELSE sum[i - 1] + seq[i]]
  BY <1>2, Zenon
<1>4. SumOf(seq) = sum[n]
  BY DEF SumOf
<1> HIDE DEF sum
<1>5. \A i \in 0 .. n : sum[i] \in Int
  <2> DEFINE Odd == {i \in 0 .. n : sum[i] \notin Int}
  <2>1. ASSUME Odd # {} PROVE FALSE
    <3>1. PICK m \in 0 .. n : m \in Odd /\ \A k \in Odd : m <= k
      <4>1. Odd \subseteq 0 .. n /\ Odd \subseteq Nat
        OBVIOUS
      <4> HIDE DEF Odd
      <4> QED
        BY <2>1, <4>1, LeastOf
    <3>2. m # 0
      BY <1>3, <3>1
    <3>3. m \in 1 .. n /\ m - 1 \in 0 .. n /\ ~(m <= m - 1)
      BY <3>1, <3>2
    <3>4. sum[m - 1] \in Int
      BY <3>1, <3>3
    <3> QED
      BY <1>3, <3>1, <3>3, <3>4, SMTT(30)
  <2> QED
    BY <2>1
<1>6. sum \in [0 .. n -> Int] /\ \A i \in 0 .. n : sum[i] = IF i = 0 THEN 0 ELSE sum[i - 1] + seq[i]
  BY <1>3, <1>5
<1> QED
  BY <1>4, <1>6

\* The keys of a shard, and those of the first shards.
Of(i) == {k \in Key : ShardOf[k] = i}
UpTo(i) == {k \in Key : ShardOf[k] \in 1 .. i}

Between(n, low, high, i) == n \in Nat /\ Cardinality(low \cap Of(i)) <= n /\ n <= Cardinality(high \cap Of(i))

\* Keys are counted shard by shard.
LEMMA CountByShard ==
    ASSUME NEW keyset \in SUBSET Key, IsFiniteSet(keyset), NEW i \in Shard
    PROVE  /\ Cardinality(keyset \cap UpTo(i)) = Cardinality(keyset \cap UpTo(i - 1)) + Cardinality(keyset \cap Of(i))
           /\ Cardinality(keyset \cap UpTo(i - 1)) \in Nat /\ Cardinality(keyset \cap Of(i)) \in Nat
<1>1. keyset \cap UpTo(i) = (keyset \cap UpTo(i - 1)) \cup (keyset \cap Of(i))
  BY ShardAssumption DEF UpTo, Of, Shard
<1>2. (keyset \cap UpTo(i - 1)) \cap (keyset \cap Of(i)) = {}
  BY ShardAssumption DEF UpTo, Of, Shard
<1>3. IsFiniteSet(keyset \cap UpTo(i - 1)) /\ IsFiniteSet(keyset \cap Of(i))
  BY FS_Intersection
<1>4. /\ Cardinality((keyset \cap UpTo(i - 1)) \cup (keyset \cap Of(i)))
             = Cardinality(keyset \cap UpTo(i - 1)) + Cardinality(keyset \cap Of(i)) - Cardinality({})
      /\ Cardinality(keyset \cap UpTo(i - 1)) \in Nat /\ Cardinality(keyset \cap Of(i)) \in Nat
  BY <1>2, <1>3, FS_Union, FS_CardinalityType, ZenonT(60)
<1>5. Cardinality({}) = 0
  BY FS_EmptySet
<1>6. PICK a \in Nat, b \in Nat :
         a = Cardinality(keyset \cap UpTo(i - 1)) /\ b = Cardinality(keyset \cap Of(i))
  BY <1>4
<1>7. Cardinality(keyset \cap UpTo(i)) = a + b - 0
  BY <1>1, <1>4, <1>5, <1>6
<1> QED
  BY <1>6, <1>7

\* A sum of numbers each of which is right for its shard is right for all of them.
LEMMA SumBetween ==
    ASSUME NEW seq, Len(seq) = Shards,
           NEW low \in SUBSET Key, NEW high \in SUBSET Key, IsFiniteSet(low), IsFiniteSet(high),
           \A i \in Shard : Between(seq[i], low, high, i)
    PROVE  SumOf(seq) \in Cardinality(low) .. Cardinality(high)
<1>1. Shards \in Nat /\ Shard = 1 .. Shards /\ \A i \in 1 .. Len(seq) : seq[i] \in Int
  <2>1. Shards \in Nat /\ Shard = 1 .. Shards
    BY ShardAssumption DEF Shard
  <2>2. \A i \in Shard : seq[i] \in Nat
    BY DEF Between
  <2> QED
    BY <2>1, <2>2
<1>2. PICK sum \in [0 .. Shards -> Int] :
         /\ \A i \in 0 .. Shards : sum[i] = IF i = 0 THEN 0 ELSE sum[i - 1] + seq[i]
         /\ SumOf(seq) = sum[Shards]
  BY <1>1, SumIsSum
<1> DEFINE Right(i) == Cardinality(low \cap UpTo(i)) <= sum[i] /\ sum[i] <= Cardinality(high \cap UpTo(i))
           Odd == {i \in 0 .. Shards : ~Right(i)}
<1>3. ASSUME Odd # {} PROVE FALSE
  <2>1. PICK m \in 0 .. Shards : m \in Odd /\ \A k \in Odd : m <= k
    <3>1. Odd \subseteq 0 .. Shards /\ Odd \subseteq Nat
      BY <1>1
    <3> HIDE DEF Odd
    <3> QED
      BY <1>3, <3>1, LeastOf
  <2>2. m # 0
    <3>1. UpTo(0) = {}
      BY ShardAssumption DEF UpTo
    <3>2. Cardinality(low \cap UpTo(0)) = 0 /\ Cardinality(high \cap UpTo(0)) = 0
      BY <3>1, FS_EmptySet
    <3>3. sum[0] = 0
      BY <1>1, <1>2
    <3>4. Right(0)
      BY <3>2, <3>3
    <3> QED
      BY <2>1, <3>4
  <2>3. m \in Shard /\ m - 1 \in 0 .. Shards /\ ~(m <= m - 1)
    BY <1>1, <2>1, <2>2
  <2>4. Right(m - 1)
    BY <2>1, <2>3
  <2>5. sum[m] = sum[m - 1] + seq[m] /\ sum[m - 1] \in Int
    BY <1>2, <2>1, <2>2, <2>3
  <2>6. Between(seq[m], low, high, m)
    BY <2>3
  <2>7. Right(m)
    <3>1. Cardinality(low \cap Of(m)) <= seq[m] /\ seq[m] <= Cardinality(high \cap Of(m)) /\ seq[m] \in Nat
      BY <2>6 DEF Between
    <3>2. /\ Cardinality(low \cap UpTo(m)) = Cardinality(low \cap UpTo(m - 1)) + Cardinality(low \cap Of(m))
          /\ Cardinality(low \cap UpTo(m - 1)) \in Nat /\ Cardinality(low \cap Of(m)) \in Nat
      BY <2>3, CountByShard
    <3>3. /\ Cardinality(high \cap UpTo(m)) = Cardinality(high \cap UpTo(m - 1)) + Cardinality(high \cap Of(m))
          /\ Cardinality(high \cap UpTo(m - 1)) \in Nat /\ Cardinality(high \cap Of(m)) \in Nat
      BY <2>3, CountByShard
    <3> QED
      BY <2>4, <2>5, <3>1, <3>2, <3>3
  <2> QED
    BY <2>1, <2>7
<1>4. Right(Shards)
  <2>1. Shards \in 0 .. Shards
    BY <1>1
  <2>2. Odd = {}
    BY <1>3
  <2> QED
    BY <2>1, <2>2
<1>5. low \cap UpTo(Shards) = low /\ high \cap UpTo(Shards) = high
  BY ShardAssumption DEF UpTo
<1>6. Cardinality(low) \in Nat /\ Cardinality(high) \in Nat
  BY FS_CardinalityType
<1>7. sum[Shards] \in Int /\ SumOf(seq) = sum[Shards]
  BY <1>1, <1>2
<1>8. Cardinality(low) <= sum[Shards] /\ sum[Shards] <= Cardinality(high)
  BY <1>4, <1>5
<1> QED
  BY <1>6, <1>7, <1>8

\* A count stays right while fewer keys are known to have been there throughout, and more at some
\* moment.
LEMMA BetweenWidens ==
    ASSUME NEW n, NEW i, NEW low, NEW high, NEW low2 \in SUBSET low, NEW high2, high \subseteq high2,
           IsFiniteSet(low), IsFiniteSet(high2), Between(n, low, high, i)
    PROVE  Between(n, low2, high2, i)
<1>1. IsFiniteSet(low \cap Of(i)) /\ IsFiniteSet(high2 \cap Of(i))
  BY FS_Intersection
<1>2. (low2 \cap Of(i)) \subseteq (low \cap Of(i)) /\ (high \cap Of(i)) \subseteq (high2 \cap Of(i))
  OBVIOUS
<1>3. IsFiniteSet(low2 \cap Of(i)) /\ IsFiniteSet(high \cap Of(i))
  BY <1>1, <1>2, FS_Subset
<1>4. /\ Cardinality(low2 \cap Of(i)) <= Cardinality(low \cap Of(i))
      /\ Cardinality(high \cap Of(i)) <= Cardinality(high2 \cap Of(i))
  BY <1>1, <1>2, FS_Subset
<1>5. /\ Cardinality(low2 \cap Of(i)) \in Nat /\ Cardinality(low \cap Of(i)) \in Nat
      /\ Cardinality(high \cap Of(i)) \in Nat /\ Cardinality(high2 \cap Of(i)) \in Nat
  BY <1>1, <1>3, FS_CardinalityType
<1>6. n \in Nat /\ Cardinality(low \cap Of(i)) <= n /\ n <= Cardinality(high \cap Of(i))
  BY DEF Between
<1>7. Cardinality(low2 \cap Of(i)) <= n /\ n <= Cardinality(high2 \cap Of(i))
  BY <1>4, <1>5, <1>6
<1> QED
  BY <1>6, <1>7 DEF Between
-----------------------------------------------------------------------------
KeyCall == TheMap!Call
LenCall == [do |-> "len", key |-> Absent, val |-> Absent]

ShardTypes ==
    /\ map \in [Shard -> [Key -> Val \cup {Absent}]]
    /\ queue \in [Shard -> Seq(Client \cup {Dropped})]
    /\ call \in [Client -> KeyCall \cup {NoCall, LenCall}]
    /\ DOMAIN reply = Client
    /\ lens \in [Client -> Seq(Nat)]
    /\ lowest \in [Client -> SUBSET Key] /\ highest \in [Client -> SUBSET Key]
    /\ IsFiniteSet(Present)

\* A message waits where its call is served, is not answered yet, and is there once.
AwaitsTurn(c, s) ==
    /\ c \in Client /\ call[c] # NoCall /\ reply[c] = NoReply
    /\ call[c].do = "len" => s = Len(lens[c]) + 1
    /\ call[c].do # "len" => s = ShardOf[call[c].key]

QueuesWait ==
    \A s \in Shard : \A i \in 1 .. Len(queue[s]) :
       /\ queue[s][i] = Dropped \/ AwaitsTurn(queue[s][i], s)
       /\ queue[s][i] # Dropped => \A j \in 1 .. Len(queue[s]) : queue[s][j] = queue[s][i] => i = j

RepliesAwaited == \A c \in Client : call[c] = NoCall => reply[c] = NoReply

\* What has been gathered is right for the shards that were asked.
GatherFollows(c) ==
    /\ Len(lens[c]) < Shards
    /\ lowest[c] \subseteq Present /\ Present \subseteq highest[c] /\ IsFiniteSet(highest[c])
    /\ \A i \in 1 .. Len(lens[c]) : Between(lens[c][i], lowest[c], highest[c], i)
    /\ reply[c] # NoReply => \E n \in Nat : /\ reply[c] = <<n>>
                                          /\ Between(n, lowest[c], highest[c], Len(lens[c]) + 1)

GathersFollow == \A c \in Client : call[c] = LenCall => GatherFollows(c)

ShardInv == ShardTypes /\ QueuesWait /\ RepliesAwaited /\ GathersFollow

LEMMA ShardStart == ShardInit => ShardInv
<1> SUFFICES ASSUME ShardInit PROVE ShardInv
  OBVIOUS
<1>1. Present = {}
  BY DEF ShardInit, Present, Rows
<1>2. IsFiniteSet(Present)
  BY <1>1, FS_EmptySet
<1>3. NoCall # LenCall
  BY DEF NoCall, LenCall
<1>4. ShardTypes
  BY <1>2 DEF ShardInit, ShardTypes
<1>5. QueuesWait /\ RepliesAwaited /\ GathersFollow
  BY <1>3 DEF ShardInit, QueuesWait, RepliesAwaited, GathersFollow
<1> QED
  BY <1>4, <1>5 DEF ShardInv

\* The kinds of calls.
LEMMA CallKinds ==
    ASSUME NEW a \in KeyCall \cup {NoCall, LenCall}
    PROVE  /\ a.do = "len" <=> a = LenCall
           /\ a.do \in {"put", "get", "delete"} <=> a \in KeyCall
           /\ a \in KeyCall => a # NoCall /\ a # LenCall /\ a.key \in Key /\ (a.do = "put" => a.val \in Val)
           /\ NoCall # LenCall
  BY DEF KeyCall, TheMap!Call, NoCall, LenCall

\* A caller that does not wait is in no queue.
LEMMA NotQueued ==
    ASSUME ShardInv, NEW c \in Client, call[c] = NoCall \/ reply[c] # NoReply,
           NEW s \in Shard, NEW i \in 1 .. Len(queue[s])
    PROVE  queue[s][i] # c
  BY ShardAssumption DEF ShardInv, QueuesWait, AwaitsTurn

\* A call goes to the end of the queue of the shard that serves it.
LEMMA SendWaits ==
    ASSUME ShardInv, NEW c \in Client, NEW s \in Shard,
           call[c] = NoCall \/ reply[c] # NoReply,
           queue' = [queue EXCEPT ![s] = Append(@, c)],
           \A d \in Client \ {c} : call'[d] = call[d] /\ reply'[d] = reply[d] /\ lens'[d] = lens[d],
           AwaitsTurn(c, s)'
    PROVE  queue' \in [Shard -> Seq(Client \cup {Dropped})] /\ QueuesWait'
<1>0. queue \in [Shard -> Seq(Client \cup {Dropped})]
  BY DEF ShardInv, ShardTypes
<1>1. PICK q \in Seq(Client \cup {Dropped}) : q = queue[s]
  BY <1>0
<1>2. /\ Append(q, c) \in Seq(Client \cup {Dropped}) /\ Len(Append(q, c)) = Len(q) + 1 /\ Len(q) \in Nat
      /\ \A i \in 1 .. Len(q) : Append(q, c)[i] = q[i]
      /\ Append(q, c)[Len(q) + 1] = c
  BY <1>1
<1>3. queue'[s] = Append(q, c) /\ \A t \in Shard \ {s} : queue'[t] = queue[t]
  BY <1>0, <1>1
<1>4. queue' \in [Shard -> Seq(Client \cup {Dropped})]
  BY <1>0, <1>1, <1>2
<1>5. ASSUME NEW d, NEW t \in Shard, d # c, AwaitsTurn(d, t) PROVE AwaitsTurn(d, t)'
  BY <1>5 DEF AwaitsTurn
<1>6. ASSUME NEW t \in Shard, t # s, NEW i \in 1 .. Len(queue'[t])
      PROVE  /\ queue'[t][i] = Dropped \/ AwaitsTurn(queue[t][i], t)'
             /\ queue'[t][i] # Dropped => \A j \in 1 .. Len(queue'[t]) : queue'[t][j] = queue'[t][i] => i = j
  <2>1. queue'[t] = queue[t] /\ queue[t][i] # c
    BY <1>3, <1>6, NotQueued
  <2>2. queue[t][i] = Dropped \/ AwaitsTurn(queue[t][i], t)
    BY <2>1 DEF ShardInv, QueuesWait
  <2>3. queue[t][i] = Dropped \/ AwaitsTurn(queue[t][i], t)'
    <3>1. PICK d : d = queue[t][i]
      OBVIOUS
    <3> QED
      BY <2>1, <2>2, <3>1, <1>5
  <2> QED
    BY <2>1, <2>3, ZenonT(60) DEF ShardInv, QueuesWait
<1>7. ASSUME NEW i \in 1 .. Len(queue'[s])
      PROVE  /\ queue'[s][i] = Dropped \/ AwaitsTurn(queue[s][i], s)'
             /\ queue'[s][i] # Dropped => \A j \in 1 .. Len(queue'[s]) : queue'[s][j] = queue'[s][i] => i = j
  <2>0. \A j \in 1 .. Len(queue'[s]) : j \in 1 .. Len(q) \/ j = Len(q) + 1
    BY <1>2, <1>3
  <2>a. \A j \in 1 .. Len(q) : q[j] # c
    BY <1>1, NotQueued
  <2>1. CASE i = Len(q) + 1
    <3>1. queue'[s][i] = c
      BY <1>2, <1>3, <2>1
    <3>2. \A j \in 1 .. Len(queue'[s]) : queue'[s][j] = c => j = Len(q) + 1
      BY <1>2, <1>3, <2>0, <2>a, SMTT(30)
    <3> QED
      BY <2>1, <3>1, <3>2
  <2>2. CASE i \in 1 .. Len(q)
    <3>1. queue'[s][i] = q[i]
      BY <1>2, <1>3, <2>2
    <3>2. q[i] = Dropped \/ AwaitsTurn(q[i], s)
      BY <1>1, <2>2 DEF ShardInv, QueuesWait
    <3>3. q[i] = Dropped \/ AwaitsTurn(q[i], s)'
      <4>1. PICK d : d = q[i]
        OBVIOUS
      <4> QED
        BY <2>2, <2>a, <3>2, <4>1, <1>5
    <3>4. ASSUME q[i] # Dropped, NEW j \in 1 .. Len(queue'[s]), queue'[s][j] = q[i] PROVE i = j
      <4>1. j \in 1 .. Len(q)
        BY <1>2, <1>3, <2>0, <2>2, <2>a, <3>4
      <4>2. q[j] = q[i]
        BY <1>2, <1>3, <3>4, <4>1
      <4> QED
        BY <1>1, <2>2, <3>4, <4>1, <4>2 DEF ShardInv, QueuesWait
    <3> QED
      BY <3>1, <3>3, <3>4
  <2> QED
    BY <2>0, <2>1, <2>2
<1>8. QueuesWait'
  <2> SUFFICES ASSUME NEW t \in Shard, NEW i \in 1 .. Len(queue'[t])
               PROVE  /\ queue'[t][i] = Dropped \/ AwaitsTurn(queue[t][i], t)'
                      /\ queue'[t][i] # Dropped =>
                            \A j \in 1 .. Len(queue'[t]) : queue'[t][j] = queue'[t][i] => i = j
    BY DEF QueuesWait
  <2>1. CASE t = s
    BY <2>1, <1>7
  <2>2. CASE t # s
    <3>1. queue'[t] = queue[t]
      BY <1>3, <2>2
    <3> QED
      BY <2>2, <3>1, <1>6
  <2> QED
    BY <2>1, <2>2
<1> QED
  BY <1>4, <1>8

\* Who is left alone while no thread serves stays as he was.
LEMMA GathersRest ==
    ASSUME ShardInv, UNCHANGED <<map>>, NEW d \in Client, call'[d] = call[d], reply'[d] = reply[d],
           lens'[d] = lens[d], lowest'[d] = lowest[d], highest'[d] = highest[d]
    PROVE  /\ (call[d] = NoCall => reply[d] = NoReply)'
           /\ (call[d] = LenCall => GatherFollows(d))'
  BY DEF ShardInv, RepliesAwaited, GathersFollow, GatherFollows, Present, Rows

LEMMA SendStep ==
    ASSUME ShardInv, NEW c \in Client, NEW do, NEW key, NEW val, [do |-> do, key |-> key, val |-> val] \in KeyCall,
           Send(c, do, key, val)
    PROVE  ShardInv'
<1> DEFINE a == [do |-> do, key |-> key, val |-> val]
<1>1. /\ a \in KeyCall /\ a.do = do /\ a.key = key /\ a # NoCall /\ a # LenCall /\ a.do # "len" /\ key \in Key
  BY CallKinds
<1> HIDE DEF a
<1>0. /\ call[c] = NoCall /\ call' = [call EXCEPT ![c] = a]
      /\ queue' = [queue EXCEPT ![ShardOf[key]] = Append(@, c)]
      /\ UNCHANGED <<map, reply, lens, threads, lowest, highest>>
  BY DEF Send, a
<1>2. call'[c] = a /\ \A d \in Client \ {c} : call'[d] = call[d]
  BY <1>0 DEF ShardInv, ShardTypes
<1>3. reply[c] = NoReply /\ ShardOf[key] \in Shard
  BY <1>0, <1>1, ShardAssumption DEF ShardInv, RepliesAwaited, Shard
<1>4. AwaitsTurn(c, ShardOf[key])'
  BY <1>0, <1>1, <1>2, <1>3 DEF AwaitsTurn
<1>5. queue' \in [Shard -> Seq(Client \cup {Dropped})] /\ QueuesWait'
  BY <1>0, <1>2, <1>3, <1>4, SendWaits
<1>6. ShardTypes'
  <2>1. Present' = Present
    BY <1>0 DEF Present, Rows
  <2>2. call' \in [Client -> KeyCall \cup {NoCall, LenCall}]
    BY <1>0, <1>1 DEF ShardInv, ShardTypes
  <2> QED
    BY <1>0, <1>5, <2>1, <2>2 DEF ShardInv, ShardTypes
<1>7. RepliesAwaited' /\ GathersFollow'
  <2>1. ASSUME NEW d \in Client
        PROVE  (call[d] = NoCall => reply[d] = NoReply)' /\ (call[d] = LenCall => GatherFollows(d))'
    <3>1. CASE d = c
      BY <1>0, <1>1, <1>2, <3>1
    <3>2. CASE d # c
      BY <1>0, <1>2, <3>2, GathersRest
    <3> QED
      BY <3>1, <3>2
  <2> QED
    BY <2>1 DEF RepliesAwaited, GathersFollow
<1> QED
  BY <1>5, <1>6, <1>7 DEF ShardInv

LEMMA StartGatherStep ==
    ASSUME ShardInv, NEW c \in Client, StartGather(c)
    PROVE  ShardInv'
<1>0. /\ call[c] = NoCall /\ call' = [call EXCEPT ![c] = LenCall]
      /\ queue' = [queue EXCEPT ![1] = Append(@, c)]
      /\ lens' = [lens EXCEPT ![c] = <<>>]
      /\ lowest' = [lowest EXCEPT ![c] = Present] /\ highest' = [highest EXCEPT ![c] = Present]
      /\ UNCHANGED <<map, reply, threads>>
  BY DEF StartGather, LenCall
<1>2. /\ call'[c] = LenCall /\ lens'[c] = <<>> /\ lowest'[c] = Present /\ highest'[c] = Present
      /\ \A d \in Client \ {c} : /\ call'[d] = call[d] /\ lens'[d] = lens[d]
                                /\ lowest'[d] = lowest[d] /\ highest'[d] = highest[d]
  BY <1>0 DEF ShardInv, ShardTypes
<1>3. reply[c] = NoReply /\ 1 \in Shard /\ Shards > 0 /\ Shards \in Nat
  BY <1>0, ShardAssumption DEF ShardInv, RepliesAwaited, Shard
<1>4. AwaitsTurn(c, 1)'
  BY <1>0, <1>2, <1>3, CallKinds DEF AwaitsTurn, LenCall
<1>5. queue' \in [Shard -> Seq(Client \cup {Dropped})] /\ QueuesWait'
  BY <1>0, <1>2, <1>3, <1>4, SendWaits
<1>a. Present' = Present /\ Present \subseteq Key /\ IsFiniteSet(Present)
  BY <1>0 DEF Present, Rows, ShardInv, ShardTypes
<1>6. ShardTypes'
  <2>1. /\ lens' \in [Client -> Seq(Nat)] /\ call' \in [Client -> KeyCall \cup {NoCall, LenCall}]
        /\ lowest' \in [Client -> SUBSET Key] /\ highest' \in [Client -> SUBSET Key]
    BY <1>0, <1>a DEF ShardInv, ShardTypes
  <2> QED
    BY <1>0, <1>5, <1>a, <2>1 DEF ShardInv, ShardTypes
<1>7. RepliesAwaited' /\ GathersFollow'
  <2>1. ASSUME NEW d \in Client
        PROVE  (call[d] = NoCall => reply[d] = NoReply)' /\ (call[d] = LenCall => GatherFollows(d))'
    <3>1. CASE d = c
      <4>1. GatherFollows(c)'
        BY <1>0, <1>2, <1>3, <1>a DEF GatherFollows
      <4> QED
        BY <1>0, <1>3, <3>1, <4>1
    <3>2. CASE d # c
      BY <1>0, <1>2, <3>2, GathersRest
    <3> QED
      BY <3>1, <3>2
  <2> QED
    BY <2>1 DEF RepliesAwaited, GathersFollow
<1> QED
  BY <1>5, <1>6, <1>7 DEF ShardInv

\* What a caller of total_len has when the shard he asked has answered.
LEMMA GatherMore ==
    ASSUME ShardInv, NEW c \in Client, call[c].do = "len", reply[c] # NoReply,
           lens' = [lens EXCEPT ![c] = @ \o reply[c]]
    PROVE  /\ call[c] = LenCall /\ GatherFollows(c)
           /\ lens' \in [Client -> Seq(Nat)] /\ \A d \in Client \ {c} : lens'[d] = lens[d]
           /\ Len(lens'[c]) = Len(lens[c]) + 1 /\ Len(lens[c]) \in Nat
           /\ \A i \in 1 .. Len(lens'[c]) : Between(lens'[c][i], lowest[c], highest[c], i)
<1>1. call[c] = LenCall /\ GatherFollows(c) /\ lens \in [Client -> Seq(Nat)]
  BY CallKinds DEF ShardInv, ShardTypes, GathersFollow
<1>2. PICK n \in Nat : reply[c] = <<n>> /\ Between(n, lowest[c], highest[c], Len(lens[c]) + 1)
  BY <1>1 DEF GatherFollows
<1>3. PICK l \in Seq(Nat) : l = lens[c]
  BY <1>1
<1>4. l \o <<n>> \in Seq(Nat) /\ Len(l \o <<n>>) = Len(l) + 1 /\ Len(l) \in Nat
      /\ (\A i \in 1 .. Len(l) : (l \o <<n>>)[i] = l[i]) /\ (l \o <<n>>)[Len(l) + 1] = n
  OBVIOUS
<1>5. lens'[c] = l \o <<n>> /\ lens' \in [Client -> Seq(Nat)] /\ \A d \in Client \ {c} : lens'[d] = lens[d]
  BY <1>1, <1>2, <1>3, <1>4
<1>6. \A i \in 1 .. Len(l) : Between(l[i], lowest[c], highest[c], i)
  BY <1>1, <1>3 DEF GatherFollows
<1>7. \A i \in 1 .. Len(lens'[c]) : Between(lens'[c][i], lowest[c], highest[c], i)
  <2>1. \A i \in 1 .. Len(lens'[c]) : i \in 1 .. Len(l) \/ i = Len(l) + 1
    BY <1>4, <1>5
  <2> QED
    BY <1>2, <1>3, <1>4, <1>5, <1>6, <2>1
<1> QED
  BY <1>1, <1>3, <1>4, <1>5, <1>7

LEMMA GatherNextStep ==
    ASSUME ShardInv, NEW c \in Client, GatherNext(c)
    PROVE  ShardInv'
<1>0. /\ call[c].do = "len" /\ reply[c] # NoReply /\ Len(lens[c]) + 1 < Shards
      /\ lens' = [lens EXCEPT ![c] = @ \o reply[c]]
      /\ reply' = [reply EXCEPT ![c] = NoReply]
      /\ queue' = [queue EXCEPT ![Len(lens[c]) + 2] = Append(@, c)]
      /\ UNCHANGED <<map, call, threads, lowest, highest>>
  BY DEF GatherNext
<1>1. /\ call[c] = LenCall /\ GatherFollows(c)
      /\ lens' \in [Client -> Seq(Nat)] /\ \A d \in Client \ {c} : lens'[d] = lens[d]
      /\ Len(lens'[c]) = Len(lens[c]) + 1 /\ Len(lens[c]) \in Nat
      /\ \A i \in 1 .. Len(lens'[c]) : Between(lens'[c][i], lowest[c], highest[c], i)
  BY <1>0, GatherMore
<1>2. reply'[c] = NoReply /\ (\A d \in Client \ {c} : reply'[d] = reply[d]) /\ DOMAIN reply' = Client
  BY <1>0 DEF ShardInv, ShardTypes
<1>3. PICK s \in Shard : s = Len(lens[c]) + 2
  BY <1>0, <1>1, ShardAssumption DEF Shard
<1>4. AwaitsTurn(c, s)'
  BY <1>0, <1>1, <1>2, <1>3, CallKinds DEF AwaitsTurn, LenCall
<1>5. queue' \in [Shard -> Seq(Client \cup {Dropped})] /\ QueuesWait'
  BY <1>0, <1>1, <1>2, <1>3, <1>4, SendWaits, ZenonT(60)
<1>6. ShardTypes'
  <2>1. Present' = Present
    BY <1>0 DEF Present, Rows
  <2> QED
    BY <1>0, <1>1, <1>2, <1>5, <2>1 DEF ShardInv, ShardTypes
<1>7. RepliesAwaited' /\ GathersFollow'
  <2>1. ASSUME NEW d \in Client
        PROVE  (call[d] = NoCall => reply[d] = NoReply)' /\ (call[d] = LenCall => GatherFollows(d))'
    <3>1. CASE d = c
      <4>1. Present' = Present
        BY <1>0 DEF Present, Rows
      <4>2. Len(lens'[c]) < Shards
        BY <1>0, <1>1
      <4>3. GatherFollows(c)'
        BY <1>0, <1>1, <1>2, <4>1, <4>2 DEF GatherFollows
      <4> QED
        BY <1>2, <3>1, <4>3
    <3>2. CASE d # c
      BY <1>0, <1>1, <1>2, <3>2, GathersRest
    <3> QED
      BY <3>1, <3>2
  <2> QED
    BY <2>1 DEF RepliesAwaited, GathersFollow
<1> QED
  BY <1>5, <1>6, <1>7 DEF ShardInv

\* A caller that returns was in no queue any more.
LEMMA ReturnStep ==
    ASSUME ShardInv, NEW c \in Client, GatherLast(c) \/ TakeReply(c)
    PROVE  ShardInv'
<1>0. /\ reply[c] # NoReply
      /\ reply' = [reply EXCEPT ![c] = NoReply]
      /\ call' = [call EXCEPT ![c] = NoCall]
      /\ UNCHANGED <<map, queue, threads, lowest, highest>>
  BY DEF GatherLast, TakeReply
<1>1. lens' \in [Client -> Seq(Nat)] /\ \A d \in Client \ {c} : lens'[d] = lens[d]
  <2>1. CASE GatherLast(c)
    BY <2>1, GatherMore DEF GatherLast
  <2>2. CASE TakeReply(c)
    BY <2>2 DEF TakeReply, ShardInv, ShardTypes
  <2> QED
    BY <2>1, <2>2
<1>2. /\ call' \in [Client -> KeyCall \cup {NoCall, LenCall}] /\ DOMAIN reply' = Client
      /\ reply'[c] = NoReply /\ call'[c] = NoCall
      /\ \A d \in Client \ {c} : reply'[d] = reply[d] /\ call'[d] = call[d]
  BY <1>0 DEF ShardInv, ShardTypes
<1>3. ShardTypes'
  <2>1. Present' = Present
    BY <1>0 DEF Present, Rows
  <2> QED
    BY <1>0, <1>1, <1>2, <2>1 DEF ShardInv, ShardTypes
<1>4. QueuesWait'
  <2> SUFFICES ASSUME NEW s \in Shard, NEW i \in 1 .. Len(queue'[s])
               PROVE  /\ queue'[s][i] = Dropped \/ AwaitsTurn(queue[s][i], s)'
                      /\ queue'[s][i] # Dropped =>
                            \A j \in 1 .. Len(queue'[s]) : queue'[s][j] = queue'[s][i] => i = j
    BY DEF QueuesWait
  <2>1. PICK d : d = queue[s][i]
    OBVIOUS
  <2>2. d # c /\ (d = Dropped \/ AwaitsTurn(d, s))
    BY <1>0, <2>1, NotQueued DEF ShardInv, QueuesWait
  <2>3. d = Dropped \/ AwaitsTurn(d, s)'
    BY <1>0, <1>1, <1>2, <2>2 DEF AwaitsTurn
  <2> QED
    BY <1>0, <2>1, <2>3 DEF ShardInv, QueuesWait
<1>5. RepliesAwaited' /\ GathersFollow'
  <2>1. ASSUME NEW d \in Client
        PROVE  (call[d] = NoCall => reply[d] = NoReply)' /\ (call[d] = LenCall => GatherFollows(d))'
    <3>1. CASE d = c
      BY <1>2, <3>1, CallKinds
    <3>2. CASE d # c
      BY <1>0, <1>1, <1>2, <3>2, GathersRest
    <3> QED
      BY <3>1, <3>2
  <2> QED
    BY <2>1 DEF RepliesAwaited, GathersFollow
<1> QED
  BY <1>3, <1>4, <1>5 DEF ShardInv

LEMMA DropStep ==
    ASSUME ShardInv, Drop \/ \E s \in Shard : Shutdown(s)
    PROVE  ShardInv'
<1>1. UNCHANGED <<map, call, reply, lens, lowest, highest>>
  BY DEF Drop, Shutdown
<1>2. queue' \in [Shard -> Seq(Client \cup {Dropped})] /\ QueuesWait'
  <2>1. CASE Drop
    <3>1. queue' = [s \in Shard |-> <<Dropped>>]
      BY <2>1 DEF Drop
    <3> QED
      BY <3>1 DEF QueuesWait
  <2>2. CASE \E s \in Shard : Shutdown(s)
    <3>1. queue' = queue
      BY <2>2 DEF Shutdown
    <3>2. \A d, s : AwaitsTurn(d, s) => AwaitsTurn(d, s)'
      BY <1>1 DEF AwaitsTurn
    <3> QED
      BY <1>1, <3>1, ZenonT(60) DEF ShardInv, ShardTypes, QueuesWait, AwaitsTurn
  <2> QED
    BY <2>1, <2>2
<1>3. ShardTypes' /\ RepliesAwaited' /\ GathersFollow'
  BY <1>1, <1>2 DEF ShardInv, ShardTypes, RepliesAwaited, GathersFollow, GatherFollows, Present, Rows
<1> QED
  BY <1>2, <1>3 DEF ShardInv

\* Who is served: the call at the head of the queue, which is at no other place.
LEMMA ServeHead ==
    ASSUME ShardInv, NEW s \in Shard, Serve(s), NEW c, c = Head(queue[s])
    PROVE  /\ c \in Client /\ AwaitsTurn(c, s)
           /\ queue' \in [Shard -> Seq(Client \cup {Dropped})]
           /\ \A t \in Shard : \A i \in 1 .. Len(queue'[t]) :
                /\ queue'[t][i] # c
                /\ queue'[t][i] # Dropped => \A j \in 1 .. Len(queue'[t]) : queue'[t][j] = queue'[t][i] => i = j
                /\ queue'[t][i] = Dropped \/ AwaitsTurn(queue'[t][i], t)
<1>1. PICK q \in Seq(Client \cup {Dropped}) : q = queue[s]
  BY DEF ShardInv, ShardTypes
<1>2. q # <<>> /\ c = q[1] /\ c # Dropped /\ queue' = [queue EXCEPT ![s] = Tail(q)]
  BY <1>1 DEF Serve
<1>3. /\ Tail(q) \in Seq(Client \cup {Dropped}) /\ Len(Tail(q)) = Len(q) - 1 /\ Len(q) \in Nat /\ Len(q) >= 1
      /\ \A i \in 1 .. Len(Tail(q)) : i + 1 \in 1 .. Len(q) /\ Tail(q)[i] = q[i + 1]
  BY <1>1, <1>2
<1>4. queue'[s] = Tail(q) /\ \A t \in Shard \ {s} : queue'[t] = queue[t]
  BY <1>2 DEF ShardInv, ShardTypes
<1>5. 1 \in 1 .. Len(q)
  BY <1>3
<1>6. AwaitsTurn(c, s)
  BY <1>1, <1>2, <1>5 DEF ShardInv, QueuesWait
<1>7. c \in Client
  BY <1>6 DEF AwaitsTurn
<1>8. queue' \in [Shard -> Seq(Client \cup {Dropped})]
  BY <1>2, <1>3 DEF ShardInv, ShardTypes
<1>9. ASSUME NEW t \in Shard, NEW i \in 1 .. Len(queue'[t])
      PROVE  /\ queue'[t][i] # c
             /\ queue'[t][i] # Dropped => \A j \in 1 .. Len(queue'[t]) : queue'[t][j] = queue'[t][i] => i = j
             /\ queue'[t][i] = Dropped \/ AwaitsTurn(queue'[t][i], t)
  <2>1. CASE t # s
    <3>1. queue'[t] = queue[t] /\ i \in 1 .. Len(queue[t])
      BY <1>4, <2>1, <1>9
    <3>2. queue[t][i] # c
      <4>1. AwaitsTurn(c, t) => t = s
        BY <1>6 DEF AwaitsTurn
      <4> QED
        BY <1>2, <2>1, <3>1, <4>1 DEF ShardInv, QueuesWait
    <3> QED
      BY <3>1, <3>2 DEF ShardInv, QueuesWait
  <2>2. CASE t = s
    <3>1. \A j \in 1 .. Len(queue'[t]) : j + 1 \in 1 .. Len(q) /\ queue'[t][j] = q[j + 1]
      BY <1>3, <1>4, <2>2
    <3>2. \A k, j \in 1 .. Len(q) : q[k] = q[j] /\ q[k] # Dropped => k = j
      BY <1>1 DEF ShardInv, QueuesWait
    <3>3. \A j \in 1 .. Len(q) : q[j] = Dropped \/ AwaitsTurn(q[j], s)
      BY <1>1 DEF ShardInv, QueuesWait
    <3>4. i + 1 \in 1 .. Len(q) /\ queue'[t][i] = q[i + 1] /\ i + 1 # 1
      BY <1>9, <3>1
    <3>5. q[i + 1] # c
      BY <1>2, <1>5, <3>2, <3>4
    <3>6. ASSUME q[i + 1] # Dropped, NEW j \in 1 .. Len(queue'[t]), queue'[t][j] = q[i + 1] PROVE i = j
      <4>1. j + 1 = i + 1
        BY <3>1, <3>2, <3>4, <3>6
      <4> QED
        BY <1>9, <4>1
    <3> QED
      BY <2>2, <3>3, <3>4, <3>5, <3>6
  <2> QED
    BY <2>1, <2>2
<1> QED
  BY <1>6, <1>7, <1>8, <1>9

\* What serving a call does to the rows and to the reply.
LEMMA ServeEffect ==
    ASSUME ShardInv, NEW s \in Shard, Serve(s), NEW c \in Client, c = Head(queue[s])
    PROVE  /\ map' \in [Shard -> [Key -> Val \cup {Absent}]]
           /\ DOMAIN reply' = Client /\ reply'[c] # NoReply /\ \A d \in Client \ {c} : reply'[d] = reply[d]
           /\ call[c] = LenCall => map' = map /\ reply'[c] = <<Cardinality(Rows(s))>>
           /\ call[c] \in KeyCall =>
                /\ call[c].key \in Key /\ ShardOf[call[c].key] = s
                /\ \A t \in Shard, k \in Key : t # s \/ k # call[c].key => map'[t][k] = map[t][k]
                /\ map'[s][call[c].key] = CASE call[c].do = "put" -> call[c].val
                                            [] call[c].do = "delete" -> Absent
                                            [] OTHER -> map[s][call[c].key]
                /\ reply'[c] = IF call[c].do = "put" THEN <<"done">> ELSE <<map[s][call[c].key]>>
<1>0. /\ map \in [Shard -> [Key -> Val \cup {Absent}]]
      /\ call[c] \in KeyCall \cup {NoCall, LenCall} /\ DOMAIN reply = Client
  BY DEF ShardInv, ShardTypes
<1>1. /\ map' = CASE call[c].do = "put" -> [map EXCEPT ![s][call[c].key] = call[c].val]
                  [] call[c].do = "delete" -> [map EXCEPT ![s][call[c].key] = Absent]
                  [] OTHER -> map
      /\ reply' = [reply EXCEPT ![c] = CASE call[c].do = "put" -> <<"done">>
                                          [] call[c].do = "len" -> <<Cardinality(Rows(s))>>
                                          [] OTHER -> <<map[s][call[c].key]>>]
  BY DEF Serve
<1>2. call[c] # NoCall /\ (call[c].do # "len" => s = ShardOf[call[c].key])
  BY ServeHead DEF AwaitsTurn
<1>3. /\ DOMAIN reply' = Client /\ \A d \in Client \ {c} : reply'[d] = reply[d]
      /\ reply'[c] = CASE call[c].do = "put" -> <<"done">>
                        [] call[c].do = "len" -> <<Cardinality(Rows(s))>>
                        [] OTHER -> <<map[s][call[c].key]>>
  BY <1>0, <1>1
<1>4. CASE call[c] = LenCall
  <2>1. call[c].do = "len" /\ LenCall \notin KeyCall
    BY <1>4, CallKinds DEF LenCall
  <2>2. map' = map
    BY <1>1, <2>1
  <2>3. reply'[c] = <<Cardinality(Rows(s))>>
    BY <1>3, <2>1
  <2> QED
    BY <1>0, <1>3, <1>4, <2>1, <2>2, <2>3 DEF NoReply
<1>5. CASE call[c] \in KeyCall
  <2>1. PICK a \in KeyCall : a = call[c]
    BY <1>5
  <2>2. a.do \in {"put", "get", "delete"} /\ a.key \in Key /\ (a.do = "put" => a.val \in Val) /\ a # LenCall
    BY CallKinds
  <2>3. PICK k \in Key : k = a.key /\ ShardOf[k] = s
    BY <1>2, <2>1, <2>2
  <2>4. reply'[c] = IF a.do = "put" THEN <<"done">> ELSE <<map[s][k]>>
    BY <1>3, <2>1, <2>2, <2>3
  <2>5. CASE a.do = "put"
    <3>1. map' = [map EXCEPT ![s] = [map[s] EXCEPT ![k] = a.val]] /\ a.val \in Val
      BY <1>0, <1>1, <2>1, <2>2, <2>3, <2>5
    <3> QED
      BY <1>0, <1>3, <2>1, <2>2, <2>3, <2>4, <2>5, <3>1, SMTT(30) DEF NoReply
  <2>6. CASE a.do = "delete"
    <3>1. map' = [map EXCEPT ![s] = [map[s] EXCEPT ![k] = Absent]]
      BY <1>0, <1>1, <2>1, <2>2, <2>3, <2>6
    <3>a. map[s] \in [Key -> Val \cup {Absent}] /\ [map[s] EXCEPT ![k] = Absent] \in [Key -> Val \cup {Absent}]
      BY <1>0, <2>3
    <3>2. map' \in [Shard -> [Key -> Val \cup {Absent}]] /\ map'[s][k] = Absent
      BY <1>0, <2>3, <3>1, <3>a
    <3>3. \A t \in Shard, j \in Key : t # s \/ j # k => map'[t][j] = map[t][j]
      BY <1>0, <2>3, <3>1
    <3>4. reply'[c] = <<map[s][k]>> /\ reply'[c] # NoReply
      BY <2>4, <2>6 DEF NoReply
    <3>5. call[c].do = "delete" /\ call[c].key = k
      BY <2>1, <2>3, <2>6
    <3>6. map'[s][call[c].key] = CASE call[c].do = "put" -> call[c].val
                                   [] call[c].do = "delete" -> Absent
                                   [] OTHER -> map[s][call[c].key]
      BY <3>2, <3>5
    <3>7. reply'[c] = IF call[c].do = "put" THEN <<"done">> ELSE <<map[s][call[c].key]>>
      BY <3>4, <3>5
    <3>8. call[c] # LenCall
      BY <2>1, <2>2
    <3> QED
      BY <1>3, <2>3, <3>2, <3>3, <3>4, <3>5, <3>6, <3>7, <3>8, Zenon
  <2>7. CASE a.do = "get"
    <3>1. map' = map
      BY <1>1, <2>1, <2>7
    <3> QED
      BY <1>0, <1>3, <2>1, <2>2, <2>3, <2>4, <2>7, <3>1 DEF NoReply
  <2> QED
    BY <2>2, <2>5, <2>6, <2>7
<1> QED
  BY <1>0, <1>2, <1>4, <1>5

LEMMA ServeStep ==
    ASSUME ShardInv, NEW s \in Shard, Serve(s)
    PROVE  ShardInv'
<1>1. PICK c : c = Head(queue[s])
  OBVIOUS
<1>2. /\ c \in Client /\ AwaitsTurn(c, s)
      /\ queue' \in [Shard -> Seq(Client \cup {Dropped})]
      /\ \A t \in Shard : \A i \in 1 .. Len(queue'[t]) :
           /\ queue'[t][i] # c
           /\ queue'[t][i] # Dropped => \A j \in 1 .. Len(queue'[t]) : queue'[t][j] = queue'[t][i] => i = j
           /\ queue'[t][i] = Dropped \/ AwaitsTurn(queue'[t][i], t)
  BY <1>1, ServeHead
<1>a. ShardInv /\ s \in Shard /\ Serve(s) /\ c \in Client /\ c = Head(queue[s])
  BY <1>1, <1>2
<1>b. /\ map' \in [Shard -> [Key -> Val \cup {Absent}]]
      /\ DOMAIN reply' = Client /\ reply'[c] # NoReply
      /\ \A d \in Client \ {c} : reply'[d] = reply[d]
      /\ call[c] \in KeyCall => \A t \in Shard, k \in Key : t # s \/ k # call[c].key => map'[t][k] = map[t][k]
  BY <1>a, ServeEffect, ZenonT(60)
<1>3. /\ map' \in [Shard -> [Key -> Val \cup {Absent}]]
      /\ DOMAIN reply' = Client /\ reply'[c] # NoReply /\ \A d \in Client \ {c} : reply'[d] = reply[d]
  BY <1>b
<1>4. call[c] = LenCall => map' = map /\ reply'[c] = <<Cardinality(Rows(s))>>
  BY <1>1, <1>2, ServeEffect
<1>5. /\ UNCHANGED <<call, lens, threads>>
      /\ lowest' = [g \in Client |-> lowest[g] \cap Present']
      /\ highest' = [g \in Client |-> IF call[g].do = "len" THEN highest[g] \cup Present' ELSE highest[g]]
  BY DEF Serve
<1>6. Present' \subseteq Key /\ IsFiniteSet(Present')
  <2>1. Present' \subseteq Key
    BY DEF Present, Rows
  <2>2. CASE call[c] = LenCall
    BY <1>4, <2>1, <2>2 DEF Present, Rows, ShardInv, ShardTypes
  <2>3. CASE call[c] # LenCall
    <3>1. call[c] \in KeyCall
      BY <1>2, <2>3 DEF AwaitsTurn, ShardInv, ShardTypes
    <3>2. PICK key : key = call[c].key
      OBVIOUS
    <3>3. \A t \in Shard, k \in Key : k # key => map'[t][k] = map[t][k]
      BY <1>b, <3>1, <3>2
    <3>4. Present' \subseteq Present \cup {key}
      BY <3>3 DEF Present, Rows
    <3>5. IsFiniteSet(Present \cup {key})
      BY FS_AddElement DEF ShardInv, ShardTypes
    <3> QED
      BY <2>1, <3>4, <3>5, FS_Subset
  <2> QED
    BY <2>2, <2>3
<1>7. ShardTypes'
  <2>1. lowest' \in [Client -> SUBSET Key] /\ highest' \in [Client -> SUBSET Key]
    BY <1>5, <1>6 DEF ShardInv, ShardTypes
  <2> QED
    BY <1>2, <1>3, <1>5, <1>6, <2>1 DEF ShardInv, ShardTypes
<1>8. QueuesWait'
  <2>1. ASSUME NEW d, NEW t, d # c, AwaitsTurn(d, t) PROVE AwaitsTurn(d, t)'
    BY <1>3, <1>5, <2>1 DEF AwaitsTurn
  <2> SUFFICES ASSUME NEW t \in Shard, NEW i \in 1 .. Len(queue'[t])
               PROVE  /\ queue'[t][i] = Dropped \/ AwaitsTurn(queue[t][i], t)'
                      /\ queue'[t][i] # Dropped =>
                            \A j \in 1 .. Len(queue'[t]) : queue'[t][j] = queue'[t][i] => i = j
    BY DEF QueuesWait
  <2>2. PICK d : d = queue'[t][i]
    OBVIOUS
  <2>3. d = Dropped \/ AwaitsTurn(d, t)'
    BY <1>2, <2>1, <2>2
  <2> QED
    BY <1>2, <2>2, <2>3
<1>9. RepliesAwaited'
  <2> SUFFICES ASSUME NEW d \in Client, call[d] = NoCall PROVE reply'[d] = NoReply
    BY <1>5 DEF RepliesAwaited
  <2>1. d # c
    BY <1>2 DEF AwaitsTurn
  <2> QED
    BY <1>3, <2>1 DEF RepliesAwaited, ShardInv
<1>10. ASSUME NEW d \in Client, call[d] = LenCall PROVE GatherFollows(d)'
  <2>0. call[d].do = "len" /\ GatherFollows(d)
    BY <1>10 DEF LenCall, ShardInv, GathersFollow
  <2>1. lowest'[d] = lowest[d] \cap Present' /\ highest'[d] = highest[d] \cup Present'
    BY <1>5, <2>0
  <2>2. IsFiniteSet(lowest[d]) /\ IsFiniteSet(highest'[d]) /\ IsFiniteSet(lowest'[d])
    <3>1. lowest[d] \subseteq Present /\ IsFiniteSet(Present) /\ IsFiniteSet(highest[d])
      BY <2>0 DEF GatherFollows, ShardInv, ShardTypes
    <3>2. IsFiniteSet(lowest[d])
      BY <3>1, FS_Subset
    <3>3. IsFiniteSet(highest[d] \cup Present')
      BY <1>6, <3>1, FS_Union
    <3>4. lowest'[d] \subseteq lowest[d]
      BY <2>1
    <3>5. IsFiniteSet(lowest'[d])
      BY <3>2, <3>4, FS_Subset
    <3> QED
      BY <2>1, <3>2, <3>3, <3>5
  <2>3. \A n, i : Between(n, lowest[d], highest[d], i) => Between(n, lowest'[d], highest'[d], i)
    BY <2>1, <2>2, BetweenWidens
  <2>4. ASSUME reply'[d] # NoReply
        PROVE  \E n \in Nat : reply'[d] = <<n>> /\ Between(n, lowest'[d], highest'[d], Len(lens'[d]) + 1)
    <3>1. CASE d # c
      <4>1. PICK n \in Nat : reply[d] = <<n>> /\ Between(n, lowest[d], highest[d], Len(lens[d]) + 1)
        BY <1>3, <2>0, <2>4, <3>1 DEF GatherFollows
      <4> QED
        BY <1>3, <1>5, <2>3, <3>1, <4>1
    <3>2. CASE d = c
      <4>1. map' = map /\ reply'[d] = <<Cardinality(Rows(s))>> /\ s = Len(lens[d]) + 1
        BY <1>2, <1>4, <1>10, <2>0, <3>2 DEF AwaitsTurn
      <4>2. Present \cap Of(s) = Rows(s) /\ Present' = Present
        BY <4>1, ShardAssumption DEF Present, Rows, Of
      <4>3. lowest'[d] \cap Of(s) \subseteq Rows(s) /\ Rows(s) \subseteq highest'[d] \cap Of(s)
        BY <2>1, <4>2
      <4>4. IsFiniteSet(Rows(s)) /\ IsFiniteSet(highest'[d] \cap Of(s))
        BY <2>2, <4>2, FS_Intersection DEF ShardInv, ShardTypes
      <4>5. /\ Cardinality(lowest'[d] \cap Of(s)) <= Cardinality(Rows(s))
            /\ Cardinality(Rows(s)) <= Cardinality(highest'[d] \cap Of(s))
            /\ Cardinality(Rows(s)) \in Nat
        BY <4>3, <4>4, FS_Subset, FS_CardinalityType
      <4>6. Between(Cardinality(Rows(s)), lowest'[d], highest'[d], s)
        BY <4>5 DEF Between
      <4> QED
        BY <1>5, <4>1, <4>5, <4>6
    <3> QED
      BY <3>1, <3>2
  <2>5. /\ Len(lens'[d]) < Shards
        /\ \A i \in 1 .. Len(lens'[d]) : Between(lens'[d][i], lowest'[d], highest'[d], i)
    BY <1>5, <2>0, <2>3 DEF GatherFollows
  <2>6. lowest'[d] \subseteq Present' /\ Present' \subseteq highest'[d]
    BY <2>1
  <2> QED
    BY <2>2, <2>4, <2>5, <2>6 DEF GatherFollows
<1>11. GathersFollow'
  BY <1>5, <1>10 DEF GathersFollow
<1> QED
  BY <1>7, <1>8, <1>9, <1>11 DEF ShardInv

LEMMA ShardKeep == ShardInv /\ [ShardStep]_shardVars => ShardInv'
<1> SUFFICES ASSUME ShardInv, [ShardStep]_shardVars PROVE ShardInv'
  OBVIOUS
<1>1. CASE UNCHANGED shardVars
  BY <1>1 DEF shardVars, ShardInv, ShardTypes, QueuesWait, AwaitsTurn, RepliesAwaited, GathersFollow, GatherFollows,
              Present, Rows
<1>2. ASSUME NEW c \in Client, Put(c) \/ Get(c) \/ Delete(c) PROVE ShardInv'
  <2>1. PICK do, key, val : Send(c, do, key, val) /\ [do |-> do, key |-> key, val |-> val] \in KeyCall
    BY <1>2 DEF Put, Get, Delete, KeyCall, TheMap!Call
  <2> QED
    BY <2>1, SendStep
<1> QED
  BY <1>1, <1>2, StartGatherStep, GatherNextStep, ReturnStep, ServeStep, DropStep DEF ShardStep
-----------------------------------------------------------------------------
\* A call on a key is asked of the map.
LEMMA SendImplements ==
    ASSUME ShardInv, NEW c \in Client, NEW do, NEW key, NEW val,
           [do |-> do, key |-> key, val |-> val] \in KeyCall, Send(c, do, key, val)
    PROVE  TheMap!Ask(c)
<1>1. PICK a \in KeyCall : a = [do |-> do, key |-> key, val |-> val]
  OBVIOUS
<1>2. call' = [call EXCEPT ![c] = a] /\ call[c] = NoCall /\ UNCHANGED <<map, reply>>
  BY <1>1 DEF Send
<1>3. call \in [Client -> KeyCall \cup {NoCall, LenCall}]
  BY DEF ShardInv, ShardTypes
<1>4. a.do # "len" /\ NoCall.do # "len" /\ reply[c] = NoReply
  <2>1. a.do # "len"
    BY CallKinds
  <2> QED
    BY <1>2, <2>1 DEF NoCall, ShardInv, RepliesAwaited
<1>5. (call[c].do = "len") = FALSE /\ call'[c] = a
  BY <1>2, <1>3, <1>4
<1>6. \A d \in Client \ {c} : call'[d] = call[d] /\ reply'[d] = reply[d]
  BY <1>2, <1>3
<1> DEFINE asked == [d \in Client |-> IF call[d].do = "len" THEN NoCall ELSE call[d]]
           told == [d \in Client |-> IF call[d].do = "len" THEN NoReply ELSE reply[d]]
<1>7. asked[c] = NoCall /\ asked' = [asked EXCEPT ![c] = a]
  BY <1>2, <1>3, <1>4, <1>5, <1>6
<1>8. told' = told
  BY <1>2, <1>4, <1>5, <1>6
<1>9. UNCHANGED [k \in Key |-> map[ShardOf[k]][k]]
  BY <1>2
<1> QED
  BY <1>1, <1>7, <1>8, <1>9 DEF TheMap!Ask, TheMap!Idle, NoCall, KeyCall

\* A caller that has its reply returns with the answer of the map.
LEMMA TakeImplements ==
    ASSUME ShardInv, NEW c \in Client, TakeReply(c)
    PROVE  TheMap!Answer(c)
<1>1. /\ call[c].do \in {"put", "get", "delete"} /\ reply[c] # NoReply
      /\ call' = [call EXCEPT ![c] = NoCall] /\ reply' = [reply EXCEPT ![c] = NoReply] /\ UNCHANGED map
  BY DEF TakeReply
<1>2. call \in [Client -> KeyCall \cup {NoCall, LenCall}] /\ DOMAIN reply = Client
  BY DEF ShardInv, ShardTypes
<1>3. /\ call[c].do # "len" /\ call'[c] = NoCall /\ reply'[c] = NoReply /\ call'[c].do # "len"
      /\ \A d \in Client \ {c} : call'[d] = call[d] /\ reply'[d] = reply[d]
  <2>1. call[c].do # "len"
    BY <1>1
  <2>2. NoCall.do # "len"
    BY DEF NoCall
  <2> QED
    BY <1>1, <1>2, <2>1, <2>2
<1> DEFINE asked == [d \in Client |-> IF call[d].do = "len" THEN NoCall ELSE call[d]]
           told == [d \in Client |-> IF call[d].do = "len" THEN NoReply ELSE reply[d]]
<1>4. asked' = [asked EXCEPT ![c] = NoCall]
  BY <1>3
<1>5. told' = [told EXCEPT ![c] = NoReply] /\ told[c] # NoReply
  BY <1>1, <1>3
<1>6. UNCHANGED [k \in Key |-> map[ShardOf[k]][k]]
  BY <1>1
<1> QED
  BY <1>4, <1>5, <1>6 DEF TheMap!Answer, TheMap!Idle, NoCall, NoReply

\* The thread of the key serves a call: that is the moment at which it takes effect on the map.
LEMMA ServeImplements ==
    ASSUME ShardInv, NEW s \in Shard, Serve(s), NEW c \in Client, c = Head(queue[s]), call[c] \in KeyCall
    PROVE  TheMap!Act(c)
<1>1. PICK a \in KeyCall : a = call[c]
  OBVIOUS
<1>2. a # NoCall /\ a.do # "len" /\ reply[c] = NoReply /\ UNCHANGED call
  <2>1. AwaitsTurn(c, s)
    BY ServeHead, Zenon
  <2>2. a.do # "len"
    BY CallKinds
  <2> QED
    BY <1>1, <2>1, <2>2 DEF AwaitsTurn, Serve
<1>3. /\ \A d \in Client \ {c} : reply'[d] = reply[d]
      /\ a.key \in Key /\ ShardOf[a.key] = s
      /\ \A t \in Shard, k \in Key : t # s \/ k # a.key => map'[t][k] = map[t][k]
      /\ map'[s][a.key] = CASE a.do = "put" -> a.val
                             [] a.do = "delete" -> Absent
                             [] OTHER -> map[s][a.key]
      /\ reply'[c] = IF a.do = "put" THEN <<"done">> ELSE <<map[s][a.key]>>
  <2>1. /\ \A d \in Client \ {c} : reply'[d] = reply[d]
        /\ call[c].key \in Key /\ ShardOf[call[c].key] = s
        /\ \A t \in Shard, k \in Key : t # s \/ k # call[c].key => map'[t][k] = map[t][k]
        /\ map'[s][call[c].key] = CASE call[c].do = "put" -> call[c].val
                                    [] call[c].do = "delete" -> Absent
                                    [] OTHER -> map[s][call[c].key]
        /\ reply'[c] = IF call[c].do = "put" THEN <<"done">> ELSE <<map[s][call[c].key]>>
    BY ServeEffect
  <2> QED
    BY <1>1, <2>1
<1> DEFINE content == [k \in Key |-> map[ShardOf[k]][k]]
           asked == [d \in Client |-> IF call[d].do = "len" THEN NoCall ELSE call[d]]
           told == [d \in Client |-> IF call[d].do = "len" THEN NoReply ELSE reply[d]]
<1>4. asked[c] = a /\ asked' = asked
  BY <1>1, <1>2
<1>5. told[c] = NoReply /\ content[a.key] = map[s][a.key]
  <2>1. a.key \in Key /\ ShardOf[a.key] = s
    BY <1>3
  <2>2. content[a.key] = map[s][a.key]
    BY <2>1
  <2>3. told[c] = NoReply
    BY <1>1, <1>2
  <2> QED
    BY <2>2, <2>3
<1>6. told' = [told EXCEPT ![c] = IF a.do = "put" THEN <<"done">> ELSE <<content[a.key]>>]
  <2>1. \E r : r = IF a.do = "put" THEN <<"done">> ELSE <<content[a.key]>>
    <3> HIDE DEF content
    <3> QED
      OBVIOUS
  <2>0. PICK r : r = IF a.do = "put" THEN <<"done">> ELSE <<content[a.key]>>
    BY <2>1
  <2>2. reply'[c] = r
    BY <1>3, <1>5, <2>0
  <2>3. call'[c].do # "len" /\ call' = call /\ \A d \in Client \ {c} : reply'[d] = reply[d]
    BY <1>1, <1>2, <1>3
  <2> HIDE DEF content
  <2>4. told' = [told EXCEPT ![c] = r]
    BY <2>2, <2>3
  <2> HIDE DEF told
  <2> QED
    BY <2>0, <2>4
<1>7. content' = [content EXCEPT ![a.key] = CASE a.do = "put" -> a.val
                                              [] a.do = "delete" -> Absent
                                              [] OTHER -> @]
  <2>1. \A k \in Key : ShardOf[k] \in Shard
    BY ShardAssumption DEF Shard
  <2> QED
    BY <1>3, <1>5, <2>1
<1> HIDE DEF content, asked, told
<1>8. /\ asked[c] # NoCall /\ told[c] = <<>>
      /\ content' = [content EXCEPT ![asked[c].key] = CASE asked[c].do = "put" -> asked[c].val
                                                       [] asked[c].do = "delete" -> Absent
                                                       [] OTHER -> @]
      /\ told' = [told EXCEPT ![c] = IF asked[c].do = "put" THEN <<"done">> ELSE <<content[asked[c].key]>>]
      /\ UNCHANGED asked
  BY <1>2, <1>4, <1>5, <1>6, <1>7 DEF NoReply
<1> QED
  BY <1>8, Zenon DEF TheMap!Act, TheMap!Idle, NoCall, NoReply, content, asked, told

\* What the map does not see: lengths, and the end of the threads.
LEMMA LengthsAreHidden ==
    ASSUME ShardInv, UNCHANGED map,
           \A c \in Client : \/ call'[c] = call[c] /\ (reply'[c] = reply[c] \/ call[c] = LenCall)
                            \/ /\ {call[c], call'[c]} = {NoCall, LenCall}
                               /\ call[c] = NoCall => reply[c] = NoReply
                               /\ call'[c] = NoCall => reply'[c] = NoReply
    PROVE  UNCHANGED TheMap!vars
<1>1. NoCall.do # "len" /\ LenCall.do = "len"
  BY DEF NoCall, LenCall
<1>2. ASSUME NEW c \in Client
      PROVE  /\ (IF call'[c].do = "len" THEN NoCall ELSE call'[c]) = (IF call[c].do = "len" THEN NoCall ELSE call[c])
             /\ (IF call'[c].do = "len" THEN NoReply ELSE reply'[c])
                   = (IF call[c].do = "len" THEN NoReply ELSE reply[c])
  <2>1. CASE call'[c] = call[c]
    BY <1>1, <2>1
  <2>2. CASE call[c] = NoCall /\ call'[c] = LenCall
    BY <1>1, <2>2
  <2>3. CASE call[c] = LenCall /\ call'[c] = NoCall
    BY <1>1, <2>3
  <2> QED
    BY <2>1, <2>2, <2>3
<1>3. UNCHANGED [k \in Key |-> map[ShardOf[k]][k]]
  OBVIOUS
<1>4. UNCHANGED [c \in Client |-> IF call[c].do = "len" THEN NoCall ELSE call[c]]
  BY <1>2
<1>5. UNCHANGED [c \in Client |-> IF call[c].do = "len" THEN NoReply ELSE reply[c]]
  BY <1>2
<1> QED
  BY <1>3, <1>4, <1>5 DEF TheMap!vars

\* Every step is a step of the map, or leaves it alone.
LEMMA ShardStepImplements == ShardInv /\ ShardStep => [TheMap!Next]_(TheMap!vars)
<1> SUFFICES ASSUME ShardInv, ShardStep PROVE TheMap!Next \/ UNCHANGED TheMap!vars
  OBVIOUS
<1>0. call \in [Client -> KeyCall \cup {NoCall, LenCall}] /\ DOMAIN reply = Client
  BY DEF ShardInv, ShardTypes
<1>1. ASSUME NEW c \in Client, Put(c) \/ Get(c) \/ Delete(c) PROVE TheMap!Next
  <2>1. PICK do, key, val : Send(c, do, key, val) /\ [do |-> do, key |-> key, val |-> val] \in KeyCall
    BY <1>1 DEF Put, Get, Delete, KeyCall, TheMap!Call
  <2>2. TheMap!Ask(c)
    BY <2>1, SendImplements
  <2> QED
    BY <2>2 DEF TheMap!Next
<1>2. ASSUME NEW c \in Client, TakeReply(c) PROVE TheMap!Next
  BY <1>2, TakeImplements DEF TheMap!Next
<1>3. ASSUME NEW c \in Client, StartGather(c) PROVE UNCHANGED TheMap!vars
  <2>1. call[c] = NoCall /\ call' = [call EXCEPT ![c] = LenCall] /\ UNCHANGED <<map, reply>>
    BY <1>3 DEF StartGather, LenCall
  <2>2. reply[c] = NoReply
    BY <2>1 DEF ShardInv, RepliesAwaited
  <2> QED
    BY <1>0, <2>1, <2>2, LengthsAreHidden
<1>4. ASSUME NEW c \in Client, GatherNext(c) PROVE UNCHANGED TheMap!vars
  <2>1. call[c].do = "len" /\ reply' = [reply EXCEPT ![c] = NoReply] /\ UNCHANGED <<map, call>>
    BY <1>4 DEF GatherNext
  <2>2. call[c] = LenCall
    BY <1>0, <2>1, CallKinds
  <2> QED
    BY <1>0, <2>1, <2>2, LengthsAreHidden
<1>5. ASSUME NEW c \in Client, GatherLast(c) PROVE UNCHANGED TheMap!vars
  <2>1. /\ call[c].do = "len" /\ reply' = [reply EXCEPT ![c] = NoReply]
        /\ call' = [call EXCEPT ![c] = NoCall] /\ UNCHANGED map
    BY <1>5 DEF GatherLast
  <2>2. call[c] = LenCall
    BY <1>0, <2>1, CallKinds
  <2>3. NoCall # LenCall
    BY CallKinds
  <2> QED
    BY <1>0, <2>1, <2>2, <2>3, LengthsAreHidden
<1>6. ASSUME NEW s \in Shard, Serve(s) PROVE TheMap!Next \/ UNCHANGED TheMap!vars
  <2>1. PICK c : c = Head(queue[s])
    OBVIOUS
  <2>2. c \in Client /\ AwaitsTurn(c, s)
    BY <1>6, <2>1, ServeHead, Zenon
  <2>3. CASE call[c] \in KeyCall
    BY <1>6, <2>1, <2>2, <2>3, ServeImplements DEF TheMap!Next
  <2>4. CASE call[c] = LenCall
    <3>1. map' = map /\ \A d \in Client \ {c} : reply'[d] = reply[d]
      BY <1>6, <2>1, <2>2, <2>4, ServeEffect, Zenon
    <3>2. call' = call
      BY <1>6 DEF Serve
    <3> QED
      BY <2>4, <3>1, <3>2, LengthsAreHidden
  <2> QED
    BY <1>0, <2>2, <2>3, <2>4 DEF AwaitsTurn
<1>7. ASSUME Drop \/ \E s \in Shard : Shutdown(s) PROVE UNCHANGED TheMap!vars
  <2>1. UNCHANGED <<map, call, reply>>
    BY <1>7 DEF Drop, Shutdown
  <2> QED
    BY <2>1 DEF TheMap!vars
<1> QED
  BY <1>1, <1>2, <1>3, <1>4, <1>5, <1>6, <1>7 DEF ShardStep

LEMMA ShardStartImplements == ShardInit => TheMap!Init
<1> SUFFICES ASSUME ShardInit PROVE TheMap!Init
  OBVIOUS
<1>1. NoCall.do # "len"
  BY DEF NoCall
<1>2. [k \in Key |-> map[ShardOf[k]][k]] = [k \in Key |-> Absent]
  BY ShardAssumption DEF ShardInit, Shard
<1>3. /\ [c \in Client |-> IF call[c].do = "len" THEN NoCall ELSE call[c]] = [c \in Client |-> NoCall]
      /\ [c \in Client |-> IF call[c].do = "len" THEN NoReply ELSE reply[c]] = [c \in Client |-> NoReply]
  BY <1>1 DEF ShardInit
<1> QED
  BY <1>2, <1>3 DEF TheMap!Init, TheMap!Idle, NoCall, NoReply

\* The sum told lies between the keys that were there throughout and those that were there at
\* some moment.
LEMMA TotalKeeps ==
    ASSUME ShardInv, ShardStep, NEW c \in Client, call[c].do = "len", call'[c] = NoCall
    PROVE  SumOf(lens'[c]) \in Cardinality(lowest[c]) .. Cardinality(highest[c])
<1>0. call \in [Client -> KeyCall \cup {NoCall, LenCall}]
  BY DEF ShardInv, ShardTypes
<1>1. call[c] = LenCall /\ NoCall # LenCall
  BY <1>0, CallKinds
<1>2. GatherLast(c)
  <2>1. ASSUME NEW d \in Client, Put(d) \/ Get(d) \/ Delete(d) \/ StartGather(d) PROVE FALSE
    <3>1. call[d] = NoCall /\ \E a : call' = [call EXCEPT ![d] = a]
      BY <2>1 DEF Put, Get, Delete, Send, StartGather
    <3> QED
      BY <1>0, <1>1, <3>1
  <2>2. ASSUME NEW d \in Client, GatherNext(d) PROVE FALSE
    BY <1>1, <2>2 DEF GatherNext
  <2>3. ASSUME NEW d \in Client, TakeReply(d) PROVE FALSE
    <3>1. call[d].do # "len" /\ call' = [call EXCEPT ![d] = NoCall]
      BY <2>3 DEF TakeReply
    <3> QED
      BY <1>0, <1>1, <3>1
  <2>4. ASSUME NEW d \in Client, GatherLast(d) PROVE d = c
    <3>1. call' = [call EXCEPT ![d] = NoCall]
      BY <2>4 DEF GatherLast
    <3> QED
      BY <1>0, <1>1, <3>1
  <2>5. ASSUME Drop \/ \E s \in Shard : Serve(s) \/ Shutdown(s) PROVE FALSE
    <3>1. call' = call
      BY <2>5 DEF Drop, Serve, Shutdown
    <3> QED
      BY <1>1, <3>1
  <2> QED
    BY <2>1, <2>2, <2>3, <2>4, <2>5 DEF ShardStep
<1>3. reply[c] # NoReply /\ Len(lens[c]) + 1 = Shards /\ lens' = [lens EXCEPT ![c] = @ \o reply[c]]
  BY <1>2 DEF GatherLast
<1>4. /\ GatherFollows(c) /\ Len(lens'[c]) = Shards
      /\ \A i \in 1 .. Len(lens'[c]) : Between(lens'[c][i], lowest[c], highest[c], i)
  BY <1>3, GatherMore
<1>5. PICK seq : seq = lens'[c]
  OBVIOUS
<1>6. /\ lowest[c] \in SUBSET Key /\ highest[c] \in SUBSET Key
      /\ IsFiniteSet(lowest[c]) /\ IsFiniteSet(highest[c])
  <2>1. lowest[c] \subseteq Present /\ IsFiniteSet(Present) /\ IsFiniteSet(highest[c])
    BY <1>4 DEF GatherFollows, ShardInv, ShardTypes
  <2>2. IsFiniteSet(lowest[c])
    BY <2>1, FS_Subset
  <2> QED
    BY <2>1, <2>2 DEF ShardInv, ShardTypes
<1>7. \A i \in Shard : Between(seq[i], lowest[c], highest[c], i)
  BY <1>4, <1>5 DEF Shard
<1>8. SumOf(seq) \in Cardinality(lowest[c]) .. Cardinality(highest[c])
  BY <1>4, <1>5, <1>6, <1>7, SumBetween
<1> QED
  BY <1>5, <1>8
-----------------------------------------------------------------------------
(***************************************************************************)
(* Ranges keep their replicas (Placement).                                 *)
(***************************************************************************)
PlaceRank(P, p) == Cardinality({m \in P : m < p})

\* Each place of a finite set has a rank of its own, and each rank its place.
LEMMA Ranks ==
    ASSUME NEW P \in SUBSET Int, IsFiniteSet(P)
    PROVE  /\ Cardinality(P) \in Nat
           /\ \A p \in P : PlaceRank(P, p) \in 0 .. Cardinality(P) - 1
           /\ \A p, r \in P : p < r => PlaceRank(P, p) < PlaceRank(P, r)
           /\ \A n \in 1 .. Cardinality(P) : \E p \in P : PlaceRank(P, p) = n - 1
<1>0. \A p \in P : p \in Int
  OBVIOUS
<1>1. Cardinality(P) \in Nat
  BY FS_CardinalityType
<1>2. ASSUME NEW p \in P
      PROVE  IsFiniteSet({m \in P : m < p}) /\ PlaceRank(P, p) \in 0 .. Cardinality(P) - 1
  <2>1. IsFiniteSet(P \ {p}) /\ Cardinality(P \ {p}) = Cardinality(P) - 1
    BY FS_RemoveElement
  <2>2. {m \in P : m < p} \subseteq P \ {p}
    BY <1>2
  <2>3. IsFiniteSet({m \in P : m < p}) /\ Cardinality({m \in P : m < p}) <= Cardinality(P \ {p})
    BY <2>1, <2>2, FS_Subset
  <2>4. Cardinality({m \in P : m < p}) \in Nat
    BY <2>3, FS_CardinalityType
  <2> QED
    BY <1>1, <2>1, <2>3, <2>4 DEF PlaceRank
<1>21. \A p \in P : PlaceRank(P, p) \in 0 .. Cardinality(P) - 1
  BY <1>2
<1>22. \A p \in P : PlaceRank(P, p) \in Int
  BY <1>1, <1>21
<1>3. ASSUME NEW p \in P, NEW r \in P, p < r PROVE PlaceRank(P, p) < PlaceRank(P, r)
  <2>1. IsFiniteSet({m \in P : m < r} \ {p}) /\ Cardinality({m \in P : m < r} \ {p}) = PlaceRank(P, r) - 1
    BY <1>2, <1>3, FS_RemoveElement DEF PlaceRank
  <2>2. {m \in P : m < p} \subseteq {m \in P : m < r} \ {p}
    <3> SUFFICES ASSUME NEW m \in P, m < p PROVE m < r /\ m # p
      OBVIOUS
    <3>1. m \in Int /\ p \in Int /\ r \in Int
      BY <1>0
    <3> QED
      BY <1>3, <3>1
  <2>3. PlaceRank(P, p) <= PlaceRank(P, r) - 1
    BY <2>1, <2>2, FS_Subset DEF PlaceRank
  <2>4. PlaceRank(P, p) \in Int /\ PlaceRank(P, r) \in Int
    BY <1>22
  <2> QED
    BY <2>3, <2>4
<1>4. PICK f : f = [p \in P |-> PlaceRank(P, p) + 1]
  OBVIOUS
<1>5. f \in Injection(P, 1 .. Cardinality(P))
  <2>1. f \in [P -> 1 .. Cardinality(P)]
    <3>1. \A p \in P : PlaceRank(P, p) + 1 \in 1 .. Cardinality(P)
      BY <1>1, <1>21
    <3> QED
      BY <1>4, <3>1
  <2>2. \A p, r \in P : f[p] = f[r] => p = r
    <3> SUFFICES ASSUME NEW p \in P, NEW r \in P, f[p] = f[r], p # r PROVE FALSE
      OBVIOUS
    <3>1. PlaceRank(P, p) \in Int /\ PlaceRank(P, r) \in Int /\ PlaceRank(P, p) + 1 = PlaceRank(P, r) + 1
      BY <1>4, <1>22
    <3>2. p < r \/ r < p
      BY <1>0
    <3>3. ~(PlaceRank(P, p) < PlaceRank(P, r)) /\ ~(PlaceRank(P, r) < PlaceRank(P, p))
      BY <3>1
    <3> QED
      BY <1>3, <3>2, <3>3
  <2> QED
    BY <2>1, <2>2 DEF Injection, IsInjective
<1>6. IsFiniteSet(1 .. Cardinality(P)) /\ Cardinality(1 .. Cardinality(P)) = Cardinality(P)
  BY <1>1, FS_Interval
<1>7. f \in Surjection(P, 1 .. Cardinality(P))
  BY <1>5, <1>6, FS_Injection
<1>8. ASSUME NEW n \in 1 .. Cardinality(P) PROVE \E p \in P : PlaceRank(P, p) = n - 1
  <2>1. PICK p \in P : f[p] = n
    BY <1>7 DEF Surjection
  <2>2. PlaceRank(P, p) \in Int /\ PlaceRank(P, p) + 1 = n
    BY <1>4, <1>22, <2>1
  <2> QED
    BY <2>2
<1> QED
  BY <1>1, <1>21, <1>3, <1>8

IsInjectiveSeq(q) == \A i, j \in 1 .. Len(q) : q[i] = q[j] => i = j

\* What is chosen of a sequence: as many as there are places, those at the places, each once.
LEMMA ChosenOf ==
    ASSUME NEW V, NEW q \in Seq(V), NEW P \in SUBSET (1 .. Len(q))
    PROVE  /\ IsFiniteSet(P) /\ Cardinality(P) \in Nat
           /\ Chosen(q, P) \in Seq(V) /\ Len(Chosen(q, P)) = Cardinality(P)
           /\ \A n \in 1 .. Cardinality(P) : \E p \in P : Chosen(q, P)[n] = q[p]
           /\ \A p \in P : \E n \in 1 .. Cardinality(P) : Chosen(q, P)[n] = q[p]
           /\ IsInjectiveSeq(q) => IsInjectiveSeq(Chosen(q, P))
<1>1. IsFiniteSet(1 .. Len(q)) /\ P \in SUBSET Int
  BY FS_Interval
<1>2. IsFiniteSet(P) /\ Cardinality(P) \in Nat
  BY <1>1, FS_Subset, FS_CardinalityType
<1>3. PICK spot : spot = [n \in 1 .. Cardinality(P) |-> CHOOSE p \in P : PlaceRank(P, p) = n - 1]
  OBVIOUS
<1>4. \A n \in 1 .. Cardinality(P) : spot[n] \in P /\ PlaceRank(P, spot[n]) = n - 1
  BY <1>1, <1>2, <1>3, Ranks
<1>5. PICK c : c = Chosen(q, P)
  OBVIOUS
<1>6. c = [n \in 1 .. Cardinality(P) |-> q[spot[n]]]
  BY <1>3, <1>5 DEF Chosen, PlaceRank
<1>7. \A n \in 1 .. Cardinality(P) : c[n] \in V /\ c[n] = q[spot[n]]
  <2>1. \A n \in 1 .. Cardinality(P) : spot[n] \in 1 .. Len(q)
    BY <1>4
  <2>2. \A m \in 1 .. Len(q) : q[m] \in V
    OBVIOUS
  <2> QED
    BY <1>6, <2>1, <2>2
<1>8. c \in Seq(V) /\ Len(c) = Cardinality(P)
  BY <1>2, <1>6, <1>7
<1>9. ASSUME NEW p \in P PROVE \E n \in 1 .. Cardinality(P) : c[n] = q[p]
  <2>1. PICK n \in 1 .. Cardinality(P) : n = PlaceRank(P, p) + 1
    BY <1>1, <1>2, Ranks
  <2>2. PlaceRank(P, spot[n]) = PlaceRank(P, p) /\ spot[n] \in P
    BY <1>1, <1>2, <1>4, <2>1, Ranks
  <2>3. spot[n] = p
    <3>1. spot[n] \in Int /\ p \in Int
      BY <1>1, <2>2
    <3>2. PlaceRank(P, p) \in 0 .. Cardinality(P) - 1
      BY <1>1, <1>2, Ranks
    <3>3. ~(PlaceRank(P, p) < PlaceRank(P, p))
      BY <1>2, <3>2
    <3>4. ~(spot[n] < p) /\ ~(p < spot[n])
      BY <1>1, <1>2, <2>2, <3>3, Ranks
    <3> QED
      BY <3>1, <3>4
  <2> QED
    BY <1>7, <2>3
<1>10. ASSUME IsInjectiveSeq(q) PROVE IsInjectiveSeq(c)
  <2> SUFFICES ASSUME NEW i \in 1 .. Len(c), NEW j \in 1 .. Len(c), c[i] = c[j] PROVE i = j
    BY DEF IsInjectiveSeq
  <2>1. spot[i] = spot[j]
    <3>1. q[spot[i]] = q[spot[j]] /\ spot[i] \in 1 .. Len(q) /\ spot[j] \in 1 .. Len(q)
      BY <1>4, <1>7, <1>8
    <3> QED
      BY <1>10, <3>1 DEF IsInjectiveSeq
  <2>2. i - 1 = j - 1 /\ i \in Int /\ j \in Int
    BY <1>2, <1>4, <1>8, <2>1
  <2> QED
    BY <2>2
<1> QED
  BY <1>2, <1>4, <1>5, <1>7, <1>8, <1>9, <1>10

Ids == NodeId \cup {FirstNode}
NodeRecord == [node_id : Ids, alive : BOOLEAN]
RangeRecord == [range_id : Nat, replicas : Seq(Ids), leader : Ids]

\* A range has its leader among its replicas, which are nodes, each once.
WellPlaced ==
    {r \in RangeRecord : /\ r.leader \in ToSet(r.replicas)
                         /\ IsInjectiveSeq(r.replicas)
                         /\ ToSet(r.replicas) \subseteq KnownNodes}

PlacementInv ==
    /\ nodes \in Seq(NodeRecord)
    /\ \A i, j \in 1 .. Len(nodes) : nodes[i].node_id = nodes[j].node_id => i = j
    /\ replication_factor \in 1 .. 3
    /\ fresh_id \in 2 .. MaxRanges + 1 /\ Len(placed) \in 1 .. fresh_id - 1
    /\ placed \in Seq(WellPlaced)

LEMMA PlacementStart == PlacementInit => PlacementInv
<1> SUFFICES ASSUME PlacementInit PROVE PlacementInv
  OBVIOUS
<1>1. PICK n, r : n = [node_id |-> FirstNode, alive |-> TRUE]
               /\ r = [range_id |-> 1, replicas |-> <<FirstNode>>, leader |-> FirstNode]
  OBVIOUS
<1>2. n \in NodeRecord /\ n.node_id = FirstNode
  BY <1>1 DEF NodeRecord, Ids
<1>3. <<FirstNode>> \in Seq(Ids) /\ Len(<<FirstNode>>) = 1
  BY DEF Ids
<1>4. r \in RangeRecord /\ r.leader = FirstNode /\ r.replicas = <<FirstNode>>
  BY <1>1, <1>3 DEF RangeRecord, Ids
<1>5. nodes = <<n>> /\ placed = <<r>> /\ replication_factor = 1 /\ fresh_id = 2
  BY <1>1 DEF PlacementInit
<1>6. KnownNodes = {FirstNode}
  BY <1>2, <1>5 DEF KnownNodes
<1>7. r \in WellPlaced
  BY <1>3, <1>4, <1>6 DEF WellPlaced, ToSet, IsInjectiveSeq
<1> QED
  BY <1>2, <1>5, <1>7, PlacementAssumption DEF PlacementInv

LEMMA KnownStay ==
    ASSUME PlacementInv, KnownNodes \subseteq KnownNodes', UNCHANGED placed
    PROVE  placed' \in Seq(WellPlaced')
<1>1. WellPlaced \subseteq WellPlaced'
  BY DEF WellPlaced
<1> QED
  BY <1>1 DEF PlacementInv

LEMMA AddKeeps == PlacementInv /\ AddNode => PlacementInv'
<1> SUFFICES ASSUME PlacementInv, AddNode PROVE PlacementInv'
  OBVIOUS
<1>1. PICK n \in NodeId :
         /\ nodes' = IF n \in KnownNodes THEN nodes ELSE Append(nodes, [node_id |-> n, alive |-> TRUE])
         /\ replication_factor' = Lesser(Len(nodes'), 3)
         /\ UNCHANGED <<placed, fresh_id>>
  BY DEF AddNode
<1>2. PICK r : r = [node_id |-> n, alive |-> TRUE]
  OBVIOUS
<1>3. r \in NodeRecord /\ r.node_id = n
  BY <1>2 DEF NodeRecord, Ids
<1>4. nodes \in Seq(NodeRecord) /\ placed \in Seq(WellPlaced) /\ Len(placed) >= 1
  BY DEF PlacementInv
<1>5. nodes # <<>>
  <2>1. placed[1] \in WellPlaced
    BY <1>4
  <2>2. placed[1].leader \in KnownNodes
    BY <2>1 DEF WellPlaced
  <2> QED
    BY <2>2 DEF KnownNodes
<1>6. /\ nodes' \in Seq(NodeRecord) /\ Len(nodes') >= 1
      /\ \A i, j \in 1 .. Len(nodes') : nodes'[i].node_id = nodes'[j].node_id => i = j
      /\ KnownNodes \subseteq KnownNodes'
  <2>1. CASE n \in KnownNodes
    BY <1>1, <1>4, <1>5, <2>1 DEF PlacementInv, KnownNodes
  <2>2. CASE n \notin KnownNodes
    <3>1. nodes' = Append(nodes, r)
      BY <1>1, <1>2, <2>2
    <3>2. /\ nodes' \in Seq(NodeRecord) /\ Len(nodes) \in Nat /\ Len(nodes') = Len(nodes) + 1
          /\ nodes'[Len(nodes) + 1] = r /\ \A i \in 1 .. Len(nodes) : nodes'[i] = nodes[i]
          /\ DOMAIN nodes = 1 .. Len(nodes) /\ DOMAIN nodes' = 1 .. Len(nodes) + 1
      BY <1>3, <1>4, <3>1
    <3>3. \A i \in 1 .. Len(nodes) : nodes[i].node_id # n
      BY <2>2, <3>2 DEF KnownNodes
    <3>4. KnownNodes \subseteq KnownNodes'
      BY <3>2 DEF KnownNodes
    <3>5. ASSUME NEW i \in 1 .. Len(nodes'), NEW j \in 1 .. Len(nodes'), nodes'[i].node_id = nodes'[j].node_id
          PROVE  i = j
      BY <1>3, <3>2, <3>3, <3>5 DEF PlacementInv
    <3> QED
      BY <3>2, <3>4, <3>5
  <2> QED
    BY <2>1, <2>2
<1>7. replication_factor' \in 1 .. 3
  <2>1. Len(nodes') \in Nat
    BY <1>6
  <2>2. PICK m \in Nat : m = Len(nodes')
    BY <2>1
  <2>3. m >= 1
    BY <1>6, <2>2
  <2>4. replication_factor' = IF m < 3 THEN m ELSE 3
    BY <1>1, <2>2 DEF Lesser
  <2> QED
    BY <2>3, <2>4
<1>8. placed' \in Seq(WellPlaced')
  BY <1>1, <1>6, KnownStay
<1> QED
  BY <1>1, <1>6, <1>7, <1>8 DEF PlacementInv

LEMMA DecommissionKeeps == PlacementInv /\ Decommission => PlacementInv'
<1> SUFFICES ASSUME PlacementInv, Decommission PROVE PlacementInv'
  OBVIOUS
<1>1. PICK n \in NodeId :
         nodes' = [i \in DOMAIN nodes |-> IF nodes[i].node_id = n THEN [nodes[i] EXCEPT !.alive = FALSE] ELSE nodes[i]]
  BY DEF Decommission
<1>2. UNCHANGED <<placed, replication_factor, fresh_id>>
  BY DEF Decommission
<1>3. \A r \in NodeRecord : [r EXCEPT !.alive = FALSE] \in NodeRecord /\ [r EXCEPT !.alive = FALSE].node_id = r.node_id
  BY DEF NodeRecord
<1>4. nodes \in Seq(NodeRecord) /\ DOMAIN nodes = 1 .. Len(nodes) /\ Len(nodes) \in Nat
  BY DEF PlacementInv
<1>5. \A i \in 1 .. Len(nodes) : nodes[i] \in NodeRecord
  BY <1>4
<1>6. \A i \in 1 .. Len(nodes) : nodes'[i] \in NodeRecord /\ nodes'[i].node_id = nodes[i].node_id
  BY <1>1, <1>3, <1>4, <1>5
<1>7. nodes' \in [1 .. Len(nodes) -> NodeRecord]
  BY <1>1, <1>4, <1>6
<1>8. nodes' \in Seq(NodeRecord) /\ Len(nodes') = Len(nodes) /\ DOMAIN nodes' = 1 .. Len(nodes)
  BY <1>4, <1>7
<1>9. KnownNodes' = KnownNodes
  BY <1>4, <1>6, <1>8 DEF KnownNodes
<1>10. placed' \in Seq(WellPlaced')
  BY <1>2, <1>9, KnownStay
<1> QED
  BY <1>2, <1>6, <1>8, <1>10 DEF PlacementInv

\* What is added to a sequence once keeps its members apart.
LEMMA JoinedOf ==
    ASSUME NEW V, NEW p \in Seq(V), NEW q \in Seq(V), IsInjectiveSeq(p), IsInjectiveSeq(q),
           \A i \in 1 .. Len(p), j \in 1 .. Len(q) : p[i] # q[j]
    PROVE  /\ p \o q \in Seq(V) /\ IsInjectiveSeq(p \o q)
           /\ ToSet(p \o q) = ToSet(p) \cup ToSet(q)
<1>1. PICK s : s = p \o q
  OBVIOUS
<1>2. /\ s \in Seq(V) /\ Len(s) = Len(p) + Len(q) /\ Len(p) \in Nat /\ Len(q) \in Nat
      /\ \A i \in 1 .. Len(p) : s[i] = p[i]
      /\ \A i \in 1 .. Len(q) : s[Len(p) + i] = q[i]
  BY <1>1
<1>3. \A k \in 1 .. Len(s) : k > Len(p) => k - Len(p) \in 1 .. Len(q) /\ s[k] = q[k - Len(p)]
  BY <1>2
<1>4. ASSUME NEW i \in 1 .. Len(s), NEW j \in 1 .. Len(s), s[i] = s[j] PROVE i = j
  <2>1. CASE i <= Len(p) /\ j <= Len(p)
    BY <1>2, <1>4, <2>1 DEF IsInjectiveSeq
  <2>2. CASE i > Len(p) /\ j > Len(p)
    <3>1. PICK m \in 1 .. Len(q), n \in 1 .. Len(q) : m = i - Len(p) /\ n = j - Len(p)
      BY <1>3, <2>2
    <3>2. q[m] = q[n]
      BY <1>3, <1>4, <2>2, <3>1
    <3>3. m = n
      BY <3>2 DEF IsInjectiveSeq
    <3> QED
      BY <1>2, <3>1, <3>3
  <2>3. CASE i <= Len(p) /\ j > Len(p)
    BY <1>2, <1>3, <1>4, <2>3
  <2>4. CASE i > Len(p) /\ j <= Len(p)
    BY <1>2, <1>3, <1>4, <2>4, SMTT(30)
  <2> QED
    BY <1>2, <2>1, <2>2, <2>3, <2>4
<1>5. ToSet(s) = ToSet(p) \cup ToSet(q)
  <2>1. DOMAIN s = 1 .. Len(s) /\ DOMAIN p = 1 .. Len(p) /\ DOMAIN q = 1 .. Len(q)
    BY <1>2
  <2>2. ASSUME NEW k \in 1 .. Len(s) PROVE s[k] \in ToSet(p) \cup ToSet(q)
    <3>1. CASE k <= Len(p)
      BY <1>2, <2>1, <3>1 DEF ToSet
    <3>2. CASE k > Len(p)
      <4>1. PICK m \in 1 .. Len(q) : s[k] = q[m]
        BY <1>3, <3>2
      <4> QED
        BY <2>1, <4>1 DEF ToSet
    <3> QED
      BY <1>2, <3>1, <3>2
  <2>3. \A i \in 1 .. Len(p) : p[i] \in ToSet(s)
    BY <1>2, <2>1, SMTT(30) DEF ToSet
  <2>4. \A i \in 1 .. Len(q) : q[i] \in ToSet(s)
    <3> SUFFICES ASSUME NEW i \in 1 .. Len(q) PROVE q[i] \in ToSet(s)
      OBVIOUS
    <3>1. Len(p) + i \in 1 .. Len(s) /\ s[Len(p) + i] = q[i]
      BY <1>2
    <3> QED
      BY <2>1, <3>1 DEF ToSet
  <2> QED
    BY <2>1, <2>2, <2>3, <2>4 DEF ToSet
<1> QED
  BY <1>1, <1>2, <1>4, <1>5 DEF IsInjectiveSeq

\* The members of a sequence that are not in a set.
LEMMA OthersOf ==
    ASSUME NEW V, NEW q \in Seq(V), NEW S, IsInjectiveSeq(q)
    PROVE  /\ Others(q, S) \in Seq(V) /\ IsInjectiveSeq(Others(q, S))
           /\ ToSet(Others(q, S)) = ToSet(q) \ S
<1>1. PICK P : P = {p \in DOMAIN q : q[p] \notin S}
  OBVIOUS
<1>2. PICK c : c = Others(q, S)
  OBVIOUS
<1>3. P \in SUBSET (1 .. Len(q)) /\ c = Chosen(q, P) /\ DOMAIN q = 1 .. Len(q)
  BY <1>1, <1>2 DEF Others
<1>4. /\ c \in Seq(V) /\ IsInjectiveSeq(c) /\ Cardinality(P) \in Nat /\ Len(c) = Cardinality(P)
      /\ \A n \in 1 .. Cardinality(P) : \E p \in P : c[n] = q[p]
      /\ \A p \in P : \E n \in 1 .. Cardinality(P) : c[n] = q[p]
  BY <1>3, ChosenOf
<1>5. DOMAIN c = 1 .. Cardinality(P)
  BY <1>4
<1>6. ToSet(c) = ToSet(q) \ S
  <2>1. ASSUME NEW n \in DOMAIN c PROVE c[n] \in ToSet(q) \ S
    <3>1. PICK p \in P : c[n] = q[p]
      BY <1>4, <1>5
    <3> QED
      BY <1>1, <3>1 DEF ToSet
  <2>2. ASSUME NEW p \in DOMAIN q, q[p] \notin S PROVE q[p] \in ToSet(c)
    <3>1. PICK n \in 1 .. Cardinality(P) : c[n] = q[p]
      BY <1>1, <1>4, <2>2
    <3> QED
      BY <1>5, <3>1 DEF ToSet
  <2> QED
    BY <2>1, <2>2 DEF ToSet
<1> QED
  BY <1>2, <1>4, <1>6

\* The alive nodes are nodes, each once.
LEMMA AliveAre ==
    ASSUME PlacementInv
    PROVE  AliveNodes \in Seq(Ids) /\ IsInjectiveSeq(AliveNodes) /\ ToSet(AliveNodes) \subseteq KnownNodes
<1>1. PICK P : P = {i \in DOMAIN nodes : nodes[i].alive}
  OBVIOUS
<1>2. nodes \in Seq(NodeRecord) /\ DOMAIN nodes = 1 .. Len(nodes) /\ P \in SUBSET (1 .. Len(nodes))
  BY <1>1 DEF PlacementInv
<1>3. PICK c : c = Chosen(nodes, P)
  OBVIOUS
<1>4. IsInjectiveSeq(nodes)
  BY DEF PlacementInv, IsInjectiveSeq
<1>5. /\ c \in Seq(NodeRecord) /\ IsInjectiveSeq(c) /\ Len(c) \in Nat /\ DOMAIN c = 1 .. Len(c)
      /\ \A n \in 1 .. Len(c) : c[n] \in NodeRecord /\ \E p \in 1 .. Len(nodes) : c[n] = nodes[p]
  BY <1>2, <1>3, <1>4, ChosenOf
<1>6. PICK a : a = AliveNodes
  OBVIOUS
<1>7. a = [n \in DOMAIN c |-> c[n].node_id]
  BY <1>1, <1>3, <1>6 DEF AliveNodes
<1>8. \A n \in 1 .. Len(c) : c[n].node_id \in Ids
  BY <1>5 DEF NodeRecord
<1>9. a \in [1 .. Len(c) -> Ids]
  BY <1>5, <1>7, <1>8
<1>10. a \in Seq(Ids) /\ Len(a) = Len(c) /\ DOMAIN a = 1 .. Len(c)
  BY <1>5, <1>9
<1>11. ASSUME NEW i \in 1 .. Len(a), NEW j \in 1 .. Len(a), a[i] = a[j] PROVE i = j
  <2>1. c[i].node_id = c[j].node_id
    BY <1>5, <1>7, <1>10, <1>11
  <2>2. PICK p \in 1 .. Len(nodes), r \in 1 .. Len(nodes) : c[i] = nodes[p] /\ c[j] = nodes[r]
    BY <1>5, <1>10
  <2>3. c[i] = c[j]
    BY <2>1, <2>2 DEF PlacementInv
  <2> QED
    BY <1>5, <1>10, <2>3 DEF IsInjectiveSeq
<1>12. ToSet(a) \subseteq KnownNodes
  <2>1. ASSUME NEW n \in 1 .. Len(c) PROVE a[n] \in KnownNodes
    <3>1. PICK p \in 1 .. Len(nodes) : c[n] = nodes[p]
      BY <1>5
    <3> QED
      BY <1>2, <1>5, <1>7, <3>1 DEF KnownNodes
  <2> QED
    BY <1>10, <2>1 DEF ToSet
<1> QED
  BY <1>6, <1>10, <1>11, <1>12 DEF IsInjectiveSeq

\* What rebalance_plan adds to a range: alive nodes that do not hold it, each once, as many as are
\* missing or all there are.
LEMMA PlannedIs ==
    ASSUME PlacementInv, NEW i \in 1 .. Len(placed)
    PROVE  LET free == Others(AliveNodes, ToSet(placed[i].replicas))
               missing == replication_factor - Len(placed[i].replicas) IN
           /\ Planned(i) \in Seq(Ids) /\ IsInjectiveSeq(Planned(i))
           /\ ToSet(Planned(i)) \subseteq KnownNodes \ ToSet(placed[i].replicas)
           /\ Len(free) \in Nat
           /\ Len(Planned(i)) = IF missing < 0 THEN 0 ELSE IF missing < Len(free) THEN missing ELSE Len(free)
<1>1. PICK free : free = Others(AliveNodes, ToSet(placed[i].replicas))
  OBVIOUS
<1>2. /\ free \in Seq(Ids) /\ IsInjectiveSeq(free) /\ Len(free) \in Nat /\ DOMAIN free = 1 .. Len(free)
      /\ ToSet(free) \subseteq KnownNodes \ ToSet(placed[i].replicas)
  BY <1>1, AliveAre, OthersOf
<1>3. placed[i] \in RangeRecord /\ Len(placed[i].replicas) \in Nat /\ replication_factor \in Nat
  BY DEF PlacementInv, WellPlaced, RangeRecord
<1>31. replication_factor - Len(placed[i].replicas) \in Int
  BY <1>3
<1>4. PICK missing : missing \in Int /\ missing = replication_factor - Len(placed[i].replicas)
  BY <1>31
<1>5. PICK n : n = IF missing < 0 THEN 0 ELSE Lesser(missing, Len(free))
  OBVIOUS
<1>6. n = IF missing < 0 THEN 0 ELSE IF missing < Len(free) THEN missing ELSE Len(free)
  BY <1>5 DEF Lesser
<1>7. n \in 0 .. Len(free)
  <2>1. missing \in Int /\ Len(free) \in Int /\ Len(free) >= 0
    BY <1>2, <1>4
  <2>2. CASE missing < 0
    BY <1>6, <2>1, <2>2
  <2>3. CASE ~(missing < 0) /\ missing < Len(free)
    BY <1>6, <2>1, <2>3
  <2>4. CASE ~(missing < 0) /\ ~(missing < Len(free))
    BY <1>6, <2>1, <2>4
  <2> QED
    BY <2>2, <2>3, <2>4
<1>8. PICK s : s = SubSeq(free, 1, n)
  OBVIOUS
<1>9. Planned(i) = s
  <2>1. replication_factor - (Len(placed[i].replicas) + 0) = missing
    BY <1>3, <1>4
  <2> QED
    BY <1>1, <1>5, <1>8, <2>1 DEF Planned, Candidates
<1>10. s \in Seq(Ids) /\ Len(s) = n /\ DOMAIN s = 1 .. n /\ \A k \in 1 .. n : s[k] = free[k] /\ k \in DOMAIN free
  BY <1>2, <1>7, <1>8
<1>11. IsInjectiveSeq(s)
  BY <1>2, <1>10 DEF IsInjectiveSeq
<1>12. ToSet(s) \subseteq ToSet(free)
  BY <1>10 DEF ToSet
<1> QED
  BY <1>1, <1>2, <1>4, <1>6, <1>9, <1>10, <1>11, <1>12

LEMMA RebalanceKeeps == PlacementInv /\ Rebalance => PlacementInv'
<1> SUFFICES ASSUME PlacementInv, Rebalance PROVE PlacementInv'
  OBVIOUS
<1>1. /\ placed' = [i \in DOMAIN placed |->
                      IF i \in UnderReplicated THEN [placed[i] EXCEPT !.replicas = @ \o Planned(i)] ELSE placed[i]]
      /\ UNCHANGED <<nodes, replication_factor, fresh_id>>
  BY DEF Rebalance
<1>2. placed \in Seq(WellPlaced) /\ DOMAIN placed = 1 .. Len(placed) /\ Len(placed) \in Nat
  BY DEF PlacementInv
<1>3. ASSUME NEW i \in 1 .. Len(placed) PROVE placed'[i] \in WellPlaced
  <2>1. placed[i] \in WellPlaced
    BY <1>2
  <2>2. CASE i \notin UnderReplicated
    BY <1>1, <1>2, <2>1, <2>2
  <2>3. CASE i \in UnderReplicated
    <3>1. PICK new : new = placed[i].replicas \o Planned(i)
      OBVIOUS
    <3>2. PICK r : r = [placed[i] EXCEPT !.replicas = new]
      OBVIOUS
    <3>3. placed'[i] = r
      BY <1>1, <1>2, <2>3, <3>1, <3>2
    <3>4. placed[i] \in RangeRecord /\ placed[i].replicas \in Seq(Ids) /\ IsInjectiveSeq(placed[i].replicas)
      BY <2>1 DEF WellPlaced, RangeRecord
    <3>5. /\ Planned(i) \in Seq(Ids) /\ IsInjectiveSeq(Planned(i))
          /\ ToSet(Planned(i)) \subseteq KnownNodes \ ToSet(placed[i].replicas)
      BY PlannedIs
    <3>6. \A m \in 1 .. Len(placed[i].replicas), n \in 1 .. Len(Planned(i)) : placed[i].replicas[m] # Planned(i)[n]
      <4>1. \A n \in 1 .. Len(Planned(i)) : Planned(i)[n] \notin ToSet(placed[i].replicas)
        BY <3>5 DEF ToSet
      <4>2. \A m \in 1 .. Len(placed[i].replicas) : placed[i].replicas[m] \in ToSet(placed[i].replicas)
        BY <3>4 DEF ToSet
      <4> QED
        BY <4>1, <4>2
    <3>7. /\ new \in Seq(Ids) /\ IsInjectiveSeq(new)
          /\ ToSet(new) = ToSet(placed[i].replicas) \cup ToSet(Planned(i))
      <4>1. PICK old, plan : old = placed[i].replicas /\ plan = Planned(i)
        OBVIOUS
      <4>2. /\ old \in Seq(Ids) /\ IsInjectiveSeq(old) /\ plan \in Seq(Ids) /\ IsInjectiveSeq(plan)
            /\ new = old \o plan
        BY <3>1, <3>4, <3>5, <4>1
      <4>3. \A m \in 1 .. Len(old), n \in 1 .. Len(plan) : old[m] # plan[n]
        BY <3>6, <4>1
      <4>4. /\ old \o plan \in Seq(Ids) /\ IsInjectiveSeq(old \o plan)
            /\ ToSet(old \o plan) = ToSet(old) \cup ToSet(plan)
        BY ONLY <4>2, <4>3, JoinedOf
      <4> QED
        BY <4>1, <4>2, <4>4
    <3>8. r \in RangeRecord /\ r.leader = placed[i].leader /\ r.replicas = new
      BY <3>2, <3>4, <3>7 DEF RangeRecord
    <3> QED
      BY <2>1, <3>3, <3>5, <3>7, <3>8 DEF WellPlaced
  <2> QED
    BY <2>2, <2>3
<1>4. placed' \in [1 .. Len(placed) -> WellPlaced]
  BY <1>1, <1>2, <1>3
<1>5. placed' \in Seq(WellPlaced) /\ Len(placed') = Len(placed)
  BY <1>2, <1>4
<1>6. WellPlaced' = WellPlaced
  BY <1>1 DEF WellPlaced, KnownNodes
<1> QED
  BY <1>1, <1>5, <1>6 DEF PlacementInv

\* A sequence with its members from a + 1 to b replaced by one.
LEMMA ReplacedOf ==
    ASSUME NEW V, NEW q \in Seq(V), NEW x \in V, NEW a \in 0 .. Len(q), NEW b \in a .. Len(q)
    PROVE  /\ SubSeq(q, 1, a) \o <<x>> \o SubSeq(q, b + 1, Len(q)) \in Seq(V)
           /\ Len(SubSeq(q, 1, a) \o <<x>> \o SubSeq(q, b + 1, Len(q))) = Len(q) - b + a + 1
<1>1. SubSeq(q, 1, a) \in Seq(V) /\ Len(SubSeq(q, 1, a)) = a
  OBVIOUS
<1>2. SubSeq(q, b + 1, Len(q)) \in Seq(V) /\ Len(SubSeq(q, b + 1, Len(q))) = Len(q) - b
  OBVIOUS
<1>3. <<x>> \in Seq(V) /\ Len(<<x>>) = 1
  OBVIOUS
<1>4. SubSeq(q, 1, a) \o <<x>> \in Seq(V) /\ Len(SubSeq(q, 1, a) \o <<x>>) = a + 1
  BY <1>1, <1>3
<1>5. PICK s, u : s = SubSeq(q, 1, a) \o <<x>> /\ u = SubSeq(q, b + 1, Len(q))
  OBVIOUS
<1>6. s \o u \in Seq(V) /\ Len(s \o u) = Len(s) + Len(u)
  BY <1>2, <1>4, <1>5
<1>7. Len(s) = a + 1 /\ Len(u) = Len(q) - b /\ Len(q) \in Int /\ a \in Int /\ b \in Int
  BY <1>2, <1>4, <1>5
<1>8. Len(s) + Len(u) = Len(q) - b + a + 1
  BY <1>7
<1> QED
  BY <1>5, <1>6, <1>8

LEMMA SplitPlacedKeeps == PlacementInv /\ SplitPlaced => PlacementInv'
<1> SUFFICES ASSUME PlacementInv, SplitPlaced PROVE PlacementInv'
  OBVIOUS
<1>1. PICK i \in DOMAIN placed :
         placed' = SubSeq(placed, 1, i) \o <<[placed[i] EXCEPT !.range_id = fresh_id]>> \o SubSeq(placed, i + 1, Len(placed))
  BY DEF SplitPlaced
<1>2. fresh_id' = fresh_id + 1 /\ fresh_id <= MaxRanges /\ UNCHANGED <<nodes, replication_factor>>
  BY DEF SplitPlaced
<1>3. placed \in Seq(WellPlaced) /\ i \in 1 .. Len(placed) /\ placed[i] \in WellPlaced /\ fresh_id \in Nat
  BY <1>1 DEF PlacementInv
<1>4. PICK r : r = [placed[i] EXCEPT !.range_id = fresh_id]
  OBVIOUS
<1>5. r \in RangeRecord /\ r.leader = placed[i].leader /\ r.replicas = placed[i].replicas
  BY <1>3, <1>4 DEF WellPlaced, RangeRecord
<1>6. r \in WellPlaced
  BY <1>3, <1>5 DEF WellPlaced
<1>7. placed' = SubSeq(placed, 1, i) \o <<r>> \o SubSeq(placed, i + 1, Len(placed))
  BY <1>1, <1>4
<1>8. placed' \in Seq(WellPlaced) /\ Len(placed') = Len(placed) - i + i + 1
  BY <1>3, <1>6, <1>7, ReplacedOf
<1>9. WellPlaced' = WellPlaced
  BY <1>2 DEF WellPlaced, KnownNodes
<1>10. /\ fresh_id \in Int /\ MaxRanges \in Int /\ Len(placed) \in Int /\ i \in Int
       /\ Len(placed) >= 1 /\ Len(placed) <= fresh_id - 1 /\ fresh_id >= 2
  BY <1>3, PlacementAssumption DEF PlacementInv
<1>11. fresh_id' \in 2 .. MaxRanges + 1
  BY <1>2, <1>10
<1>12. Len(placed') = Len(placed) + 1
  BY <1>8, <1>10
<1>13. Len(placed') \in 1 .. fresh_id' - 1
  BY <1>2, <1>10, <1>12
<1> QED
  BY <1>2, <1>8, <1>9, <1>11, <1>13 DEF PlacementInv

LEMMA MergedIs ==
    ASSUME NEW left \in WellPlaced, NEW right \in WellPlaced
    PROVE  MergedRange(left, right) \in WellPlaced
<1>1. PICK rest : rest = Others(right.replicas, ToSet(left.replicas))
  OBVIOUS
<1>2. /\ left \in RangeRecord /\ left.replicas \in Seq(Ids) /\ IsInjectiveSeq(left.replicas)
      /\ right \in RangeRecord /\ right.replicas \in Seq(Ids) /\ IsInjectiveSeq(right.replicas)
      /\ ToSet(left.replicas) \subseteq KnownNodes /\ ToSet(right.replicas) \subseteq KnownNodes
      /\ left.leader \in ToSet(left.replicas) /\ right.leader \in ToSet(right.replicas)
  BY DEF WellPlaced, RangeRecord
<1>3. /\ rest \in Seq(Ids) /\ IsInjectiveSeq(rest)
      /\ ToSet(rest) = ToSet(right.replicas) \ ToSet(left.replicas)
  BY <1>1, <1>2, OthersOf
<1>4. \A m \in 1 .. Len(left.replicas), n \in 1 .. Len(rest) : left.replicas[m] # rest[n]
  <2>1. \A n \in 1 .. Len(rest) : rest[n] \notin ToSet(left.replicas)
    <3>1. DOMAIN rest = 1 .. Len(rest)
      BY <1>3
    <3>2. \A n \in 1 .. Len(rest) : rest[n] \in ToSet(rest)
      BY <3>1 DEF ToSet
    <3> QED
      BY <1>3, <3>2
  <2>2. \A m \in 1 .. Len(left.replicas) : left.replicas[m] \in ToSet(left.replicas)
    BY <1>2 DEF ToSet
  <2> QED
    BY <2>1, <2>2
<1>5. PICK new : new = left.replicas \o rest
  OBVIOUS
<1>6. /\ new \in Seq(Ids) /\ IsInjectiveSeq(new)
      /\ ToSet(new) = ToSet(left.replicas) \cup ToSet(right.replicas)
  <2>1. PICK old : old = left.replicas
    OBVIOUS
  <2>2. old \in Seq(Ids) /\ IsInjectiveSeq(old)
    BY <1>2, <2>1
  <2>3. \A m \in 1 .. Len(old), n \in 1 .. Len(rest) : old[m] # rest[n]
    BY <1>4, <2>1
  <2>4. /\ old \o rest \in Seq(Ids) /\ IsInjectiveSeq(old \o rest)
        /\ ToSet(old \o rest) = ToSet(old) \cup ToSet(rest)
    <3>1. rest \in Seq(Ids) /\ IsInjectiveSeq(rest)
      BY <1>3
    <3> QED
      BY ONLY <2>2, <2>3, <3>1, JoinedOf
  <2> QED
    BY <1>3, <1>5, <2>1, <2>4
<1>7. PICK stays \in {left, right} : MergedRange(left, right) = [stays EXCEPT !.replicas = new]
  BY <1>1, <1>5 DEF MergedRange
<1>8. PICK r : r = [stays EXCEPT !.replicas = new]
  OBVIOUS
<1>9. r \in RangeRecord /\ r.leader = stays.leader /\ r.replicas = new
  BY <1>2, <1>6, <1>8 DEF RangeRecord
<1> QED
  BY <1>2, <1>6, <1>7, <1>8, <1>9 DEF WellPlaced

LEMMA MergePlacedKeeps == PlacementInv /\ MergePlaced => PlacementInv'
<1> SUFFICES ASSUME PlacementInv, MergePlaced PROVE PlacementInv'
  OBVIOUS
<1>1. PICK i \in 1 .. Len(placed) - 1 :
         /\ placed' = SubSeq(placed, 1, i - 1) \o <<MergedRange(placed[i], placed[i + 1])>>
                         \o SubSeq(placed, i + 2, Len(placed))
         /\ UNCHANGED <<nodes, replication_factor, fresh_id>>
  BY DEF MergePlaced
<1>2. /\ placed \in Seq(WellPlaced) /\ Len(placed) \in Nat /\ i \in Nat
      /\ placed[i] \in WellPlaced /\ placed[i + 1] \in WellPlaced
  BY DEF PlacementInv
<1>3. PICK r : r = MergedRange(placed[i], placed[i + 1])
  OBVIOUS
<1>4. r \in WellPlaced
  BY <1>2, <1>3, MergedIs
<1>5. PICK a, b : a = i - 1 /\ b = i + 1
  OBVIOUS
<1>6. a \in 0 .. Len(placed) /\ b \in a .. Len(placed) /\ b + 1 = i + 2 /\ Len(placed) - b + a + 1 = Len(placed) - 1
  BY <1>2, <1>5
<1>7. placed' = SubSeq(placed, 1, a) \o <<r>> \o SubSeq(placed, b + 1, Len(placed))
  BY <1>1, <1>3, <1>5, <1>6
<1>8. placed' \in Seq(WellPlaced) /\ Len(placed') = Len(placed) - 1
  <2>1. /\ SubSeq(placed, 1, a) \o <<r>> \o SubSeq(placed, b + 1, Len(placed)) \in Seq(WellPlaced)
        /\ Len(SubSeq(placed, 1, a) \o <<r>> \o SubSeq(placed, b + 1, Len(placed))) = Len(placed) - b + a + 1
    BY <1>2, <1>4, <1>6, ReplacedOf, ZenonT(60)
  <2> QED
    BY <1>6, <1>7, <2>1
<1>9. WellPlaced' = WellPlaced
  BY <1>1 DEF WellPlaced, KnownNodes
<1>10. Len(placed) \in Int /\ fresh_id \in Int /\ Len(placed) <= fresh_id - 1 /\ Len(placed) - 1 >= 1
  BY <1>2 DEF PlacementInv
<1>11. Len(placed') \in 1 .. fresh_id' - 1
  <2>1. Len(placed') = Len(placed) - 1 /\ fresh_id' = fresh_id
    BY <1>1, <1>8
  <2> QED
    BY <1>10, <2>1
<1> QED
  BY <1>1, <1>8, <1>9, <1>11 DEF PlacementInv

LEMMA PlacementKeeps == PlacementInv /\ PlacementStep => PlacementInv'
BY AddKeeps, DecommissionKeeps, RebalanceKeeps, SplitPlacedKeeps, MergePlacedKeeps DEF PlacementStep

LEMMA PlacementRests == PlacementInv /\ UNCHANGED placementVars => PlacementInv'
<1> SUFFICES ASSUME PlacementInv, UNCHANGED placementVars PROVE PlacementInv'
  OBVIOUS
<1>1. WellPlaced' = WellPlaced
  BY DEF placementVars, WellPlaced, KnownNodes
<1> QED
  BY <1>1 DEF PlacementInv, placementVars

\* Members that are there once are as many as the sequence is long.
LEMMA SizeOf ==
    ASSUME NEW V, NEW q \in Seq(V), IsInjectiveSeq(q)
    PROVE  IsFiniteSet(ToSet(q)) /\ Cardinality(ToSet(q)) = Len(q)
<1>1. Len(q) \in Nat /\ DOMAIN q = 1 .. Len(q) /\ q \in [1 .. Len(q) -> ToSet(q)]
  BY DEF ToSet
<1>2. q \in Bijection(1 .. Len(q), ToSet(q))
  BY <1>1 DEF ToSet, Bijection, Injection, IsInjective, Surjection, IsInjectiveSeq
<1>3. IsFiniteSet(1 .. Len(q)) /\ Cardinality(1 .. Len(q)) = Len(q)
  BY <1>1, FS_Interval, SMTT(30)
<1>4. ExistsBijection(1 .. Len(q), ToSet(q))
  BY <1>2 DEF ExistsBijection
<1> QED
  BY <1>3, <1>4, FS_Bijection

LEMMA RangesArePlaced == PlacementInv => EveryRangePlaced /\ PlacementOK
<1> SUFFICES ASSUME PlacementInv PROVE EveryRangePlaced /\ PlacementOK
  OBVIOUS
<1>1. placed \in Seq(WellPlaced) /\ DOMAIN placed = 1 .. Len(placed) /\ nodes \in Seq(NodeRecord)
      /\ DOMAIN nodes = 1 .. Len(nodes)
  BY DEF PlacementInv
<1>2. PlacementOK
  <2>1. \A i \in 1 .. Len(placed) : ToSet(placed[i].replicas) \subseteq KnownNodes
    BY <1>1 DEF WellPlaced
  <2>2. Len(placed) \in 1 .. MaxRanges
    BY PlacementAssumption DEF PlacementInv
  <2> QED
    BY <1>1, <2>1, <2>2 DEF PlacementOK, PlacementInv
<1>3. ASSUME NEW i \in 1 .. Len(placed)
      PROVE  LET r == placed[i]
                 able == Cardinality(ToSet(AliveNodes) \cup ToSet(r.replicas))
                 after == Len(r.replicas) + (IF i \in UnderReplicated THEN Len(Planned(i)) ELSE 0) IN
             /\ r.leader \in ToSet(r.replicas)
             /\ Cardinality(ToSet(r.replicas)) = Len(r.replicas)
             /\ after >= Lesser(replication_factor, able)
             /\ i \in UnderReplicated => after <= replication_factor
  <2>1. PICK replicas : replicas = placed[i].replicas
    OBVIOUS
  <2>2. placed[i] \in WellPlaced /\ replicas \in Seq(Ids) /\ IsInjectiveSeq(replicas) /\ placed[i].leader \in ToSet(replicas)
    BY <1>1, <2>1 DEF WellPlaced, RangeRecord
  <2>3. IsFiniteSet(ToSet(replicas)) /\ Cardinality(ToSet(replicas)) = Len(replicas) /\ Len(replicas) \in Nat
    BY <2>2, SizeOf
  <2>4. PICK free : free = Others(AliveNodes, ToSet(replicas))
    OBVIOUS
  <2>5. /\ free \in Seq(Ids) /\ IsInjectiveSeq(free)
        /\ ToSet(free) = ToSet(AliveNodes) \ ToSet(replicas)
    BY <2>4, AliveAre, OthersOf
  <2>6. IsFiniteSet(ToSet(free)) /\ Cardinality(ToSet(free)) = Len(free) /\ Len(free) \in Nat
    <3>1. free \in Seq(Ids) /\ IsInjectiveSeq(free)
      BY <2>5
    <3> QED
      BY ONLY <3>1, SizeOf
  <2>7. PICK able : able = Cardinality(ToSet(AliveNodes) \cup ToSet(replicas))
    OBVIOUS
  <2>8. able = Len(replicas) + Len(free)
    <3>1. ToSet(AliveNodes) \cup ToSet(replicas) = ToSet(replicas) \cup ToSet(free)
      BY <2>5
    <3>2. ToSet(replicas) \cap ToSet(free) = {}
      BY <2>5
    <3>3. Cardinality(ToSet(replicas) \cup ToSet(free)) = Len(replicas) + Len(free)
      <4>1. PICK A, B : A = ToSet(replicas) /\ B = ToSet(free)
        OBVIOUS
      <4>2. IsFiniteSet(A) /\ IsFiniteSet(B) /\ A \cap B = {}
        BY <2>3, <2>6, <3>2, <4>1
      <4>3. Cardinality(A \cup B) = Cardinality(A) + Cardinality(B) - Cardinality(A \cap B)
        BY ONLY <4>2, FS_Union
      <4>4. Cardinality(A \cap B) = 0
        BY <4>2, FS_EmptySet
      <4>5. Cardinality(A) = Len(replicas) /\ Cardinality(B) = Len(free) /\ Len(replicas) \in Nat /\ Len(free) \in Nat
        BY <2>3, <2>6, <4>1
      <4>6. Cardinality(A \cup B) = Len(replicas) + Len(free)
        BY <4>3, <4>4, <4>5
      <4> QED
        BY <4>1, <4>6
    <3> QED
      BY <2>7, <3>1, <3>3
  <2>9. PICK missing : missing = replication_factor - Len(replicas)
    OBVIOUS
  <2>10. Len(Planned(i)) = IF missing < 0 THEN 0 ELSE IF missing < Len(free) THEN missing ELSE Len(free)
    BY <2>1, <2>4, <2>9, PlannedIs
  <2>11. replication_factor \in 1 .. 3
    BY DEF PlacementInv
  <2>12. i \in UnderReplicated <=> Len(replicas) < replication_factor
    BY <1>1, <2>1 DEF UnderReplicated
  <2>13. PICK after : after = Len(replicas) + (IF i \in UnderReplicated THEN Len(Planned(i)) ELSE 0)
    OBVIOUS
  <2>14. /\ after >= IF replication_factor < able THEN replication_factor ELSE able
         /\ i \in UnderReplicated => after <= replication_factor
    <3>1. CASE i \in UnderReplicated
      BY <2>3, <2>6, <2>8, <2>9, <2>10, <2>11, <2>12, <2>13, <3>1
    <3>2. CASE i \notin UnderReplicated
      BY <2>3, <2>6, <2>8, <2>11, <2>12, <2>13, <3>2
    <3> QED
      BY <3>1, <3>2
  <2>15. after >= Lesser(replication_factor, able)
    BY <2>14 DEF Lesser
  <2> QED
    BY <2>1, <2>2, <2>3, <2>7, <2>13, <2>14, <2>15
<1> QED
  BY <1>1, <1>2, <1>3 DEF EveryRangePlaced
-----------------------------------------------------------------------------
(***************************************************************************)
(* The update of a server (SelfUpdate): there is a binary to go back to.   *)
(***************************************************************************)
Server == [release : 0 .. Releases, at : {"boot", "serving", "gone"}, check : {"ask", "fetch", "apply", "none"}]
ScriptStep == {"save", "install", "start", "health", "restore", "restart", "end"}

UpdateTypes ==
    /\ healthy \subseteq 2 .. Releases
    /\ published \in 1 .. Releases /\ asset \in {"whole", "broken", "none"}
    /\ exe \in 0 .. Releases /\ bak \in 0 .. Releases /\ unpacked \in 0 .. Releases
    /\ servers \in Seq(Server) /\ scripts \in Seq(ScriptStep)
    /\ proven \subseteq 1 .. Releases

ServingAreProven == \A p \in DOMAIN servers : servers[p].at = "serving" => servers[p].release \in proven

\* The server that is there is one of the installed binary, and no other is.
OneServer(release) ==
    /\ \E p \in DOMAIN servers : Up(p)
    /\ \A p \in DOMAIN servers : Up(p) => servers[p].release = release
    /\ \A p, q \in DOMAIN servers : Up(p) /\ Up(q) => p = q

NoServer == \A p \in DOMAIN servers : ~Up(p)

\* Scripts that do not overlap run one at a time, and between them there is a proven server.
ScriptFollows(k) ==
    /\ scripts[k] \in {"save", "install", "start", "restore", "restart"} => NoServer
    /\ scripts[k] = "save" => exe \in proven
    /\ scripts[k] \in {"install", "start", "health", "restore", "restart"} => bak \in proven
    /\ scripts[k] = "health" => OneServer(exe)
    /\ scripts[k] = "restart" => exe = bak

ScriptsFollow ==
    /\ \A k, m \in DOMAIN scripts : Running(k) /\ Running(m) => k = m
    /\ \A k \in DOMAIN scripts : ScriptFollows(k)
    /\ ~AnyRuns => exe \in proven /\ OneServer(exe)

UpdateInv == UpdateTypes /\ ServingAreProven /\ (scripts_overlapped \/ ScriptsFollow)

LEMMA UpdateStart == UpdateInit => UpdateInv
<1> SUFFICES ASSUME UpdateInit PROVE UpdateInv
  OBVIOUS
<1> USE UpdateAssumption
<1>1. PICK s : s = NewServer(1)
  OBVIOUS
<1>2. s \in Server /\ s.release = 1 /\ s.at = "boot"
  BY <1>1 DEF NewServer, Server
<1>3. servers = <<s>> /\ scripts = <<>> /\ DOMAIN servers = {1} /\ servers[1] = s
  BY <1>1 DEF UpdateInit
<1>4. UpdateTypes
  BY <1>2, <1>3 DEF UpdateInit, UpdateTypes
<1>5. ServingAreProven
  BY <1>2, <1>3 DEF ServingAreProven
<1>6. ScriptsFollow
  <2>1. DOMAIN scripts = {}
    BY <1>3
  <2>2. OneServer(1)
    BY <1>2, <1>3 DEF OneServer, Up
  <2> QED
    BY <2>1, <2>2 DEF ScriptsFollow, UpdateInit
<1> QED
  BY <1>4, <1>5, <1>6 DEF UpdateInv

LEMMA ServerTypes ==
    ASSUME UpdateInv, NEW p \in DOMAIN servers
    PROVE  servers[p] \in Server
BY DEF UpdateInv, UpdateTypes

\* What a server has come to with its check does not matter to the scripts.
LEMMA SameServers ==
    ASSUME UpdateInv, DOMAIN servers' = DOMAIN servers,
           \A p \in DOMAIN servers : servers'[p].at = servers[p].at /\ servers'[p].release = servers[p].release,
           UNCHANGED <<exe, bak, scripts, proven, scripts_overlapped>>
    PROVE  ServingAreProven' /\ (scripts_overlapped \/ ScriptsFollow)'
<1>1. ServingAreProven'
  BY DEF UpdateInv, ServingAreProven
<1>2. ASSUME ~scripts_overlapped PROVE ScriptsFollow'
  <2>1. NoServer' = NoServer /\ (OneServer(exe) => OneServer(exe)')
    BY DEF NoServer, OneServer, Up
  <2>2. ScriptsFollow /\ AnyRuns' = AnyRuns /\ \A k : Running(k)' = Running(k)
    BY <1>2 DEF UpdateInv, AnyRuns, Running
  <2>3. ASSUME NEW k \in DOMAIN scripts PROVE ScriptFollows(k)'
    BY <2>1, <2>2 DEF ScriptsFollow, ScriptFollows
  <2> QED
    BY <2>1, <2>2, <2>3 DEF ScriptsFollow
<1> QED
  BY <1>1, <1>2

LEMMA CheckMoves ==
    ASSUME UpdateInv, NEW p \in DOMAIN servers, NEW at \in {"ask", "fetch", "apply", "none"}, Checked(p, at)
    PROVE  /\ servers' \in Seq(Server) /\ DOMAIN servers' = DOMAIN servers
           /\ \A q \in DOMAIN servers : servers'[q].at = servers[q].at /\ servers'[q].release = servers[q].release
<1>1. servers \in Seq(Server) /\ servers[p] \in Server /\ servers' = [servers EXCEPT ![p].check = at]
  BY ServerTypes DEF UpdateInv, UpdateTypes, Checked
<1>2. PICK s : s = [servers[p] EXCEPT !.check = at]
  OBVIOUS
<1>3. s \in Server /\ s.at = servers[p].at /\ s.release = servers[p].release
  BY <1>1, <1>2 DEF Server
<1>4. servers' = [servers EXCEPT ![p] = s]
  BY <1>1, <1>2
<1> QED
  BY <1>1, <1>3, <1>4

LEMMA PublishKeeps == UpdateInv /\ Publish /\ UNCHANGED healthy => UpdateInv'
<1> SUFFICES ASSUME UpdateInv, Publish, UNCHANGED healthy PROVE UpdateInv'
  OBVIOUS
<1>1. UpdateTypes'
  BY UpdateAssumption DEF UpdateInv, UpdateTypes, Publish
<1> QED
  BY <1>1, SameServers DEF UpdateInv, Publish

LEMMA CheckKeeps ==
    ASSUME UpdateInv, NEW p \in DOMAIN servers, AskLatest(p) \/ FetchRelease(p), UNCHANGED healthy
    PROVE  UpdateInv'
<1>1. PICK at \in {"ask", "fetch", "apply", "none"} : Checked(p, at)
  BY DEF AskLatest, FetchRelease
<1>2. UNCHANGED <<published, asset, exe, bak, scripts, proven, scripts_overlapped>> /\ unpacked' \in 0 .. Releases
  BY UpdateAssumption DEF AskLatest, FetchRelease, UpdateInv, UpdateTypes
<1>3. UpdateTypes'
  BY <1>1, <1>2, CheckMoves DEF UpdateInv, UpdateTypes
<1> QED
  BY <1>1, <1>2, <1>3, CheckMoves, SameServers DEF UpdateInv

\* A server answers only when nobody else does, and its release has worked from then on.
LEMMA ServeKeeps ==
    ASSUME UpdateInv, NEW p \in DOMAIN servers, ServeHealth(p), UNCHANGED healthy
    PROVE  UpdateInv'
<1>1. PICK s : s = [servers[p] EXCEPT !.at = "serving"]
  OBVIOUS
<1>2. servers[p] \in Server
  BY ServerTypes
<1>3. s \in Server /\ s.at = "serving" /\ s.release = servers[p].release
  BY <1>1, <1>2 DEF Server
<1>4. servers' = [servers EXCEPT ![p] = s] /\ servers \in Seq(Server) /\ servers[p].at = "boot"
  BY <1>1 DEF ServeHealth, UpdateInv, UpdateTypes
<1>5. /\ servers' \in Seq(Server) /\ DOMAIN servers' = DOMAIN servers
      /\ \A q \in DOMAIN servers : servers'[q].release = servers[q].release
      /\ servers'[p].at = "serving" /\ \A q \in DOMAIN servers : q # p => servers'[q].at = servers[q].at
  BY <1>3, <1>4
<1>6. servers[p].release \in 1 .. Releases
  BY UpdateAssumption DEF ServeHealth, UpdateInv, UpdateTypes
<1>7. UNCHANGED <<published, asset, exe, bak, unpacked, scripts, scripts_overlapped, healthy>>
      /\ proven' = proven \cup {servers[p].release}
  BY DEF ServeHealth
<1>8. UpdateTypes'
  BY <1>5, <1>6, <1>7 DEF UpdateInv, UpdateTypes
<1>9. ServingAreProven'
  BY <1>5, <1>7 DEF UpdateInv, ServingAreProven
<1>10. ASSUME ~scripts_overlapped PROVE ScriptsFollow'
  <2>1. \A q \in DOMAIN servers : Up(q)' = Up(q)
    BY <1>4, <1>5 DEF Up
  <2>2. NoServer' = NoServer /\ (OneServer(exe) => OneServer(exe)')
    BY <1>5, <1>7, <2>1 DEF NoServer, OneServer
  <2>3. ScriptsFollow /\ AnyRuns' = AnyRuns /\ \A k : Running(k)' = Running(k)
    BY <1>7, <1>10 DEF UpdateInv, AnyRuns, Running
  <2>4. ASSUME NEW k \in DOMAIN scripts PROVE ScriptFollows(k)'
    BY <1>7, <2>2, <2>3 DEF ScriptsFollow, ScriptFollows
  <2> QED
    BY <1>7, <2>2, <2>3, <2>4 DEF ScriptsFollow
<1> QED
  BY <1>7, <1>8, <1>9, <1>10 DEF UpdateInv

\* A script begins only where there was one server, which ends.
LEMMA ApplyKeeps ==
    ASSUME UpdateInv, NEW p \in DOMAIN servers, Apply(p), UNCHANGED healthy
    PROVE  UpdateInv'
<1>0. UNCHANGED <<published, asset, exe, bak, unpacked, proven, healthy>>
  BY DEF Apply
<1>1. CASE Checked(p, "none") /\ UNCHANGED <<scripts, scripts_overlapped>>
  <2>1. UpdateTypes'
    BY <1>0, <1>1, CheckMoves DEF UpdateInv, UpdateTypes
  <2> QED
    BY <1>0, <1>1, <2>1, CheckMoves, SameServers DEF UpdateInv
<1>2. CASE /\ scripts' = Append(scripts, "save")
           /\ scripts_overlapped' = (scripts_overlapped \/ AnyRuns)
           /\ servers' = [servers EXCEPT ![p].at = "gone"]
  <2>1. PICK s : s = [servers[p] EXCEPT !.at = "gone"]
    OBVIOUS
  <2>2. servers[p] \in Server
    BY ServerTypes
  <2>3. s \in Server /\ s.at = "gone"
    BY <2>1, <2>2 DEF Server
  <2>4. servers' = [servers EXCEPT ![p] = s] /\ servers \in Seq(Server) /\ scripts \in Seq(ScriptStep)
    BY <1>2, <2>1 DEF UpdateInv, UpdateTypes
  <2>5. /\ servers' \in Seq(Server) /\ DOMAIN servers' = DOMAIN servers
        /\ servers'[p].at = "gone" /\ \A q \in DOMAIN servers : q # p => servers'[q] = servers[q]
    BY <2>3, <2>4
  <2>6. /\ scripts' \in Seq(ScriptStep) /\ Len(scripts) \in Nat /\ DOMAIN scripts' = 1 .. Len(scripts) + 1
        /\ DOMAIN scripts = 1 .. Len(scripts)
        /\ scripts'[Len(scripts) + 1] = "save" /\ \A k \in DOMAIN scripts : scripts'[k] = scripts[k]
    <3>1. "save" \in ScriptStep
      BY DEF ScriptStep
    <3> QED
      BY <1>2, <2>4, <3>1
  <2>7. UpdateTypes'
    BY <1>0, <2>5, <2>6 DEF UpdateInv, UpdateTypes
  <2>8. ServingAreProven'
    BY <1>0, <2>5 DEF UpdateInv, ServingAreProven
  <2>9. ASSUME ~scripts_overlapped' PROVE ScriptsFollow'
    <3>1. ~AnyRuns /\ ScriptsFollow
      BY <1>2, <2>9 DEF UpdateInv
    <3>2. exe \in proven /\ OneServer(exe) /\ Up(p)
      BY <3>1 DEF ScriptsFollow, Apply, Checks
    <3>3. NoServer'
      BY <2>5, <3>2 DEF NoServer, OneServer, Up
    <3>4. \A k \in DOMAIN scripts' : k # Len(scripts) + 1 => scripts'[k] = "end"
      BY <2>6, <3>1 DEF AnyRuns, Running
    <3>5. AnyRuns'
      BY <2>6 DEF AnyRuns, Running
    <3>6. ASSUME NEW k \in DOMAIN scripts' PROVE ScriptFollows(k)'
      BY <1>0, <2>6, <3>2, <3>3, <3>4 DEF ScriptFollows
    <3> QED
      BY <2>6, <3>4, <3>5, <3>6 DEF ScriptsFollow, Running
  <2> QED
    BY <2>7, <2>8, <2>9 DEF UpdateInv
<1> QED
  BY <1>1, <1>2 DEF Apply

\* One step of a script, which is the only one that runs.
LEMMA ScriptMoves ==
    ASSUME UpdateInv, NEW k \in DOMAIN scripts, NEW move \in ScriptStep, Then(k, move), scripts[k] # "end"
    PROVE  /\ scripts' \in Seq(ScriptStep) /\ DOMAIN scripts' = DOMAIN scripts /\ scripts'[k] = move
           /\ ~scripts_overlapped =>
                 /\ ScriptsFollow /\ ScriptFollows(k)
                 /\ \A m \in DOMAIN scripts : m # k => scripts[m] = "end" /\ scripts'[m] = "end"
<1>1. scripts \in Seq(ScriptStep) /\ scripts' = [scripts EXCEPT ![k] = move]
  BY DEF UpdateInv, UpdateTypes, Then
<1>2. scripts' \in Seq(ScriptStep) /\ DOMAIN scripts' = DOMAIN scripts /\ scripts'[k] = move
      /\ \A m \in DOMAIN scripts : m # k => scripts'[m] = scripts[m]
  BY <1>1
<1>3. ASSUME ~scripts_overlapped
      PROVE  ScriptsFollow /\ \A m \in DOMAIN scripts : m # k => scripts[m] = "end"
  BY <1>3 DEF UpdateInv, ScriptsFollow, Running
<1> QED
  BY <1>2, <1>3 DEF ScriptsFollow

\* ... so that it is enough to look at what it leaves behind.
LEMMA OnlyScript ==
    ASSUME NEW k \in DOMAIN scripts, DOMAIN scripts' = DOMAIN scripts,
           \A m \in DOMAIN scripts : m # k => scripts'[m] = "end",
           ScriptFollows(k)', scripts'[k] = "end" => exe' \in proven' /\ OneServer(exe)'
    PROVE  ScriptsFollow'
<1>1. \A m \in DOMAIN scripts' : m # k => ScriptFollows(m)'
  BY DEF ScriptFollows
<1>2. ~AnyRuns' => exe' \in proven' /\ OneServer(exe)'
  BY DEF AnyRuns, Running
<1> QED
  BY <1>1, <1>2 DEF ScriptsFollow, Running

\* The steps that copy a binary.
LEMMA CopyKeeps ==
    ASSUME UpdateInv, NEW k \in DOMAIN scripts, SaveBinary(k) \/ Install(k) \/ RestoreBinary(k), UNCHANGED healthy
    PROVE  UpdateInv'
<1>1. PICK move \in ScriptStep : Then(k, move) /\ scripts[k] # "end"
  BY DEF SaveBinary, Install, RestoreBinary, ScriptStep
<1>2. UNCHANGED <<published, asset, unpacked, servers, proven, scripts_overlapped, healthy>>
  BY DEF SaveBinary, Install, RestoreBinary
<1>3. exe' \in 0 .. Releases /\ bak' \in 0 .. Releases
  BY DEF SaveBinary, Install, RestoreBinary, UpdateInv, UpdateTypes
<1>4. UpdateTypes'
  BY <1>1, <1>2, <1>3, ScriptMoves DEF UpdateInv, UpdateTypes
<1>5. ServingAreProven'
  BY <1>2 DEF UpdateInv, ServingAreProven
<1>6. ASSUME ~scripts_overlapped PROVE ScriptsFollow'
  <2>1. /\ ScriptFollows(k) /\ DOMAIN scripts' = DOMAIN scripts /\ scripts'[k] = move
        /\ \A m \in DOMAIN scripts : m # k => scripts'[m] = "end"
    BY <1>1, <1>6, ScriptMoves
  <2>2. NoServer' = NoServer
    BY <1>2 DEF NoServer, Up
  <2>3. CASE SaveBinary(k)
    <3>1. scripts[k] = "save" /\ scripts'[k] = "install" /\ bak' = exe
      BY <1>1, <2>1, <2>3, ScriptMoves DEF SaveBinary, ScriptStep
    <3>2. ScriptFollows(k)'
      BY <1>2, <2>1, <2>2, <3>1 DEF ScriptFollows
    <3> QED
      BY <2>1, <3>1, <3>2, OnlyScript
  <2>4. CASE Install(k)
    <3>1. scripts[k] = "install" /\ scripts'[k] = "start" /\ bak' = bak
      BY <1>1, <2>1, <2>4, ScriptMoves DEF Install, ScriptStep
    <3>2. ScriptFollows(k)'
      BY <1>2, <2>1, <2>2, <3>1 DEF ScriptFollows
    <3> QED
      BY <2>1, <3>1, <3>2, OnlyScript
  <2>5. CASE RestoreBinary(k)
    <3>1. scripts[k] = "restore" /\ scripts'[k] = "restart" /\ bak' = bak /\ exe' = bak
      BY <1>1, <2>1, <2>5, ScriptMoves DEF RestoreBinary, ScriptStep
    <3>2. ScriptFollows(k)'
      BY <1>2, <2>1, <2>2, <3>1 DEF ScriptFollows
    <3> QED
      BY <2>1, <3>1, <3>2, OnlyScript
  <2> QED
    BY <2>3, <2>4, <2>5
<1> QED
  BY <1>2, <1>4, <1>5, <1>6 DEF UpdateInv

LEMMA StartKeepsOne ==
    ASSUME UpdateInv, NEW k \in DOMAIN scripts, StartServer(k), UNCHANGED healthy
    PROVE  UpdateInv'
<1>1. PICK move \in ScriptStep : /\ Then(k, move) /\ scripts[k] # "end"
                                 /\ move = IF scripts[k] = "start" THEN "health" ELSE "end"
  BY DEF StartServer, ScriptStep
<1>2. UNCHANGED <<published, asset, exe, bak, unpacked, proven, scripts_overlapped, healthy>>
  BY DEF StartServer
<1>3. PICK s : s = NewServer(exe)
  OBVIOUS
<1>4. s \in Server /\ s.at = "boot" /\ s.release = exe
  BY <1>3 DEF NewServer, Server, UpdateInv, UpdateTypes
<1>5. servers' = Append(servers, s) /\ servers \in Seq(Server)
  BY <1>3 DEF StartServer, UpdateInv, UpdateTypes
<1>6. /\ servers' \in Seq(Server) /\ Len(servers) \in Nat /\ DOMAIN servers = 1 .. Len(servers)
      /\ DOMAIN servers' = 1 .. Len(servers) + 1
      /\ servers'[Len(servers) + 1] = s /\ \A q \in DOMAIN servers : servers'[q] = servers[q]
  BY <1>4, <1>5
<1>7. UpdateTypes'
  BY <1>1, <1>2, <1>6, ScriptMoves DEF UpdateInv, UpdateTypes
<1>8. ServingAreProven'
  BY <1>2, <1>4, <1>6 DEF UpdateInv, ServingAreProven
<1>9. ASSUME ~scripts_overlapped PROVE ScriptsFollow'
  <2>1. /\ ScriptFollows(k) /\ DOMAIN scripts' = DOMAIN scripts /\ scripts'[k] = move
        /\ \A m \in DOMAIN scripts : m # k => scripts'[m] = "end"
    BY <1>1, <1>9, ScriptMoves
  <2>2. scripts[k] \in {"start", "restart"}
    BY DEF StartServer
  <2>3. \A q \in DOMAIN servers : ~Up(q)
    BY <2>1, <2>2 DEF ScriptFollows, NoServer
  <2>4. OneServer(exe)'
    BY <1>2, <1>4, <1>6, <2>3 DEF OneServer, Up
  <2>5. ScriptFollows(k)'
    BY <1>1, <1>2, <2>1, <2>2, <2>4 DEF ScriptFollows
  <2>6. scripts'[k] = "end" => exe' \in proven'
    BY <1>1, <1>2, <2>1, <2>2 DEF ScriptFollows
  <2> QED
    BY <2>1, <2>4, <2>5, <2>6, OnlyScript
<1> QED
  BY <1>2, <1>7, <1>8, <1>9 DEF UpdateInv

LEMMA HealthKeeps ==
    ASSUME UpdateInv, NEW k \in DOMAIN scripts, CheckHealth(k), UNCHANGED healthy
    PROVE  UpdateInv'
<1>1. UNCHANGED <<published, asset, exe, bak, unpacked, proven, scripts_overlapped, healthy>> /\ scripts[k] = "health"
  BY DEF CheckHealth
<1>2. CASE \E p \in DOMAIN servers : servers[p].at = "serving"
  <2>1. Then(k, "end") /\ UNCHANGED servers /\ "end" \in ScriptStep
    BY <1>2 DEF CheckHealth, ScriptStep
  <2>2. UpdateTypes'
    BY <1>1, <2>1, ScriptMoves DEF UpdateInv, UpdateTypes
  <2>3. ServingAreProven'
    BY <1>1, <2>1 DEF UpdateInv, ServingAreProven
  <2>4. ASSUME ~scripts_overlapped PROVE ScriptsFollow'
    <3>1. /\ ScriptFollows(k) /\ DOMAIN scripts' = DOMAIN scripts /\ scripts'[k] = "end"
          /\ \A m \in DOMAIN scripts : m # k => scripts'[m] = "end"
      BY <1>1, <2>1, <2>4, ScriptMoves
    <3>2. PICK p \in DOMAIN servers : servers[p].at = "serving"
      BY <1>2
    <3>3. servers[p].release \in proven /\ Up(p)
      BY <3>2 DEF UpdateInv, ServingAreProven, Up
    <3>4. OneServer(exe) /\ exe \in proven
      BY <1>1, <3>1, <3>3 DEF ScriptFollows, OneServer
    <3>5. OneServer(exe)' /\ exe' \in proven'
      BY <1>1, <2>1, <3>4 DEF OneServer, Up
    <3>6. ScriptFollows(k)'
      BY <3>1 DEF ScriptFollows
    <3> QED
      BY <3>1, <3>5, <3>6, OnlyScript
  <2> QED
    BY <1>1, <2>2, <2>3, <2>4 DEF UpdateInv
<1>3. CASE ~\E p \in DOMAIN servers : servers[p].at = "serving"
  <2>1. /\ Then(k, "restore") /\ "restore" \in ScriptStep
        /\ servers' = [p \in DOMAIN servers |-> [servers[p] EXCEPT !.at = "gone"]]
    BY <1>3 DEF CheckHealth, ScriptStep
  <2>2. servers \in Seq(Server) /\ \A p \in DOMAIN servers : servers[p] \in Server
    BY DEF UpdateInv, UpdateTypes
  <2>3. \A s \in Server : [s EXCEPT !.at = "gone"] \in Server /\ [s EXCEPT !.at = "gone"].at = "gone"
    BY DEF Server
  <2>4. DOMAIN servers' = DOMAIN servers /\ \A p \in DOMAIN servers : servers'[p] \in Server /\ servers'[p].at = "gone"
    BY <2>1, <2>2, <2>3
  <2>5. servers' \in Seq(Server)
    <3>1. DOMAIN servers = 1 .. Len(servers) /\ Len(servers) \in Nat
      BY <2>2
    <3>2. servers' \in [1 .. Len(servers) -> Server]
      BY <2>1, <2>4, <3>1
    <3> QED
      BY <3>1, <3>2
  <2>6. UpdateTypes'
    BY <1>1, <2>1, <2>5, ScriptMoves DEF UpdateInv, UpdateTypes
  <2>7. ServingAreProven'
    BY <2>4 DEF ServingAreProven
  <2>8. ASSUME ~scripts_overlapped PROVE ScriptsFollow'
    <3>1. /\ ScriptFollows(k) /\ DOMAIN scripts' = DOMAIN scripts /\ scripts'[k] = "restore"
          /\ \A m \in DOMAIN scripts : m # k => scripts'[m] = "end"
      BY <1>1, <2>1, <2>8, ScriptMoves
    <3>2. NoServer'
      BY <2>4 DEF NoServer, Up
    <3>3. ScriptFollows(k)'
      BY <1>1, <3>1, <3>2 DEF ScriptFollows
    <3> QED
      BY <3>1, <3>3, OnlyScript
  <2> QED
    BY <1>1, <2>6, <2>7, <2>8 DEF UpdateInv
<1> QED
  BY <1>2, <1>3

LEMMA UpdateStepKeeps == UpdateInv /\ UpdateStep => UpdateInv'
BY PublishKeeps, ServeKeeps, CheckKeeps, ApplyKeeps, CopyKeeps, StartKeepsOne, HealthKeeps DEF UpdateStep

LEMMA UpdateRests == UpdateInv /\ UNCHANGED updateVars => UpdateInv'
<1> SUFFICES ASSUME UpdateInv, UNCHANGED updateVars PROVE UpdateInv'
  OBVIOUS
<1>1. UpdateTypes'
  BY DEF UpdateInv, UpdateTypes, updateVars
<1> QED
  BY <1>1, SameServers DEF UpdateInv, updateVars

LEMMA UpdatesUndone == UpdateInv => UpdatesFallBack /\ UpdateOK
<1> SUFFICES ASSUME UpdateInv PROVE UpdatesFallBack /\ UpdateOK
  OBVIOUS
<1>1. UpdatesFallBack
  BY DEF UpdateInv, UpdatesFallBack, ScriptsFollow, ScriptFollows, OneServer
<1>2. UpdateOK
  <2>1. \A k \in DOMAIN scripts : scripts[k] \in ScriptStep
    BY DEF UpdateInv, UpdateTypes
  <2>2. \A p \in DOMAIN servers : servers[p] \in Server
    BY ServerTypes
  <2> QED
    BY <2>1, <2>2 DEF UpdateOK, UpdateInv, UpdateTypes, Server, ScriptStep
<1> QED
  BY <1>1, <1>2
-----------------------------------------------------------------------------
(***************************************************************************)
(* Ephemeral pods (EphemeralPod): an answer is of the call's own time.     *)
(***************************************************************************)
QueryRecord ==
    [at : {"rest", "copy", "spawn", "send", "wait", "answered", "failed"}, table : PodTable \cup {""},
     wanted : Seq(PodTable), named : SUBSET PodTable, copies : Seq(PodTable \X Nat),
     from : Nat, left : Nat, answer : Nat]

WorkerRecord ==
    [at : {"none", "read", "run", "write", "ended", "killed"}, in : Nat, out : Nat, read : Nat, left : Nat,
     answer : Nat]

PodTypes ==
    /\ server_tables \in [PodTable -> Nat]
    /\ queries \in [Asker -> QueryRecord]
    /\ workers \in [Asker -> WorkerRecord]

\* What was copied of the table asked for is of the time of the call, and a table that was there and
\* is named has been copied or is still to be.
CopiesFollow(q) ==
    q.at # "rest" =>
        /\ q.table \in PodTable /\ q.from <= server_tables[q.table]
        /\ \A i \in DOMAIN q.copies : q.copies[i][1] = q.table =>
              q.copies[i][2] # 0 /\ q.copies[i][2] \in q.from .. server_tables[q.table]
        /\ q.from > 0 /\ q.table \in q.named =>
              \/ \E i \in DOMAIN q.wanted : q.wanted[i] = q.table
              \/ \E i \in DOMAIN q.copies : q.copies[i][1] = q.table
        /\ q.at # "copy" => q.wanted = <<>>

IsAnswerTo(q, n) ==
    IF n = 0 THEN q.from = 0 \/ q.table \notin q.named ELSE n \in q.from .. server_tables[q.table]

\* A worker there is only of a call that has its copies, and what it answers is an answer.
WorkerFollows(q, w) ==
    /\ w.at # "none" => q.at \in {"send", "wait", "answered", "failed"}
    /\ w.at \in {"write", "ended"} => IsAnswerTo(q, w.answer)
    /\ q.at = "answered" => IsAnswerTo(q, q.answer)

CallFollows(a) == CopiesFollow(queries[a]) /\ WorkerFollows(queries[a], workers[a])

PodInv == PodTypes /\ \A a \in Asker : CallFollows(a)

LEMMA PodStart == PodInit => PodInv
<1> SUFFICES ASSUME PodInit PROVE PodInv
  OBVIOUS
<1>1. NoQuery \in QueryRecord /\ NoQuery.at = "rest"
  BY DEF NoQuery, QueryRecord
<1>2. NoWorker \in WorkerRecord /\ NoWorker.at = "none"
  BY DEF NoWorker, WorkerRecord
<1>3. \A a \in Asker : queries[a] = NoQuery /\ workers[a] = NoWorker
  BY DEF PodInit
<1>4. PodTypes
  BY <1>1, <1>2 DEF PodInit, PodTypes
<1>5. ASSUME NEW a \in Asker PROVE CallFollows(a)
  BY <1>1, <1>2, <1>3 DEF CallFollows, CopiesFollow, WorkerFollows
<1> QED
  BY <1>4, <1>5 DEF PodInv

LEMMA PodTyped ==
    ASSUME PodInv, NEW a \in Asker
    PROVE  queries[a] \in QueryRecord /\ workers[a] \in WorkerRecord /\ CopiesFollow(queries[a])
           /\ WorkerFollows(queries[a], workers[a])
BY DEF PodInv, PodTypes, CallFollows

\* A step of one call.
LEMMA CallStep ==
    ASSUME PodInv, NEW a \in Asker, NEW q \in QueryRecord, NEW w \in WorkerRecord, UNCHANGED server_tables,
           queries' = [queries EXCEPT ![a] = q], workers' = [workers EXCEPT ![a] = w],
           CopiesFollow(q), WorkerFollows(q, w)
    PROVE  PodInv'
<1>1. PodTypes'
  BY DEF PodInv, PodTypes
<1>2. ASSUME NEW b \in Asker PROVE CallFollows(b)'
  <2>1. queries'[b] = (IF b = a THEN q ELSE queries[b]) /\ workers'[b] = (IF b = a THEN w ELSE workers[b])
    BY DEF PodInv, PodTypes
  <2>2. CASE b = a
    BY <2>1, <2>2 DEF CallFollows, CopiesFollow, WorkerFollows, IsAnswerTo
  <2>3. CASE b # a
    BY <2>1, <2>3 DEF PodInv, CallFollows, CopiesFollow, WorkerFollows, IsAnswerTo
  <2> QED
    BY <2>2, <2>3
<1> QED
  BY <1>1, <1>2 DEF PodInv

LEMMA EditKeeps == ASSUME PodInv, NEW t \in PodTable, EditTable(t) PROVE PodInv'
<1>1. server_tables \in [PodTable -> Nat]
  BY DEF PodInv, PodTypes
<1>2. server_tables' = [server_tables EXCEPT ![t] = @ + 1] /\ UNCHANGED <<queries, workers>>
  BY DEF EditTable
<1>3. server_tables' \in [PodTable -> Nat] /\ \A u \in PodTable : server_tables[u] <= server_tables'[u]
  BY <1>1, <1>2
<1>4. PodTypes'
  BY <1>2, <1>3 DEF PodInv, PodTypes
<1>5. ASSUME NEW a \in Asker PROVE CallFollows(a)'
  <2>1. PICK q, w : q = queries[a] /\ w = workers[a]
    OBVIOUS
  <2>2. q \in QueryRecord /\ w \in WorkerRecord /\ CopiesFollow(q) /\ WorkerFollows(q, w)
    BY <2>1, PodTyped
  <2>3. \A i \in DOMAIN q.copies : q.copies[i] \in PodTable \X Nat
    <3>1. q.copies \in Seq(PodTable \X Nat)
      BY <2>2 DEF QueryRecord
    <3>2. DOMAIN q.copies = 1 .. Len(q.copies)
      BY <3>1
    <3> QED
      BY <3>1, <3>2
  <2>4. q.from \in Nat /\ w.answer \in Nat /\ q.answer \in Nat
    BY <2>2 DEF QueryRecord, WorkerRecord
  <2>5. \A n \in Nat : q.table \in PodTable /\ n \in q.from .. server_tables[q.table] => n \in q.from .. server_tables'[q.table]
    BY <1>1, <1>3, <2>4
  <2>6. CopiesFollow(q)'
    <3> SUFFICES ASSUME q.at # "rest" PROVE CopiesFollow(q)'
      BY DEF CopiesFollow
    <3>1. q.table \in PodTable /\ q.from <= server_tables'[q.table]
      BY <1>1, <1>3, <2>2, <2>4 DEF CopiesFollow
    <3>2. ASSUME NEW i \in DOMAIN q.copies, q.copies[i][1] = q.table
          PROVE  q.copies[i][2] # 0 /\ q.copies[i][2] \in q.from .. server_tables'[q.table]
      <4>1. q.copies[i][2] \in Nat /\ q.copies[i][2] # 0 /\ q.copies[i][2] \in q.from .. server_tables[q.table]
        BY <2>2, <2>3, <3>2 DEF CopiesFollow
      <4> QED
        BY <2>5, <3>1, <4>1
    <3> QED
      BY <2>2, <3>1, <3>2 DEF CopiesFollow
  <2>7. WorkerFollows(q, w)'
    <3>1. ASSUME NEW n \in Nat, IsAnswerTo(q, n), q.at # "rest" PROVE IsAnswerTo(q, n)'
      <4>1. q.table \in PodTable
        BY <2>2, <3>1 DEF CopiesFollow
      <4> QED
        BY <2>5, <3>1, <4>1 DEF IsAnswerTo
    <3> QED
      BY <2>2, <2>4, <3>1 DEF WorkerFollows
  <2>8. queries'[a] = q /\ workers'[a] = w
    BY <1>2, <2>1
  <2> QED
    BY <2>6, <2>7, <2>8 DEF CallFollows, CopiesFollow, WorkerFollows, IsAnswerTo
<1> QED
  BY <1>4, <1>5 DEF PodInv

LEMMA AskKeeps ==
    ASSUME PodInv, NEW a \in Asker, NEW names \in Seq(PodTable), NEW t \in PodTable, AskPod(a, names, t)
    PROVE  PodInv'
<1>1. PICK q : q = [NoQuery EXCEPT !.at = "copy", !.table = t, !.wanted = names,
                                  !.named = {names[i] : i \in DOMAIN names}, !.from = server_tables[t]]
  OBVIOUS
<1>2. /\ q.at = "copy" /\ q.table = t /\ q.wanted = names /\ q.named = {names[i] : i \in DOMAIN names}
      /\ q.from = server_tables[t] /\ q.copies = <<>> /\ q.left = 0 /\ q.answer = 0
  BY <1>1 DEF NoQuery
<1>3. server_tables[t] \in Nat /\ \A i \in DOMAIN names : names[i] \in PodTable
  BY DEF PodInv, PodTypes
<1>4. q \in QueryRecord
  <2>1. q.named \in SUBSET PodTable /\ <<>> \in Seq(PodTable \X Nat)
    BY <1>2, <1>3
  <2>2. q = [at |-> q.at, table |-> q.table, wanted |-> q.wanted, named |-> q.named, copies |-> q.copies,
             from |-> q.from, left |-> q.left, answer |-> q.answer]
    BY <1>1 DEF NoQuery
  <2>3. /\ q.at \in {"rest", "copy", "spawn", "send", "wait", "answered", "failed"}
        /\ q.table \in PodTable \cup {""} /\ q.wanted \in Seq(PodTable) /\ q.named \in SUBSET PodTable
        /\ q.copies \in Seq(PodTable \X Nat) /\ q.from \in Nat /\ q.left \in Nat /\ q.answer \in Nat
    <3>1. q.table \in PodTable \cup {""} /\ q.wanted \in Seq(PodTable) /\ q.from \in Nat
      BY <1>2, <1>3
    <3>2. q.copies \in Seq(PodTable \X Nat) /\ q.named \in SUBSET PodTable
      BY <1>2, <2>1
    <3>3. q.at = "copy" /\ q.left \in Nat /\ q.answer \in Nat
      BY <1>2
    <3> QED
      BY ONLY <3>1, <3>2, <3>3
  <2> QED
    BY ONLY <2>2, <2>3 DEF QueryRecord
<1>5. workers[a] \in WorkerRecord /\ WorkerFollows(queries[a], workers[a]) /\ queries[a].at = "rest"
  BY PodTyped DEF AskPod
<1>6. CopiesFollow(q)
  BY <1>2, <1>3 DEF CopiesFollow
<1>7. WorkerFollows(q, workers[a])
  BY <1>2, <1>5 DEF WorkerFollows
<1>8. queries' = [queries EXCEPT ![a] = q] /\ workers' = [workers EXCEPT ![a] = workers[a]] /\ UNCHANGED server_tables
  BY <1>1 DEF AskPod, PodInv, PodTypes
<1> QED
  BY <1>4, <1>5, <1>6, <1>7, <1>8, CallStep

\* The same call, at another stage.
SameCall(q, r) ==
    /\ r.table = q.table /\ r.wanted = q.wanted /\ r.named = q.named /\ r.copies = q.copies /\ r.from = q.from
    /\ q.at \notin {"rest", "copy"} /\ r.at \notin {"rest", "copy"}

LEMMA SameCallFollows ==
    ASSUME NEW q, NEW r, SameCall(q, r)
    PROVE  /\ CopiesFollow(q) => CopiesFollow(r)
           /\ \A n : IsAnswerTo(q, n) <=> IsAnswerTo(r, n)
BY DEF SameCall, CopiesFollow, IsAnswerTo

LEMMA CopyTableKeeps == ASSUME PodInv, NEW a \in Asker, CopyTable(a) PROVE PodInv'
<1>1. PICK q : q = queries[a]
  OBVIOUS
<1>2. q \in QueryRecord /\ workers[a] \in WorkerRecord /\ CopiesFollow(q) /\ WorkerFollows(q, workers[a])
  BY <1>1, PodTyped
<1>3. q.at = "copy" /\ workers[a].at = "none"
  BY <1>1, <1>2 DEF CopyTable, WorkerFollows, WorkerRecord
<1>4. PICK r : /\ queries' = [queries EXCEPT ![a] = r]
               /\ r = IF queries[a].wanted = <<>> THEN [queries[a] EXCEPT !.at = "spawn"]
                      ELSE [queries[a] EXCEPT !.wanted = Tail(queries[a].wanted),
                              !.copies = IF server_tables[Head(queries[a].wanted)] = 0 THEN queries[a].copies
                                         ELSE Append(queries[a].copies,
                                                     <<Head(queries[a].wanted), server_tables[Head(queries[a].wanted)]>>)]
  BY Zenon DEF CopyTable
<1>5. workers' = [workers EXCEPT ![a] = workers[a]] /\ UNCHANGED server_tables
  BY DEF CopyTable, PodInv, PodTypes
<1>6. /\ q.wanted \in Seq(PodTable) /\ q.copies \in Seq(PodTable \X Nat) /\ q.from \in Nat
      /\ q.table \in PodTable /\ server_tables \in [PodTable -> Nat]
  BY <1>2, <1>3 DEF QueryRecord, CopiesFollow, PodInv, PodTypes
<1>7. CASE q.wanted = <<>>
  <2>1. /\ r \in QueryRecord /\ r.at = "spawn" /\ r.table = q.table /\ r.wanted = <<>>
        /\ r.named = q.named /\ r.copies = q.copies /\ r.from = q.from
    BY <1>1, <1>2, <1>4, <1>7 DEF QueryRecord
  <2>2. CopiesFollow(r)
    BY <1>2, <1>3, <1>7, <2>1 DEF CopiesFollow
  <2>3. WorkerFollows(r, workers[a])
    BY <1>3, <2>1 DEF WorkerFollows
  <2> QED
    BY <1>2, <1>4, <1>5, <2>1, <2>2, <2>3, CallStep
<1>8. CASE q.wanted # <<>>
  <2>1. PICK t, rest, n : t = Head(q.wanted) /\ rest = Tail(q.wanted) /\ n = server_tables[t]
    OBVIOUS
  <2>2. /\ t \in PodTable /\ rest \in Seq(PodTable) /\ n \in Nat /\ Len(q.wanted) \in Nat /\ Len(q.wanted) >= 1
        /\ t = q.wanted[1] /\ Len(rest) = Len(q.wanted) - 1 /\ \A i \in 1 .. Len(rest) : rest[i] = q.wanted[i + 1]
        /\ DOMAIN rest = 1 .. Len(rest) /\ DOMAIN q.wanted = 1 .. Len(q.wanted)
    BY <1>6, <1>8, <2>1
  <2>3. PICK copies : copies = IF n = 0 THEN q.copies ELSE Append(q.copies, <<t, n>>)
    OBVIOUS
  <2>4. r = [q EXCEPT !.wanted = rest, !.copies = copies]
    BY <1>1, <1>2, <1>4, <1>8, <2>1, <2>3 DEF QueryRecord
  <2>5. copies \in Seq(PodTable \X Nat) /\ DOMAIN copies = 1 .. Len(copies) /\ Len(q.copies) \in Nat
        /\ DOMAIN q.copies = 1 .. Len(q.copies)
    <3>1. <<t, n>> \in PodTable \X Nat
      BY <2>2
    <3> QED
      BY <1>6, <2>3, <3>1
  <2>6. /\ r \in QueryRecord /\ r.at = "copy" /\ r.table = q.table /\ r.wanted = rest
        /\ r.named = q.named /\ r.copies = copies /\ r.from = q.from
    BY <1>2, <1>3, <2>2, <2>4, <2>5 DEF QueryRecord
  <2>7. n # 0 => Len(copies) = Len(q.copies) + 1 /\ copies[Len(q.copies) + 1] = <<t, n>>
    BY <2>2, <2>3, <2>5
  <2>8. \A i \in 1 .. Len(q.copies) : i \in DOMAIN copies /\ copies[i] = q.copies[i]
    BY <1>6, <2>3, <2>5
  <2>9. ASSUME NEW i \in DOMAIN copies, copies[i][1] = q.table
        PROVE  copies[i][2] # 0 /\ copies[i][2] \in q.from .. server_tables[q.table]
    <3>1. CASE i \in 1 .. Len(q.copies)
      BY <1>2, <1>3, <2>5, <2>8, <2>9, <3>1 DEF CopiesFollow
    <3>2. CASE i \notin 1 .. Len(q.copies)
      <4>1. n # 0 /\ i = Len(q.copies) + 1
        BY <2>3, <2>5, <2>7, <3>2
      <4>2. copies[i] = <<t, n>> /\ t = q.table
        BY <2>7, <2>9, <4>1
      <4>3. q.from <= n
        BY <1>2, <1>3, <2>1, <4>2 DEF CopiesFollow
      <4> QED
        BY <1>6, <2>1, <2>2, <4>1, <4>2, <4>3
    <3> QED
      BY <3>1, <3>2
  <2>10. ASSUME q.from > 0, q.table \in q.named
         PROVE  \/ \E i \in DOMAIN rest : rest[i] = q.table
                \/ \E i \in DOMAIN copies : copies[i][1] = q.table
    <3>1. CASE \E i \in DOMAIN q.copies : q.copies[i][1] = q.table
      BY <2>5, <2>8, <3>1
    <3>2. CASE \E i \in DOMAIN q.wanted : q.wanted[i] = q.table
      <4>1. PICK i \in 1 .. Len(q.wanted) : q.wanted[i] = q.table
        BY <2>2, <3>2
      <4>2. CASE i = 1
        <5>1. t = q.table /\ q.from <= n
          BY <1>2, <1>3, <2>1, <2>2, <4>1, <4>2 DEF CopiesFollow
        <5>2. n # 0
          BY <1>6, <2>2, <2>10, <5>1
        <5>3. Len(q.copies) + 1 \in DOMAIN copies /\ copies[Len(q.copies) + 1][1] = q.table
          <6>1. copies[Len(q.copies) + 1] = <<t, n>> /\ Len(copies) = Len(q.copies) + 1
            BY <2>7, <5>2
          <6>2. Len(q.copies) + 1 \in DOMAIN copies
            BY <2>5, <6>1
          <6> QED
            BY <5>1, <6>1, <6>2
        <5> QED
          BY <5>3
      <4>3. CASE i # 1
        <5>1. i - 1 \in 1 .. Len(rest) /\ (i - 1) + 1 = i
          BY <2>2, <4>3
        <5>2. rest[i - 1] = q.table
          BY <2>2, <4>1, <5>1
        <5> QED
          BY <2>2, <5>1, <5>2
      <4> QED
        BY <4>2, <4>3
    <3> QED
      BY <1>2, <1>3, <2>10, <3>1, <3>2 DEF CopiesFollow
  <2>11. CopiesFollow(r)
    BY <1>2, <1>3, <2>6, <2>9, <2>10 DEF CopiesFollow
  <2>12. WorkerFollows(r, workers[a])
    BY <1>3, <2>6 DEF WorkerFollows
  <2> QED
    BY <1>2, <1>4, <1>5, <2>6, <2>11, <2>12, CallStep
<1> QED
  BY <1>7, <1>8

\* What the call and its worker do when the copies are made.
LEMMA SpawnKeeps == ASSUME PodInv, NEW a \in Asker, Spawn(a) PROVE PodInv'
<1>1. PICK q, w : q = queries[a] /\ w = workers[a]
  OBVIOUS
<1>2. /\ q \in QueryRecord /\ w \in WorkerRecord /\ CopiesFollow(q) /\ WorkerFollows(q, w) /\ q.at = "spawn"
      /\ q.left \in Nat /\ q.answer \in Nat /\ Chunks \in Nat /\ w.at = "none"
  BY <1>1, PodTyped, PodAssumption DEF Spawn, QueryRecord, WorkerFollows
<1>3. CASE queries' = [queries EXCEPT ![a].at = "send", ![a].left = Chunks] /\ workers' = [workers EXCEPT ![a].at = "read"]
  <2>1. PICK r, v : r = [q EXCEPT !.at = "send", !.left = Chunks] /\ v = [w EXCEPT !.at = "read"]
    OBVIOUS
  <2>5. r \in QueryRecord /\ r.at = "send" /\ SameCall(q, r)
    BY <1>2, <2>1 DEF QueryRecord, SameCall
  <2>2. CopiesFollow(r)
    BY <1>2, <2>5, SameCallFollows
  <2>3. v \in WorkerRecord /\ v.at = "read"
    BY <1>2, <2>1 DEF WorkerRecord
  <2>4. WorkerFollows(r, v)
    BY <2>3, <2>5 DEF WorkerFollows
  <2>6. queries' = [queries EXCEPT ![a] = r] /\ workers' = [workers EXCEPT ![a] = v] /\ UNCHANGED server_tables
    BY <1>1, <1>3, <2>1 DEF Spawn, PodInv, PodTypes
  <2> QED
    BY <2>2, <2>3, <2>4, <2>5, <2>6, CallStep
<1>4. CASE queries' = [queries EXCEPT ![a].at = "failed"] /\ UNCHANGED workers
  <2>1. PICK r : r = [q EXCEPT !.at = "failed"]
    OBVIOUS
  <2>5. r \in QueryRecord /\ r.at = "failed" /\ SameCall(q, r)
    BY <1>2, <2>1 DEF QueryRecord, SameCall
  <2>2. CopiesFollow(r)
    BY <1>2, <2>5, SameCallFollows
  <2>4. WorkerFollows(r, w)
    BY <1>2, <2>5 DEF WorkerFollows
  <2>6. queries' = [queries EXCEPT ![a] = r] /\ workers' = [workers EXCEPT ![a] = w] /\ UNCHANGED server_tables
    BY <1>1, <1>4, <2>1 DEF Spawn, PodInv, PodTypes
  <2> QED
    BY <1>2, <2>2, <2>4, <2>5, <2>6, CallStep
<1> QED
  BY <1>3, <1>4 DEF Spawn

LEMMA SendKeeps == ASSUME PodInv, NEW a \in Asker, SendChunk(a) PROVE PodInv'
<1>1. PICK q, w : q = queries[a] /\ w = workers[a]
  OBVIOUS
<1>2. /\ q \in QueryRecord /\ w \in WorkerRecord /\ CopiesFollow(q) /\ WorkerFollows(q, w) /\ q.at = "send"
      /\ q.left \in Nat /\ w.in \in Nat
  BY <1>1, PodTyped DEF SendChunk, QueryRecord, WorkerRecord
<1>3. CASE /\ queries' = [queries EXCEPT ![a].left = @ - 1] /\ workers' = [workers EXCEPT ![a].in = @ + 1]
           /\ q.left # 0
  <2>1. PICK r, v : r = [q EXCEPT !.left = q.left - 1] /\ v = [w EXCEPT !.in = w.in + 1]
    OBVIOUS
  <2>7. q.left - 1 \in Nat
    BY <1>2, <1>3
  <2>5. r \in QueryRecord /\ r.at = "send" /\ SameCall(q, r)
    BY <1>2, <2>1, <2>7 DEF QueryRecord, SameCall
  <2>2. CopiesFollow(r) /\ \A n : IsAnswerTo(q, n) <=> IsAnswerTo(r, n)
    BY <1>2, <2>5, SameCallFollows
  <2>3. v \in WorkerRecord /\ v.at = w.at /\ v.answer = w.answer
    BY <1>2, <2>1 DEF WorkerRecord
  <2>4. WorkerFollows(r, v)
    BY <1>2, <2>2, <2>3, <2>5 DEF WorkerFollows
  <2>6. queries' = [queries EXCEPT ![a] = r] /\ workers' = [workers EXCEPT ![a] = v] /\ UNCHANGED server_tables
    BY <1>1, <1>3, <2>1 DEF SendChunk, PodInv, PodTypes
  <2> QED
    BY <2>2, <2>3, <2>4, <2>5, <2>6, CallStep
<1>4. ASSUME NEW at \in {"failed", "wait"}, queries' = [queries EXCEPT ![a].at = at], UNCHANGED workers
      PROVE  PodInv'
  <2>1. PICK r : r = [q EXCEPT !.at = at]
    OBVIOUS
  <2>5. r \in QueryRecord /\ r.at = at /\ SameCall(q, r)
    BY <1>2, <2>1 DEF QueryRecord, SameCall
  <2>2. CopiesFollow(r) /\ \A n : IsAnswerTo(q, n) <=> IsAnswerTo(r, n)
    BY <1>2, <2>5, SameCallFollows
  <2>4. WorkerFollows(r, w)
    BY <1>2, <2>2, <2>5 DEF WorkerFollows
  <2>6. queries' = [queries EXCEPT ![a] = r] /\ workers' = [workers EXCEPT ![a] = w] /\ UNCHANGED server_tables
    BY <1>1, <1>4, <2>1 DEF SendChunk, PodInv, PodTypes
  <2> QED
    BY <1>2, <2>2, <2>4, <2>5, <2>6, CallStep
<1> QED
  BY <1>1, <1>3, <1>4 DEF SendChunk

LEMMA EndKeeps == ASSUME PodInv, NEW a \in Asker, EndCall(a) PROVE PodInv'
<1>1. PICK q, w : q = queries[a] /\ w = workers[a]
  OBVIOUS
<1>2. /\ q \in QueryRecord /\ w \in WorkerRecord /\ CopiesFollow(q) /\ WorkerFollows(q, w) /\ q.at = "wait"
      /\ w.at \in {"ended", "killed"} /\ w.answer \in Nat
  BY <1>1, PodTyped DEF EndCall, WorkerRecord
<1>3. PICK r : r = IF w.at = "killed" THEN [q EXCEPT !.at = "failed"]
                   ELSE [q EXCEPT !.at = "answered", !.answer = w.answer]
  OBVIOUS
<1>4. /\ r \in QueryRecord /\ r.at \in {"failed", "answered"} /\ SameCall(q, r)
      /\ r.at = "answered" => w.at = "ended" /\ r.answer = w.answer
  <2>1. CASE w.at = "killed"
    BY <1>2, <1>3, <2>1 DEF QueryRecord, SameCall
  <2>2. CASE w.at # "killed"
    BY <1>2, <1>3, <2>2 DEF QueryRecord, SameCall
  <2> QED
    BY <2>1, <2>2
<1>5. CopiesFollow(r) /\ \A n : IsAnswerTo(q, n) <=> IsAnswerTo(r, n)
  BY <1>2, <1>4, SameCallFollows
<1>6. WorkerFollows(r, w)
  BY <1>2, <1>4, <1>5 DEF WorkerFollows
<1>7. queries' = [queries EXCEPT ![a] = r] /\ workers' = [workers EXCEPT ![a] = w] /\ UNCHANGED server_tables
  BY <1>1, <1>3 DEF EndCall, PodInv, PodTypes
<1> QED
  BY <1>2, <1>4, <1>5, <1>6, <1>7, CallStep

\* The statement answers with the latest copy of its table, or fails without one.
LEMMA ExecutedAnswers ==
    ASSUME PodInv, NEW a \in Asker, queries[a].at \notin {"rest", "copy"}
    PROVE  LET copied == CopyOf(a, queries[a].table)
               n == IF copied = {} THEN 0 ELSE CHOOSE m \in copied : \A o \in copied : o <= m IN
           n \in Nat /\ IsAnswerTo(queries[a], n)
<1>1. PICK q : q = queries[a]
  OBVIOUS
<1>2. q \in QueryRecord /\ CopiesFollow(q) /\ q.at \notin {"rest", "copy"}
  BY <1>1, PodTyped
<1>3. PICK copied : copied = CopyOf(a, queries[a].table)
  OBVIOUS
<1>4. copied = {q.copies[i][2] : i \in {j \in DOMAIN q.copies : q.copies[j][1] = q.table}}
  BY <1>1, <1>3 DEF CopyOf
<1>5. q.copies \in Seq(PodTable \X Nat) /\ q.from \in Nat /\ q.table \in PodTable /\ server_tables \in [PodTable -> Nat]
  BY <1>2 DEF QueryRecord, CopiesFollow, PodInv, PodTypes
<1>6. \A n \in copied : n # 0 /\ n \in q.from .. server_tables[q.table] /\ n \in Nat
  <2>1. \A i \in DOMAIN q.copies : q.copies[i] \in PodTable \X Nat
    BY <1>5
  <2> QED
    BY <1>2, <1>4, <1>5, <2>1 DEF CopiesFollow
<1>7. CASE copied = {}
  <2>1. q.wanted = <<>> /\ DOMAIN q.wanted = {}
    BY <1>2 DEF CopiesFollow
  <2>2. q.from = 0 \/ q.table \notin q.named
    <3>1. \A i \in DOMAIN q.copies : q.copies[i][1] # q.table
      BY <1>4, <1>7
    <3>2. ~(q.from > 0 /\ q.table \in q.named)
      BY <1>2, <2>1, <3>1 DEF CopiesFollow
    <3> QED
      BY <1>5, <3>2
  <2> QED
    BY <1>1, <1>3, <1>7, <2>2 DEF IsAnswerTo
<1>8. CASE copied # {}
  <2>1. PICK top \in Nat : top = server_tables[q.table]
    BY <1>5
  <2>2. \A n \in copied : n \in Nat /\ n <= top /\ top - n \in Nat
    BY <1>5, <1>6, <2>1
  <2>3. PICK low \in {top - n : n \in copied} : \A y \in {top - n : n \in copied} : low <= y
    <3>1. {top - n : n \in copied} \subseteq Nat /\ {top - n : n \in copied} # {}
      BY <1>8, <2>2
    <3> QED
      BY <3>1, LeastOf
  <2>4. PICK m \in copied : low = top - m
    BY <2>3
  <2>5. \A o \in copied : o <= m
    <3> SUFFICES ASSUME NEW o \in copied PROVE o <= m
      OBVIOUS
    <3>1. top - m <= top - o
      BY <2>3, <2>4
    <3> QED
      BY <2>2, <3>1
  <2>6. PICK n : n = CHOOSE k \in copied : \A o \in copied : o <= k
    OBVIOUS
  <2>7. n \in copied
    BY <2>5, <2>6
  <2> QED
    BY <1>1, <1>3, <1>6, <1>8, <2>6, <2>7 DEF IsAnswerTo
<1> QED
  BY <1>7, <1>8

LEMMA WorkerKeeps ==
    ASSUME PodInv, NEW a \in Asker,
           WorkerReads(a) \/ WorkerExecutes(a) \/ WorkerWrites(a) \/ KillWorker(a) \/ ReadOutput(a)
    PROVE  PodInv'
<1>1. PICK q, w : q = queries[a] /\ w = workers[a]
  OBVIOUS
<1>2. /\ q \in QueryRecord /\ w \in WorkerRecord /\ CopiesFollow(q) /\ WorkerFollows(q, w)
      /\ w.in \in Nat /\ w.out \in Nat /\ w.left \in Nat /\ Chunks \in Nat
  BY <1>1, PodTyped, PodAssumption DEF WorkerRecord
<1>3. UNCHANGED <<server_tables, queries>>
  BY DEF WorkerReads, WorkerExecutes, WorkerWrites, KillWorker, ReadOutput
<1>4. queries' = [queries EXCEPT ![a] = q]
  BY <1>1, <1>3 DEF PodInv, PodTypes
<1>5. ASSUME NEW v \in WorkerRecord, workers' = [workers EXCEPT ![a] = v], v.at # "none", w.at # "none",
             v.at \in {"write", "ended"} => IsAnswerTo(q, v.answer)
      PROVE  PodInv'
  <2>1. WorkerFollows(q, v)
    BY <1>2, <1>5 DEF WorkerFollows
  <2> QED
    BY <1>2, <1>3, <1>4, <1>5, <2>1, CallStep
<1>6. CASE WorkerReads(a)
  <2>1. CASE w.in > 0 /\ workers' = [workers EXCEPT ![a].in = @ - 1]
    <3>1. PICK v : v = [w EXCEPT !.in = w.in - 1]
      OBVIOUS
    <3>2. v \in WorkerRecord /\ v.at = "read" /\ w.at = "read"
      BY <1>1, <1>2, <1>6, <2>1, <3>1 DEF WorkerReads, WorkerRecord
    <3> QED
      BY <1>1, <1>5, <2>1, <3>1, <3>2
  <2>2. CASE workers' = [workers EXCEPT ![a].at = "run"]
    <3>1. PICK v : v = [w EXCEPT !.at = "run"]
      OBVIOUS
    <3>2. v \in WorkerRecord /\ v.at = "run" /\ w.at = "read"
      BY <1>1, <1>2, <1>6, <3>1 DEF WorkerReads, WorkerRecord
    <3> QED
      BY <1>1, <1>5, <2>2, <3>1, <3>2
  <2> QED
    BY <1>1, <1>6, <2>1, <2>2 DEF WorkerReads
<1>7. CASE WorkerExecutes(a)
  <2>1. PICK n : n = IF CopyOf(a, queries[a].table) = {} THEN 0
                     ELSE CHOOSE m \in CopyOf(a, queries[a].table) : \A o \in CopyOf(a, queries[a].table) : o <= m
    OBVIOUS
  <2>2. w.at = "run" /\ q.at \notin {"rest", "copy"}
    BY <1>1, <1>2, <1>7 DEF WorkerExecutes, WorkerFollows
  <2>3. n \in Nat /\ IsAnswerTo(q, n)
    BY <1>1, <2>1, <2>2, ExecutedAnswers
  <2>4. PICK v : v = [w EXCEPT !.at = "write", !.left = Chunks, !.answer = n]
    OBVIOUS
  <2>5. v \in WorkerRecord /\ v.at = "write" /\ v.answer = n
    BY <1>2, <2>3, <2>4 DEF WorkerRecord
  <2>6. workers' = [workers EXCEPT ![a] = v]
    <3>1. workers' = [workers EXCEPT ![a].at = "write", ![a].left = Chunks, ![a].answer = n]
      BY <1>7, <2>1 DEF WorkerExecutes
    <3> QED
      BY <1>1, <2>4, <3>1 DEF PodInv, PodTypes
  <2> QED
    BY <1>5, <2>2, <2>3, <2>5, <2>6
<1>8. CASE WorkerWrites(a)
  <2>1. PICK v : /\ workers' = [workers EXCEPT ![a] = v]
                 /\ v = IF workers[a].left = 0 THEN [workers[a] EXCEPT !.at = "ended"]
                        ELSE [workers[a] EXCEPT !.left = workers[a].left - 1, !.out = workers[a].out + 1]
    BY <1>8, Zenon DEF WorkerWrites
  <2>2. w.at = "write" /\ workers' = [workers EXCEPT ![a] = v]
    BY <1>1, <1>8, <2>1 DEF WorkerWrites
  <2>3. v \in WorkerRecord /\ v.at \in {"write", "ended"} /\ v.answer = w.answer
    <3>1. CASE w.left = 0
      BY <1>1, <1>2, <2>1, <2>2, <3>1 DEF WorkerRecord
    <3>2. CASE w.left # 0
      <4>1. w.left - 1 \in Nat /\ w.out + 1 \in Nat
        BY <1>2, <3>2
      <4> QED
        BY <1>1, <1>2, <2>1, <2>2, <3>2, <4>1 DEF WorkerRecord
    <3> QED
      BY <3>1, <3>2
  <2> QED
    BY <1>2, <1>5, <2>2, <2>3 DEF WorkerFollows
<1>9. CASE KillWorker(a)
  <2>1. PICK v : v = [w EXCEPT !.at = "killed"]
    OBVIOUS
  <2>2. v \in WorkerRecord /\ v.at = "killed" /\ w.at # "none" /\ workers' = [workers EXCEPT ![a] = v]
    BY <1>1, <1>2, <1>9, <2>1 DEF KillWorker, WorkerRecord
  <2> QED
    BY <1>5, <2>2
<1>10. CASE ReadOutput(a)
  <2>1. PICK v : v = [w EXCEPT !.out = w.out - 1]
    OBVIOUS
  <2>2. v \in WorkerRecord /\ v.at = w.at /\ v.answer = w.answer /\ workers' = [workers EXCEPT ![a] = v]
    BY <1>1, <1>2, <1>10, <2>1 DEF ReadOutput, WorkerRecord
  <2>3. WorkerFollows(q, v)
    BY <1>2, <2>2 DEF WorkerFollows
  <2> QED
    BY <1>2, <1>3, <1>4, <2>2, <2>3, CallStep
<1> QED
  BY <1>6, <1>7, <1>8, <1>9, <1>10

LEMMA PodKeep == PodInv /\ [PodStep]_podVars => PodInv'
<1>1. ASSUME PodInv, UNCHANGED podVars PROVE PodInv'
  BY <1>1 DEF podVars, PodInv, PodTypes, CallFollows, CopiesFollow, WorkerFollows, IsAnswerTo
<1>2. ASSUME PodInv, NEW t \in PodTable, EditTable(t) PROVE PodInv'
  BY <1>2, EditKeeps
<1>3. ASSUME PodInv, NEW a \in Asker, NEW names \in {<<t>> : t \in PodTable} \cup (PodTable \X PodTable), NEW t \in PodTable,
             AskPod(a, names, t)
      PROVE  PodInv'
  <2>1. names \in Seq(PodTable)
    <3>1. CASE names \in {<<u>> : u \in PodTable}
      <4>1. PICK u \in PodTable : names = <<u>>
        BY <3>1
      <4> QED
        BY <4>1
    <3>2. CASE names \in PodTable \X PodTable
      <4>1. PICK u \in PodTable, v \in PodTable : names = <<u, v>>
        BY <3>2
      <4> QED
        BY <4>1
    <3> QED
      BY <3>1, <3>2
  <2> QED
    BY <1>3, <2>1, AskKeeps
<1>4. ASSUME PodInv, NEW a \in Asker, PodWork(a) \/ KillWorker(a) PROVE PodInv'
  BY <1>4, CopyTableKeeps, SpawnKeeps, SendKeeps, EndKeeps, WorkerKeeps DEF PodWork
<1> QED
  BY <1>1, <1>2, <1>3, <1>4 DEF PodStep

LEMMA PodsAnswer == PodInv => PodAnswers
BY DEF PodInv, CallFollows, WorkerFollows, IsAnswerTo, PodAnswers
-----------------------------------------------------------------------------
(***************************************************************************)
(* A learner and its readers (LearnerReads): two tasks execute the same    *)
(* entries, and as long as none of them twice, in the order of the log.    *)
(***************************************************************************)
Stages == {"rest", "execute", "snapshot", "merge", "note", "count", "onward"}
Mid == {"snapshot", "merge", "note", "count", "onward"}

ApplierRecord == [at : Stages, next : Nat, last : Nat, copy : Nat]
AskRecord == [at : {"rest", "index", "stale", "view", "served"}, index : Nat, commits : Nat, seen : Nat, view : Nat]

LearnerTypes ==
    /\ learned \in Seq({"put", "bad", "commit"})
    /\ committed \in 0 .. Len(learned) /\ done_to \in 0 .. Len(learned)
    /\ rows_at \in 0 .. Len(learned) /\ replica_at \in 0 .. Len(learned) /\ index_noted \in 0 .. Len(learned)
    /\ commit_seq \in Nat /\ times \in [1 .. Len(learned) -> Nat]
    /\ ask \in AskRecord /\ ask.index <= Len(learned)
    /\ appliers \in [Applying -> ApplierRecord]

ApplierFollows(a) ==
    /\ a.at # "rest" => a.next >= 1 /\ a.next <= a.last /\ a.last <= committed
    /\ a.at \in {"snapshot", "merge"} => learned[a.next] = "put"
    /\ a.copy <= Len(learned)
    /\ a.at = "count" => learned[a.next] = "commit"

AppliersFollow == \A t \in Applying : ApplierFollows(appliers[t])

\* How far a task has come in the log: the entries before the one it is to execute, or that one.
Past(a) == IF a.at = "execute" THEN a.next - 1 ELSE a.next
Reaches(t, i) == appliers[t].at # "rest" /\ i <= Past(appliers[t])

\* Entries are executed in their order: exactly those are that some task has reached or has done.
SomeReaches(i) == i <= done_to \/ \E t \in Applying : Reaches(t, i)

\* An entry that a task is at, and that another has passed too, was executed twice.
Doubly(t) ==
    LET e == appliers[t].next IN
    appliers[t].at \in Mid /\ (e <= done_to \/ \E u \in Applying \ {t} : Reaches(u, e)) => Again(e)

ExecutedFollow ==
    /\ \A i \in 1 .. Len(learned) : SomeReaches(i) <=> times[i] > 0
    /\ \A t \in Applying : Doubly(t)

Clean(i) == \A m \in 1 .. i : ~Again(m)
PutOnce(i) == learned[i] = "put" /\ times[i] > 0 /\ Clean(i)
Copying(i) == \E t \in Applying : appliers[t].at \in {"snapshot", "merge"} /\ appliers[t].next = i

\* As long as nothing was executed twice: the rows have what was put, and so has a copy under way,
\* the replica once nobody still copies it, and that is so up to the index that is told.
RowsFollow ==
    /\ \A i \in 1 .. Len(learned) : PutOnce(i) => rows_at >= i
    /\ \A t \in Applying : appliers[t].at = "merge" =>
          \A i \in 1 .. Len(learned) : PutOnce(i) => appliers[t].copy >= i
    /\ \A i \in 1 .. Len(learned) : PutOnce(i) /\ ~Copying(i) => replica_at >= i
    /\ \A i \in 1 .. index_noted : times[i] > 0 /\ (Clean(i) => ~Copying(i))

Counting(i) == \E t \in Applying : appliers[t].at \in {"note", "count"} /\ appliers[t].next = i
Counted == {i \in 1 .. Len(learned) : learned[i] = "commit" /\ times[i] > 0 /\ ~Counting(i)}
CommitsOnce == \A i \in 1 .. Len(learned) : learned[i] = "commit" => ~Again(i)

CommitsFollow == CommitsOnce => commit_seq <= Cardinality(Counted)

\* A reader that goes on to the replica has been told enough.
AskFollows ==
    /\ ask.at = "index" => ask.seen <= index_noted
    /\ ask.at = "view" => ask.index <= index_noted
    /\ ask.at \in {"view", "served"} => ask.commits <= commit_seq
    /\ ask.at = "served" => \A i \in 1 .. ask.index : learned[i] = "put" /\ Clean(i) => ask.view >= i

LearnerInv == LearnerTypes /\ AppliersFollow /\ ExecutedFollow /\ RowsFollow /\ CommitsFollow /\ AskFollows

LEMMA LearnerStart == LearnerInit => LearnerInv
<1> SUFFICES ASSUME LearnerInit PROVE LearnerInv
  OBVIOUS
<1>1. learned \in Seq({"put", "bad", "commit"}) /\ Len(learned) \in Nat /\ DOMAIN learned = 1 .. Len(learned)
  BY LearnerAssumption DEF LearnerInit
<1>2. /\ committed = 0 /\ done_to = 0 /\ rows_at = 0 /\ replica_at = 0 /\ index_noted = 0 /\ commit_seq = 0
      /\ ask = NoAsk /\ times = [i \in 1 .. Len(learned) |-> 0] /\ appliers = [t \in Applying |-> IdleApplier]
  BY <1>1 DEF LearnerInit
<1>3. IdleApplier \in ApplierRecord /\ IdleApplier.at = "rest" /\ NoAsk \in AskRecord /\ NoAsk.at = "rest" /\ NoAsk.index = 0
  BY DEF IdleApplier, ApplierRecord, Stages, NoAsk, AskRecord
<1>4. \A t \in Applying : appliers[t].at = "rest"
  BY <1>2, <1>3
<1>5. \A i \in 1 .. Len(learned) : times[i] = 0
  BY <1>2
<1>6. LearnerTypes
  BY <1>1, <1>2, <1>3 DEF LearnerTypes
<1>7. AppliersFollow
  BY <1>1, <1>2, <1>4 DEF AppliersFollow, ApplierFollows, IdleApplier
<1>8. ExecutedFollow
  BY <1>1, <1>2, <1>4, <1>5 DEF ExecutedFollow, SomeReaches, Reaches, Doubly, Mid
<1>9. RowsFollow
  BY <1>1, <1>2, <1>4, <1>5 DEF RowsFollow, PutOnce
<1>10. CommitsFollow
  <2>1. Counted = {}
    BY <1>5 DEF Counted
  <2> QED
    BY <1>2, <2>1, FS_EmptySet DEF CommitsFollow
<1>11. AskFollows
  BY <1>2, <1>3 DEF AskFollows
<1> QED
  BY <1>6, <1>7, <1>8, <1>9, <1>10, <1>11 DEF LearnerInv

LEMMA ApplierTyped ==
    ASSUME LearnerInv, NEW t \in Applying
    PROVE  /\ appliers[t] \in ApplierRecord /\ appliers[t].next \in Nat /\ appliers[t].last \in Nat /\ appliers[t].copy \in Nat
           /\ appliers[t].at \in Stages /\ Past(appliers[t]) \in Int /\ Len(learned) \in Nat
           /\ appliers[t].at # "rest" => appliers[t].next \in 1 .. Len(learned) /\ appliers[t].next <= appliers[t].last
                                         /\ appliers[t].last <= Len(learned)
<1>1. /\ appliers[t] \in ApplierRecord /\ appliers[t].next \in Nat /\ appliers[t].last \in Nat /\ appliers[t].copy \in Nat
      /\ appliers[t].at \in Stages /\ Len(learned) \in Nat /\ committed \in 0 .. Len(learned)
  BY DEF LearnerInv, LearnerTypes, ApplierRecord
<1>2. ApplierFollows(appliers[t])
  BY DEF LearnerInv, AppliersFollow
<1> QED
  BY <1>1, <1>2 DEF ApplierFollows, Past

\* What is executed has all before it executed; a task is not at an entry that others are past,
\* unless that was executed twice.
LEMMA InOrder ==
    ASSUME LearnerInv
    PROVE  /\ \A i \in 1 .. Len(learned), m \in 1 .. Len(learned) : times[i] > 0 /\ m <= i => times[m] > 0
           /\ \A t \in Applying : appliers[t].at \in Mid => times[appliers[t].next] > 0
           /\ \A t \in Applying, i \in 1 .. Len(learned) :
                 appliers[t].at \in Mid /\ i > appliers[t].next /\ times[i] > 0 => Again(appliers[t].next)
           /\ \A t \in Applying, u \in Applying :
                 appliers[t].at \in Mid /\ appliers[u].at \in Mid /\ t # u /\ appliers[t].next = appliers[u].next =>
                    Again(appliers[t].next)
<1>1. Len(learned) \in Nat /\ done_to \in Nat /\ times \in [1 .. Len(learned) -> Nat]
  BY DEF LearnerInv, LearnerTypes
<1>2. \A i \in 1 .. Len(learned) : SomeReaches(i) <=> times[i] > 0
  BY DEF LearnerInv, ExecutedFollow
<1>3. \A t \in Applying : Past(appliers[t]) \in Int /\ appliers[t].next \in Nat
  BY ApplierTyped
<1>4. ASSUME NEW i \in 1 .. Len(learned), NEW m \in 1 .. Len(learned), times[i] > 0, m <= i PROVE times[m] > 0
  <2>1. SomeReaches(i)
    BY <1>2, <1>4
  <2>2. SomeReaches(m)
    BY <1>1, <1>3, <1>4, <2>1 DEF SomeReaches, Reaches
  <2> QED
    BY <1>2, <2>2
<1>5. ASSUME NEW t \in Applying, appliers[t].at \in Mid
      PROVE  /\ Past(appliers[t]) = appliers[t].next /\ Reaches(t, appliers[t].next)
             /\ appliers[t].next \in 1 .. Len(learned) /\ times[appliers[t].next] > 0
  <2>1. Past(appliers[t]) = appliers[t].next /\ appliers[t].at # "rest"
    BY <1>5 DEF Past, Mid
  <2>2. appliers[t].next \in 1 .. Len(learned)
    BY <2>1, ApplierTyped
  <2>3. Reaches(t, appliers[t].next)
    BY <1>3, <2>1 DEF Reaches
  <2> QED
    BY <1>2, <2>1, <2>2, <2>3 DEF SomeReaches
<1>6. ASSUME NEW t \in Applying, NEW i \in 1 .. Len(learned), appliers[t].at \in Mid, i > appliers[t].next, times[i] > 0
      PROVE  Again(appliers[t].next)
  <2>1. PICK e \in Nat : e = appliers[t].next /\ i > e
    BY <1>3, <1>6
  <2>2. Doubly(t)
    BY DEF LearnerInv, ExecutedFollow
  <2>3. SomeReaches(i)
    BY <1>2, <1>6
  <2>4. CASE i <= done_to
    BY <1>1, <1>6, <2>1, <2>2, <2>4 DEF Doubly
  <2>5. CASE \E u \in Applying : Reaches(u, i)
    <3>1. PICK u \in Applying : Reaches(u, i)
      BY <2>5
    <3>2. Past(appliers[u]) \in Int /\ i <= Past(appliers[u]) /\ appliers[u].at # "rest"
      BY <1>3, <3>1 DEF Reaches
    <3>3. u # t
      BY <1>5, <1>6, <2>1, <3>2
    <3>4. Reaches(u, e)
      BY <2>1, <3>2 DEF Reaches
    <3> QED
      BY <1>6, <2>1, <2>2, <3>3, <3>4 DEF Doubly
  <2> QED
    BY <2>3, <2>4, <2>5 DEF SomeReaches
<1>7. ASSUME NEW t \in Applying, NEW u \in Applying, appliers[t].at \in Mid, appliers[u].at \in Mid, t # u,
             appliers[t].next = appliers[u].next
      PROVE  Again(appliers[t].next)
  <2>1. Reaches(u, appliers[t].next)
    BY <1>5, <1>7
  <2>2. Doubly(t)
    BY DEF LearnerInv, ExecutedFollow
  <2> QED
    BY <1>7, <2>1, <2>2 DEF Doubly
<1> QED
  BY <1>4, <1>5, <1>6, <1>7

\* A task's step: what it is at now, and that the others are where they were.
LEMMA ApplierMoves ==
    ASSUME LearnerInv, NEW t \in Applying, NEW v \in ApplierRecord, appliers' = [appliers EXCEPT ![t] = v]
    PROVE  /\ appliers'[t] = v /\ \A u \in Applying \ {t} : appliers'[u] = appliers[u]
           /\ appliers' \in [Applying -> ApplierRecord]
BY DEF LearnerInv, LearnerTypes

\* The steps in the midst of an entry leave alone what was executed.
LEMMA MidStep ==
    ASSUME LearnerInv, NEW t \in Applying, NEW v \in ApplierRecord, appliers' = [appliers EXCEPT ![t] = v],
           appliers[t].at \in Mid, v.at \in Mid, v.next = appliers[t].next, v.last = appliers[t].last, ApplierFollows(v),
           UNCHANGED <<learned, committed, done_to, times>>
    PROVE  AppliersFollow' /\ ExecutedFollow'
<1>1. appliers'[t] = v /\ \A u \in Applying \ {t} : appliers'[u] = appliers[u]
  BY ApplierMoves
<1>2. AppliersFollow'
  <2>1. \A u \in Applying : ApplierFollows(appliers[u])
    BY DEF LearnerInv, AppliersFollow
  <2>2. ASSUME NEW u \in Applying PROVE ApplierFollows(appliers'[u])
    BY <1>1, <2>1
  <2>3. ASSUME NEW u \in Applying PROVE ApplierFollows(appliers[u])'
    BY <2>2 DEF ApplierFollows
  <2> QED
    BY <2>3 DEF AppliersFollow
<1>3. v.at # "rest" /\ v.at # "execute" /\ appliers[t].at # "rest" /\ appliers[t].at # "execute"
  BY DEF Mid
<1>4. \A u \in Applying, i \in Int : Reaches(u, i)' <=> Reaches(u, i)
  BY <1>1, <1>3 DEF Reaches, Past
<1>5. \A u \in Applying : (appliers'[u].at \in Mid <=> appliers[u].at \in Mid) /\ appliers'[u].next = appliers[u].next
  BY <1>1
<1>6. \A i \in 1 .. Len(learned) : SomeReaches(i)' <=> SomeReaches(i)
  BY <1>4 DEF SomeReaches
<1>7. \A u \in Applying : appliers[u].next \in Int
  BY ApplierTyped
<1>8. ASSUME NEW u \in Applying PROVE Doubly(u)'
  <2>1. Doubly(u)
    BY DEF LearnerInv, ExecutedFollow
  <2> QED
    BY <1>4, <1>5, <1>7, <2>1 DEF Doubly, Again
<1>9. ExecutedFollow'
  BY <1>6, <1>8 DEF ExecutedFollow, LearnerInv
<1> QED
  BY <1>2, <1>9

\* A step that changes nothing of what is put, copied and counted.
LEMMA SameFollow ==
    ASSUME LearnerInv, UNCHANGED <<learned, times, rows_at, replica_at, index_noted, commit_seq>>,
           \A t \in Applying : appliers'[t].at = "merge" =>
              appliers[t].at = "merge" /\ appliers'[t].copy = appliers[t].copy,
           \A i \in 1 .. Len(learned) : (Copying(i)' <=> Copying(i)) /\ (Counting(i)' <=> Counting(i))
    PROVE  RowsFollow' /\ CommitsFollow'
<1>1. \A i \in Int : (Again(i)' <=> Again(i)) /\ (Clean(i)' <=> Clean(i)) /\ (PutOnce(i)' <=> PutOnce(i))
  BY DEF Again, Clean, PutOnce
<1>2. index_noted \in 0 .. Len(learned) /\ Len(learned) \in Nat
  BY ApplierTyped DEF LearnerInv, LearnerTypes
<1>3. RowsFollow'
  BY <1>1, <1>2 DEF RowsFollow, LearnerInv
<1>4. Counted' = Counted
  BY DEF Counted
<1>5. CommitsOnce' <=> CommitsOnce
  BY <1>1 DEF CommitsOnce
<1>6. CommitsFollow'
  BY <1>4, <1>5 DEF CommitsFollow, LearnerInv
<1> QED
  BY <1>3, <1>6

LEMMA LearnKept == ASSUME LearnerInv, Learn, UNCHANGED learned PROVE LearnerInv'
<1>1. committed' = committed + 1 /\ committed < Len(learned)
      /\ UNCHANGED <<done_to, appliers, rows_at, replica_at, index_noted, commit_seq, ask, times>>
  BY DEF Learn
<1>2. LearnerTypes'
  BY <1>1 DEF LearnerInv, LearnerTypes
<1>3. AppliersFollow'
  <2>1. ASSUME NEW u \in Applying PROVE ApplierFollows(appliers[u])'
    <3>1. ApplierFollows(appliers[u]) /\ appliers[u].last \in Nat /\ committed \in Nat
      BY ApplierTyped DEF LearnerInv, AppliersFollow, LearnerTypes
    <3> QED
      BY <1>1, <3>1 DEF ApplierFollows
  <2> QED
    BY <2>1 DEF AppliersFollow
<1>4. ExecutedFollow'
  BY <1>1 DEF LearnerInv, ExecutedFollow, SomeReaches, Reaches, Past, Doubly, Again
<1>5. RowsFollow' /\ CommitsFollow'
  BY <1>1, SameFollow DEF Copying, Counting
<1>6. AskFollows'
  BY <1>1 DEF LearnerInv, AskFollows, Clean, Again
<1> QED
  BY <1>2, <1>3, <1>4, <1>5, <1>6 DEF LearnerInv

LEMMA CopyKept == ASSUME LearnerInv, NEW t \in Applying, CopyEntries(t), UNCHANGED learned PROVE LearnerInv'
<1> DEFINE v == [at |-> "execute", next |-> done_to + 1, last |-> committed, copy |-> 0]
<1>1. appliers[t].at = "rest" /\ committed > done_to /\ appliers' = [appliers EXCEPT ![t] = v]
      /\ UNCHANGED <<committed, done_to, rows_at, replica_at, index_noted, commit_seq, ask, times>>
  BY DEF CopyEntries
<1>2. done_to \in Nat /\ committed \in Nat /\ committed <= Len(learned) /\ Len(learned) \in Nat
  BY ApplierTyped DEF LearnerInv, LearnerTypes
<1>3. v \in ApplierRecord
  BY <1>2 DEF ApplierRecord, Stages
<1>4. appliers'[t] = v /\ (\A u \in Applying \ {t} : appliers'[u] = appliers[u]) /\ appliers' \in [Applying -> ApplierRecord]
  BY <1>1, <1>3, ApplierMoves
<1>5. LearnerTypes'
  BY <1>1, <1>4 DEF LearnerInv, LearnerTypes
<1>6. AppliersFollow'
  <2>1. ASSUME NEW u \in Applying PROVE ApplierFollows(appliers[u])'
    <3>1. ApplierFollows(appliers[u])
      BY DEF LearnerInv, AppliersFollow
    <3>2. CASE u = t
      BY <1>1, <1>2, <1>4, <3>2 DEF ApplierFollows
    <3> QED
      BY <1>1, <1>4, <3>1, <3>2 DEF ApplierFollows
  <2> QED
    BY <2>1 DEF AppliersFollow
<1>7. ExecutedFollow'
  <2>1. \A u \in Applying \ {t}, i \in Int : Reaches(u, i)' <=> Reaches(u, i)
    BY <1>4 DEF Reaches, Past
  <2>2. \A i \in Int : ~Reaches(t, i) /\ (Reaches(t, i)' <=> i <= done_to)
    BY <1>1, <1>2, <1>4 DEF Reaches, Past
  <2>3. \A i \in 1 .. Len(learned) : SomeReaches(i)' <=> SomeReaches(i)
    BY <1>1, <2>1, <2>2 DEF SomeReaches
  <2>4. ASSUME NEW u \in Applying PROVE Doubly(u)'
    <3>1. Doubly(u) /\ appliers[u].next \in Int
      BY ApplierTyped DEF LearnerInv, ExecutedFollow
    <3>2. CASE u = t
      BY <1>4, <3>2 DEF Doubly, Mid
    <3>3. CASE u # t
      BY <1>1, <1>4, <2>1, <2>2, <3>1, <3>3 DEF Doubly, Again
    <3> QED
      BY <3>2, <3>3
  <2> QED
    BY <1>1, <2>3, <2>4 DEF LearnerInv, ExecutedFollow
<1>8. RowsFollow' /\ CommitsFollow'
  <2>1. \A i \in 1 .. Len(learned) : (Copying(i)' <=> Copying(i)) /\ (Counting(i)' <=> Counting(i))
    BY <1>1, <1>4 DEF Copying, Counting
  <2>2. \A u \in Applying : appliers'[u].at = "merge" => appliers[u].at = "merge" /\ appliers'[u].copy = appliers[u].copy
    BY <1>4
  <2> QED
    BY <1>1, <2>1, <2>2, SameFollow
<1>9. AskFollows'
  BY <1>1 DEF LearnerInv, AskFollows, Clean, Again
<1> QED
  BY <1>5, <1>6, <1>7, <1>8, <1>9 DEF LearnerInv

LEMMA ExecuteKept == ASSUME LearnerInv, NEW t \in Applying, ExecuteEntry(t), UNCHANGED learned PROVE LearnerInv'
<1>1. PICK n \in Nat : n = appliers[t].next
  BY ApplierTyped
<1>2. appliers[t].at = "execute"
  BY DEF ExecuteEntry
<1>3. n \in 1 .. Len(learned) /\ Len(learned) \in Nat /\ learned[n] = EntryOf(t) /\ learned[n] \in {"put", "bad", "commit"}
  <2>1. n \in 1 .. Len(learned) /\ Len(learned) \in Nat
    BY <1>1, <1>2, ApplierTyped
  <2>2. learned \in Seq({"put", "bad", "commit"})
    BY DEF LearnerInv, LearnerTypes
  <2>3. learned[n] \in {"put", "bad", "commit"}
    BY <2>1, <2>2
  <2> QED
    BY <1>1, <2>1, <2>3 DEF EntryOf
<1>4. PICK a : /\ a = (CASE learned[n] = "put" -> "snapshot" [] learned[n] = "commit" -> "note" [] OTHER -> "onward")
               /\ appliers' = [appliers EXCEPT ![t].at = a]
  BY <1>3 DEF ExecuteEntry, AtStep
<1>5. /\ learned[n] = "put" => a = "snapshot"
      /\ learned[n] = "commit" => a = "note"
      /\ learned[n] = "bad" => a = "onward"
      /\ a \in {"snapshot", "note", "onward"}
  BY <1>3, <1>4
<1>6. PICK v \in ApplierRecord : v = [appliers[t] EXCEPT !.at = a]
  BY <1>5, ApplierTyped DEF ApplierRecord, Stages
<1>7. v.at = a /\ v.next = n /\ v.last = appliers[t].last /\ v.copy = appliers[t].copy
  BY <1>1, <1>6, ApplierTyped DEF ApplierRecord
<1>8. appliers' = [appliers EXCEPT ![t] = v]
  BY <1>4, <1>6, ApplierTyped DEF LearnerInv, LearnerTypes
<1>9. appliers'[t] = v /\ (\A u \in Applying \ {t} : appliers'[u] = appliers[u]) /\ appliers' \in [Applying -> ApplierRecord]
  BY <1>8, ApplierMoves
<1>10. /\ times' = [times EXCEPT ![n] = @ + 1] /\ rows_at' = (IF learned[n] = "put" THEN n ELSE rows_at)
       /\ UNCHANGED <<committed, done_to, replica_at, index_noted, commit_seq, ask>>
  BY <1>1, <1>3 DEF ExecuteEntry
<1>11. times \in [1 .. Len(learned) -> Nat] /\ done_to \in Nat /\ index_noted \in 0 .. Len(learned)
  BY <1>3 DEF LearnerInv, LearnerTypes
<1>12. /\ times' \in [1 .. Len(learned) -> Nat] /\ times'[n] = times[n] + 1
       /\ \A i \in 1 .. Len(learned) : i # n => times'[i] = times[i]
  BY <1>3, <1>10, <1>11
<1>13. \A i \in 1 .. Len(learned) : /\ Again(i) => Again(i)'
                                    /\ times'[i] > 0 <=> times[i] > 0 \/ i = n
  BY <1>3, <1>11, <1>12 DEF Again
<1>14. times[n] > 0 => Again(n)'
  BY <1>3, <1>11, <1>12 DEF Again
<1>15. \A i \in 1 .. Len(learned) : Clean(i)' => Clean(i)
  BY <1>3, <1>13 DEF Clean
<1>16. ASSUME NEW i \in 1 .. Len(learned), Clean(i)', i >= n PROVE times[n] = 0
  <2>1. ~Again(n)'
    BY <1>3, <1>16 DEF Clean
  <2> QED
    BY <1>3, <1>11, <1>14, <2>1
<1>17. Past(appliers[t]) = n - 1 /\ Past(v) = n
  BY <1>1, <1>2, <1>5, <1>7 DEF Past
<1>18. \A i \in Int : (Reaches(t, i) <=> i <= n - 1) /\ (Reaches(t, i)' <=> i <= n)
  BY <1>2, <1>5, <1>7, <1>9, <1>17 DEF Reaches, Past
<1>19. \A u \in Applying \ {t}, i \in Int : Reaches(u, i)' <=> Reaches(u, i)
  BY <1>9 DEF Reaches, Past
<1>20. \A i \in 1 .. Len(learned) : times[i] > 0 <=> SomeReaches(i)
  BY DEF LearnerInv, ExecutedFollow
<1>21. LearnerTypes'
  BY <1>3, <1>9, <1>10, <1>12 DEF LearnerInv, LearnerTypes
<1>22. AppliersFollow'
  <2>1. ASSUME NEW u \in Applying PROVE ApplierFollows(appliers[u])'
    <3>1. ApplierFollows(appliers[u]) /\ ApplierFollows(appliers[t])
      BY DEF LearnerInv, AppliersFollow
    <3>2. CASE u = t
      <4>1. n >= 1 /\ n <= v.last /\ v.last <= committed /\ v.copy <= Len(learned)
        BY <1>1, <1>2, <1>7, <3>1 DEF ApplierFollows
      <4>2. /\ v.at \in {"snapshot", "merge"} => learned[v.next] = "put"
            /\ v.at = "count" => learned[v.next] = "commit"
        BY <1>3, <1>5, <1>7
      <4>3. ApplierFollows(v)
        BY <1>7, <4>1, <4>2 DEF ApplierFollows
      <4> QED
        BY <1>9, <1>10, <3>2, <4>3 DEF ApplierFollows
    <3> QED
      BY <1>9, <1>10, <3>1, <3>2 DEF ApplierFollows
  <2> QED
    BY <2>1 DEF AppliersFollow
<1>23. \A u \in Applying : Doubly(u)'
  <2>1. ASSUME NEW u \in Applying PROVE Doubly(u)'
    <3>1. Doubly(u)
      BY DEF LearnerInv, ExecutedFollow
    <3>2. CASE u = t
      <4>1. ASSUME n <= done_to \/ \E s \in Applying \ {t} : Reaches(s, n) PROVE Again(n)'
        <5>1. SomeReaches(n)
          BY <4>1 DEF SomeReaches
        <5> QED
          BY <1>3, <1>14, <1>20, <5>1
      <4> QED
        BY <1>3, <1>7, <1>9, <1>10, <1>19, <3>2, <4>1 DEF Doubly
    <3>3. CASE u # t
      <4>1. SUFFICES ASSUME NEW e, e = appliers[u].next, appliers[u].at \in Mid,
                            e <= done_to \/ \E s \in Applying \ {u} : Reaches(s, e)'
                     PROVE  Again(e)'
        BY <1>9, <1>10, <3>3 DEF Doubly
      <4>2. e \in 1 .. Len(learned)
        BY <4>1, ApplierTyped DEF Mid
      <4>3. times[e] > 0
        BY <4>1, InOrder
      <4>4. CASE e = n
        BY <1>14, <4>3, <4>4
      <4>5. CASE e # n
        <5>1. e <= done_to \/ \E s \in Applying \ {u} : Reaches(s, e)
          <6>1. Reaches(t, e)' => Reaches(t, e)
            BY <1>3, <1>18, <4>2, <4>5
          <6> QED
            BY <1>19, <4>1, <4>2, <6>1
        <5>2. Again(e)
          BY <3>1, <4>1, <5>1 DEF Doubly
        <5> QED
          BY <1>13, <4>2, <5>2
      <4> QED
        BY <4>4, <4>5
    <3> QED
      BY <3>2, <3>3
  <2> QED
    BY <2>1
<1>24. ExecutedFollow'
  <2>1. ASSUME NEW i \in 1 .. Len(learned) PROVE SomeReaches(i)' <=> SomeReaches(i) \/ i = n
    <3>1. \A u \in Applying : Reaches(u, i)' <=> Reaches(u, i) \/ (u = t /\ i = n)
      BY <1>3, <1>18, <1>19
    <3> QED
      BY <1>10, <3>1 DEF SomeReaches
  <2>2. \A i \in 1 .. Len(learned) : SomeReaches(i)' <=> times'[i] > 0
    BY <1>13, <1>20, <2>1
  <2> QED
    BY <1>10, <1>23, <2>2 DEF ExecutedFollow
<1>25. \A i \in 1 .. Len(learned) : PutOnce(i)' /\ i # n => PutOnce(i)
  BY <1>13, <1>15 DEF PutOnce
<1>26. \A i \in 1 .. Len(learned) : /\ Copying(i)' <=> Copying(i) \/ (i = n /\ learned[n] = "put")
                                    /\ Counting(i)' <=> Counting(i) \/ (i = n /\ learned[n] = "commit")
  <2>1. ASSUME NEW u \in Applying, NEW i \in 1 .. Len(learned)
        PROVE  /\ (appliers'[u].at \in {"snapshot", "merge"} /\ appliers'[u].next = i) <=>
                     \/ appliers[u].at \in {"snapshot", "merge"} /\ appliers[u].next = i
                     \/ u = t /\ i = n /\ learned[n] = "put"
               /\ (appliers'[u].at \in {"note", "count"} /\ appliers'[u].next = i) <=>
                     \/ appliers[u].at \in {"note", "count"} /\ appliers[u].next = i
                     \/ u = t /\ i = n /\ learned[n] = "commit"
    <3>1. CASE u = t
      <4>1. appliers[u].at \notin {"snapshot", "merge", "note", "count"}
        BY <1>2, <3>1
      <4>2. appliers'[u].at = a /\ appliers'[u].next = n
        BY <1>7, <1>9, <3>1
      <4>3. /\ a \in {"snapshot", "merge"} <=> learned[n] = "put"
            /\ a \in {"note", "count"} <=> learned[n] = "commit"
        BY <1>3, <1>5
      <4> QED
        BY <3>1, <4>1, <4>2, <4>3
    <3>2. CASE u # t
      BY <1>9, <3>2
    <3> QED
      BY <3>1, <3>2
  <2> QED
    BY <2>1 DEF Copying, Counting
<1>27. \A i \in 1 .. Len(learned) : PutOnce(i)' => rows_at' >= i
  <2>1. ASSUME NEW i \in 1 .. Len(learned), PutOnce(i)' PROVE rows_at' >= i
    <3>1. Clean(i)' /\ times'[i] > 0 /\ learned[i] = "put"
      BY <2>1 DEF PutOnce
    <3>2. CASE learned[n] = "put"
      <4>1. i <= n
        BY <1>3, <1>13, <1>16, <3>1, InOrder
      <4> QED
        BY <1>3, <1>10, <3>2, <4>1
    <3>3. CASE learned[n] # "put"
      BY <1>10, <1>25, <2>1, <3>1, <3>3 DEF LearnerInv, RowsFollow
    <3> QED
      BY <3>2, <3>3
  <2> QED
    BY <2>1
<1>28. \A u \in Applying : appliers'[u].at = "merge" =>
          \A i \in 1 .. Len(learned) : PutOnce(i)' => appliers'[u].copy >= i
  <2>1. ASSUME NEW u \in Applying, appliers'[u].at = "merge", NEW i \in 1 .. Len(learned), PutOnce(i)'
        PROVE  appliers'[u].copy >= i
    <3>1. u # t /\ appliers'[u] = appliers[u]
      BY <1>5, <1>7, <1>9, <2>1
    <3>2. CASE i # n
      BY <1>25, <2>1, <3>1, <3>2 DEF LearnerInv, RowsFollow
    <3>3. CASE i = n
      <4>1. times[n] = 0 /\ Clean(n)'
        BY <1>3, <1>16, <2>1, <3>3 DEF PutOnce
      <4>2. PICK e \in 1 .. Len(learned) : e = appliers[u].next /\ times[e] > 0
        BY <2>1, <3>1, InOrder, ApplierTyped DEF Mid
      <4>3. e # n
        BY <1>3, <1>11, <4>1, <4>2
      <4>4. e < n
        BY <1>3, <1>11, <4>1, <4>2, <4>3, InOrder
      <4>5. Again(e)'
        BY <1>3, <1>9, <1>18, <1>23, <2>1, <3>1, <4>2, <4>4 DEF Doubly, Mid
      <4> QED
        BY <4>1, <4>2, <4>4, <4>5 DEF Clean
    <3> QED
      BY <3>2, <3>3
  <2> QED
    BY <2>1
<1>29. \A i \in 1 .. Len(learned) : PutOnce(i)' /\ ~Copying(i)' => replica_at >= i
  <2>1. ASSUME NEW i \in 1 .. Len(learned), PutOnce(i)', ~Copying(i)' PROVE replica_at >= i
    <3>1. i # n /\ ~Copying(i)
      BY <1>26, <2>1 DEF PutOnce
    <3> QED
      BY <1>25, <2>1, <3>1 DEF LearnerInv, RowsFollow
  <2> QED
    BY <2>1
<1>30. \A i \in 1 .. index_noted : times'[i] > 0 /\ (Clean(i)' => ~Copying(i)')
  <2>1. ASSUME NEW i \in 1 .. index_noted PROVE times'[i] > 0 /\ (Clean(i)' => ~Copying(i)')
    <3>1. i \in 1 .. Len(learned)
      BY <1>3, <1>11
    <3>2. times[i] > 0 /\ (Clean(i) => ~Copying(i))
      BY DEF LearnerInv, RowsFollow
    <3>3. Clean(i)' => i # n
      BY <1>3, <1>11, <1>16, <3>1, <3>2
    <3> QED
      BY <1>13, <1>15, <1>26, <3>1, <3>2, <3>3
  <2> QED
    BY <2>1
<1>31. RowsFollow'
  BY <1>10, <1>27, <1>28, <1>29, <1>30 DEF RowsFollow
<1>32. CommitsFollow'
  <2>1. SUFFICES ASSUME CommitsOnce' PROVE commit_seq <= Cardinality(Counted')
    BY <1>10 DEF CommitsFollow
  <2>2. CommitsOnce
    BY <1>13, <2>1 DEF CommitsOnce
  <2>3. learned[n] = "commit" => times[n] = 0
    BY <1>3, <1>11, <1>14, <2>1 DEF CommitsOnce
  <2>4. \A i \in 1 .. Len(learned) :
           (learned[i] = "commit" /\ times'[i] > 0 /\ ~Counting(i)') <=> (learned[i] = "commit" /\ times[i] > 0 /\ ~Counting(i))
    BY <1>3, <1>13, <1>26, <2>3
  <2>5. Counted' = Counted
    BY <2>4 DEF Counted
  <2> QED
    BY <2>2, <2>5 DEF LearnerInv, CommitsFollow
<1>33. AskFollows'
  <2>1. ask \in AskRecord /\ ask.index \in Nat /\ ask.index <= Len(learned)
    BY DEF LearnerInv, LearnerTypes, AskRecord
  <2>2. AskFollows
    BY DEF LearnerInv
  <2>3. \A i \in 1 .. ask.index : Clean(i)' => Clean(i)
    BY <1>3, <1>15, <2>1
  <2> QED
    BY <1>10, <2>2, <2>3 DEF AskFollows
<1> QED
  BY <1>21, <1>22, <1>24, <1>31, <1>32, <1>33 DEF LearnerInv

LEMMA SnapshotKept == ASSUME LearnerInv, NEW t \in Applying, SnapshotTable(t), UNCHANGED learned PROVE LearnerInv'
<1>1. /\ appliers[t].at = "snapshot" /\ appliers' = [appliers EXCEPT ![t].at = "merge", ![t].copy = rows_at]
      /\ UNCHANGED <<committed, done_to, rows_at, replica_at, index_noted, commit_seq, ask, times>>
  BY DEF SnapshotTable
<1>2. rows_at \in Nat /\ rows_at <= Len(learned) /\ appliers[t] \in ApplierRecord
  BY ApplierTyped DEF LearnerInv, LearnerTypes
<1>3. PICK v \in ApplierRecord : v = [appliers[t] EXCEPT !.at = "merge", !.copy = rows_at]
  BY <1>2 DEF ApplierRecord, Stages
<1>4. v.at = "merge" /\ v.copy = rows_at /\ v.next = appliers[t].next /\ v.last = appliers[t].last
  BY <1>2, <1>3 DEF ApplierRecord
<1>5. appliers' = [appliers EXCEPT ![t] = v]
  BY <1>1, <1>3, ApplierTyped DEF LearnerInv, LearnerTypes
<1>6. appliers'[t] = v /\ (\A u \in Applying \ {t} : appliers'[u] = appliers[u]) /\ appliers' \in [Applying -> ApplierRecord]
  BY <1>5, ApplierMoves
<1>7. ApplierFollows(v)
  <2>1. ApplierFollows(appliers[t])
    BY DEF LearnerInv, AppliersFollow
  <2> QED
    BY <1>1, <1>2, <1>4, <2>1 DEF ApplierFollows
<1>8. AppliersFollow' /\ ExecutedFollow'
  BY <1>1, <1>4, <1>5, <1>7, MidStep DEF Mid
<1>9. LearnerTypes'
  BY <1>1, <1>6 DEF LearnerInv, LearnerTypes
<1>10. \A i \in 1 .. Len(learned) : (Copying(i)' <=> Copying(i)) /\ (Counting(i)' <=> Counting(i))
  <2>1. \A u \in Applying : /\ appliers'[u].next = appliers[u].next
                            /\ appliers'[u].at \in {"snapshot", "merge"} <=> appliers[u].at \in {"snapshot", "merge"}
                            /\ appliers'[u].at \in {"note", "count"} <=> appliers[u].at \in {"note", "count"}
    BY <1>1, <1>4, <1>6
  <2> QED
    BY <2>1 DEF Copying, Counting
<1>11. \A i \in Int : (Again(i)' <=> Again(i)) /\ (Clean(i)' <=> Clean(i)) /\ (PutOnce(i)' <=> PutOnce(i))
  BY <1>1 DEF Again, Clean, PutOnce
<1>12. index_noted \in 0 .. Len(learned) /\ Len(learned) \in Nat
  BY ApplierTyped DEF LearnerInv, LearnerTypes
<1>13. RowsFollow'
  <2>1. \A u \in Applying : appliers'[u].at = "merge" =>
          \A i \in 1 .. Len(learned) : PutOnce(i)' => appliers'[u].copy >= i
    BY <1>4, <1>6, <1>11 DEF LearnerInv, RowsFollow
  <2>2. \A i \in 1 .. index_noted : i \in 1 .. Len(learned)
    BY <1>12
  <2>3. \A i \in 1 .. Len(learned) : (PutOnce(i)' => rows_at' >= i) /\ (PutOnce(i)' /\ ~Copying(i)' => replica_at' >= i)
    BY <1>1, <1>10, <1>11 DEF LearnerInv, RowsFollow
  <2>4. \A i \in 1 .. index_noted' : times'[i] > 0 /\ (Clean(i)' => ~Copying(i)')
    BY <1>1, <1>10, <1>11, <2>2 DEF LearnerInv, RowsFollow
  <2> QED
    BY <1>1, <2>1, <2>3, <2>4 DEF RowsFollow
<1>14. CommitsFollow'
  <2>1. Counted' = Counted
    BY <1>1, <1>10 DEF Counted
  <2>2. CommitsOnce' <=> CommitsOnce
    BY <1>11 DEF CommitsOnce
  <2> QED
    BY <1>1, <2>1, <2>2 DEF CommitsFollow, LearnerInv
<1>15. AskFollows'
  BY <1>1 DEF LearnerInv, AskFollows, Clean, Again
<1> QED
  BY <1>8, <1>9, <1>13, <1>14, <1>15 DEF LearnerInv

LEMMA MergeKept == ASSUME LearnerInv, NEW t \in Applying, MergeCopy(t), UNCHANGED learned PROVE LearnerInv'
<1>1. /\ appliers[t].at = "merge" /\ appliers' = [appliers EXCEPT ![t].at = "note"] /\ replica_at' = appliers[t].copy
      /\ UNCHANGED <<committed, done_to, rows_at, index_noted, commit_seq, ask, times>>
  BY DEF MergeCopy, AtStep
<1>2. appliers[t] \in ApplierRecord /\ ApplierFollows(appliers[t])
  BY ApplierTyped DEF LearnerInv, AppliersFollow
<1>3. PICK v \in ApplierRecord : v = [appliers[t] EXCEPT !.at = "note"]
  BY <1>2 DEF ApplierRecord, Stages
<1>4. v.at = "note" /\ v.copy = appliers[t].copy /\ v.next = appliers[t].next /\ v.last = appliers[t].last
  BY <1>2, <1>3 DEF ApplierRecord
<1>5. appliers' = [appliers EXCEPT ![t] = v]
  BY <1>1, <1>3, ApplierTyped DEF LearnerInv, LearnerTypes
<1>6. appliers'[t] = v /\ (\A u \in Applying \ {t} : appliers'[u] = appliers[u]) /\ appliers' \in [Applying -> ApplierRecord]
  BY <1>5, ApplierMoves
<1>7. ApplierFollows(v) /\ learned[appliers[t].next] = "put" /\ appliers[t].copy \in 0 .. Len(learned)
  BY <1>1, <1>2, <1>4, ApplierTyped DEF ApplierFollows
<1>8. AppliersFollow' /\ ExecutedFollow'
  BY <1>1, <1>4, <1>5, <1>7, MidStep DEF Mid
<1>9. LearnerTypes'
  BY <1>1, <1>6, <1>7 DEF LearnerInv, LearnerTypes
<1>10. \A i \in 1 .. Len(learned) : /\ Copying(i)' => Copying(i)
                                    /\ Copying(i) /\ ~Copying(i)' => i = appliers[t].next
                                    /\ learned[i] = "commit" => (Counting(i)' <=> Counting(i))
  <2>1. \A u \in Applying : /\ appliers'[u].next = appliers[u].next
                            /\ appliers'[u].at \in {"snapshot", "merge"} => appliers[u].at \in {"snapshot", "merge"}
                            /\ u # t => appliers'[u].at = appliers[u].at
    BY <1>1, <1>4, <1>6
  <2>2. appliers[t].at \notin {"note", "count"}
    BY <1>1
  <2>3. learned[appliers[t].next] # "commit"
    BY <1>7
  <2> QED
    BY <2>1, <2>2, <2>3 DEF Copying, Counting
<1>11. \A i \in Int : (Again(i)' <=> Again(i)) /\ (Clean(i)' <=> Clean(i)) /\ (PutOnce(i)' <=> PutOnce(i))
  BY <1>1 DEF Again, Clean, PutOnce
<1>12. index_noted \in 0 .. Len(learned) /\ Len(learned) \in Nat
  BY ApplierTyped DEF LearnerInv, LearnerTypes
<1>13. RowsFollow'
  <2>1. \A u \in Applying : appliers'[u].at = "merge" => appliers[u].at = "merge" /\ appliers'[u] = appliers[u]
    BY <1>4, <1>6
  <2>2. \A i \in 1 .. index_noted : i \in 1 .. Len(learned)
    BY <1>12
  <2>3. \A i \in 1 .. Len(learned) : PutOnce(i)' => replica_at' >= i
    BY <1>1, <1>11 DEF LearnerInv, RowsFollow
  <2> QED
    BY <1>1, <1>10, <1>11, <2>1, <2>2, <2>3 DEF LearnerInv, RowsFollow
<1>14. CommitsFollow'
  <2>1. Counted' = Counted
    BY <1>1, <1>10 DEF Counted
  <2>2. CommitsOnce' <=> CommitsOnce
    BY <1>11 DEF CommitsOnce
  <2> QED
    BY <1>1, <2>1, <2>2 DEF CommitsFollow, LearnerInv
<1>15. AskFollows'
  BY <1>1 DEF LearnerInv, AskFollows, Clean, Again
<1> QED
  BY <1>8, <1>9, <1>13, <1>14, <1>15 DEF LearnerInv

LEMMA NoteKept == ASSUME LearnerInv, NEW t \in Applying, NoteIndex(t), UNCHANGED learned PROVE LearnerInv'
<1>1. PICK n \in Nat : n = appliers[t].next
  BY ApplierTyped
<1>2. /\ appliers[t].at = "note" /\ appliers' = [appliers EXCEPT ![t].at = IF learned[n] = "commit" THEN "count" ELSE "onward"]
      /\ index_noted' = Larger(index_noted, n)
      /\ UNCHANGED <<committed, done_to, rows_at, replica_at, commit_seq, ask, times>>
  BY <1>1 DEF NoteIndex, AtStep, EntryOf
<1>3. appliers[t] \in ApplierRecord /\ ApplierFollows(appliers[t]) /\ n \in 1 .. Len(learned) /\ Len(learned) \in Nat
  BY <1>1, <1>2, ApplierTyped DEF LearnerInv, AppliersFollow
<1>4. PICK a : a = (IF learned[n] = "commit" THEN "count" ELSE "onward") /\ appliers' = [appliers EXCEPT ![t].at = a]
  BY <1>2
<1>5. PICK v \in ApplierRecord : v = [appliers[t] EXCEPT !.at = a]
  BY <1>3, <1>4 DEF ApplierRecord, Stages
<1>6. v.at = a /\ v.copy = appliers[t].copy /\ v.next = n /\ v.last = appliers[t].last
  BY <1>1, <1>3, <1>5 DEF ApplierRecord
<1>7. appliers' = [appliers EXCEPT ![t] = v]
  BY <1>4, <1>5, ApplierTyped DEF LearnerInv, LearnerTypes
<1>8. appliers'[t] = v /\ (\A u \in Applying \ {t} : appliers'[u] = appliers[u]) /\ appliers' \in [Applying -> ApplierRecord]
  BY <1>7, ApplierMoves
<1>9. ApplierFollows(v)
  BY <1>1, <1>2, <1>3, <1>4, <1>6 DEF ApplierFollows
<1>10. AppliersFollow' /\ ExecutedFollow'
  BY <1>1, <1>2, <1>4, <1>6, <1>7, <1>9, MidStep DEF Mid
<1>11. index_noted \in 0 .. Len(learned) /\ index_noted' \in 0 .. Len(learned) /\ index_noted' >= index_noted
       /\ \A i \in 1 .. index_noted' : i \in 1 .. Len(learned) /\ (i <= index_noted \/ i <= n)
  BY <1>2, <1>3 DEF Larger, LearnerInv, LearnerTypes
<1>12. LearnerTypes'
  BY <1>2, <1>8, <1>11 DEF LearnerInv, LearnerTypes
<1>13. \A i \in Int : (Again(i)' <=> Again(i)) /\ (Clean(i)' <=> Clean(i)) /\ (PutOnce(i)' <=> PutOnce(i))
  BY <1>2 DEF Again, Clean, PutOnce
<1>14. \A i \in 1 .. Len(learned) : /\ Copying(i)' <=> Copying(i)
                                    /\ learned[i] = "commit" => (Counting(i)' <=> Counting(i))
  <2>1. \A u \in Applying : u # t => appliers'[u] = appliers[u]
    BY <1>8
  <2>2. appliers'[t].next = n /\ appliers'[t].at \in {"count", "onward"} /\ (learned[n] = "commit" => appliers'[t].at = "count")
    BY <1>4, <1>6, <1>8
  <2>3. \A i \in 1 .. Len(learned) : Copying(i)' <=> Copying(i)
    BY <1>1, <1>2, <2>1, <2>2 DEF Copying
  <2>4. ASSUME NEW i \in 1 .. Len(learned), learned[i] = "commit" PROVE Counting(i)' <=> Counting(i)
    BY <1>1, <1>2, <2>1, <2>2, <2>4 DEF Counting
  <2> QED
    BY <2>3, <2>4
<1>15. ASSUME NEW i \in 1 .. Len(learned), i <= n PROVE times[i] > 0 /\ (Clean(i) => ~Copying(i))
  <2>1. times[n] > 0
    BY <1>1, <1>2, InOrder DEF Mid
  <2>2. times[i] > 0
    BY <1>3, <1>15, <2>1, InOrder
  <2>3. ASSUME Copying(i) PROVE Again(i)
    <3>1. PICK u \in Applying : appliers[u].at \in {"snapshot", "merge"} /\ appliers[u].next = i
      BY <2>3 DEF Copying
    <3>2. u # t /\ appliers[u].at \in Mid /\ appliers[t].at \in Mid
      BY <1>2, <3>1 DEF Mid
    <3>3. CASE i = n
      BY <1>1, <3>1, <3>2, <3>3, InOrder
    <3>4. CASE i < n
      BY <1>3, <2>1, <3>1, <3>2, <3>4, InOrder
    <3> QED
      BY <1>3, <1>15, <3>3, <3>4
  <2>4. Clean(i) => ~Again(i)
    BY DEF Clean
  <2> QED
    BY <2>2, <2>3, <2>4
<1>16. RowsFollow'
  <2>1. \A u \in Applying : appliers'[u].at = "merge" => appliers[u].at = "merge" /\ appliers'[u] = appliers[u]
    BY <1>4, <1>6, <1>8
  <2>2. \A i \in 1 .. index_noted' : times[i] > 0 /\ (Clean(i) => ~Copying(i))
    <3>1. \A i \in 1 .. index_noted : times[i] > 0 /\ (Clean(i) => ~Copying(i))
      BY DEF LearnerInv, RowsFollow
    <3> QED
      BY <1>11, <1>15, <3>1
  <2> QED
    BY <1>2, <1>11, <1>13, <1>14, <2>1, <2>2 DEF LearnerInv, RowsFollow
<1>17. CommitsFollow'
  <2>1. Counted' = Counted
    BY <1>2, <1>14 DEF Counted
  <2>2. CommitsOnce' <=> CommitsOnce
    BY <1>13 DEF CommitsOnce
  <2> QED
    BY <1>2, <2>1, <2>2 DEF CommitsFollow, LearnerInv
<1>18. AskFollows'
  <2>1. ask.seen \in Nat /\ ask.index \in Nat /\ index_noted \in Nat /\ index_noted' \in Nat
    BY <1>3, <1>11 DEF LearnerInv, LearnerTypes, AskRecord
  <2> QED
    BY <1>2, <1>11, <2>1 DEF LearnerInv, AskFollows, Clean, Again
<1> QED
  BY <1>10, <1>12, <1>16, <1>17, <1>18 DEF LearnerInv

LEMMA CountKept == ASSUME LearnerInv, NEW t \in Applying, CountCommit(t), UNCHANGED learned PROVE LearnerInv'
<1>1. PICK n \in Nat : n = appliers[t].next
  BY ApplierTyped
<1>2. /\ appliers[t].at = "count" /\ appliers' = [appliers EXCEPT ![t].at = "onward"] /\ commit_seq' = commit_seq + 1
      /\ UNCHANGED <<committed, done_to, rows_at, replica_at, index_noted, ask, times>>
  BY DEF CountCommit, AtStep
<1>3. /\ appliers[t] \in ApplierRecord /\ ApplierFollows(appliers[t]) /\ n \in 1 .. Len(learned) /\ Len(learned) \in Nat
      /\ learned[n] = "commit" /\ commit_seq \in Nat
  BY <1>1, <1>2, ApplierTyped DEF LearnerInv, AppliersFollow, ApplierFollows, LearnerTypes
<1>4. PICK v \in ApplierRecord : v = [appliers[t] EXCEPT !.at = "onward"]
  BY <1>3 DEF ApplierRecord, Stages
<1>5. v.at = "onward" /\ v.copy = appliers[t].copy /\ v.next = n /\ v.last = appliers[t].last
  BY <1>1, <1>3, <1>4 DEF ApplierRecord
<1>6. appliers' = [appliers EXCEPT ![t] = v]
  BY <1>2, <1>4, ApplierTyped DEF LearnerInv, LearnerTypes
<1>7. appliers'[t] = v /\ (\A u \in Applying \ {t} : appliers'[u] = appliers[u]) /\ appliers' \in [Applying -> ApplierRecord]
  BY <1>6, ApplierMoves
<1>8. ApplierFollows(v)
  BY <1>1, <1>2, <1>3, <1>5 DEF ApplierFollows
<1>9. AppliersFollow' /\ ExecutedFollow'
  BY <1>1, <1>2, <1>5, <1>6, <1>8, MidStep DEF Mid
<1>10. LearnerTypes'
  BY <1>2, <1>3, <1>7 DEF LearnerInv, LearnerTypes
<1>11. \A i \in Int : (Again(i)' <=> Again(i)) /\ (Clean(i)' <=> Clean(i)) /\ (PutOnce(i)' <=> PutOnce(i))
  BY <1>2 DEF Again, Clean, PutOnce
<1>12. index_noted \in 0 .. Len(learned)
  BY DEF LearnerInv, LearnerTypes
<1>13. \A i \in 1 .. Len(learned) : Copying(i)' <=> Copying(i)
  <2>1. \A u \in Applying : /\ appliers'[u].next = appliers[u].next
                            /\ appliers'[u].at \in {"snapshot", "merge"} <=> appliers[u].at \in {"snapshot", "merge"}
    BY <1>1, <1>2, <1>5, <1>7
  <2> QED
    BY <2>1 DEF Copying
<1>14. RowsFollow'
  <2>1. \A u \in Applying : appliers'[u].at = "merge" => appliers[u].at = "merge" /\ appliers'[u] = appliers[u]
    BY <1>5, <1>7
  <2>2. \A i \in 1 .. index_noted : i \in 1 .. Len(learned)
    BY <1>3, <1>12
  <2> QED
    BY <1>2, <1>11, <1>13, <2>1, <2>2 DEF LearnerInv, RowsFollow
<1>15. CommitsFollow'
  <2>1. SUFFICES ASSUME CommitsOnce' PROVE commit_seq + 1 <= Cardinality(Counted')
    BY <1>2 DEF CommitsFollow
  <2>2. CommitsOnce
    BY <1>11, <2>1 DEF CommitsOnce
  <2>3. ~Again(n) /\ times[n] > 0
    BY <1>1, <1>2, <1>3, <2>2, InOrder DEF CommitsOnce, Mid
  <2>4. \A u \in Applying \ {t} : appliers[u].at \in Mid => appliers[u].next # n
    BY <1>1, <1>2, <2>3, InOrder DEF Mid
  <2>5. Counting(n) /\ ~Counting(n)'
    BY <1>1, <1>2, <1>5, <1>7, <2>4 DEF Counting, Mid
  <2>6. \A i \in 1 .. Len(learned) : i # n => (Counting(i)' <=> Counting(i))
    BY <1>1, <1>2, <1>5, <1>7 DEF Counting
  <2>7. Counted' = Counted \cup {n} /\ n \notin Counted
    BY <1>2, <1>3, <2>3, <2>5, <2>6 DEF Counted
  <2>8. IsFiniteSet(Counted)
    <3>1. 1 \in Int /\ Len(learned) \in Int
      BY <1>3
    <3>2. IsFiniteSet(1 .. Len(learned))
      BY ONLY <3>1, FS_Interval
    <3>3. Counted \subseteq 1 .. Len(learned)
      BY DEF Counted
    <3> QED
      BY ONLY <3>2, <3>3, FS_Subset
  <2>9. Cardinality(Counted') = Cardinality(Counted) + 1 /\ Cardinality(Counted) \in Nat
    BY <2>7, <2>8, FS_AddElement, FS_CardinalityType
  <2> QED
    BY <1>3, <2>2, <2>9 DEF LearnerInv, CommitsFollow
<1>16. AskFollows'
  <2>1. ask.commits \in Nat
    BY DEF LearnerInv, LearnerTypes, AskRecord
  <2> QED
    BY <1>2, <1>3, <2>1 DEF LearnerInv, AskFollows, Clean, Again
<1> QED
  BY <1>9, <1>10, <1>14, <1>15, <1>16 DEF LearnerInv

LEMMA OnwardKept == ASSUME LearnerInv, NEW t \in Applying, NextEntry(t), UNCHANGED learned PROVE LearnerInv'
<1>1. PICK n \in Nat, m \in Nat : n = appliers[t].next /\ m = appliers[t].last
  BY ApplierTyped
<1>2. /\ appliers[t].at = "onward"
      /\ UNCHANGED <<committed, rows_at, replica_at, index_noted, commit_seq, ask, times>>
  BY DEF NextEntry
<1>3. /\ appliers[t] \in ApplierRecord /\ ApplierFollows(appliers[t]) /\ n \in 1 .. Len(learned) /\ Len(learned) \in Nat
      /\ n <= m /\ m <= committed /\ committed \in Nat /\ committed <= Len(learned) /\ done_to \in 0 .. Len(learned)
      /\ appliers[t].copy \in 0 .. Len(learned)
  BY <1>1, <1>2, ApplierTyped DEF LearnerInv, AppliersFollow, ApplierFollows, LearnerTypes
<1>4. PICK v \in ApplierRecord :
         /\ appliers' = [appliers EXCEPT ![t] = v] /\ ApplierFollows(v)
         /\ \/ n < m /\ v.at = "execute" /\ v.next = n + 1 /\ done_to' = done_to
            \/ n = m /\ v.at = "rest" /\ done_to' = Larger(done_to, n)
  <2>1. CASE n < m
    <3>1. appliers' = [appliers EXCEPT ![t].at = "execute", ![t].next = n + 1] /\ done_to' = done_to
      BY <1>1, <1>3, <2>1 DEF NextEntry, LearnerInv, LearnerTypes
    <3>2. PICK v \in ApplierRecord : v = [appliers[t] EXCEPT !.at = "execute", !.next = n + 1]
      <4>1. PICK j \in Nat : j = n + 1
        BY <1>1
      <4>2. appliers[t] \in ApplierRecord
        BY <1>3
      <4>3. [appliers[t] EXCEPT !.at = "execute", !.next = j] \in ApplierRecord
        BY ONLY <4>2, j \in Nat DEF ApplierRecord, Stages
      <4> QED
        BY ONLY <4>1, <4>3
    <3>3. v.at = "execute" /\ v.next = n + 1 /\ v.last = m /\ v.copy = appliers[t].copy
      BY <1>1, <1>3, <3>2 DEF ApplierRecord
    <3>4. appliers' = [appliers EXCEPT ![t] = v]
      BY <3>1, <3>2, ApplierTyped DEF LearnerInv, LearnerTypes
    <3>5. ApplierFollows(v)
      BY <1>3, <2>1, <3>3 DEF ApplierFollows
    <3> QED
      BY <2>1, <3>1, <3>3, <3>4, <3>5
  <2>2. CASE n = m
    <3>1. appliers' = [appliers EXCEPT ![t] = IdleApplier] /\ done_to' = Larger(done_to, n)
      BY <1>1, <2>2 DEF NextEntry
    <3>2. IdleApplier \in ApplierRecord /\ IdleApplier.at = "rest" /\ ApplierFollows(IdleApplier)
      BY <1>3 DEF IdleApplier, ApplierRecord, Stages, ApplierFollows
    <3> QED
      BY <2>2, <3>1, <3>2
  <2> QED
    BY <1>3, <2>1, <2>2
<1>5. appliers'[t] = v /\ (\A u \in Applying \ {t} : appliers'[u] = appliers[u]) /\ appliers' \in [Applying -> ApplierRecord]
  BY <1>4, ApplierMoves
<1>6. done_to' \in 0 .. Len(learned)
  BY <1>3, <1>4 DEF Larger
<1>7. LearnerTypes'
  BY <1>2, <1>5, <1>6 DEF LearnerInv, LearnerTypes
<1>8. AppliersFollow'
  <2>1. ASSUME NEW u \in Applying PROVE ApplierFollows(appliers[u])'
    <3>1. ApplierFollows(appliers[u]) /\ ApplierFollows(v)
      BY <1>4 DEF LearnerInv, AppliersFollow
    <3> QED
      BY <1>2, <1>5, <3>1 DEF ApplierFollows
  <2> QED
    BY <2>1 DEF AppliersFollow
<1>9. \A u \in Applying \ {t}, i \in Int : Reaches(u, i)' <=> Reaches(u, i)
  BY <1>5 DEF Reaches, Past
<1>10. \A i \in Int : (i <= done_to' \/ Reaches(t, i)') <=> (i <= done_to \/ Reaches(t, i))
  <2>1. \A i \in Int : Reaches(t, i) <=> i <= n
    BY <1>1, <1>2 DEF Reaches, Past
  <2>2. CASE n < m
    <3>1. \A i \in Int : Reaches(t, i)' <=> i <= n
      BY <1>3, <1>4, <1>5, <2>2 DEF Reaches, Past
    <3> QED
      BY <1>3, <1>4, <2>1, <2>2, <3>1
  <2>3. CASE n = m
    <3>1. \A i \in Int : ~Reaches(t, i)'
      BY <1>3, <1>4, <1>5, <2>3 DEF Reaches
    <3>2. \A i \in Int : i <= done_to' <=> i <= done_to \/ i <= n
      BY <1>3, <1>4, <2>3 DEF Larger
    <3> QED
      BY <2>1, <3>1, <3>2
  <2> QED
    BY <1>3, <2>2, <2>3
<1>11. ExecutedFollow'
  <2>1. \A i \in 1 .. Len(learned) : SomeReaches(i)' <=> SomeReaches(i)
    BY <1>9, <1>10 DEF SomeReaches
  <2>2. ASSUME NEW u \in Applying PROVE Doubly(u)'
    <3>1. Doubly(u) /\ appliers[u].next \in Int
      BY ApplierTyped DEF LearnerInv, ExecutedFollow
    <3>2. CASE u = t
      <4>1. appliers'[u].at \notin Mid
        BY <1>4, <1>5, <3>2 DEF Mid
      <4> QED
        BY <4>1 DEF Doubly
    <3>3. CASE u # t
      <4>1. SUFFICES ASSUME NEW e \in Int, e = appliers[u].next, appliers[u].at \in Mid,
                            e <= done_to' \/ \E s \in Applying \ {u} : Reaches(s, e)'
                     PROVE  Again(e)
        BY <1>2, <1>5, <3>1, <3>3 DEF Doubly, Again
      <4>2. e <= done_to \/ \E s \in Applying \ {u} : Reaches(s, e)
        BY <1>9, <1>10, <3>3, <4>1
      <4> QED
        BY <3>1, <4>1, <4>2 DEF Doubly
    <3> QED
      BY <3>2, <3>3
  <2> QED
    BY <1>2, <2>1, <2>2 DEF LearnerInv, ExecutedFollow
<1>12. RowsFollow' /\ CommitsFollow'
  <2>1. appliers[t].at \notin {"snapshot", "merge", "note", "count"} /\ appliers'[t].at \notin {"snapshot", "merge", "note", "count"}
    BY <1>2, <1>4, <1>5
  <2>2. \A i \in 1 .. Len(learned) : (Copying(i)' <=> Copying(i)) /\ (Counting(i)' <=> Counting(i))
    BY <1>5, <2>1 DEF Copying, Counting
  <2>3. \A u \in Applying : appliers'[u].at = "merge" => appliers[u].at = "merge" /\ appliers'[u].copy = appliers[u].copy
    BY <1>5, <2>1
  <2> QED
    BY <1>2, <2>2, <2>3, SameFollow
<1>13. AskFollows'
  BY <1>2 DEF LearnerInv, AskFollows, Clean, Again
<1> QED
  BY <1>7, <1>8, <1>11, <1>12, <1>13 DEF LearnerInv

LEMMA AskKept ==
    ASSUME LearnerInv, UNCHANGED learned,
           CheckStale \/ ReadView \/ \E index \in 0 .. Len(learned), least \in 0 .. 1 : AskAt(index, least)
    PROVE  LearnerInv'
<1>1. UNCHANGED <<committed, done_to, appliers, rows_at, replica_at, index_noted, commit_seq, times>>
  BY DEF CheckStale, ReadView, AskAt
<1>2. AppliersFollow' /\ ExecutedFollow'
  BY <1>1 DEF LearnerInv, AppliersFollow, ApplierFollows, ExecutedFollow, SomeReaches, Reaches, Past, Doubly, Again
<1>3. RowsFollow' /\ CommitsFollow'
  BY <1>1, SameFollow DEF Copying, Counting
<1>4. /\ ask \in AskRecord /\ ask.index \in Nat /\ ask.index <= Len(learned) /\ Len(learned) \in Nat
      /\ index_noted \in 0 .. Len(learned) /\ replica_at \in Nat /\ commit_seq \in Nat /\ ask.commits \in Nat /\ ask.seen \in Nat
  BY ApplierTyped DEF LearnerInv, LearnerTypes, AskRecord
<1>5. ask' \in AskRecord /\ ask'.index <= Len(learned) /\ AskFollows'
  <2>1. CASE CheckStale
    <3>1. PICK a : /\ a = (IF ask.seen < ask.index \/ commit_seq < ask.commits THEN "stale" ELSE "view")
                   /\ ask' = [ask EXCEPT !.at = a]
      BY <2>1 DEF CheckStale
    <3>2. /\ ask' \in AskRecord /\ ask'.at = a /\ ask'.index = ask.index /\ ask'.commits = ask.commits
      BY <1>4, <3>1 DEF AskRecord
    <3>3. ask.seen <= index_noted
      BY <2>1 DEF CheckStale, LearnerInv, AskFollows
    <3>4. a = "view" => ask.index <= index_noted /\ ask.commits <= commit_seq
      BY <1>4, <3>1, <3>3
    <3>5. a # "index" /\ a # "served"
      BY <3>1
    <3> QED
      BY <1>1, <1>4, <3>2, <3>4, <3>5 DEF AskFollows
  <2>2. CASE ReadView
    <3>1. ask.at = "view" /\ ask' = [ask EXCEPT !.at = "served", !.view = replica_at]
      BY <2>2 DEF ReadView
    <3>2. /\ ask' \in AskRecord /\ ask'.at = "served" /\ ask'.index = ask.index /\ ask'.commits = ask.commits
          /\ ask'.view = replica_at
      BY <1>4, <3>1 DEF AskRecord
    <3>3. ask.index <= index_noted /\ ask.commits <= commit_seq
      BY <3>1 DEF LearnerInv, AskFollows
    <3>4. ASSUME NEW i \in 1 .. ask.index, learned[i] = "put", Clean(i) PROVE replica_at >= i
      <4>1. i \in 1 .. index_noted /\ i \in 1 .. Len(learned)
        BY <1>4, <3>3
      <4>2. times[i] > 0 /\ ~Copying(i)
        BY <3>4, <4>1 DEF LearnerInv, RowsFollow
      <4> QED
        BY <3>4, <4>1, <4>2 DEF LearnerInv, RowsFollow, PutOnce
    <3>5. \A i \in Int : Clean(i)' <=> Clean(i)
      BY <1>1 DEF Clean, Again
    <3> QED
      BY <1>1, <1>4, <3>2, <3>3, <3>4, <3>5 DEF AskFollows
  <2>3. CASE \E index \in 0 .. Len(learned), least \in 0 .. 1 : AskAt(index, least)
    <3>1. PICK index \in 0 .. Len(learned), least \in 0 .. 1 :
             ask' = [at |-> "index", index |-> index, commits |-> least, seen |-> index_noted, view |-> 0]
      BY <2>3 DEF AskAt
    <3> QED
      BY <1>1, <1>4, <3>1 DEF AskFollows, AskRecord
  <2> QED
    BY <2>1, <2>2, <2>3
<1>6. LearnerTypes'
  BY <1>1, <1>5 DEF LearnerInv, LearnerTypes
<1> QED
  BY <1>2, <1>3, <1>5, <1>6 DEF LearnerInv

LEMMA LearnerKeep == LearnerInv /\ [LearnerStep]_learnerVars => LearnerInv'
<1> SUFFICES ASSUME LearnerInv, [LearnerStep]_learnerVars PROVE LearnerInv'
  OBVIOUS
<1>1. CASE LearnerStep
  BY <1>1, LearnKept, CopyKept, ExecuteKept, SnapshotKept, MergeKept, NoteKept, CountKept, OnwardKept, AskKept DEF LearnerStep
<1>2. CASE UNCHANGED learnerVars
  <2>1. UNCHANGED <<learned, committed, done_to, appliers, rows_at, replica_at, index_noted, commit_seq, ask, times>>
    BY <1>2 DEF learnerVars
  <2>2. AppliersFollow' /\ ExecutedFollow'
    BY <2>1 DEF LearnerInv, AppliersFollow, ApplierFollows, ExecutedFollow, SomeReaches, Reaches, Past, Doubly, Again
  <2>3. RowsFollow' /\ CommitsFollow'
    BY <2>1, SameFollow DEF Copying, Counting
  <2>4. LearnerTypes' /\ AskFollows'
    BY <2>1 DEF LearnerInv, LearnerTypes, AskFollows, Clean, Again
  <2> QED
    BY <2>2, <2>3, <2>4 DEF LearnerInv
<1> QED
  BY <1>1, <1>2

LEMMA LearnerAnswers == LearnerInv => ReadsAreFresh
<1> SUFFICES ASSUME LearnerInv, ask.at = "served" PROVE ReadsAreFresh
  BY DEF ReadsAreFresh
<1>1. /\ ask.index \in Nat /\ ask.index <= Len(learned) /\ Len(learned) \in Nat /\ commit_seq \in Nat /\ ask.commits \in Nat
      /\ DOMAIN learned = 1 .. Len(learned)
  <2>1. learned \in Seq({"put", "bad", "commit"})
    BY DEF LearnerInv, LearnerTypes
  <2>2. DOMAIN learned = 1 .. Len(learned)
    BY <2>1
  <2> QED
    BY <2>2, ApplierTyped, <2>1 DEF LearnerInv, LearnerTypes, AskRecord
<1>2. ASSUME \A i \in 1 .. ask.index : ~Again(i), NEW i \in 1 .. ask.index, learned[i] = "put" PROVE ask.view >= i
  <2>1. Clean(i)
    BY <1>1, <1>2 DEF Clean
  <2> QED
    BY <1>2, <2>1 DEF LearnerInv, AskFollows
<1>3. ASSUME \A i \in DOMAIN learned : learned[i] = "commit" => ~Again(i)
      PROVE  Cardinality({i \in DOMAIN learned : learned[i] = "commit" /\ times[i] > 0}) >= ask.commits
  <2> DEFINE Done == {i \in 1 .. Len(learned) : learned[i] = "commit" /\ times[i] > 0}
  <2>1. commit_seq <= Cardinality(Counted) /\ ask.commits <= commit_seq
    BY <1>1, <1>3 DEF LearnerInv, CommitsFollow, CommitsOnce, AskFollows
  <2>2. IsFiniteSet(Done) /\ Counted \subseteq Done
    <3>1. 1 \in Int /\ Len(learned) \in Int
      BY <1>1
    <3>2. IsFiniteSet(1 .. Len(learned))
      BY ONLY <3>1, FS_Interval
    <3>3. Done \subseteq 1 .. Len(learned)
      OBVIOUS
    <3>4. IsFiniteSet(Done)
      BY ONLY <3>2, <3>3, FS_Subset
    <3> QED
      BY <3>4 DEF Counted
  <2>3. Cardinality(Counted) <= Cardinality(Done) /\ Cardinality(Counted) \in Nat /\ Cardinality(Done) \in Nat
    BY <2>2, FS_Subset, FS_CardinalityType
  <2>4. Cardinality(Done) >= ask.commits
    BY <1>1, <2>1, <2>3
  <2> QED
    BY <1>1, <2>4
<1> QED
  BY <1>2, <1>3 DEF ReadsAreFresh
-----------------------------------------------------------------------------
(***************************************************************************)
(* The destinations of backups (RemoteBackups): what a backup has put is   *)
(* whole and stays so, and a reading finds what was there when it began.   *)
(***************************************************************************)
BackupFile == {RowsFile, ManifestFile}
BackupKey == {<<i, f>> : i \in BackupId, f \in BackupFile}
KeyPath == BackupKey \cup StorePath
PathPart == BackupId \cup BackupFile \cup {"db", "_ss", "id", "p"}

FullRecord == [at : {"rest", "put", "write", "done", "failed"}, todo : SUBSET BackupFile, file : BackupFile]

Whole(k) == FullKey(k) \in DOMAIN objects /\ objects[FullKey(k)] = "whole"

ObjectsFollow ==
    /\ place \in {"local", "s3", "sftp"} /\ root \in {<<>>, <<"p">>} /\ stored \subseteq StorePath
    /\ \A p \in DOMAIN objects : objects[p] \in {"torn", "whole"} /\ \E k \in BackupKey \cup stored : p = FullKey(k)

\* A full backup has put the files that it has passed.
FullFollows(i) ==
    LET full == fulls[i] IN
    /\ full.at = "write" => full.file \in full.todo
    /\ full.at = "done" => full.todo = {}
    /\ full.at \in {"put", "write", "done"} => \A f \in BackupFile : f \notin full.todo => Whole(<<i, f>>)

FullsFollow == fulls \in [BackupId -> FullRecord] /\ \A i \in BackupId : FullFollows(i)

\* The files that a list or a restore has to bring back of a backup.
Asked(i) == {f \in BackupFile : reader.for = i \/ (reader.for = 0 /\ f = ManifestFile)}
Gotten(i, f) == <<<<i, f>>, "whole">> \in reader.got

\* A reading that nothing disturbs has yet to read the directory of each file it is asked for, has yet
\* to fetch the file, or has it; and what it has yet to fetch is there.
ReaderFollows ==
    /\ reader.since \subseteq BackupId /\ \A i \in reader.since : fulls[i].at = "done"
    /\ reader.at \in {"rest", "dirs", "fetch", "answered", "failed"}
    /\ reader.at = "rest" => reader.since = {}
    /\ reader.at \in {"dirs", "fetch"} /\ ~reader.disturbed =>
          /\ \A k \in reader.keys : k \in KeyPath /\ FullKey(k) \in DOMAIN objects
          /\ \A i \in reader.since : \A f \in Asked(i) : i \in reader.dirs \/ <<i, f>> \in reader.keys \/ Gotten(i, f)
    /\ reader.at = "fetch" => reader.dirs = {} \/ reader.disturbed
    /\ reader.at = "answered" /\ ~reader.disturbed => \A i \in reader.since : \A f \in Asked(i) : Gotten(i, f)
    /\ reader.at = "failed" /\ ~reader.disturbed => reader.for \notin reader.since

RemoteInv == ObjectsFollow /\ FullsFollow /\ ReaderFollows

LEMMA RemoteStart == RemoteInit => RemoteInv
<1> SUFFICES ASSUME RemoteInit PROVE RemoteInv
  OBVIOUS
<1>1. /\ place \in {"local", "s3", "sftp"} /\ root \in {<<>>, <<"p">>} /\ stored = {}
      /\ objects = <<>> /\ fulls = [i \in BackupId |-> NoFull] /\ reader = NoReader
  BY DEF RemoteInit
<1>2. DOMAIN objects = {}
  BY <1>1
<1>3. ObjectsFollow
  BY <1>1, <1>2 DEF ObjectsFollow
<1>4. NoFull \in FullRecord /\ NoFull.at = "rest"
  BY DEF NoFull, FullRecord, BackupFile
<1>5. FullsFollow
  BY <1>1, <1>4 DEF FullsFollow, FullFollows
<1>6. ReaderFollows
  BY <1>1 DEF NoReader, ReaderFollows
<1> QED
  BY <1>3, <1>5, <1>6 DEF RemoteInv

\* Below the root a key is a path, and is found again from it.
LEMMA KeysAndPaths ==
    ASSUME ObjectsFollow, NEW k \in KeyPath
    PROVE  /\ Relative(FullKey(k)) = k /\ SubSeq(FullKey(k), 1, Len(root)) = root
           /\ root = <<>> => FullKey(k) = k
<1>1. root \in Seq(PathPart) /\ k \in Seq(PathPart)
  <2>1. root \in Seq(PathPart)
    <3>1. "p" \in PathPart
      BY DEF PathPart
    <3>2. <<>> \in Seq(PathPart) /\ <<"p">> \in Seq(PathPart)
      BY <3>1
    <3> QED
      BY <3>2 DEF ObjectsFollow
  <2>2. CASE k \in BackupKey
    <3>1. PICK i \in BackupId, f \in BackupFile : k = <<i, f>>
      BY <2>2 DEF BackupKey
    <3>2. i \in PathPart /\ f \in PathPart
      BY DEF PathPart
    <3>3. <<i, f>> \in Seq(PathPart)
      BY ONLY <3>2
    <3> QED
      BY <2>1, <3>1, <3>3
  <2>3. CASE k \in StorePath
    <3>1. k = <<"db", "_ss", "id">>
      BY <2>3 DEF StorePath
    <3>2. "db" \in PathPart /\ "_ss" \in PathPart /\ "id" \in PathPart
      BY DEF PathPart
    <3>3. <<"db", "_ss", "id">> \in Seq(PathPart)
      BY ONLY <3>2
    <3> QED
      BY <2>1, <3>1, <3>3
  <2> QED
    BY <2>1, <2>2, <2>3 DEF KeyPath
<1>2. PICK s \in Seq(PathPart) : s = root
  BY <1>1
<1>3. PICK p : p = s \o k
  OBVIOUS
<1>4. /\ p \in Seq(PathPart) /\ Len(p) = Len(s) + Len(k) /\ Len(s) \in Nat /\ Len(k) \in Nat
      /\ \A i \in 1 .. Len(s) + Len(k) : p[i] = IF i <= Len(s) THEN s[i] ELSE k[i - Len(s)]
  BY <1>1, <1>2, <1>3, ConcatProperties, LenProperties
<1>5. SubSeq(p, 1, Len(s)) = s
  <2>1. \A i \in 1 .. Len(s) : p[i] \in PathPart
    BY <1>4, ElementOfSeq
  <2>2. /\ SubSeq(p, 1, Len(s)) \in Seq(PathPart) /\ Len(SubSeq(p, 1, Len(s))) = Len(s)
        /\ \A i \in 1 .. Len(s) : SubSeq(p, 1, Len(s))[i] = s[i]
    BY <1>4, <2>1, SubSeqProperties
  <2> QED
    BY <1>2, <2>2, SeqEqual
<1>6. SubSeq(p, Len(s) + 1, Len(p)) = k
  <2>1. \A i \in Len(s) + 1 .. Len(p) : p[i] \in PathPart
    BY <1>4, ElementOfSeq
  <2>2. /\ SubSeq(p, Len(s) + 1, Len(p)) \in Seq(PathPart) /\ Len(SubSeq(p, Len(s) + 1, Len(p))) = Len(k)
        /\ \A i \in 1 .. Len(k) : SubSeq(p, Len(s) + 1, Len(p))[i] = k[i]
    BY <1>4, <2>1, SubSeqProperties
  <2> QED
    BY <1>1, <2>2, SeqEqual
<1>7. s = <<>> => p = k
  BY <1>1, <1>3, ConcatEmptySeq
<1> QED
  BY <1>2, <1>3, <1>5, <1>6, <1>7 DEF FullKey, Relative

LEMMA BackupKeys ==
    ASSUME NEW i \in BackupId, NEW f \in BackupFile
    PROVE  /\ <<i, f>> \in BackupKey /\ <<i, f>> \in KeyPath /\ <<i, f>> \notin StorePath
           /\ \A j \in BackupId, g \in BackupFile : <<j, g>> = <<i, f>> => j = i /\ g = f
<1>1. \A p \in StorePath : Len(p) = 3
  BY DEF StorePath
<1>2. Len(<<i, f>>) = 2
  OBVIOUS
<1> QED
  BY <1>1, <1>2 DEF BackupKey, KeyPath

\* A file that is written is the only one that changes.
LEMMA WritesOne ==
    ASSUME ObjectsFollow, NEW k \in KeyPath, NEW c, objects' = Written(FullKey(k), c), UNCHANGED root
    PROVE  /\ DOMAIN objects' = DOMAIN objects \cup {FullKey(k)} /\ objects'[FullKey(k)] = c
           /\ \A p \in DOMAIN objects : p # FullKey(k) => objects'[p] = objects[p]
           /\ \A h \in KeyPath : h # k /\ Whole(h) => Whole(h)'
           /\ c = "whole" => Whole(k)'
<1>1. /\ DOMAIN objects' = DOMAIN objects \cup {FullKey(k)} /\ objects'[FullKey(k)] = c
      /\ \A p \in DOMAIN objects : p # FullKey(k) => objects'[p] = objects[p]
  BY DEF Written
<1>2. \A h \in KeyPath : h # k => FullKey(h) # FullKey(k)
  BY KeysAndPaths
<1>3. \A h \in KeyPath : FullKey(h)' = FullKey(h)
  BY DEF FullKey
<1>4. \A h \in KeyPath : h # k /\ Whole(h) => Whole(h)'
  BY <1>1, <1>2, <1>3 DEF Whole
<1>5. c = "whole" => Whole(k)'
  BY <1>1, <1>3 DEF Whole
<1> QED
  BY <1>1, <1>4, <1>5

\* What a reading has is not disturbed by files that come.
LEMMA ReaderStays ==
    ASSUME ReaderFollows, UNCHANGED <<root, reader>>, DOMAIN objects \subseteq DOMAIN objects',
           \A i \in BackupId : fulls[i].at = "done" => fulls'[i].at = "done"
    PROVE  ReaderFollows'
<1>1. \A k : FullKey(k)' = FullKey(k)
  BY DEF FullKey
<1>2. \A i, f : Gotten(i, f)' <=> Gotten(i, f)
  BY DEF Gotten
<1>3. \A i : Asked(i)' = Asked(i)
  BY DEF Asked
<1> QED
  BY <1>1, <1>2, <1>3 DEF ReaderFollows

\* A step of a full backup, which puts one of its files or none.
LEMMA FullStep ==
    ASSUME RemoteInv, NEW i \in BackupId, NEW v \in FullRecord, fulls' = [fulls EXCEPT ![i] = v],
           fulls[i].at # "done", UNCHANGED <<place, root, reader, stored>>,
           \/ objects' = objects
           \/ \E f \in BackupFile, c \in {"torn", "whole"} : objects' = Written(FullKey(<<i, f>>), c),
           FullFollows(i)'
    PROVE  RemoteInv'
<1> USE DEF RemoteInv
<1>1. fulls' \in [BackupId -> FullRecord] /\ fulls'[i] = v /\ \A j \in BackupId : j # i => fulls'[j] = fulls[j]
  BY DEF FullsFollow
<1>2. /\ ObjectsFollow' /\ DOMAIN objects \subseteq DOMAIN objects'
      /\ \A j \in BackupId, g \in BackupFile : j # i /\ Whole(<<j, g>>) => Whole(<<j, g>>)'
  <2>1. \A k : FullKey(k)' = FullKey(k)
    BY DEF FullKey
  <2>2. CASE objects' = objects
    BY <2>1, <2>2 DEF ObjectsFollow, Whole
  <2>3. CASE \E f \in BackupFile, c \in {"torn", "whole"} : objects' = Written(FullKey(<<i, f>>), c)
    <3>1. PICK f \in BackupFile, c \in {"torn", "whole"} : objects' = Written(FullKey(<<i, f>>), c)
      BY <2>3
    <3>2. PICK k \in KeyPath : k = <<i, f>> /\ k \in BackupKey
      BY BackupKeys
    <3>3. /\ DOMAIN objects' = DOMAIN objects \cup {FullKey(k)} /\ objects'[FullKey(k)] = c
          /\ \A p \in DOMAIN objects : p # FullKey(k) => objects'[p] = objects[p]
          /\ \A h \in KeyPath : h # k /\ Whole(h) => Whole(h)'
      BY <3>1, <3>2, WritesOne
    <3>4. ObjectsFollow'
      BY <2>1, <3>2, <3>3 DEF ObjectsFollow
    <3>5. ASSUME NEW j \in BackupId, NEW g \in BackupFile, j # i, Whole(<<j, g>>) PROVE Whole(<<j, g>>)'
      <4>1. <<j, g>> \in KeyPath /\ <<j, g>> # k
        BY <3>2, <3>5, BackupKeys
      <4> QED
        BY <3>3, <3>5, <4>1
    <3> QED
      BY <3>3, <3>4, <3>5
  <2> QED
    BY <2>2, <2>3
<1>3. ASSUME NEW j \in BackupId PROVE FullFollows(j)'
  <2>1. CASE j = i
    BY <2>1
  <2>2. CASE j # i
    BY <1>1, <1>2, <2>2 DEF FullsFollow, FullFollows
  <2> QED
    BY <2>1, <2>2
<1>4. FullsFollow'
  BY <1>1, <1>3 DEF FullsFollow
<1>5. ReaderFollows'
  BY <1>1, <1>2, ReaderStays
<1> QED
  BY <1>2, <1>4, <1>5

LEMMA FullKept ==
    ASSUME RemoteInv, NEW i \in BackupId, UNCHANGED <<place, root>>,
           StartFull(i) \/ S3Put(i) \/ SftpPut(i) \/ SftpWritten(i) \/ PutFails(i)
    PROVE  RemoteInv'
<1>1. /\ fulls \in [BackupId -> FullRecord] /\ FullFollows(i) /\ ObjectsFollow
      /\ fulls[i] \in FullRecord /\ fulls[i].todo \subseteq BackupFile
  BY DEF RemoteInv, FullsFollow, FullRecord
<1>2. \A f \in BackupFile : <<i, f>> \in KeyPath /\ \A g \in BackupFile : g # f => <<i, g>> # <<i, f>>
  BY BackupKeys
<1>3. \A k : FullKey(k)' = FullKey(k)
  BY DEF FullKey
<1>4. ASSUME NEW f \in BackupFile, NEW c, objects' = Written(FullKey(<<i, f>>), c)
      PROVE  /\ \A g \in BackupFile : g # f /\ Whole(<<i, g>>) => Whole(<<i, g>>)'
             /\ c = "whole" => Whole(<<i, f>>)'
  <2>1. PICK k \in KeyPath : k = <<i, f>>
    BY <1>2
  <2>2. (\A h \in KeyPath : h # k /\ Whole(h) => Whole(h)') /\ (c = "whole" => Whole(k)')
    BY <1>1, <1>4, <2>1, WritesOne
  <2>3. ASSUME NEW g \in BackupFile, g # f, Whole(<<i, g>>) PROVE Whole(<<i, g>>)'
    <3>1. <<i, g>> \in KeyPath /\ <<i, g>> # k
      BY <1>2, <2>1, <2>3
    <3> QED
      BY <2>2, <2>3, <3>1
  <2> QED
    BY <2>1, <2>2, <2>3
<1>5. ASSUME NEW f \in fulls[i].todo, NEW v, v = AfterFile(i, f)
      PROVE  /\ v \in FullRecord /\ v.todo = fulls[i].todo \ {f} /\ v.at \in {"put", "done"}
             /\ v.at = "done" => v.todo = {}
  BY <1>1, <1>5 DEF AfterFile, FullRecord
<1>6. CASE StartFull(i)
  <2>1. PICK v \in FullRecord : v = [fulls[i] EXCEPT !.at = "put", !.todo = {RowsFile, ManifestFile}]
    BY <1>1 DEF FullRecord, BackupFile
  <2>2. v.at = "put" /\ v.todo = BackupFile
    BY <1>1, <2>1 DEF FullRecord, BackupFile
  <2>3. fulls' = [fulls EXCEPT ![i] = v] /\ fulls[i].at = "rest" /\ UNCHANGED <<objects, reader, stored>>
    BY <1>1, <1>6, <2>1 DEF StartFull
  <2>4. fulls'[i] = v
    BY <1>1, <2>3
  <2>5. FullFollows(i)'
    BY <2>2, <2>4 DEF FullFollows
  <2> QED
    BY <2>3, <2>5, FullStep
<1>7. CASE S3Put(i)
  <2>1. PICK f \in fulls[i].todo : objects' = Written(FullKey(<<i, f>>), "whole") /\ fulls' = [fulls EXCEPT ![i] = AfterFile(i, f)]
    BY <1>7 DEF S3Put
  <2>2. PICK v \in FullRecord : v = AfterFile(i, f)
    BY <1>5
  <2>3. v.todo = fulls[i].todo \ {f} /\ v.at \in {"put", "done"} /\ (v.at = "done" => v.todo = {})
    BY <1>5, <2>2
  <2>4. fulls' = [fulls EXCEPT ![i] = v] /\ fulls'[i] = v /\ fulls[i].at = "put" /\ UNCHANGED <<reader, stored>> /\ f \in BackupFile
    BY <1>1, <1>7, <2>1, <2>2 DEF S3Put
  <2>5. FullFollows(i)'
    BY <1>1, <1>4, <2>1, <2>3, <2>4 DEF FullFollows
  <2> QED
    BY <2>1, <2>4, <2>5, FullStep
<1>8. CASE SftpPut(i)
  <2>1. PICK f \in fulls[i].todo : objects' = Written(FullKey(<<i, f>>), "torn") /\ fulls' = [fulls EXCEPT ![i].at = "write", ![i].file = f]
    BY <1>8 DEF SftpPut
  <2>2. PICK v \in FullRecord : v = [fulls[i] EXCEPT !.at = "write", !.file = f]
    BY <1>1 DEF FullRecord
  <2>3. v.todo = fulls[i].todo /\ v.at = "write" /\ v.file = f
    BY <1>1, <2>2 DEF FullRecord
  <2>4. fulls' = [fulls EXCEPT ![i] = v] /\ fulls'[i] = v /\ fulls[i].at = "put" /\ UNCHANGED <<reader, stored>> /\ f \in BackupFile
    BY <1>1, <1>8, <2>1, <2>2 DEF SftpPut
  <2>5. FullFollows(i)'
    BY <1>1, <1>4, <2>1, <2>3, <2>4 DEF FullFollows
  <2> QED
    BY <2>1, <2>4, <2>5, FullStep
<1>9. CASE SftpWritten(i)
  <2>1. PICK f : f = fulls[i].file
    OBVIOUS
  <2>2. fulls[i].at = "write" /\ f \in fulls[i].todo /\ f \in BackupFile
    BY <1>1, <1>9, <2>1 DEF SftpWritten, FullFollows
  <2>3. objects' = Written(FullKey(<<i, f>>), "whole") /\ fulls' = [fulls EXCEPT ![i] = AfterFile(i, f)] /\ UNCHANGED <<reader, stored>>
    BY <1>9, <2>1 DEF SftpWritten
  <2>4. PICK v \in FullRecord : v = AfterFile(i, f)
    BY <1>5, <2>2
  <2>5. v.todo = fulls[i].todo \ {f} /\ v.at \in {"put", "done"} /\ (v.at = "done" => v.todo = {})
    BY <1>5, <2>2, <2>4
  <2>6. fulls' = [fulls EXCEPT ![i] = v] /\ fulls'[i] = v
    BY <1>1, <2>3, <2>4
  <2>7. FullFollows(i)'
    BY <1>1, <1>4, <2>2, <2>3, <2>5, <2>6 DEF FullFollows
  <2> QED
    BY <2>2, <2>3, <2>6, <2>7, FullStep
<1>10. CASE PutFails(i)
  <2>1. PICK v \in FullRecord : v = [fulls[i] EXCEPT !.at = "failed"]
    BY <1>1 DEF FullRecord
  <2>2. v.at = "failed"
    BY <1>1, <2>1 DEF FullRecord
  <2>3. fulls' = [fulls EXCEPT ![i] = v] /\ fulls'[i] = v /\ fulls[i].at # "done" /\ UNCHANGED <<reader, stored>>
    BY <1>1, <1>10, <2>1 DEF PutFails
  <2>4. objects' = objects \/ \E f \in BackupFile, c \in {"torn", "whole"} : objects' = Written(FullKey(<<i, f>>), c)
    BY <1>1, <1>10 DEF PutFails
  <2>5. FullFollows(i)'
    BY <2>2, <2>3 DEF FullFollows
  <2> QED
    BY <2>3, <2>4, <2>5, FullStep
<1> QED
  BY <1>6, <1>7, <1>8, <1>9, <1>10

LEMMA StoreKept ==
    ASSUME RemoteInv, NEW path \in StorePath, StorePut(path), UNCHANGED <<place, root>>
    PROVE  RemoteInv'
<1> USE DEF RemoteInv
<1>1. stored' = stored \cup {path} /\ UNCHANGED <<fulls, reader>>
      /\ (objects' = Written(FullKey(path), "whole") \/ UNCHANGED objects)
  BY DEF StorePut
<1>2. path \in KeyPath /\ \A j \in BackupId, g \in BackupFile : <<j, g>> \in KeyPath /\ <<j, g>> # path
  BY BackupKeys DEF KeyPath
<1>3. \A k : FullKey(k)' = FullKey(k)
  BY DEF FullKey
<1>4. /\ ObjectsFollow' /\ DOMAIN objects \subseteq DOMAIN objects'
      /\ \A j \in BackupId, g \in BackupFile : Whole(<<j, g>>) => Whole(<<j, g>>)'
  <2>1. CASE UNCHANGED objects
    BY <1>1, <1>3, <2>1 DEF ObjectsFollow, Whole
  <2>2. CASE objects' = Written(FullKey(path), "whole")
    <3>1. /\ DOMAIN objects' = DOMAIN objects \cup {FullKey(path)} /\ objects'[FullKey(path)] = "whole"
          /\ \A p \in DOMAIN objects : p # FullKey(path) => objects'[p] = objects[p]
          /\ \A h \in KeyPath : h # path /\ Whole(h) => Whole(h)'
      BY <1>2, <2>2, WritesOne
    <3>2. ObjectsFollow'
      BY <1>1, <1>3, <3>1 DEF ObjectsFollow
    <3> QED
      BY <1>2, <3>1, <3>2
  <2> QED
    BY <1>1, <2>1, <2>2
<1>5. FullsFollow'
  BY <1>1, <1>4 DEF FullsFollow, FullFollows
<1>6. ReaderFollows'
  BY <1>1, <1>4, ReaderStays
<1> QED
  BY <1>4, <1>5, <1>6

\* What lies below the root is under a key of a backup or of the table's.
LEMMA BelowAreKeys ==
    ASSUME RemoteInv, NEW p \in Below
    PROVE  /\ p \in DOMAIN objects /\ Relative(p) \in BackupKey \cup stored /\ Relative(p) \in KeyPath
           /\ FullKey(Relative(p)) = p
<1>1. p \in DOMAIN objects
  BY DEF Below
<1>2. PICK k \in BackupKey \cup stored : p = FullKey(k)
  BY <1>1 DEF RemoteInv, ObjectsFollow
<1>3. k \in KeyPath
  BY <1>2 DEF RemoteInv, ObjectsFollow, KeyPath
<1>4. Relative(p) = k
  BY <1>2, <1>3, KeysAndPaths DEF RemoteInv
<1> QED
  BY <1>1, <1>2, <1>3, <1>4

LEMMA DoneAreBelow ==
    ASSUME RemoteInv, NEW i \in BackupId, fulls[i].at = "done", NEW f \in BackupFile
    PROVE  Whole(<<i, f>>) /\ FullKey(<<i, f>>) \in Below /\ <<i, f>> \in KeyPath /\ Relative(FullKey(<<i, f>>)) = <<i, f>>
<1>1. Whole(<<i, f>>)
  BY DEF RemoteInv, FullsFollow, FullFollows
<1>2. PICK k \in KeyPath : k = <<i, f>>
  BY BackupKeys
<1>3. SubSeq(FullKey(k), 1, Len(root)) = root /\ Relative(FullKey(k)) = k
  BY KeysAndPaths DEF RemoteInv
<1> QED
  BY <1>1, <1>2, <1>3 DEF Whole, Below

LEMMA StartKept ==
    ASSUME RemoteInv, NEW id \in BackupId \cup {0}, StartReading(id), UNCHANGED <<place, root>>
    PROVE  RemoteInv'
<1>1. UNCHANGED <<place, root, objects, fulls, stored>>
  BY DEF StartReading
<1>2. ObjectsFollow' /\ FullsFollow'
  BY <1>1 DEF RemoteInv, ObjectsFollow, FullsFollow, FullFollows, Whole, FullKey
<1>3. /\ reader'.at = (IF place = "s3" THEN "fetch" ELSE "dirs")
      /\ reader'.for = id
      /\ reader'.dirs = (IF place = "s3" THEN {} ELSE {Relative(p)[1] : p \in Below})
      /\ reader'.keys = (IF place = "s3" THEN S3List ELSE {})
      /\ reader'.since = {i \in BackupId : fulls[i].at = "done"}
      /\ reader'.disturbed = (place = "s3" /\ (root # <<>> \/ S3List # Below))
  BY DEF StartReading, NoReader
<1>4. \A k : FullKey(k)' = FullKey(k)
  BY <1>1 DEF FullKey
<1>5. ASSUME ~reader'.disturbed, NEW k \in reader'.keys PROVE k \in KeyPath /\ FullKey(k) \in DOMAIN objects
  <2>1. place = "s3" /\ root = <<>> /\ k \in Below
    BY <1>3, <1>5
  <2>2. /\ Relative(k) \in KeyPath /\ FullKey(Relative(k)) = k /\ k \in DOMAIN objects
    BY <2>1, BelowAreKeys
  <2>3. FullKey(Relative(k)) = Relative(k)
    BY <2>1, <2>2, KeysAndPaths DEF RemoteInv
  <2> QED
    BY <2>2, <2>3
<1>6. ASSUME ~reader'.disturbed, NEW i \in reader'.since, NEW f \in BackupFile
      PROVE  i \in reader'.dirs \/ <<i, f>> \in reader'.keys
  <2>1. i \in BackupId /\ fulls[i].at = "done"
    BY <1>3, <1>6
  <2>2. FullKey(<<i, f>>) \in Below /\ <<i, f>> \in KeyPath /\ Relative(FullKey(<<i, f>>)) = <<i, f>>
    BY <2>1, DoneAreBelow
  <2>3. CASE place = "s3"
    <3>1. root = <<>> /\ reader'.keys = Below
      BY <1>3, <1>6, <2>3
    <3>2. FullKey(<<i, f>>) = <<i, f>>
      BY <2>2, <3>1, KeysAndPaths DEF RemoteInv
    <3> QED
      BY <2>2, <3>1, <3>2
  <2>4. CASE place # "s3"
    <3>1. Relative(FullKey(<<i, f>>))[1] = i
      BY <2>2
    <3> QED
      BY <1>3, <2>2, <2>4, <3>1
  <2> QED
    BY <2>3, <2>4
<1>7. /\ reader'.since \subseteq BackupId /\ \A i \in reader'.since : fulls'[i].at = "done"
      /\ reader'.at \in {"dirs", "fetch"} /\ (reader'.at = "fetch" => reader'.dirs = {})
  BY <1>1, <1>3
<1>8. \A i : Asked(i)' \subseteq BackupFile
  BY DEF Asked
<1>9. ReaderFollows'
  BY <1>1, <1>4, <1>5, <1>6, <1>7, <1>8 DEF ReaderFollows
<1> QED
  BY <1>2, <1>9 DEF RemoteInv

\* A step of a reading that keeps what is there.
LEMMA ReadingStep ==
    ASSUME RemoteInv, UNCHANGED <<place, root, objects, fulls, stored>>, reader'.for = reader.for,
           reader'.since = reader.since, reader.at \in {"dirs", "fetch"},
           reader'.at \in {"dirs", "fetch", "answered", "failed"},
           reader'.disturbed \/
              /\ reader'.at \in {"dirs", "fetch"}
              /\ \A k \in reader'.keys : k \in KeyPath /\ FullKey(k) \in DOMAIN objects
              /\ \A i \in reader.since : \A f \in Asked(i) : i \in reader'.dirs \/ <<i, f>> \in reader'.keys \/ Gotten(i, f)'
              /\ reader'.at = "fetch" => reader'.dirs = {}
    PROVE  RemoteInv'
<1>1. ObjectsFollow' /\ FullsFollow'
  BY DEF RemoteInv, ObjectsFollow, FullsFollow, FullFollows, Whole, FullKey
<1>2. (\A k : FullKey(k)' = FullKey(k)) /\ \A i : Asked(i)' = Asked(i)
  BY DEF FullKey, Asked
<1>3. /\ reader'.since \subseteq BackupId /\ \A i \in reader'.since : fulls'[i].at = "done"
  BY DEF RemoteInv, ReaderFollows
<1>4. ReaderFollows'
  BY <1>2, <1>3 DEF ReaderFollows
<1> QED
  BY <1>1, <1>4 DEF RemoteInv

LEMMA DirKept == ASSUME RemoteInv, ReadDir \/ SkipDir, UNCHANGED <<place, root>> PROVE RemoteInv'
<1>1. UNCHANGED <<place, root, objects, fulls, stored>> /\ reader.at = "dirs" /\ reader'.for = reader.for
      /\ reader'.since = reader.since /\ reader'.at \in {"dirs", "fetch"}
      /\ (reader'.disturbed = reader.disturbed \/ (SkipDir /\ reader'.disturbed))
  <2>1. UNCHANGED <<objects, fulls, stored>> /\ reader.at = "dirs"
    BY DEF ReadDir, SkipDir
  <2>2. CASE SkipDir
    <3>1. PICK d \in reader.dirs :
            reader' = [reader EXCEPT !.dirs = @ \ {d}, !.at = IF reader.dirs = {d} THEN "fetch" ELSE @, !.disturbed = TRUE]
      BY <2>2 DEF SkipDir
    <3>2. /\ reader'.for = reader.for /\ reader'.since = reader.since /\ reader'.disturbed
          /\ reader'.at = (IF reader.dirs = {d} THEN "fetch" ELSE reader.at)
      BY <3>1
    <3> QED
      BY <2>1, <2>2, <3>2
  <2>3. CASE ReadDir
    <3>1. CASE reader' = [reader EXCEPT !.at = "fetch"]
      BY <2>1, <3>1
    <3>2. ASSUME NEW d \in reader.dirs,
                 reader' = [reader EXCEPT
                   !.dirs = @ \ {d}, !.at = IF reader.dirs = {d} THEN "fetch" ELSE @,
                   !.keys = @ \cup {Relative(p) : p \in {q \in Below : Relative(q)[1] = d}}]
          PROVE  /\ reader'.for = reader.for /\ reader'.since = reader.since /\ reader'.at \in {"dirs", "fetch"}
                 /\ reader'.disturbed = reader.disturbed
      <4>1. reader'.at = (IF reader.dirs = {d} THEN "fetch" ELSE reader.at)
        BY <3>2
      <4> QED
        BY <2>1, <3>2, <4>1
    <3> QED
      BY <2>1, <2>3, <3>1, <3>2 DEF ReadDir
  <2> QED
    BY <2>1, <2>2, <2>3
<1>2. CASE SkipDir
  <2>1. reader'.disturbed
    <3>1. PICK d \in reader.dirs :
            reader' = [reader EXCEPT !.dirs = @ \ {d}, !.at = IF reader.dirs = {d} THEN "fetch" ELSE @, !.disturbed = TRUE]
      BY <1>2 DEF SkipDir
    <3> QED
      BY <3>1
  <2> QED
    BY <1>1, <2>1, ReadingStep
<1>3. CASE ReadDir /\ ~reader.disturbed
  <2>1. /\ \A k \in reader.keys : k \in KeyPath /\ FullKey(k) \in DOMAIN objects
        /\ \A i \in reader.since : \A f \in Asked(i) : i \in reader.dirs \/ <<i, f>> \in reader.keys \/ Gotten(i, f)
        /\ reader.since \subseteq BackupId /\ \A i \in reader.since : fulls[i].at = "done"
    BY <1>1, <1>3 DEF RemoteInv, ReaderFollows
  <2>2. CASE reader.dirs = {} /\ reader' = [reader EXCEPT !.at = "fetch"]
    <3>1. reader'.keys = reader.keys /\ reader'.dirs = {} /\ \A i, f : Gotten(i, f)' <=> Gotten(i, f)
      BY <2>2 DEF Gotten
    <3> QED
      BY <1>1, <2>1, <2>2, <3>1, ReadingStep
  <2>3. ASSUME NEW d \in reader.dirs,
               reader' = [reader EXCEPT
                 !.dirs = @ \ {d}, !.at = IF reader.dirs = {d} THEN "fetch" ELSE @,
                 !.keys = @ \cup {Relative(p) : p \in {q \in Below : Relative(q)[1] = d}}]
        PROVE  RemoteInv'
    <3>1. /\ reader'.dirs = reader.dirs \ {d} /\ reader'.at = (IF reader.dirs = {d} THEN "fetch" ELSE reader.at)
          /\ reader'.keys = reader.keys \cup {Relative(p) : p \in {q \in Below : Relative(q)[1] = d}}
          /\ \A i, f : Gotten(i, f)' <=> Gotten(i, f)
      BY <2>3 DEF Gotten
    <3>2. \A k \in reader'.keys : k \in KeyPath /\ FullKey(k) \in DOMAIN objects
      BY <2>1, <3>1, BelowAreKeys
    <3>3. ASSUME NEW i \in reader.since, NEW f \in Asked(i)
          PROVE  i \in reader'.dirs \/ <<i, f>> \in reader'.keys \/ Gotten(i, f)'
      <4>1. CASE i = d
        <5>1. i \in BackupId /\ fulls[i].at = "done" /\ f \in BackupFile
          BY <2>1 DEF Asked
        <5>2. FullKey(<<i, f>>) \in Below /\ Relative(FullKey(<<i, f>>)) = <<i, f>>
          BY <5>1, DoneAreBelow
        <5>3. Relative(FullKey(<<i, f>>))[1] = d
          BY <4>1, <5>2
        <5> QED
          BY <3>1, <5>2, <5>3
      <4>2. CASE i # d
        BY <2>1, <3>1, <3>3, <4>2
      <4> QED
        BY <4>1, <4>2
    <3>4. reader'.at = "fetch" => reader'.dirs = {}
      BY <1>1, <3>1
    <3> QED
      BY <1>1, <3>2, <3>3, <3>4, ReadingStep
  <2> QED
    BY <1>3, <2>2, <2>3 DEF ReadDir
<1>4. CASE ReadDir /\ reader.disturbed
  <2>1. reader'.disturbed
    BY <1>1, <1>4
  <2> QED
    BY <1>1, <1>4, <2>1, ReadingStep
<1> QED
  BY <1>2, <1>3, <1>4

LEMMA FetchKept == ASSUME RemoteInv, Fetch \/ FetchBreaks, UNCHANGED <<place, root>> PROVE RemoteInv'
<1>1. UNCHANGED <<place, root, objects, fulls, stored>> /\ reader.at = "fetch" /\ reader'.for = reader.for
      /\ reader'.since = reader.since /\ reader'.at \in {"fetch", "failed"} /\ (FetchBreaks => reader'.disturbed)
  <2>1. UNCHANGED <<objects, fulls, stored>> /\ reader.at = "fetch"
    BY DEF Fetch, FetchBreaks
  <2>2. ASSUME FetchBreaks
        PROVE  /\ reader'.for = reader.for /\ reader'.since = reader.since /\ reader'.at \in {"fetch", "failed"}
               /\ reader'.disturbed
    <3>1. PICK k \in Wanted : reader' = [reader EXCEPT !.keys = @ \ {k}, !.disturbed = TRUE,
                                                       !.at = IF reader.for = 0 THEN @ ELSE "failed"]
      BY <2>2 DEF FetchBreaks
    <3>2. /\ reader'.for = reader.for /\ reader'.since = reader.since /\ reader'.disturbed
          /\ reader'.at = (IF reader.for = 0 THEN reader.at ELSE "failed")
      BY <3>1
    <3> QED
      BY <2>1, <3>2
  <2>3. ASSUME Fetch
        PROVE  reader'.for = reader.for /\ reader'.since = reader.since /\ reader'.at \in {"fetch", "failed"}
    <3>1. PICK k \in Wanted :
          reader' = [reader EXCEPT
                !.keys = @ \ {k},
                !.got = IF FullKey(k) \in DOMAIN objects THEN @ \cup {<<k, objects[FullKey(k)]>>} ELSE @,
                !.at = IF FullKey(k) \in DOMAIN objects \/ reader.for = 0 THEN @ ELSE "failed"]
      BY <2>3 DEF Fetch
    <3>2. /\ reader'.for = reader.for /\ reader'.since = reader.since
          /\ reader'.at = (IF FullKey(k) \in DOMAIN objects \/ reader.for = 0 THEN reader.at ELSE "failed")
      BY <3>1
    <3> QED
      BY <2>1, <3>2
  <2> QED
    BY <2>1, <2>2, <2>3
<1>2. CASE FetchBreaks
  <2>1. reader'.disturbed
    BY <1>1, <1>2
  <2> QED
    BY <1>1, <2>1, ReadingStep
<1>3. CASE Fetch
  <2>1. PICK k \in Wanted :
          reader' = [reader EXCEPT
                !.keys = @ \ {k},
                !.got = IF FullKey(k) \in DOMAIN objects THEN @ \cup {<<k, objects[FullKey(k)]>>} ELSE @,
                !.at = IF FullKey(k) \in DOMAIN objects \/ reader.for = 0 THEN @ ELSE "failed"]
    BY <1>3 DEF Fetch
  <2>2. /\ reader'.keys = reader.keys \ {k} /\ reader'.dirs = reader.dirs /\ reader'.disturbed = reader.disturbed
        /\ reader'.got = (IF FullKey(k) \in DOMAIN objects THEN reader.got \cup {<<k, objects[FullKey(k)]>>} ELSE reader.got)
        /\ reader'.at = (IF FullKey(k) \in DOMAIN objects \/ reader.for = 0 THEN reader.at ELSE "failed")
    BY <2>1
  <2>3. CASE reader.disturbed
    BY <1>1, <2>2, <2>3, ReadingStep
  <2>4. CASE ~reader.disturbed
    <3>1. /\ \A h \in reader.keys : h \in KeyPath /\ FullKey(h) \in DOMAIN objects
          /\ \A i \in reader.since : \A f \in Asked(i) : i \in reader.dirs \/ <<i, f>> \in reader.keys \/ Gotten(i, f)
          /\ reader.since \subseteq BackupId /\ \A i \in reader.since : fulls[i].at = "done"
          /\ reader.dirs = {}
      BY <1>1, <2>4 DEF RemoteInv, ReaderFollows
    <3>2. k \in reader.keys /\ FullKey(k) \in DOMAIN objects
      BY <3>1 DEF Wanted
    <3>3. reader'.at = "fetch" /\ reader'.got = reader.got \cup {<<k, objects[FullKey(k)]>>}
      BY <1>1, <2>2, <3>2
    <3>4. ASSUME NEW i \in reader.since, NEW f \in Asked(i)
          PROVE  i \in reader'.dirs \/ <<i, f>> \in reader'.keys \/ Gotten(i, f)'
      <4>1. CASE <<i, f>> = k
        <5>1. i \in BackupId /\ fulls[i].at = "done" /\ f \in BackupFile
          BY <3>1 DEF Asked
        <5>2. objects[FullKey(<<i, f>>)] = "whole"
          BY <5>1, DoneAreBelow DEF Whole
        <5> QED
          BY <3>3, <4>1, <5>2 DEF Gotten
      <4>2. CASE <<i, f>> # k
        BY <2>2, <3>1, <3>3, <4>2 DEF Gotten
      <4> QED
        BY <4>1, <4>2
    <3> QED
      BY <1>1, <2>2, <3>1, <3>3, <3>4, ReadingStep
  <2> QED
    BY <2>3, <2>4
<1> QED
  BY <1>2, <1>3

LEMMA FetchedKept == ASSUME RemoteInv, Fetched \/ EndReading, UNCHANGED <<place, root>> PROVE RemoteInv'
<1>1. UNCHANGED <<place, root, objects, fulls, stored>>
  BY DEF Fetched, EndReading
<1>2. ObjectsFollow' /\ FullsFollow'
  BY <1>1 DEF RemoteInv, ObjectsFollow, FullsFollow, FullFollows, Whole, FullKey
<1>3. CASE EndReading
  <2>1. reader'.at = "rest" /\ reader'.since = {}
    BY <1>3 DEF EndReading, NoReader
  <2> QED
    BY <1>2, <2>1 DEF RemoteInv, ReaderFollows
<1>4. CASE Fetched
  <2>1. /\ reader.at = "fetch" /\ Wanted = {} /\ reader'.for = reader.for /\ reader'.since = reader.since
        /\ reader'.got = reader.got /\ reader'.disturbed = reader.disturbed /\ reader'.dirs = reader.dirs
        /\ reader'.at = (IF reader.for = 0 \/ \A f \in {RowsFile, ManifestFile} : <<<<reader.for, f>>, "whole">> \in reader.got
                         THEN "answered" ELSE "failed")
    BY <1>4 DEF Fetched
  <2>2. reader.since \subseteq BackupId /\ \A i \in reader.since : fulls[i].at = "done"
    BY DEF RemoteInv, ReaderFollows
  <2>3. ASSUME ~reader.disturbed, NEW i \in reader.since, NEW f \in Asked(i) PROVE Gotten(i, f)
    <3>1. <<i, f>> \in reader.keys \/ Gotten(i, f)
      BY <2>1, <2>3 DEF RemoteInv, ReaderFollows
    <3>2. <<i, f>>[1] = i /\ Len(<<i, f>>) = 2 /\ <<i, f>>[Len(<<i, f>>)] = f
      OBVIOUS
    <3>3. <<i, f>> \notin reader.keys
      <4>1. CASE reader.for = i
        <5>1. i # 0
          BY <2>2, RemoteAssumption DEF BackupId
        <5> QED
          BY <2>1, <3>2, <4>1, <5>1 DEF Wanted, IsBackupKey
      <4>2. CASE reader.for = 0 /\ f = ManifestFile
        BY <2>1, <3>2, <4>2 DEF Wanted
      <4> QED
        BY <2>3, <4>1, <4>2 DEF Asked
    <3> QED
      BY <3>1, <3>3
  <2>4. \A i, f : Gotten(i, f)' <=> Gotten(i, f)
    BY <2>1 DEF Gotten
  <2>5. \A i : Asked(i)' = Asked(i)
    BY <2>1 DEF Asked
  <2>6. ~reader.disturbed /\ reader.for \in reader.since => reader'.at = "answered"
    <3>1. SUFFICES ASSUME ~reader.disturbed, reader.for \in reader.since PROVE reader'.at = "answered"
      OBVIOUS
    <3>2. Asked(reader.for) = {RowsFile, ManifestFile}
      BY DEF Asked, BackupFile
    <3> QED
      BY <2>1, <2>3, <3>1, <3>2 DEF Gotten
  <2>7. reader'.at \in {"answered", "failed"}
    BY <2>1
  <2>8. ReaderFollows'
    BY <1>1, <2>1, <2>2, <2>3, <2>4, <2>5, <2>6, <2>7 DEF ReaderFollows
  <2> QED
    BY <1>2, <2>8 DEF RemoteInv
<1> QED
  BY <1>3, <1>4

LEMMA RemoteKeep == RemoteInv /\ [RemoteStep]_remoteVars => RemoteInv'
<1> SUFFICES ASSUME RemoteInv, [RemoteStep]_remoteVars PROVE RemoteInv'
  OBVIOUS
<1>1. CASE RemoteStep
  BY <1>1, FullKept, StoreKept, StartKept, DirKept, FetchKept, FetchedKept DEF RemoteStep
<1>2. CASE UNCHANGED remoteVars
  <2>1. UNCHANGED <<place, root, objects, fulls, reader, stored>>
    BY <1>2 DEF remoteVars
  <2> QED
    BY <2>1 DEF RemoteInv, ObjectsFollow, FullsFollow, FullFollows, Whole, FullKey, ReaderFollows, Asked, Gotten
<1> QED
  BY <1>1, <1>2

LEMMA RemoteAnswers == RemoteInv => BackupsComeBack
<1> SUFFICES ASSUME RemoteInv PROVE BackupsComeBack
  OBVIOUS
<1>1. ASSUME reader.for = 0, reader.at = "answered", ~reader.disturbed, NEW i \in reader.since
      PROVE  <<<<i, ManifestFile>>, "whole">> \in reader.got
  <2>1. ManifestFile \in Asked(i)
    BY <1>1 DEF Asked, BackupFile
  <2> QED
    BY <1>1, <2>1 DEF RemoteInv, ReaderFollows, Gotten
<1>2. reader.for \in reader.since /\ ~reader.disturbed => reader.at # "failed"
  BY DEF RemoteInv, ReaderFollows
<1>3. StoreList(<<>>) \subseteq stored \cup (BackupId \X {RowsFile, ManifestFile})
  <2>1. \A p \in S3List : Relative(p) \in BackupKey \cup stored
    BY BelowAreKeys DEF S3List
  <2>2. BackupKey \subseteq BackupId \X {RowsFile, ManifestFile}
    BY DEF BackupKey, BackupFile
  <2> QED
    BY <2>1, <2>2 DEF StoreList
<1> QED
  BY <1>1, <1>2, <1>3 DEF BackupsComeBack
-----------------------------------------------------------------------------
(***************************************************************************)
(* The services side by side (Services).  What is proved of a service on   *)
(* its own holds beside the others, who leave its variables alone.         *)
(***************************************************************************)
ServicesInv ==
    /\ PairingInv /\ WritesInv /\ KeysInv /\ MirrorInv /\ RegistryInv /\ StreamInv /\ ShardInv
    /\ PlacementInv /\ UpdateInv /\ PodInv /\ LearnerInv /\ RemoteInv

LEMMA ServicesStart == ServicesInit => ServicesInv
<1> SUFFICES ASSUME ServicesInit PROVE ServicesInv
  OBVIOUS
<1>1. Init /\ PairingInit /\ WritesInit /\ KeyInit /\ MirrorInit /\ RegistryInit /\ StreamInit /\ ShardInit
      /\ PlacementInit /\ UpdateInit /\ PodInit /\ LearnerInit /\ RemoteInit
  BY DEF ServicesInit
<1> QED
  BY <1>1, PairingStart, WritesStart, KeysStart, MirrorStart, RegistryStart, StreamStart, ShardStart,
     PlacementStart, UpdateStart, PodStart, LearnerStart, RemoteStart DEF ServicesInv

\* A step of the services is a step of each, or leaves its variables alone.
LEMMA ServicesApart ==
    ASSUME [ServicesNext]_allVars
    PROVE  /\ [\E t \in Task : HookedStep(t)]_hookedVars
           /\ [WriteStep]_writeVars /\ [KeyStep]_keyVars /\ [MirrorStep]_mirrorVars
           /\ [RegistryStep]_registryVars /\ [StreamStep]_streamVars /\ [ShardStep]_shardVars
           /\ [PlacementStep]_placementVars /\ [UpdateStep]_updateVars
           /\ [PodStep]_podVars /\ [LearnerStep]_learnerVars /\ [RemoteStep]_remoteVars
<1> DEFINE Rest == \A s \in Service : OthersRest(s) =>
                     /\ s # "writers" => UNCHANGED hookedVars
                     /\ s # "stream" => UNCHANGED streamVars
                     /\ s # "shards" => UNCHANGED shardVars
                     /\ s # "mirror" => UNCHANGED mirrorVars
                     /\ s # "keys" => UNCHANGED keyVars
                     /\ s # "registry" => UNCHANGED registryVars
                     /\ s # "cluster" => UNCHANGED writeVars
                     /\ s # "placement" => UNCHANGED placementVars
                     /\ s # "update" => UNCHANGED updateVars
                     /\ s # "pods" => UNCHANGED podVars
                     /\ s # "learner" => UNCHANGED learnerVars
                     /\ s # "remote" => UNCHANGED remoteVars
<1>1. Rest
  BY DEF OthersRest
<1>2. CASE UNCHANGED allVars
  BY <1>2 DEF allVars
<1> HIDE DEF Rest
<1>3. CASE \E t \in Task : TaskStep(t)
  <2>1. (\E t \in Task : HookedStep(t)) /\ OthersRest("writers")
    BY <1>3 DEF TaskStep
  <2> QED
    BY <2>1, <1>1 DEF Rest, Service
<1>4. CASE StreamService
  <2>1. StreamStep /\ OthersRest("stream")
    BY <1>4 DEF StreamService
  <2> QED
    BY <2>1, <1>1 DEF Rest, Service
<1>10. CASE ShardService
  <2>1. ShardStep /\ OthersRest("shards")
    BY <1>10 DEF ShardService
  <2> QED
    BY <2>1, <1>1 DEF Rest, Service
<1>5. CASE MirrorService
  <2>1. MirrorStep /\ OthersRest("mirror")
    BY <1>5 DEF MirrorService
  <2> QED
    BY <2>1, <1>1 DEF Rest, Service
<1>6. CASE KeyService
  <2>1. KeyStep /\ OthersRest("keys")
    BY <1>6 DEF KeyService
  <2> QED
    BY <2>1, <1>1 DEF Rest, Service
<1>7. CASE RegistryService
  <2>1. RegistryStep /\ OthersRest("registry")
    BY <1>7 DEF RegistryService
  <2> QED
    BY <2>1, <1>1 DEF Rest, Service
<1>8. CASE ClusterService
  <2>1. WriteStep /\ OthersRest("cluster")
    BY <1>8 DEF ClusterService
  <2> QED
    BY <2>1, <1>1 DEF Rest, Service
<1>11. CASE PlacementService
  <2>1. PlacementStep /\ OthersRest("placement")
    BY <1>11 DEF PlacementService
  <2> QED
    BY <2>1, <1>1 DEF Rest, Service
<1>12. CASE UpdateService
  <2>1. UpdateStep /\ OthersRest("update")
    BY <1>12 DEF UpdateService
  <2> QED
    BY <2>1, <1>1 DEF Rest, Service
<1>13. CASE PodService
  <2>1. PodStep /\ OthersRest("pods")
    BY <1>13 DEF PodService
  <2> QED
    BY <2>1, <1>1 DEF Rest, Service
<1>14. CASE LearnerService
  <2>1. LearnerStep /\ OthersRest("learner")
    BY <1>14 DEF LearnerService
  <2> QED
    BY <2>1, <1>1 DEF Rest, Service
<1>15. CASE RemoteService
  <2>1. RemoteStep /\ OthersRest("remote")
    BY <1>15 DEF RemoteService
  <2> QED
    BY <2>1, <1>1 DEF Rest, Service
<1>9. CASE WireService \/ ImportService
  <2>1. \E s \in {"wire", "import"} : OthersRest(s)
    BY <1>9 DEF WireService, ImportService
  <2> QED
    BY <2>1, <1>1 DEF Rest, Service
<1> QED
  BY <1>2, <1>3, <1>4, <1>10, <1>5, <1>6, <1>7, <1>8, <1>9, <1>11, <1>12,
     <1>13, <1>14, <1>15 DEF ServicesNext

LEMMA ServicesKeep == ServicesInv /\ [ServicesNext]_allVars => ServicesInv'
  BY ServicesApart, PairingKeep, WritesKeep, KeysKeep, MirrorKeep, RegistryKeep, StreamKeep, ShardKeep,
     PlacementKeeps, PlacementRests, UpdateStepKeeps, UpdateRests, PodKeep, LearnerKeep, RemoteKeep DEF ServicesInv

LEMMA ServicesAlways == ServicesSpec => []ServicesInv
  BY ServicesStart, ServicesKeep, PTL DEF ServicesSpec

\* A write on a node of a cluster that is answered has its own entry, committed, under the index it
\* was given, and is refused exactly if it is invalid, unless the node was deposed while it waited
\* (wait_for_commit in node.rs).
THEOREM WritersHearTheirOwn == ServicesSpec => []AnswersAreOwn
<1>1. ServicesInv => AnswersAreOwn
  BY WritesAnswer DEF ServicesInv
<1> QED
  BY <1>1, ServicesAlways, PTL

\* What is handed to a stream, to the mirror, to the snapshots' hook or to the crawlers' registry
\* arrives in its order, however the bytes are cut and the tasks are scheduled.
THEOREM DeliveriesInOrder == ServicesSpec => []ArrivesInOrder
<1>1. ServicesInv => ArrivesInOrder
  BY StreamFaithful, MirrorLatest, PairingCovers DEF ServicesInv, RegistryInv, ArrivesInOrder
<1> QED
  BY <1>1, ServicesAlways, PTL

\* A key that was issued and handed out decides as the registry says, also while it is revoked or
\* another key expires (key_guardian.rs); every range has its leader among its replicas and a
\* rebalance fills it up as far as there are nodes (topology.rs); and an update whose server
\* is not healthy ends with the binary that was there before (self_update.rs).
THEOREM OperatorsAlwaysDecide == ServicesSpec => []OperatorsDecide
<1>1. ServicesInv => OperatorsDecide
  BY RangesArePlaced, UpdatesUndone DEF ServicesInv, KeysInv, OperatorsDecide
<1> QED
  BY <1>1, ServicesAlways, PTL

\* What a server says is so of its tables and backups: a pod that answers has what the server's table
\* was during the call (ephemeral pods), a learner's reader sees each row up to the index it was
\* promised (columnar_pod.rs), and a list or a restore brings back each backup that was done when it
\* began (s3.rs, sftp.rs).  The parser's and the imports' parts, folds over texts, are left to the run.
THEOREM OthersSayWhatIsDone == ServicesSpec => [](service \notin {"wire", "import"} => SaidIsDone)
<1>1. ServicesInv => (service \notin {"wire", "import"} => SaidIsDone)
  BY PodsAnswer, LearnerAnswers, RemoteAnswers DEF ServicesInv, SaidIsDone, Serving
<1> QED
  BY <1>1, ServicesAlways, PTL

\* Put, get and delete on the shards behave as one map on which a call takes effect at one moment,
\* and total_len counts every key that was there throughout and none that never was
\* (sharded_store.rs).
THEOREM ShardsAreOneMap == ServicesSpec => ShardedIsOneMap
<1>1. ServicesInit => TheMap!Init
  BY ShardStartImplements DEF ServicesInit
<1>2. ServicesInv /\ [ServicesNext]_allVars =>
        [UNCHANGED shardVars \/ [TheMap!Next]_(TheMap!vars)]_shardVars
  BY ServicesApart, ShardStepImplements DEF ServicesInv
<1>3. ServicesInv /\ [ServicesNext]_allVars =>
        [\A c \in Client : call[c].do = "len" /\ call'[c] = NoCall =>
            SumOf(lens'[c]) \in Cardinality(lowest[c]) .. Cardinality(highest[c])]_shardVars
  BY ServicesApart, TotalKeeps DEF ServicesInv
<1> QED
  BY <1>1, <1>2, <1>3, ServicesAlways, PTL
     DEF ServicesSpec, ShardedIsOneMap, ImplementsMap, TotalIsBracketed
=============================================================================
