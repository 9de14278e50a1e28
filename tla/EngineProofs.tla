---------------------------- MODULE EngineProofs ---------------------------
(***************************************************************************)
(* More theorems about one process of the database (Database).             *)
(***************************************************************************)
EXTENDS DatabaseProofs
-----------------------------------------------------------------------------
(***************************************************************************)
(* Sequences in order (RowStore).                                          *)
(***************************************************************************)
\* Numbers below one, in a set.
Below(S, k) == {m \in S : m < k}

LEMMA RankIs ==
    ASSUME NEW S \in SUBSET Nat, IsFiniteSet(S)
    PROVE  /\ Cardinality(S) \in Nat
           /\ \A k \in S : Cardinality(Below(S, k)) \in 0 .. (Cardinality(S) - 1)
           /\ \A k, l \in S : k < l => Cardinality(Below(S, k)) < Cardinality(Below(S, l))
<1>1. Cardinality(S) \in Nat
  BY FS_CardinalityType
<1>2. \A k : Below(S, k) \in SUBSET S
  BY DEF Below
<1>3. \A k : IsFiniteSet(Below(S, k)) /\ Cardinality(Below(S, k)) \in Nat
  BY <1>2, FS_Subset, FS_CardinalityType
<1>4. ASSUME NEW T \in SUBSET S, IsFiniteSet(T), NEW k \in S PROVE Below(S, k) \subseteq T /\ k \in T => Cardinality(Below(S, k)) < Cardinality(T)
  <2> SUFFICES ASSUME Below(S, k) \subseteq T, k \in T PROVE Cardinality(Below(S, k)) < Cardinality(T)
    OBVIOUS
  <2>1. k \notin Below(S, k)
    BY DEF Below
  <2>2. IsFiniteSet(T \ {k}) /\ Cardinality(T \ {k}) = Cardinality(T) - 1 /\ Cardinality(T) \in Nat
    BY <1>4, FS_RemoveElement, FS_CardinalityType
  <2>3. Below(S, k) \in SUBSET (T \ {k})
    BY <2>1
  <2>4. Cardinality(Below(S, k)) <= Cardinality(T \ {k})
    BY <2>2, <2>3, FS_Subset
  <2> QED
    BY <1>3, <2>2, <2>4
<1>5. ASSUME NEW k \in S PROVE Cardinality(Below(S, k)) \in 0 .. (Cardinality(S) - 1)
  <2>1. Cardinality(Below(S, k)) < Cardinality(S)
    BY <1>2, <1>4
  <2> QED
    BY <1>1, <1>3, <2>1
<1>6. ASSUME NEW k \in S, NEW l \in S, k < l PROVE Cardinality(Below(S, k)) < Cardinality(Below(S, l))
  <2>1. \A m \in S : m \in Nat
    OBVIOUS
  <2>2. \A m \in S : m < k => m < l
    BY <1>6, <2>1
  <2>3. Below(S, k) \subseteq Below(S, l) /\ k \in Below(S, l)
    BY <1>6, <2>2 DEF Below
  <2> QED
    BY <1>2, <1>3, <1>4, <2>3
<1> QED
  BY <1>1, <1>5, <1>6

LEMMA OrderedIs ==
    ASSUME NEW S \in SUBSET Nat, IsFiniteSet(S)
    PROVE  /\ Cardinality(S) \in Nat
           /\ Ordered(S) \in Seq(S) /\ Len(Ordered(S)) = Cardinality(S)
           /\ DOMAIN Ordered(S) = 1 .. Cardinality(S)
           /\ \A k \in S : \E i \in 1 .. Cardinality(S) : Ordered(S)[i] = k
           /\ \A i, j \in 1 .. Cardinality(S) : i < j => Ordered(S)[i] < Ordered(S)[j]
<1> DEFINE rank(k) == Cardinality(Below(S, k))
<1>1. PICK n \in Nat : n = Cardinality(S)
  BY RankIs
<1>2. \A k \in S : rank(k) \in 0 .. (n - 1)
  BY <1>1, RankIs
<1>3. \A k, l \in S : k < l => rank(k) < rank(l)
  BY RankIs
<1> HIDE DEF rank
<1>4. \A k, l \in S : rank(k) = rank(l) => k = l
  <2> SUFFICES ASSUME NEW k \in S, NEW l \in S, rank(k) = rank(l), k # l PROVE FALSE
    OBVIOUS
  <2>1. k \in Nat /\ l \in Nat
    OBVIOUS
  <2>2. k < l \/ l < k
    BY <2>1
  <2> QED
    BY <1>2, <1>3, <2>2
\* Each rank is taken, as many as there are.
<1>5. ASSUME NEW i \in 1 .. n PROVE \E k \in S : rank(k) = i - 1
  <2> SUFFICES ASSUME \A k \in S : rank(k) # i - 1 PROVE FALSE
    OBVIOUS
  <2> DEFINE T == (0 .. (n - 1)) \ {i - 1}
             f == [k \in S |-> rank(k)]
  <2>1. IsFiniteSet(0 .. (n - 1)) /\ Cardinality(0 .. (n - 1)) = n
    <3>1. 0 \in Int /\ n - 1 \in Int
      OBVIOUS
    <3>2. IsFiniteSet(0 .. (n - 1)) /\ Cardinality(0 .. (n - 1)) = IF 0 > n - 1 THEN 0 ELSE (n - 1) - 0 + 1
      BY ONLY <3>1, FS_Interval
    <3> QED
      BY <3>2
  <2>2. IsFiniteSet(T) /\ Cardinality(T) = n - 1
    <3>1. PICK U, x : U = 0 .. (n - 1) /\ x = i - 1 /\ x \in U
      OBVIOUS
    <3>2. IsFiniteSet(U) /\ Cardinality(U) = n
      BY <2>1, <3>1
    <3>3. IsFiniteSet(U \ {x}) /\ Cardinality(U \ {x}) = IF x \in U THEN Cardinality(U) - 1 ELSE Cardinality(U)
      <4>1. IsFiniteSet(U)
        BY <3>2
      <4> QED
        BY ONLY <4>1, FS_RemoveElement, Zenon
    <3> QED
      BY <3>1, <3>2, <3>3
  <2>3. f \in [S -> T]
    BY <1>2
  <2>4. PICK k \in S, l \in S : k # l /\ f[k] = f[l]
    <3>1. Cardinality(T) < Cardinality(S)
      BY <1>1, <2>2
    <3> HIDE DEF T, f
    <3> QED
      BY <2>2, <2>3, <3>1, FS_PigeonHole
  <2> QED
    BY <1>4, <2>4
<1>6. \A i \in 1 .. n : Ordered(S)[i] \in S /\ rank(Ordered(S)[i]) = i - 1
  <2> SUFFICES ASSUME NEW i \in 1 .. n PROVE Ordered(S)[i] \in S /\ rank(Ordered(S)[i]) = i - 1
    OBVIOUS
  <2>1. Ordered(S)[i] = CHOOSE k \in S : rank(k) = i - 1
    BY <1>1 DEF Ordered, Below, rank
  <2> QED
    BY <1>5, <2>1
<1>7. Ordered(S) = [i \in 1 .. n |-> Ordered(S)[i]]
  BY <1>1 DEF Ordered
<1>8. Ordered(S) \in [1 .. n -> S]
  BY <1>6, <1>7
<1>9. Ordered(S) \in Seq(S) /\ Len(Ordered(S)) = n /\ DOMAIN Ordered(S) = 1 .. n
  <2>1. \A g \in [1 .. n -> S] : g \in Seq(S) /\ Len(g) = n /\ DOMAIN g = 1 .. n
    OBVIOUS
  <2> QED
    BY <1>8, <2>1
<1>10. \A k \in S : \E i \in 1 .. n : Ordered(S)[i] = k
  <2> SUFFICES ASSUME NEW k \in S PROVE \E i \in 1 .. n : Ordered(S)[i] = k
    OBVIOUS
  <2>1. rank(k) + 1 \in 1 .. n /\ (rank(k) + 1) - 1 = rank(k)
    BY <1>2
  <2> QED
    BY <1>4, <1>6, <2>1
<1>11. \A i, j \in 1 .. n : i < j => Ordered(S)[i] < Ordered(S)[j]
  <2> SUFFICES ASSUME NEW i \in 1 .. n, NEW j \in 1 .. n, i < j PROVE Ordered(S)[i] < Ordered(S)[j]
    OBVIOUS
  <2>1. PICK k \in S, l \in S : k = Ordered(S)[i] /\ l = Ordered(S)[j]
    BY <1>6
  <2>2. rank(k) = i - 1 /\ rank(l) = j - 1
    BY <1>6, <2>1
  <2>3. ~(l < k) /\ k # l
    BY <1>3, <2>2
  <2>4. k \in Nat /\ l \in Nat
    OBVIOUS
  <2> QED
    BY <2>1, <2>3, <2>4
<1> QED
  BY <1>1, <1>9, <1>10, <1>11
\* r is p and then q.
JoinOf(p, q, r) ==
    /\ Len(r) = Len(p) + Len(q) /\ Len(p) \in Nat /\ Len(q) \in Nat
    /\ \A k \in 1 .. Len(p) : k \in 1 .. Len(r) /\ r[k] = p[k]
    /\ \A k \in 1 .. Len(q) : Len(p) + k \in 1 .. Len(r) /\ r[Len(p) + k] = q[k]
    /\ \A k \in 1 .. Len(r) : k \notin 1 .. Len(p) => k - Len(p) \in 1 .. Len(q) /\ r[k] = q[k - Len(p)]

LEMMA JoinIs ==
    ASSUME NEW T, NEW p \in Seq(T), NEW q \in Seq(T), NEW r, r = p \o q
    PROVE  r \in Seq(T) /\ JoinOf(p, q, r)
<1>1. r \in Seq(T) /\ Len(r) = Len(p) + Len(q) /\ Len(p) \in Nat /\ Len(q) \in Nat
  OBVIOUS
<1>2. \A k \in 1 .. Len(r) : r[k] = IF k <= Len(p) THEN p[k] ELSE q[k - Len(p)]
  OBVIOUS
<1>3. \A k \in 1 .. Len(p) : k \in 1 .. Len(r) /\ r[k] = p[k]
  BY <1>1, <1>2
<1>4. ASSUME NEW k \in 1 .. Len(q) PROVE Len(p) + k \in 1 .. Len(r) /\ r[Len(p) + k] = q[k]
  <2>1. Len(p) + k \in 1 .. Len(r) /\ ~(Len(p) + k <= Len(p)) /\ (Len(p) + k) - Len(p) = k
    BY <1>1
  <2> QED
    BY <1>2, <2>1
<1>5. ASSUME NEW k \in 1 .. Len(r), k \notin 1 .. Len(p) PROVE k - Len(p) \in 1 .. Len(q) /\ r[k] = q[k - Len(p)]
  BY <1>1, <1>2, <1>5
<1> QED
  BY <1>1, <1>3, <1>4, <1>5 DEF JoinOf

\* What is put together has all the elements of its parts, no others, and ends as the last one does.
FlattenOf(T, seqs, flat) ==
    /\ flat \in Seq(T)
    /\ \A i \in 1 .. Len(seqs) : \A j \in 1 .. Len(seqs[i]) : \E k \in 1 .. Len(flat) : flat[k] = seqs[i][j]
    /\ \A k \in 1 .. Len(flat) : \E i \in 1 .. Len(seqs) : \E j \in 1 .. Len(seqs[i]) : flat[k] = seqs[i][j]
    /\ seqs[Len(seqs)] # <<>> =>
          flat # <<>> /\ flat[Len(flat)] = seqs[Len(seqs)][Len(seqs[Len(seqs)])]

LEMMA FlattenMembers ==
    ASSUME NEW T, NEW seqs \in Seq(Seq(T)), seqs # <<>>, NEW flat, flat = FlattenSeq(seqs)
    PROVE  FlattenOf(T, seqs, flat)
<1>0. PICK n \in Nat \ {0} : n = Len(seqs)
  OBVIOUS
<1>1. PICK g : Joins(seqs, n, g) /\ FlattenSeq(seqs) = g[n] /\ \A i \in 1 .. n : g[i] \in Seq(T)
  BY <1>0, FlattenIs
<1>2. \A i \in 1 .. n : seqs[i] \in Seq(T)
  BY <1>0
<1>3. \A m \in 1 .. n : g[m] = IF m = 1 THEN seqs[m] ELSE g[m - 1] \o seqs[m]
  BY <1>1 DEF Joins
<1> DEFINE Holds(m) ==
              /\ \A i \in 1 .. m : \A j \in 1 .. Len(seqs[i]) : \E k \in 1 .. Len(g[m]) : g[m][k] = seqs[i][j]
              /\ \A k \in 1 .. Len(g[m]) : \E i \in 1 .. m : \E j \in 1 .. Len(seqs[i]) : g[m][k] = seqs[i][j]
              /\ seqs[m] # <<>> => g[m] # <<>> /\ g[m][Len(g[m])] = seqs[m][Len(seqs[m])]
           Bad == {m \in 1 .. n : ~Holds(m)}
<1>4. ASSUME Bad # {} PROVE FALSE
  <2>1. PICK m \in 1 .. n : m \in Bad /\ \A k \in Bad : m <= k
    <3>1. Bad \subseteq 1 .. n /\ Bad \subseteq Nat
      OBVIOUS
    <3> HIDE DEF Bad
    <3> QED
      BY <1>4, <3>1, LeastOf
  <2>2. ~Holds(m)
    BY <2>1
  <2>3. CASE m = 1
    <3>1. g[1] = seqs[1] /\ seqs[1] \in Seq(T) /\ 1 .. 1 = {1}
      BY <1>0, <1>2, <1>3, <2>3
    <3>2. PICK q \in Seq(T) : q = seqs[1]
      BY <3>1
    <3>3. Holds(1)
      BY <3>1, <3>2
    <3> QED
      BY <2>2, <2>3, <3>3
  <2>4. CASE m # 1
    <3>1. m - 1 \in 1 .. n /\ ~(m <= m - 1)
      BY <2>4
    <3>2. Holds(m - 1)
      BY <2>1, <3>1
    <3>3. PICK p \in Seq(T), q \in Seq(T) : p = g[m - 1] /\ q = seqs[m]
      BY <1>1, <1>2, <3>1
    <3>4. g[m] = p \o q
      BY <1>3, <2>4, <3>3
    <3> HIDE DEF Holds
    <3>5. PICK r : r = p \o q /\ r = g[m]
      BY <3>4
    <3>6. JoinOf(p, q, r)
      BY <3>3, <3>5, JoinIs
    <3>7. ASSUME NEW i \in 1 .. m, NEW j \in 1 .. Len(seqs[i]) PROVE \E k \in 1 .. Len(r) : r[k] = seqs[i][j]
      <4>1. CASE i = m
        BY <3>3, <3>6, <4>1 DEF JoinOf
      <4>2. CASE i # m
        <5>1. i \in 1 .. (m - 1)
          BY <4>2
        <5>2. PICK k \in 1 .. Len(p) : p[k] = seqs[i][j]
          BY <3>2, <3>3, <5>1 DEF Holds
        <5> QED
          BY <3>6, <5>2 DEF JoinOf
      <4> QED
        BY <4>1, <4>2
    <3>8. ASSUME NEW k \in 1 .. Len(r) PROVE \E i \in 1 .. m : \E j \in 1 .. Len(seqs[i]) : r[k] = seqs[i][j]
      <4>1. CASE k \in 1 .. Len(p)
        <5>1. PICK i \in 1 .. (m - 1) : \E j \in 1 .. Len(seqs[i]) : p[k] = seqs[i][j]
          BY <3>2, <3>3, <4>1 DEF Holds
        <5>2. i \in 1 .. m
          BY <3>1
        <5> QED
          BY <3>6, <4>1, <5>1, <5>2 DEF JoinOf
      <4>2. CASE k \notin 1 .. Len(p)
        <5>1. k - Len(p) \in 1 .. Len(q) /\ r[k] = q[k - Len(p)] /\ m \in 1 .. m
          BY <3>6, <4>2 DEF JoinOf
        <5> QED
          BY <3>3, <5>1
      <4> QED
        BY <4>1, <4>2
    <3>9. seqs[m] # <<>> => r # <<>> /\ r[Len(r)] = seqs[m][Len(seqs[m])]
      <4> SUFFICES ASSUME q # <<>> PROVE r # <<>> /\ r[Len(r)] = q[Len(q)]
        BY <3>3
      <4>1. Len(q) \in 1 .. Len(q) /\ Len(q) # 0
        BY <3>3
      <4>2. r[Len(p) + Len(q)] = q[Len(q)] /\ Len(r) # 0
        BY <3>6, <4>1 DEF JoinOf
      <4> QED
        BY <3>6, <4>2 DEF JoinOf
    <3>10. Holds(m)
      BY <3>5, <3>7, <3>8, <3>9 DEF Holds
    <3> QED
      BY <2>2, <3>10
  <2> QED
    BY <2>3, <2>4
<1>5. Holds(n)
  <2> HIDE DEF Holds
  <2>1. n \in 1 .. n /\ n \notin Bad
    BY <1>0, <1>4
  <2> QED
    BY <2>1
<1> HIDE DEF Bad
<1>6. n \in 1 .. n
  OBVIOUS
<1>7. flat = g[n] /\ flat \in Seq(T)
  BY <1>1, <1>6
<1>8. /\ \A i \in 1 .. n : \A j \in 1 .. Len(seqs[i]) : \E k \in 1 .. Len(flat) : flat[k] = seqs[i][j]
      /\ \A k \in 1 .. Len(flat) : \E i \in 1 .. n : \E j \in 1 .. Len(seqs[i]) : flat[k] = seqs[i][j]
      /\ seqs[n] # <<>> => flat # <<>> /\ flat[Len(flat)] = seqs[n][Len(seqs[n])]
  BY <1>5, <1>7
<1> HIDE DEF Holds
<1> QED
  BY <1>0, <1>7, <1>8 DEF FlattenOf
-----------------------------------------------------------------------------
(***************************************************************************)
(* Operations and what they leave in a cell.                               *)
(***************************************************************************)
LEMMA KeysAre ==
    /\ Key \subseteq Nat /\ IsFiniteSet(Key) /\ \A S \in SUBSET Key : IsFiniteSet(S) /\ S \in SUBSET Nat
    /\ Key \subseteq Cell /\ Table \subseteq Cell /\ Key \cap Table = {} /\ Cell = Table \cup Key
    /\ 0 \in Val /\ 1 \in Val /\ Val \subseteq Nat /\ 0 \notin LogKey /\ LogKey \subseteq Key /\ UserKey \subseteq Key
    /\ \A k \in Key : TableOf(k) \in Table
    /\ \A t : KeysOf(t) \subseteq Key /\ \A k \in Key : k \in KeysOf(t) <=> TableOf(k) = t
<1>1. Key \subseteq Nat /\ Key \cap Table = {} /\ 0 \in Val /\ 1 \in Val /\ Val \subseteq Nat /\ 0 \notin LogKey
  BY RowStoreAssumption DEF Key, Table, Val
<1>2. IsFiniteSet(Key)
  BY RowStoreAssumption, FS_Union DEF Key
<1>3. \A S \in SUBSET Key : IsFiniteSet(S) /\ S \in SUBSET Nat
  BY <1>1, <1>2, FS_Subset
<1>4. Key \subseteq Cell /\ Table \subseteq Cell /\ Cell = Table \cup Key /\ LogKey \subseteq Key /\ UserKey \subseteq Key
  BY DEF Cell, Key
<1>5. /\ \A k \in Key : TableOf(k) \in Table
      /\ \A t : KeysOf(t) \subseteq Key /\ \A k \in Key : k \in KeysOf(t) <=> TableOf(k) = t
  BY DEF TableOf, KeysOf, Table
<1> QED
  BY <1>1, <1>2, <1>3, <1>4, <1>5

LEMMA OpIs ==
    /\ \A op \in Op : op.cell \in Cell /\ op.val \in Val
    /\ \A c \in Cell, v \in Val : [cell |-> c, val |-> v] \in Op
    /\ \A op \in Op : CellsOf(op) \subseteq Cell /\ op.cell \in CellsOf(op)
    /\ \A op \in Op : op.cell \in Key \/ op.val # 0 => CellsOf(op) = {op.cell}
<1>1. \A op \in Op : op.cell \in Cell /\ op.val \in Val
  BY DEF Op
<1>2. \A c \in Cell, v \in Val : [cell |-> c, val |-> v] \in Op
  BY DEF Op
<1>3. \A op \in Op : CellsOf(op) \subseteq Cell /\ op.cell \in CellsOf(op)
  BY <1>1, KeysAre DEF CellsOf
<1>4. \A op \in Op : op.cell \in Key \/ op.val # 0 => CellsOf(op) = {op.cell}
  BY <1>1, KeysAre DEF CellsOf
<1> QED
  BY <1>1, <1>2, <1>3, <1>4

LEMMA CellsAre ==
    ASSUME NEW ops \in Seq(Op)
    PROVE  /\ CellsOfAll(ops) \subseteq Cell
           /\ \A i \in 1 .. Len(ops) : ops[i] \in Op /\ CellsOf(ops[i]) \subseteq CellsOfAll(ops)
           /\ \A c \in CellsOfAll(ops) : \E i \in 1 .. Len(ops) : c \in CellsOf(ops[i])
<1>1. DOMAIN ops = 1 .. Len(ops) /\ \A i \in 1 .. Len(ops) : ops[i] \in Op
  OBVIOUS
<1> QED
  BY <1>1, OpIs DEF CellsOfAll

LEMMA TailOf ==
    ASSUME NEW S, NEW q \in Seq(S), q # <<>>
    PROVE  /\ Head(q) \in S /\ Head(q) = q[1] /\ Tail(q) \in Seq(S)
           /\ Len(q) \in Nat \ {0} /\ Len(Tail(q)) = Len(q) - 1
           /\ \A i \in 1 .. Len(Tail(q)) : i + 1 \in 1 .. Len(q) /\ Tail(q)[i] = q[i + 1]
           /\ \A i \in 1 .. Len(q) : i # 1 => i - 1 \in 1 .. Len(Tail(q)) /\ Tail(q)[i - 1] = q[i]
<1>1. /\ Head(q) \in S /\ Head(q) = q[1] /\ Tail(q) \in Seq(S)
      /\ Len(q) \in Nat \ {0} /\ Len(Tail(q)) = Len(q) - 1
      /\ \A i \in 1 .. Len(Tail(q)) : i + 1 \in 1 .. Len(q) /\ Tail(q)[i] = q[i + 1]
  OBVIOUS
<1>2. \A i \in 1 .. Len(q) : i # 1 => i - 1 \in 1 .. Len(Tail(q)) /\ Tail(q)[i - 1] = q[i]
  BY <1>1
<1> QED
  BY <1>1, <1>2

\* The cells of a sequence are those of its first operation and of the others.
LEMMA CellsTail ==
    ASSUME NEW ops \in Seq(Op), ops # <<>>
    PROVE  CellsOfAll(ops) = CellsOf(Head(ops)) \cup CellsOfAll(Tail(ops))
<1>1. Tail(ops) \in Seq(Op)
  BY TailOf
<1>2. CellsOfAll(Tail(ops)) \subseteq CellsOfAll(ops)
  <2> SUFFICES ASSUME NEW c \in CellsOfAll(Tail(ops)) PROVE c \in CellsOfAll(ops)
    OBVIOUS
  <2>1. PICK i \in 1 .. Len(Tail(ops)) : c \in CellsOf(Tail(ops)[i])
    BY <1>1, CellsAre
  <2>2. i + 1 \in 1 .. Len(ops) /\ c \in CellsOf(ops[i + 1])
    BY <2>1, TailOf
  <2> QED
    BY <2>2, CellsAre
<1>3. CellsOf(Head(ops)) \subseteq CellsOfAll(ops)
  BY TailOf, CellsAre
<1>4. ASSUME NEW c \in CellsOfAll(ops) PROVE c \in CellsOf(Head(ops)) \cup CellsOfAll(Tail(ops))
  <2>1. PICK i \in 1 .. Len(ops) : c \in CellsOf(ops[i])
    BY CellsAre
  <2>2. CASE i = 1
    BY <2>1, <2>2, TailOf
  <2>3. CASE i # 1
    <3>1. i - 1 \in 1 .. Len(Tail(ops)) /\ Tail(ops)[i - 1] = ops[i]
      BY <2>3, TailOf
    <3> QED
      BY <1>1, <2>1, <3>1, CellsAre
  <2> QED
    BY <2>2, <2>3
<1> QED
  BY <1>2, <1>3, <1>4

LEMMA CellsEmpty == CellsOfAll(<<>>) = {} /\ <<>> \in Seq(Op) /\ <<>> \in Seq(WriteStep)
<1>1. DOMAIN <<>> = {}
  OBVIOUS
<1> QED
  BY <1>1 DEF CellsOfAll

\* What an operation leaves in a cell it concerns.
Gives(op, c) == IF op.cell = c THEN op.val ELSE 0

\* Operations leave v in c: the last one that concerns c does, as that is the last of all or as all do.
Settles(ops, c, v) ==
    \/ c \in CellsOf(ops[Len(ops)]) /\ Gives(ops[Len(ops)], c) = v
    \/ \A i \in 1 .. Len(ops) : c \in CellsOf(ops[i]) => Gives(ops[i], c) = v

LEMMA GreatestOf ==
    ASSUME NEW n \in Nat, NEW T, T \subseteq 1 .. n, T # {}
    PROVE  Max(T) \in T /\ \A y \in T : y <= Max(T)
<1> DEFINE D == {n - x : x \in T}
<1>1. D \subseteq Nat /\ D # {}
  <2>1. \A x \in T : x \in 1 .. n
    OBVIOUS
  <2>2. \A x \in T : n - x \in Nat
    BY <2>1
  <2> QED
    BY <2>2
<1>2. PICK d \in D : \A e \in D : d <= e
  <2> HIDE DEF D
  <2> QED
    BY <1>1, LeastOf
<1>3. PICK x \in T : d = n - x
  BY <1>2
<1>4. \A y \in T : x >= y
  <2> SUFFICES ASSUME NEW y \in T PROVE x >= y
    OBVIOUS
  <2>1. n - y \in D /\ x \in Nat /\ y \in Nat
    OBVIOUS
  <2>2. n - x <= n - y
    BY <1>2, <1>3, <2>1
  <2> QED
    BY <2>1, <2>2
<1>5. Max(T) \in T /\ \A y \in T : Max(T) >= y
  BY <1>4 DEF Max
<1> QED
  BY <1>5

LEMMA AfterIs ==
    ASSUME NEW ops \in Seq(Op), NEW c, NEW v, NEW w
    PROVE  /\ c \notin CellsOfAll(ops) => After(w, ops, c) = w
           /\ c \in CellsOfAll(ops) /\ Settles(ops, c, v) => After(w, ops, c) = v
<1> DEFINE touching == {i \in DOMAIN ops : c \in CellsOf(ops[i])}
<1>1. Len(ops) \in Nat /\ DOMAIN ops = 1 .. Len(ops) /\ touching \subseteq 1 .. Len(ops)
  OBVIOUS
<1>2. c \in CellsOfAll(ops) <=> touching # {}
  BY DEF CellsOfAll
<1>3. After(w, ops, c) = IF touching = {} THEN w ELSE Gives(ops[Max(touching)], c)
  BY DEF After, Gives
<1> HIDE DEF touching
<1>4. ASSUME touching # {}, Settles(ops, c, v) PROVE Gives(ops[Max(touching)], c) = v
  <2>1. Max(touching) \in touching /\ \A y \in touching : y <= Max(touching)
    BY <1>1, <1>4, GreatestOf
  <2>2. \A i : i \in touching <=> i \in 1 .. Len(ops) /\ c \in CellsOf(ops[i])
    BY <1>1 DEF touching
  <2>3. CASE c \in CellsOf(ops[Len(ops)]) /\ Gives(ops[Len(ops)], c) = v
    <3>1. Len(ops) \in 1 .. Len(ops)
      <4>1. PICK i : i \in 1 .. Len(ops)
        BY <2>1, <2>2
      <4> QED
        BY <1>1, <4>1
    <3>2. Len(ops) <= Max(touching) /\ Max(touching) \in 1 .. Len(ops)
      BY <1>1, <2>1, <2>2, <2>3, <3>1
    <3>3. Max(touching) = Len(ops)
      BY <1>1, <3>2
    <3> QED
      BY <2>3, <3>3
  <2>4. CASE \A i \in 1 .. Len(ops) : c \in CellsOf(ops[i]) => Gives(ops[i], c) = v
    BY <2>1, <2>2, <2>4
  <2> QED
    BY <1>4, <2>3, <2>4 DEF Settles
<1> QED
  BY <1>2, <1>3, <1>4

\* Rows of a table, in order.
RowsOf(t, val) == {k \in Key : TableOf(k) = t /\ mem[k] # 0 /\ (val = 0 \/ mem[k] = val)}

LEMMA HitsAre ==
    ASSUME NEW t, NEW val, NEW h, h = Hits(t, val)
    PROVE  /\ h \in Seq(Key) /\ DOMAIN h = 1 .. Len(h) /\ Len(h) \in Nat /\ ToSet(h) = RowsOf(t, val)
           /\ \A i \in 1 .. Len(h) : h[i] \in RowsOf(t, val)
           /\ \A k \in RowsOf(t, val) : \E i \in 1 .. Len(h) : h[i] = k
           /\ \A i, j \in 1 .. Len(h) : i # j => h[i] # h[j]
<1>1. PICK S : S = RowsOf(t, val)
  OBVIOUS
<1>2. S \in SUBSET Key /\ S \in SUBSET Nat /\ IsFiniteSet(S)
  BY <1>1, KeysAre DEF RowsOf
<1>3. h = Ordered(S)
  BY <1>1 DEF Hits, RowsOf
<1>4. /\ Len(h) \in Nat /\ h \in Seq(S) /\ DOMAIN h = 1 .. Len(h)
      /\ \A k \in S : \E i \in 1 .. Len(h) : h[i] = k
      /\ \A i, j \in 1 .. Len(h) : i < j => h[i] < h[j]
  BY <1>2, <1>3, OrderedIs
<1>5. \A i \in 1 .. Len(h) : h[i] \in S
  BY <1>4
<1>6. h \in Seq(Key)
  <2>1. \A g \in Seq(S) : g \in Seq(Key)
    <3> SUFFICES ASSUME NEW g \in Seq(S) PROVE g \in Seq(Key)
      OBVIOUS
    <3>1. \A i \in 1 .. Len(g) : g[i] \in Key
      <4>1. \A i \in 1 .. Len(g) : g[i] \in S
        OBVIOUS
      <4>2. \A k \in S : k \in Key
        BY <1>2
      <4> QED
        BY <4>1, <4>2
    <3>2. g \in [1 .. Len(g) -> Key]
      BY <3>1
    <3> QED
      BY <3>2
  <2> QED
    BY <1>4, <2>1
<1>7. \A i, j \in 1 .. Len(h) : i # j => h[i] # h[j]
  <2> SUFFICES ASSUME NEW i \in 1 .. Len(h), NEW j \in 1 .. Len(h), i # j PROVE h[i] # h[j]
    OBVIOUS
  <2>1. h[i] \in Nat /\ h[j] \in Nat
    BY <1>2, <1>5
  <2>2. i < j \/ j < i
    BY <1>4
  <2> QED
    BY <1>4, <2>1, <2>2
<1>8. ToSet(h) = S
  BY <1>4, <1>5 DEF ToSet
<1> QED
  BY <1>1, <1>4, <1>5, <1>6, <1>7, <1>8

\* One operation.
LEMMA OneOp ==
    ASSUME NEW op \in Op, NEW ops, ops = <<op>>
    PROVE  /\ ops \in Seq(Op) /\ CellsOfAll(ops) = CellsOf(op) /\ ops # <<>>
           /\ \A c \in CellsOf(op) : Settles(ops, c, Gives(op, c))
<1>1. ops \in Seq(Op) /\ Len(ops) = 1 /\ ops[1] = op /\ ops # <<>>
  OBVIOUS
<1>2. 1 .. Len(ops) = {1}
  BY <1>1
<1>3. CellsOfAll(ops) = CellsOf(op)
  <2>1. DOMAIN ops = {1}
    BY <1>1, <1>2
  <2> QED
    BY <1>1, <2>1 DEF CellsOfAll
<1> QED
  BY <1>1, <1>2, <1>3 DEF Settles

\* An operation for each of some keys.
LEMMA OpsAre ==
    ASSUME NEW keys \in Seq(Key), NEW v \in Val, NEW ops, ops = Ops(keys, v)
    PROVE  /\ ops \in Seq(Op) /\ CellsOfAll(ops) = ToSet(keys)
           /\ \A c : Settles(ops, c, v)
<1>1. PICK n \in Nat : n = Len(keys) /\ DOMAIN keys = 1 .. n /\ \A i \in 1 .. n : keys[i] \in Key
  OBVIOUS
<1>2. ops = [i \in 1 .. n |-> [cell |-> keys[i], val |-> v]]
  BY <1>1 DEF Ops
<1>3. \A i \in 1 .. n : [cell |-> keys[i], val |-> v] \in Op
  BY <1>1, OpIs, KeysAre
<1>4. ops \in Seq(Op) /\ Len(ops) = n
  <2>1. ops \in [1 .. n -> Op]
    BY <1>2, <1>3
  <2> QED
    BY <1>2, <2>1
<1>5. \A i \in 1 .. n : ops[i].cell = keys[i] /\ ops[i].val = v /\ ops[i] \in Op
  BY <1>2, <1>3
<1>6. \A i \in 1 .. n : CellsOf(ops[i]) = {keys[i]}
  BY <1>1, <1>5, OpIs
<1>7. CellsOfAll(ops) = ToSet(keys)
  <2>1. DOMAIN ops = 1 .. n
    BY <1>2
  <2>2. CellsOfAll(ops) = UNION {CellsOf(ops[i]) : i \in 1 .. n}
    BY <2>1 DEF CellsOfAll
  <2>3. ToSet(keys) = {keys[i] : i \in 1 .. n}
    BY <1>1 DEF ToSet
  <2> SUFFICES \A c : c \in CellsOfAll(ops) <=> c \in ToSet(keys)
    OBVIOUS
  <2>4. \A c : c \in CellsOfAll(ops) <=> \E i \in 1 .. n : c \in CellsOf(ops[i])
    BY <2>2
  <2>5. \A c : c \in ToSet(keys) <=> \E i \in 1 .. n : c = keys[i]
    BY <2>3
  <2>6. \A c : \A i \in 1 .. n : c \in CellsOf(ops[i]) <=> c = keys[i]
    BY <1>6
  <2> QED
    BY <2>4, <2>5, <2>6, Zenon
<1>8. \A c : Settles(ops, c, v)
  BY <1>4, <1>5, <1>6 DEF Settles, Gives
<1> QED
  BY <1>4, <1>7, <1>8

\* The operations of a key that changes.
LEMMA MovedAre ==
    ASSUME mem \in [Cell -> Val], NEW hits \in Seq(Key), hits # <<>>, NEW new \in Key, NEW ops, ops = Moved(hits, new)
    PROVE  /\ ops \in Seq(Op) /\ CellsOfAll(ops) = ToSet(hits) \cup {new} /\ Last(hits) \in Key
           /\ Settles(ops, new, mem[Last(hits)])
           /\ \A c : c # new => Settles(ops, c, 0)
<1>1. PICK n \in Nat \ {0} : n = Len(hits) /\ DOMAIN hits = 1 .. n /\ \A i \in 1 .. n : hits[i] \in Key
  OBVIOUS
<1>2. \A k \in Key : k \in Cell /\ mem[k] \in Val
  BY KeysAre
<1> DEFINE gone(i) == [cell |-> hits[i], val |-> 0]
           there(i) == [cell |-> new, val |-> mem[hits[i]]]
<1>3. \A i \in 1 .. n : gone(i) \in Op /\ there(i) \in Op
  BY <1>1, <1>2, OpIs, KeysAre
<1>4. PICK seqs : seqs = [i \in 1 .. n |-> (IF hits[i] = new THEN <<>> ELSE <<gone(i)>>) \o <<there(i)>>]
  OBVIOUS
<1>5. ops = FlattenSeq(seqs)
  BY <1>1, <1>4 DEF Moved
<1> HIDE DEF gone, there
<1>7. \A i \in 1 .. n : /\ seqs[i] \in Seq(Op) /\ seqs[i] # <<>> /\ seqs[i][Len(seqs[i])] = there(i)
                        /\ Len(seqs[i]) \in 1 .. Len(seqs[i])
                        /\ \A j \in 1 .. Len(seqs[i]) : seqs[i][j] = there(i) \/ (hits[i] # new /\ seqs[i][j] = gone(i))
                        /\ hits[i] # new => 1 \in 1 .. Len(seqs[i]) /\ seqs[i][1] = gone(i)
  <2> SUFFICES ASSUME NEW i \in 1 .. n
               PROVE  /\ seqs[i] \in Seq(Op) /\ seqs[i] # <<>> /\ seqs[i][Len(seqs[i])] = there(i)
                      /\ Len(seqs[i]) \in 1 .. Len(seqs[i])
                      /\ \A j \in 1 .. Len(seqs[i]) :
                            seqs[i][j] = there(i) \/ (hits[i] # new /\ seqs[i][j] = gone(i))
                      /\ hits[i] # new => 1 \in 1 .. Len(seqs[i]) /\ seqs[i][1] = gone(i)
    OBVIOUS
  <2>1. PICK a \in Op, b \in Op : a = gone(i) /\ b = there(i)
    BY <1>3
  <2>2. PICK p : p = IF hits[i] = new THEN <<>> ELSE <<a>>
    OBVIOUS
  <2>3. /\ p \in Seq(Op)
        /\ hits[i] = new => Len(p) = 0
        /\ hits[i] # new => Len(p) = 1 /\ p[1] = a
    <3>1. <<>> \in Seq(Op) /\ <<a>> \in Seq(Op) /\ Len(<<>>) = 0 /\ Len(<<a>>) = 1 /\ <<a>>[1] = a
      OBVIOUS
    <3> QED
      BY <2>2, <3>1
  <2>4. PICK q : q = <<b>> /\ q \in Seq(Op) /\ Len(q) = 1 /\ q[1] = b
    <3>1. <<b>> \in Seq(Op) /\ Len(<<b>>) = 1 /\ <<b>>[1] = b
      OBVIOUS
    <3> QED
      BY <3>1
  <2>5. PICK r : r = p \o q /\ seqs[i] = r
    BY <1>4, <2>1, <2>2, <2>4
  <2>6. r \in Seq(Op) /\ JoinOf(p, q, r)
    BY <2>3, <2>4, <2>5, JoinIs
  <2>7. 1 .. 1 = {1} /\ 1 .. 0 = {}
    OBVIOUS
  <2>8. CASE hits[i] = new
    <3>1. Len(r) = 1 /\ r[1] = b
      BY <2>3, <2>4, <2>6, <2>7, <2>8 DEF JoinOf
    <3> QED
      BY <2>1, <2>5, <2>6, <2>7, <2>8, <3>1
  <2>9. CASE hits[i] # new
    <3>1. Len(r) = 2 /\ r[1] = a /\ r[2] = b
      BY <2>3, <2>4, <2>6, <2>7, <2>9 DEF JoinOf
    <3>2. 1 .. 2 = {1, 2}
      OBVIOUS
    <3> QED
      BY <2>1, <2>5, <2>6, <2>9, <3>1, <3>2
  <2> QED
    BY <2>8, <2>9
<1>8. seqs \in Seq(Seq(Op)) /\ Len(seqs) = n /\ seqs # <<>>
  <2>1. seqs = [i \in 1 .. n |-> seqs[i]]
    BY <1>4
  <2>2. seqs \in [1 .. n -> Seq(Op)]
    BY <1>7, <2>1
  <2> QED
    BY <2>2
<1>9. /\ ops \in Seq(Op) /\ ops # <<>> /\ ops[Len(ops)] = there(n)
      /\ \A i \in 1 .. n : \A j \in 1 .. Len(seqs[i]) : \E k \in 1 .. Len(ops) : ops[k] = seqs[i][j]
      /\ \A k \in 1 .. Len(ops) : \E i \in 1 .. n : \E j \in 1 .. Len(seqs[i]) : ops[k] = seqs[i][j]
  <2>1. seqs[n] # <<>> /\ seqs[n][Len(seqs[n])] = there(n)
    BY <1>7
  <2>2. PICK flat : flat = FlattenSeq(seqs)
    OBVIOUS
  <2>3. FlattenOf(Op, seqs, flat)
    BY <1>8, <2>2, FlattenMembers
  <2> QED
    BY <1>5, <1>8, <2>1, <2>2, <2>3 DEF FlattenOf
<1>16. ASSUME NEW k \in 1 .. Len(ops) PROVE \E i \in 1 .. n : ops[k] = there(i) \/ ops[k] = gone(i)
  <2>1. PICK i \in 1 .. n : \E j \in 1 .. Len(seqs[i]) : ops[k] = seqs[i][j]
    BY <1>9
  <2>2. PICK j \in 1 .. Len(seqs[i]) : ops[k] = seqs[i][j]
    BY <2>1
  <2>3. seqs[i][j] = there(i) \/ seqs[i][j] = gone(i)
    BY <1>7
  <2> QED
    BY <2>2, <2>3
<1>10. \A i \in 1 .. n : CellsOf(gone(i)) = {hits[i]} /\ CellsOf(there(i)) = {new}
  <2>1. \A i \in 1 .. n : gone(i).cell = hits[i] /\ there(i).cell = new
    BY DEF gone, there
  <2> QED
    BY <1>1, <1>3, <2>1, OpIs
<1>11. CellsOfAll(ops) \subseteq ToSet(hits) \cup {new}
  <2> SUFFICES ASSUME NEW c \in CellsOfAll(ops) PROVE c \in ToSet(hits) \cup {new}
    OBVIOUS
  <2>1. PICK k \in 1 .. Len(ops) : c \in CellsOf(ops[k])
    BY <1>9, CellsAre
  <2>2. PICK i \in 1 .. n : ops[k] = there(i) \/ ops[k] = gone(i)
    BY <1>16
  <2>3. hits[i] \in ToSet(hits)
    BY <1>1 DEF ToSet
  <2> QED
    BY <1>10, <2>1, <2>2, <2>3
<1>12. ToSet(hits) \cup {new} \subseteq CellsOfAll(ops)
  <2>1. ASSUME NEW i \in 1 .. n PROVE new \in CellsOfAll(ops) /\ hits[i] \in CellsOfAll(ops)
    <3>1. PICK k \in 1 .. Len(ops) : ops[k] = there(i)
      <4>1. PICK j : j \in 1 .. Len(seqs[i]) /\ seqs[i][j] = there(i)
        BY <1>7
      <4>2. \A m \in 1 .. Len(seqs[i]) : \E l \in 1 .. Len(ops) : ops[l] = seqs[i][m]
        BY <1>9
      <4> QED
        BY <4>1, <4>2
    <3>2. new \in CellsOfAll(ops)
      BY <1>9, <1>10, <3>1, CellsAre
    <3>3. CASE hits[i] # new
      <4>1. PICK l \in 1 .. Len(ops) : ops[l] = gone(i)
        <5>1. PICK j : j \in 1 .. Len(seqs[i]) /\ seqs[i][j] = gone(i)
          BY <1>7, <3>3
        <5>2. \A m \in 1 .. Len(seqs[i]) : \E l \in 1 .. Len(ops) : ops[l] = seqs[i][m]
          BY <1>9
        <5> QED
          BY <5>1, <5>2
      <4> QED
        BY <1>9, <1>10, <3>2, <4>1, CellsAre
    <3> QED
      BY <3>2, <3>3
  <2>2. 1 \in 1 .. n
    OBVIOUS
  <2> QED
    BY <1>1, <2>1, <2>2 DEF ToSet
<1>13. Last(hits) = hits[n] /\ Last(hits) \in Key
  BY <1>1 DEF Last
<1>14. Settles(ops, new, mem[Last(hits)])
  <2>1. there(n).cell = new /\ there(n).val = mem[hits[n]]
    BY DEF there
  <2>2. n \in 1 .. n
    OBVIOUS
  <2> QED
    BY <1>9, <1>10, <1>13, <2>1, <2>2 DEF Settles, Gives
<1>15. ASSUME NEW c, c # new PROVE Settles(ops, c, 0)
  <2> SUFFICES ASSUME NEW k \in 1 .. Len(ops), c \in CellsOf(ops[k]) PROVE Gives(ops[k], c) = 0
    BY DEF Settles
  <2>1. PICK i \in 1 .. n : ops[k] = there(i) \/ ops[k] = gone(i)
    BY <1>16
  <2>2. gone(i).val = 0
    BY DEF gone
  <2> QED
    BY <1>10, <1>15, <2>1, <2>2 DEF Gives
<1> QED
  BY <1>9, <1>11, <1>12, <1>13, <1>14, <1>15


\* What statements say, by what they do.
LEMMA StatementIs ==
    ASSUME NEW st \in Statement
    PROVE  /\ st.do \in {"insert", "upsert", "upsert_nothing"} => st.cell \in Key /\ st.val \in Val \ {0}
           /\ st.do \in {"create", "drop", "delete", "update", "move"} => st.cell \in Table
           /\ st.do = "update" => st.new \in Val \ {0}
           /\ st.do = "move" => st.new \in Key
BY DEF Statement

LEMMA TableForIs ==
    ASSUME NEW st \in Statement, st.do \in {"create", "drop", "insert", "upsert", "upsert_nothing", "delete", "update", "move"}
    PROVE  TableFor(st) \in Table
BY StatementIs, KeysAre DEF TableFor

\* Memory after a statement is memory before with what its operations leave.
EffectFit(e) ==
    /\ e.mem \in [Cell -> Val] /\ e.ops \in Seq(Op)
    /\ \A c \in Cell : c \notin CellsOfAll(e.ops) => e.mem[c] = mem[c]
    /\ \A c \in Cell : c \in CellsOfAll(e.ops) => Settles(e.ops, c, e.mem[c])

LEMMA OneFits ==
    ASSUME NEW e, NEW op \in Op, e.mem \in [Cell -> Val], e.ops = <<op>>,
           \A c \in Cell : e.mem[c] = IF c \in CellsOf(op) THEN Gives(op, c) ELSE mem[c]
    PROVE  EffectFit(e)
<1>1. /\ e.ops \in Seq(Op) /\ CellsOfAll(e.ops) = CellsOf(op)
      /\ \A c \in CellsOf(op) : Settles(e.ops, c, Gives(op, c))
  BY OneOp
<1> QED
  BY <1>1 DEF EffectFit

LEMMA EffectFits ==
    ASSUME mem \in [Cell -> Val], NEW st \in Statement, NEW e, e = Effect(st),
           st.do \in {"create", "drop", "insert", "upsert", "upsert_nothing", "delete", "update", "move"}
    PROVE  EffectFit(e)
<1>1. PICK t \in Table : t = TableFor(st)
  BY TableForIs
<1>2. PICK hits : hits = Hits(t, st.val)
  OBVIOUS
<1>3. /\ hits \in Seq(Key) /\ ToSet(hits) = RowsOf(t, st.val) /\ ToSet(hits) \subseteq Key
  BY <1>2, HitsAre DEF RowsOf
<1>4. EffectFor(st, e, t, hits)
  BY <1>1, <1>2, EffectKinds
<1>5. CASE e = Unchanged \/ e = Failed
  <2>1. e.mem = mem /\ e.ops = <<>>
    BY <1>5 DEF Unchanged, Failed
  <2> QED
    BY <2>1, CellsEmpty DEF EffectFit
<1>6. CASE /\ st.do = "create"
           /\ e = [ok |-> TRUE, mem |-> Changed(mem, t, 1), ops |-> <<[cell |-> t, val |-> 1]>>]
  <2>1. PICK op \in Op : op = [cell |-> t, val |-> 1]
    BY KeysAre, OpIs
  <2>2. e.mem = Changed(mem, t, 1) /\ e.ops = <<op>> /\ CellsOf(op) = {t} /\ Gives(op, t) = 1
    BY <1>6, <2>1, OpIs DEF Gives
  <2>3. e.mem \in [Cell -> Val] /\ \A c \in Cell : e.mem[c] = IF c = t THEN 1 ELSE mem[c]
    BY <2>2, KeysAre DEF Changed
  <2> QED
    BY <2>2, <2>3, OneFits
<1>7. CASE /\ st.do = "drop" /\ mem[t] # 0
           /\ e = [ok |-> TRUE, mem |-> ChangedAll(mem, {t} \cup KeysOf(t), 0), ops |-> <<[cell |-> t, val |-> 0]>>]
  <2>1. PICK op \in Op : op = [cell |-> t, val |-> 0]
    BY KeysAre, OpIs
  <2>2. e.mem = ChangedAll(mem, {t} \cup KeysOf(t), 0) /\ e.ops = <<op>> /\ CellsOf(op) = {t} \cup KeysOf(t)
    BY <1>7, <2>1 DEF CellsOf
  <2>3. e.mem \in [Cell -> Val] /\ \A c \in Cell : e.mem[c] = IF c \in {t} \cup KeysOf(t) THEN 0 ELSE mem[c]
    BY <2>2, KeysAre DEF ChangedAll
  <2>4. \A c : Gives(op, c) = 0
    BY <2>1 DEF Gives
  <2> QED
    BY <2>2, <2>3, <2>4, OneFits
<1>8. CASE /\ st.do = "upsert_nothing" /\ mem[st.cell] # 0
           /\ e = [ok |-> TRUE, mem |-> mem, ops |-> <<[cell |-> st.cell, val |-> mem[st.cell]]>>]
  <2>1. st.cell \in Key /\ st.cell \in Cell /\ mem[st.cell] \in Val
    BY <1>8, StatementIs, KeysAre
  <2>2. PICK op \in Op : op = [cell |-> st.cell, val |-> mem[st.cell]]
    BY <2>1, OpIs
  <2>3. e.mem = mem /\ e.ops = <<op>> /\ CellsOf(op) = {st.cell} /\ Gives(op, st.cell) = mem[st.cell]
    BY <1>8, <2>1, <2>2, OpIs DEF Gives
  <2> QED
    BY <2>2, <2>3, OneFits
<1>9. CASE /\ st.do \in {"insert", "upsert", "upsert_nothing"}
           /\ e = [ok |-> TRUE, mem |-> Changed(mem, st.cell, st.val), ops |-> <<[cell |-> st.cell, val |-> st.val]>>]
  <2>1. st.cell \in Key /\ st.cell \in Cell /\ st.val \in Val
    BY <1>9, StatementIs, KeysAre
  <2>2. PICK op \in Op : op = [cell |-> st.cell, val |-> st.val]
    BY <2>1, OpIs
  <2>3. e.mem = Changed(mem, st.cell, st.val) /\ e.ops = <<op>> /\ CellsOf(op) = {st.cell} /\ Gives(op, st.cell) = st.val
    BY <1>9, <2>1, <2>2, OpIs DEF Gives
  <2>4. e.mem \in [Cell -> Val] /\ \A c \in Cell : e.mem[c] = IF c = st.cell THEN st.val ELSE mem[c]
    BY <2>1, <2>3 DEF Changed
  <2> QED
    BY <2>2, <2>3, <2>4, OneFits
<1>10. ASSUME NEW v \in Val, e = [ok |-> TRUE, mem |-> ChangedAll(mem, ToSet(hits), v), ops |-> Ops(hits, v)]
       PROVE  EffectFit(e)
  <2>1. e.mem = ChangedAll(mem, ToSet(hits), v) /\ e.ops = Ops(hits, v)
    BY <1>10
  <2>2. e.mem \in [Cell -> Val] /\ \A c \in Cell : e.mem[c] = IF c \in ToSet(hits) THEN v ELSE mem[c]
    BY <2>1 DEF ChangedAll
  <2>3. e.ops \in Seq(Op) /\ CellsOfAll(e.ops) = ToSet(hits) /\ \A c : Settles(e.ops, c, v)
    BY <1>3, <2>1, OpsAre
  <2> QED
    BY <2>2, <2>3 DEF EffectFit
<1>11. CASE /\ st.do = "move" /\ hits # <<>>
            /\ e = [ok |-> TRUE,
                    mem |-> Changed(ChangedAll(mem, ToSet(hits), 0), st.new, mem[Last(hits)]),
                    ops |-> Moved(hits, st.new)]
  <2>1. st.new \in Key /\ st.new \in Cell
    BY <1>11, StatementIs, KeysAre
  <2>2. PICK ops : ops = Moved(hits, st.new)
    OBVIOUS
  <2>3. /\ ops \in Seq(Op) /\ CellsOfAll(ops) = ToSet(hits) \cup {st.new} /\ Last(hits) \in Key
        /\ Settles(ops, st.new, mem[Last(hits)])
        /\ \A c : c # st.new => Settles(ops, c, 0)
    BY <1>3, <1>11, <2>1, <2>2, MovedAre
  <2>4. PICK m : m = ChangedAll(mem, ToSet(hits), 0)
    OBVIOUS
  <2>5. m \in [Cell -> Val] /\ \A c \in Cell : m[c] = IF c \in ToSet(hits) THEN 0 ELSE mem[c]
    BY <2>4, KeysAre DEF ChangedAll
  <2>6. mem[Last(hits)] \in Val
    BY <2>3, KeysAre
  <2>7. e.mem = Changed(m, st.new, mem[Last(hits)]) /\ e.ops = ops
    BY <1>11, <2>2, <2>4
  <2>8. e.mem \in [Cell -> Val] /\ \A c \in Cell : e.mem[c] = IF c = st.new THEN mem[Last(hits)] ELSE m[c]
    BY <2>1, <2>5, <2>6, <2>7 DEF Changed
  <2> QED
    BY <2>3, <2>5, <2>7, <2>8 DEF EffectFit
<1>12. CASE /\ st.do = "delete"
            /\ e = [ok |-> TRUE, mem |-> ChangedAll(mem, ToSet(hits), 0), ops |-> Ops(hits, 0)]
  BY <1>10, <1>12, KeysAre
<1>13. CASE /\ st.do = "update"
            /\ e = [ok |-> TRUE, mem |-> ChangedAll(mem, ToSet(hits), st.new), ops |-> Ops(hits, st.new)]
  <2>1. st.new \in Val
    BY <1>13, StatementIs
  <2> QED
    BY <1>10, <1>13, <2>1
<1> QED
  BY <1>4, <1>5, <1>6, <1>7, <1>8, <1>9, <1>11, <1>12, <1>13, Zenon DEF EffectFor
-----------------------------------------------------------------------------
\* The n-th operation is the last one that concerns c.
LastAt(ops, n, c) ==
    /\ n \in 1 .. Len(ops) /\ c \in CellsOf(ops[n])
    /\ \A i \in 1 .. Len(ops) : c \in CellsOf(ops[i]) => i <= n

LEMMA AfterAt ==
    ASSUME NEW ops \in Seq(Op), NEW c, NEW v
    PROVE  /\ \A n : LastAt(ops, n, c) => After(v, ops, c) = Gives(ops[n], c)
           /\ c \in CellsOfAll(ops) => \E n : LastAt(ops, n, c)
           /\ c \notin CellsOfAll(ops) => After(v, ops, c) = v
<1> DEFINE touching == {i \in DOMAIN ops : c \in CellsOf(ops[i])}
<1>1. Len(ops) \in Nat /\ DOMAIN ops = 1 .. Len(ops)
  OBVIOUS
<1>2. \A i : i \in touching <=> i \in 1 .. Len(ops) /\ c \in CellsOf(ops[i])
  BY <1>1
<1>3. After(v, ops, c) = IF touching = {} THEN v ELSE Gives(ops[Max(touching)], c)
  BY DEF After, Gives
<1>4. touching # {} => Max(touching) \in touching /\ \A y \in touching : y <= Max(touching)
  <2>1. touching \subseteq 1 .. Len(ops)
    BY <1>1
  <2> HIDE DEF touching
  <2> QED
    BY <1>1, <2>1, GreatestOf
<1> HIDE DEF touching
<1>5. ASSUME NEW n, LastAt(ops, n, c) PROVE After(v, ops, c) = Gives(ops[n], c)
  <2>1. n \in touching /\ \A y \in touching : y <= n
    BY <1>2, <1>5 DEF LastAt
  <2>2. Max(touching) \in touching /\ n <= Max(touching) /\ Max(touching) <= n
    BY <1>4, <2>1
  <2>3. Max(touching) \in 1 .. Len(ops) /\ n \in 1 .. Len(ops)
    BY <1>2, <2>1, <2>2
  <2>4. Max(touching) = n
    BY <1>1, <2>2, <2>3
  <2> QED
    BY <1>3, <2>1, <2>4
<1>6. ASSUME c \in CellsOfAll(ops) PROVE \E n : LastAt(ops, n, c)
  <2>1. touching # {}
    BY <1>2, <1>6, CellsAre
  <2> QED
    BY <1>2, <1>4, <2>1 DEF LastAt
<1>7. ASSUME c \notin CellsOfAll(ops) PROVE After(v, ops, c) = v
  <2>1. touching = {}
    BY <1>2, <1>7, CellsAre
  <2> QED
    BY <1>3, <2>1
<1> QED
  BY <1>5, <1>6, <1>7

\* What the first operation leaves is left to the others.
LEMMA AfterTail ==
    ASSUME NEW ops \in Seq(Op), ops # <<>>, NEW c, NEW v
    PROVE  After(v, ops, c) = After(IF c \in CellsOf(Head(ops)) THEN Gives(Head(ops), c) ELSE v, Tail(ops), c)
<1>a. PICK tail \in Seq(Op) : tail = Tail(ops)
  BY TailOf
<1>b. PICK w : w = IF c \in CellsOf(Head(ops)) THEN Gives(Head(ops), c) ELSE v
  OBVIOUS
<1>1. tail = Tail(ops) /\ w = IF c \in CellsOf(Head(ops)) THEN Gives(Head(ops), c) ELSE v
  BY <1>a, <1>b
<1>2. /\ Head(ops) = ops[1] /\ Len(ops) \in Nat \ {0} /\ Len(tail) = Len(ops) - 1 /\ Len(tail) \in Nat
      /\ \A i \in 1 .. Len(tail) : i + 1 \in 1 .. Len(ops) /\ tail[i] = ops[i + 1]
      /\ \A i \in 1 .. Len(ops) : i # 1 => i - 1 \in 1 .. Len(tail) /\ tail[i - 1] = ops[i]
  BY <1>1, TailOf
<1>3. CASE c \in CellsOfAll(tail)
  <2>1. PICK n : LastAt(tail, n, c)
    BY <1>3, AfterAt
  <2>2. n \in 1 .. Len(tail) /\ c \in CellsOf(tail[n]) /\ \A i \in 1 .. Len(tail) : c \in CellsOf(tail[i]) => i <= n
    BY <2>1 DEF LastAt
  <2>3. n + 1 \in 1 .. Len(ops) /\ tail[n] = ops[n + 1]
    BY <1>2, <2>2
  <2>4. ASSUME NEW i \in 1 .. Len(ops), c \in CellsOf(ops[i]) PROVE i <= n + 1
    <3>1. CASE i = 1
      BY <2>2, <3>1
    <3>2. CASE i # 1
      <4>1. i - 1 \in 1 .. Len(tail) /\ tail[i - 1] = ops[i]
        BY <1>2, <3>2
      <4>2. i - 1 <= n
        BY <2>2, <2>4, <4>1
      <4> QED
        BY <2>2, <4>1, <4>2
    <3> QED
      BY <3>1, <3>2
  <2>5. LastAt(ops, n + 1, c)
    BY <2>2, <2>3, <2>4 DEF LastAt
  <2>6. After(v, ops, c) = Gives(ops[n + 1], c)
    BY <2>5, AfterAt
  <2>7. After(w, tail, c) = Gives(tail[n], c)
    BY <2>1, AfterAt
  <2> QED
    BY <1>1, <2>3, <2>6, <2>7
<1>4. CASE c \notin CellsOfAll(tail)
  <2>1. After(w, tail, c) = w
    BY <1>4, AfterAt
  <2>2. \A i \in 1 .. Len(ops) : c \in CellsOf(ops[i]) => i = 1
    BY <1>2, <1>4, CellsAre
  <2>3. CASE c \in CellsOf(Head(ops))
    <3>1. LastAt(ops, 1, c)
      BY <1>2, <2>2, <2>3 DEF LastAt
    <3>2. After(v, ops, c) = Gives(ops[1], c)
      BY <3>1, AfterAt
    <3> QED
      BY <1>1, <1>2, <2>1, <2>3, <3>2
  <2>4. CASE c \notin CellsOf(Head(ops))
    <3>1. c \notin CellsOfAll(ops)
      BY <1>1, <1>4, <2>4, CellsTail
    <3>2. After(v, ops, c) = v
      BY <3>1, AfterAt
    <3> QED
      BY <1>1, <2>1, <2>4, <3>2
  <2> QED
    BY <2>3, <2>4
<1> QED
  BY <1>3, <1>4

LEMMA AfterAppend ==
    ASSUME NEW ops \in Seq(Op), NEW op \in Op, NEW c, NEW v
    PROVE  /\ After(v, Append(ops, op), c) = IF c \in CellsOf(op) THEN Gives(op, c) ELSE After(v, ops, c)
           /\ Append(ops, op) \in Seq(Op)
<1>1. PICK more : more = Append(ops, op) /\ more \in Seq(Op)
  <2>1. Append(ops, op) \in Seq(Op)
    OBVIOUS
  <2> QED
    BY <2>1
<1>2. /\ Len(ops) \in Nat /\ Len(more) = Len(ops) + 1 /\ more[Len(more)] = op /\ Len(more) \in 1 .. Len(more)
      /\ \A i \in 1 .. Len(ops) : i \in 1 .. Len(more) /\ more[i] = ops[i]
  BY <1>1
<1>3. \A i \in 1 .. Len(more) : i <= Len(more) /\ (i = Len(more) \/ i \in 1 .. Len(ops))
  BY <1>2
<1>4. more \in Seq(Op)
  BY <1>1
<1>5. /\ \A n : LastAt(more, n, c) => After(v, more, c) = Gives(more[n], c)
      /\ c \notin CellsOfAll(more) => After(v, more, c) = v
  BY <1>4, AfterAt
<1>6. /\ \A n : LastAt(ops, n, c) => After(v, ops, c) = Gives(ops[n], c)
      /\ c \notin CellsOfAll(ops) => After(v, ops, c) = v
  BY AfterAt
<1>7. CASE c \in CellsOf(op)
  <2>1. LastAt(more, Len(more), c)
    BY <1>2, <1>3, <1>7 DEF LastAt
  <2>2. After(v, more, c) = Gives(op, c)
    BY <1>2, <1>5, <2>1
  <2> QED
    BY <1>1, <1>7, <2>2
<1>8. CASE c \notin CellsOf(op)
  <2>1. CASE c \in CellsOfAll(ops)
    <3>1. PICK n : LastAt(ops, n, c)
      BY <2>1, AfterAt
    <3>2. LastAt(more, n, c)
      BY <1>2, <1>3, <1>8, <3>1 DEF LastAt
    <3>3. After(v, more, c) = Gives(more[n], c) /\ After(v, ops, c) = Gives(ops[n], c)
      BY <1>5, <1>6, <3>1, <3>2
    <3>4. more[n] = ops[n]
      BY <1>2, <3>1 DEF LastAt
    <3> QED
      BY <1>1, <1>8, <3>3, <3>4
  <2>2. CASE c \notin CellsOfAll(ops)
    <3>1. c \notin CellsOfAll(more)
      BY <1>1, <1>2, <1>3, <1>8, <2>2, CellsAre
    <3> QED
      BY <1>1, <1>8, <1>5, <1>6, <2>2, <3>1
  <2> QED
    BY <2>1, <2>2
<1> QED
  BY <1>1, <1>7, <1>8

LEMMA AfterSame ==
    ASSUME NEW ops \in Seq(Op), NEW c, NEW v, NEW w, c \in CellsOfAll(ops)
    PROVE  After(v, ops, c) = After(w, ops, c)
BY AfterAt

LEMMA AfterNone == \A v, c : After(v, <<>>, c) = v
BY CellsEmpty, AfterAt
-----------------------------------------------------------------------------
(***************************************************************************)
(* Memory and the row store (QueryEngine).  The invariant says what a      *)
(* session has in hand, job by job: StoreFollowsMemory speaks of the       *)
(* session that has a cell pending, and of a cell that is not excused at   *)
(* most one has.                                                           *)
(***************************************************************************)
Snaps == UNION {[S -> Val] : S \in SUBSET Cell}

Ats == {"rest", "mark", "record", "write", "apply", "apply_write", "restore", "install",
        "commit", "branch", "branch_from", "checkout", "merge", "log", "take", "export", "load"}

JobType == [at : Ats, ops : Seq(Op), writes : Seq(WriteStep), snapshot : Snaps, keys : SUBSET Key]

\* What a job holds where it is.
JobStage(j) ==
    /\ j.at \in {"mark", "record", "write", "apply_write"} => j.ops # <<>>
    /\ j.at \in {"write", "apply_write"} <=> j.writes # <<>>
    /\ j.at \notin {"mark", "record", "write", "apply", "apply_write"} => j.ops = <<>>
    /\ j.at \in {"apply", "apply_write", "restore"} => j.snapshot \in [Cell -> Val]
    /\ j.at = "load" => j.snapshot \in Root
    /\ j.at = "rest" => j = Resting

GoodJob(j) == j \in JobType /\ JobStage(j)

GoodTxn(t) ==
    /\ t \in [snapshot : Snaps, log : Seq(Op), open : BOOLEAN]
    /\ IF t.open THEN t.snapshot \in [Cell -> Val] ELSE t = NoTxn

StoreTypes ==
    /\ data \in [Cell -> Val] /\ checksum \in [Key -> Val] /\ mem \in [Cell -> Val]
    /\ GoodTxn(txn)
    /\ job \in [Session -> JobType] /\ \A s \in Session : JobStage(job[s])
    /\ excused \subseteq Cell

PendingOf(j) == IF j.at = "restore" THEN Cell ELSE CellsOfAll(j.ops)

Alone == \A c \in Cell \ excused : \A s, u \in Session : c \in Pending(s) /\ c \in Pending(u) => s = u

\* Writes are of the operation, and the value of a row comes before its checksum.
WritesOf(writes, op) ==
    \A i \in 1 .. Len(writes) :
       /\ writes[i].part = "rows" => writes[i].cell = op.cell /\ op.cell \in Table /\ op.val = 0
       /\ writes[i].part # "rows" => writes[i].cell \in CellsOf(op) /\ writes[i].val = Gives(op, writes[i].cell)
       /\ writes[i].part = "checksum" => writes[i].cell \in Key
       /\ writes[i].part = "value" /\ writes[i].cell \in Key =>
             \E j \in 1 .. Len(writes) : i < j /\ writes[j].part = "checksum" /\ writes[j].cell = writes[i].cell

WritesFit == \A s \in Session : job[s].writes # <<>> => WritesOf(job[s].writes, Head(job[s].ops))

\* Writes still to come.
ToWrite(writes, c, part) == \E i \in 1 .. Len(writes) : writes[i].part = part /\ writes[i].cell = c
ToScan(writes, c) == c \in Key /\ \E i \in 1 .. Len(writes) : writes[i].part = "rows"

\* Whether the checksum of a row stops the next start.
Stops(d, sum, c) == c \in Key /\ d[c] # 0 /\ sum[c] # 0 /\ sum[c] # d[c]

\* How far the writes of an operation have come with a cell.
ProgressOf(j, d, sum, c) ==
    j.writes # <<>> /\ c \in CellsOf(Head(j.ops)) =>
       /\ d[c] = Gives(Head(j.ops), c) \/ ToWrite(j.writes, c, "value") \/ ToScan(j.writes, c)
       /\ Stops(d, sum, c) => ToWrite(j.writes, c, "checksum") \/ ToScan(j.writes, c)

Progress == \A s \in Session : \A c \in Cell \ excused : ProgressOf(job[s], data, checksum, c)

NoneInside == txn.open => \A s \in Session : job[s].at = "write" => CellsOf(Head(job[s].ops)) \subseteq excused

Settled ==
    \A c \in Cell \ excused : Stops(data, checksum, c) =>
       \E s \in Session : job[s].writes # <<>> /\ c \in CellsOf(Head(job[s].ops))

\* What a session with job j sees in a cell that no other session has pending: memory m, the store
\* d with what COMMIT still brings, and the transaction t.
Seen(j, m, c) == IF j.at = "restore" THEN j.snapshot[c] ELSE m[c]
Stored(j, d, c) == IF j.at \in {"apply", "apply_write"} THEN After(d[c], j.ops, c) ELSE d[c]
Expected(j, d, t, c) ==
    IF j.at \in {"apply", "apply_write"} THEN After(Stored(j, d, c), t.log, c)
    ELSE After(After(Stored(j, d, c), t.log, c), j.ops, c)

FollowsAt(j, m, d, t, c) ==
    /\ Seen(j, m, c) = Expected(j, d, t, c)
    /\ t.open => t.snapshot[c] = Stored(j, d, c)

Follows ==
    \A c \in Cell \ excused :
       /\ (\A s \in Session : c \notin Pending(s)) => FollowsAt(Resting, mem, data, txn, c)
       /\ \A s \in Session : c \in Pending(s) => FollowsAt(job[s], mem, data, txn, c)

StoreInv ==
    StoreTypes /\ Alone /\ WritesFit /\ Progress /\ NoneInside /\ Settled /\ (attached => Follows)

LEMMA RestingIs == GoodJob(Resting) /\ PendingOf(Resting) = {} /\ <<>> \in Snaps /\ GoodTxn(NoTxn)
<1>1. <<>> \in Snaps
  <2>1. \A f : f = <<>> => f \in [{} -> Val]
    OBVIOUS
  <2> QED
    BY <2>1 DEF Snaps
<1>2. Resting \in JobType /\ Resting.at = "rest" /\ Resting.ops = <<>> /\ Resting.writes = <<>>
  BY <1>1, CellsEmpty DEF Resting, JobType, Ats
<1>3. GoodJob(Resting)
  BY <1>2 DEF GoodJob, JobStage
<1>4. GoodTxn(NoTxn)
  BY <1>1, CellsEmpty DEF GoodTxn, NoTxn
<1> QED
  BY <1>1, <1>2, <1>3, <1>4, CellsEmpty DEF PendingOf

\* A session that has nothing pending in a cell sees what a resting one sees.
LEMMA RestingSees ==
    ASSUME NEW j, j \in JobType, NEW c \in Cell, c \notin PendingOf(j), NEW m, NEW d, NEW t
    PROVE  FollowsAt(j, m, d, t, c) <=> FollowsAt(Resting, m, d, t, c)
<1>1. j.at # "restore" /\ c \notin CellsOfAll(j.ops) /\ j.ops \in Seq(Op)
  BY DEF PendingOf, JobType
<1>2. \A v : After(v, j.ops, c) = v
  BY <1>1, AfterAt
<1>3. Seen(j, m, c) = m[c] /\ Stored(j, d, c) = d[c] /\ Expected(j, d, t, c) = After(d[c], t.log, c)
  BY <1>1, <1>2 DEF Seen, Stored, Expected
<1>4. Resting.at = "rest" /\ Resting.ops = <<>>
  BY DEF Resting
<1>5. Seen(Resting, m, c) = m[c] /\ Stored(Resting, d, c) = d[c] /\ Expected(Resting, d, t, c) = After(d[c], t.log, c)
  BY <1>4, AfterNone DEF Seen, Stored, Expected
<1> QED
  BY <1>3, <1>5 DEF FollowsAt

\* A session's step from its job to job r.
Takes(s, r) == job' = [job EXCEPT ![s] = r]

LEMMA JobTaken ==
    ASSUME StoreTypes, NEW s \in Session, NEW r, GoodJob(r), Takes(s, r)
    PROVE  /\ job' \in [Session -> JobType] /\ \A u \in Session : JobStage(job'[u])
           /\ job'[s] = r /\ \A u \in Session \ {s} : job'[u] = job[u]
           /\ job[s] \in JobType /\ JobStage(job[s]) /\ r \in JobType /\ JobStage(r)
<1>1. job \in [Session -> JobType] /\ r \in JobType /\ JobStage(r) /\ \A u \in Session : JobStage(job[u])
  BY DEF StoreTypes, GoodJob
<1>2. job' = [job EXCEPT ![s] = r]
  BY DEF Takes
<1>3. job' \in [Session -> JobType] /\ job'[s] = r /\ \A u \in Session \ {s} : job'[u] = job[u]
  BY <1>1, <1>2
<1> QED
  BY <1>1, <1>3

LEMMA PendingIs ==
    /\ \A s : Pending(s) = PendingOf(job[s])
    /\ \A s, c : c \in PendingBut(s) <=> \E u \in Session \ {s} : c \in PendingOf(job[u])
<1>1. \A s : Pending(s) = PendingOf(job[s])
  BY DEF Pending, PendingOf, Is
<1> QED
  BY <1>1 DEF PendingBut

LEMMA AloneKeeps ==
    ASSUME StoreTypes, NEW s \in Session, NEW r, GoodJob(r), Takes(s, r), Alone, excused \subseteq excused',
           \A c \in Cell \ excused' : c \in PendingOf(r) => c \in Pending(s) \/ c \notin PendingBut(s)
    PROVE  Alone'
<1>1. job'[s] = r /\ \A u \in Session \ {s} : job'[u] = job[u]
  BY JobTaken
<1>2. \A u : Pending(u)' = PendingOf(job'[u])
  BY DEF Pending, PendingOf, Is
<1> SUFFICES ASSUME NEW c \in Cell \ excused', NEW u \in Session, NEW v \in Session, c \in Pending(u)', c \in Pending(v)'
             PROVE  u = v
  BY DEF Alone
<1>3. \A w \in Session \ {s} : c \in Pending(w)' => c \in Pending(w) /\ c \in PendingBut(s)
  BY <1>1, <1>2, PendingIs
<1>4. c \in Pending(s)' => c \in PendingOf(r)
  BY <1>1, <1>2
<1>5. c \in Pending(s)' => c \in Pending(s) \/ c \notin PendingBut(s)
  BY <1>4
<1> QED
  BY <1>3, <1>5 DEF Alone

LEMMA FollowsKeeps ==
    ASSUME StoreTypes, NEW s \in Session, NEW r, GoodJob(r), Takes(s, r), Follows, Alone', excused \subseteq excused',
           \A c \in Cell \ excused' : \A u \in Session \ {s} : c \in Pending(u) =>
               (FollowsAt(job[u], mem, data, txn, c) => FollowsAt(job[u], mem', data', txn', c)),
           \A c \in Cell \ excused' : c \notin PendingBut(s) =>
               (FollowsAt(job[s], mem, data, txn, c) => FollowsAt(r, mem', data', txn', c))
    PROVE  Follows'
<1>1. job'[s] = r /\ (\A u \in Session \ {s} : job'[u] = job[u]) /\ job[s] \in JobType /\ r \in JobType
  BY JobTaken
<1>2. \A u : Pending(u)' = PendingOf(job'[u])
  BY DEF Pending, PendingOf, Is
<1> SUFFICES ASSUME NEW c \in Cell \ excused'
             PROVE  /\ (\A u \in Session : c \notin Pending(u)') => FollowsAt(Resting, mem', data', txn', c)
                    /\ \A u \in Session : c \in Pending(u)' => FollowsAt(job'[u], mem', data', txn', c)
  BY DEF Follows
<1>3. c \in Cell \ excused
  OBVIOUS
<1>4. CASE c \in PendingBut(s)
  <2>1. PICK u \in Session \ {s} : c \in Pending(u)
    BY <1>4, PendingIs
  <2>2. FollowsAt(job[u], mem, data, txn, c)
    BY <1>3, <2>1 DEF Follows
  <2>3. FollowsAt(job'[u], mem', data', txn', c)
    BY <1>1, <2>1, <2>2
  <2>4. c \in Pending(u)'
    BY <1>1, <1>2, <2>1, PendingIs
  <2>5. \A v \in Session : c \in Pending(v)' => v = u
    BY <2>4 DEF Alone
  <2> QED
    BY <2>3, <2>4, <2>5
<1>5. CASE c \notin PendingBut(s)
  <2>1. \A u \in Session \ {s} : c \notin Pending(u) /\ c \notin Pending(u)'
    BY <1>1, <1>2, <1>5, PendingIs
  <2>2. FollowsAt(job[s], mem, data, txn, c)
    <3>1. CASE c \in Pending(s)
      BY <1>3, <3>1 DEF Follows
    <3>2. CASE c \notin Pending(s)
      <4>1. FollowsAt(Resting, mem, data, txn, c)
        BY <1>3, <2>1, <3>2 DEF Follows
      <4>2. c \notin PendingOf(job[s])
        BY <3>2, PendingIs
      <4> QED
        BY <1>1, <4>1, <4>2, RestingSees
    <3> QED
      BY <3>1, <3>2
  <2>3. FollowsAt(r, mem', data', txn', c)
    BY <1>5, <2>2
  <2>4. c \notin Pending(s)' => FollowsAt(Resting, mem', data', txn', c)
    <3>1. c \notin Pending(s)' => c \notin PendingOf(r)
      BY <1>1, <1>2
    <3> QED
      BY <1>1, <2>3, <3>1, RestingSees
  <2> QED
    BY <1>1, <2>1, <2>3, <2>4
<1> QED
  BY <1>4, <1>5

\* The first operation of a job that writes is among those it has pending.
LEMMA HeadPending ==
    ASSUME NEW j \in JobType, JobStage(j), j.writes # <<>>
    PROVE  CellsOf(Head(j.ops)) \subseteq PendingOf(j) /\ j.ops # <<>> /\ Head(j.ops) \in Op /\ j.at \in {"write", "apply_write"}
<1>1. j.at \in {"write", "apply_write"} /\ j.ops # <<>> /\ j.ops \in Seq(Op)
  BY DEF JobStage, JobType
<1>2. CellsOf(Head(j.ops)) \subseteq CellsOfAll(j.ops) /\ Head(j.ops) \in Op
  BY <1>1, CellsTail
<1> QED
  BY <1>1, <1>2 DEF PendingOf

LEMMA WritesKeep ==
    ASSUME StoreTypes, NEW s \in Session, NEW r, GoodJob(r), Takes(s, r), WritesFit,
           r.writes # <<>> => WritesOf(r.writes, Head(r.ops))
    PROVE  WritesFit'
<1>1. job'[s] = r /\ \A u \in Session \ {s} : job'[u] = job[u]
  BY JobTaken
<1>2. ASSUME NEW u \in Session, job'[u].writes # <<>> PROVE WritesOf(job'[u].writes, Head(job'[u].ops))
  BY <1>1, <1>2 DEF WritesFit
<1> QED
  BY <1>2 DEF WritesFit

LEMMA InsideKeeps ==
    ASSUME StoreTypes, NEW s \in Session, NEW r, GoodJob(r), Takes(s, r), NoneInside, excused \subseteq excused', excused' \subseteq Cell,
           txn'.open => txn.open \/ PendingBut(s) \subseteq excused',
           txn'.open => r.at # "write" \/ CellsOf(Head(r.ops)) \subseteq excused'
    PROVE  NoneInside'
<1>1. /\ job'[s] = r /\ \A u \in Session \ {s} : job'[u] = job[u]
      /\ \A u \in Session : job[u] \in JobType /\ JobStage(job[u])
  BY JobTaken DEF StoreTypes
<1> SUFFICES ASSUME txn'.open, NEW u \in Session, job'[u].at = "write" PROVE CellsOf(Head(job'[u].ops)) \subseteq excused'
  BY DEF NoneInside
<1>2. CASE u = s
  BY <1>1, <1>2
<1>3. CASE u # s /\ txn.open
  BY <1>1, <1>3 DEF NoneInside
<1>4. CASE u # s /\ ~txn.open
  <2>1. job[u].writes # <<>>
    BY <1>1, <1>4 DEF JobStage
  <2>2. CellsOf(Head(job[u].ops)) \subseteq PendingOf(job[u])
    BY <1>1, <2>1, HeadPending
  <2>3. CellsOf(Head(job[u].ops)) \subseteq PendingBut(s)
    BY <1>4, <2>2, PendingIs
  <2> QED
    BY <1>1, <1>4, <2>3
<1> QED
  BY <1>2, <1>3, <1>4

LEMMA ProgressKeeps ==
    ASSUME StoreTypes, NEW s \in Session, NEW r, GoodJob(r), Takes(s, r), Progress, excused \subseteq excused', UNCHANGED storeVars,
           \A c \in Cell \ excused' : ProgressOf(job[s], data, checksum, c) => ProgressOf(r, data, checksum, c)
    PROVE  Progress'
<1>1. job'[s] = r /\ (\A u \in Session \ {s} : job'[u] = job[u]) /\ data' = data /\ checksum' = checksum
  BY JobTaken DEF storeVars
<1> SUFFICES ASSUME NEW u \in Session, NEW c \in Cell \ excused' PROVE ProgressOf(job'[u], data', checksum', c)
  BY DEF Progress
<1>2. c \in Cell \ excused /\ ProgressOf(job[u], data, checksum, c)
  BY DEF Progress
<1> QED
  BY <1>1, <1>2

LEMMA SettledKeeps ==
    ASSUME StoreTypes, NEW s \in Session, NEW r, GoodJob(r), Takes(s, r), Settled, excused \subseteq excused', UNCHANGED storeVars,
           \A c \in Cell \ excused' : job[s].writes # <<>> /\ c \in CellsOf(Head(job[s].ops)) /\ Stops(data, checksum, c)
               => r.writes # <<>> /\ c \in CellsOf(Head(r.ops))
    PROVE  Settled'
<1>1. job'[s] = r /\ (\A u \in Session \ {s} : job'[u] = job[u]) /\ data' = data /\ checksum' = checksum
  BY JobTaken DEF storeVars
<1> SUFFICES ASSUME NEW c \in Cell \ excused', Stops(data, checksum, c)
             PROVE  \E u \in Session : job'[u].writes # <<>> /\ c \in CellsOf(Head(job'[u].ops))
  BY <1>1 DEF Settled
<1>2. PICK u \in Session : job[u].writes # <<>> /\ c \in CellsOf(Head(job[u].ops))
  BY DEF Settled
<1>3. CASE u = s
  BY <1>1, <1>2, <1>3
<1>4. CASE u # s
  BY <1>1, <1>2, <1>4
<1> QED
  BY <1>3, <1>4

\* A step that writes nothing to the store, after which the session goes on as r.
LEMMA QuietStep ==
    ASSUME StoreInv, NEW s \in Session, NEW r, GoodJob(r), Takes(s, r), UNCHANGED <<storeVars, attached>>,
           mem' \in [Cell -> Val], GoodTxn(txn'), excused \subseteq excused', excused' \subseteq Cell,
           \A c \in Cell \ excused' : c \in PendingOf(r) => c \in Pending(s) \/ c \notin PendingBut(s),
           r.writes # <<>> => WritesOf(r.writes, Head(r.ops)),
           \A c \in Cell \ excused' : ProgressOf(r, data, checksum, c),
           \A c \in Cell \ excused' : job[s].writes # <<>> /\ c \in CellsOf(Head(job[s].ops))
               => r.writes # <<>> /\ c \in CellsOf(Head(r.ops)),
           txn'.open => txn.open \/ PendingBut(s) \subseteq excused',
           txn'.open => r.at # "write",
           attached => \A c \in Cell \ excused' : \A u \in Session \ {s} : c \in Pending(u) =>
               (FollowsAt(job[u], mem, data, txn, c) => FollowsAt(job[u], mem', data, txn', c)),
           attached => \A c \in Cell \ excused' : c \notin PendingBut(s) =>
               (FollowsAt(job[s], mem, data, txn, c) => FollowsAt(r, mem', data, txn', c))
    PROVE  StoreInv'
<1>0. StoreTypes /\ Alone /\ WritesFit /\ Progress /\ NoneInside /\ Settled /\ (attached => Follows)
  BY DEF StoreInv
<1>1. data' = data /\ checksum' = checksum /\ attached' = attached
  BY DEF storeVars
<1>2. StoreTypes'
  BY <1>0, <1>1, JobTaken DEF StoreTypes
<1>3. Alone'
  BY <1>0, AloneKeeps
<1>4. WritesFit'
  BY <1>0, WritesKeep
<1>5. NoneInside'
  BY <1>0, InsideKeeps
<1>6. Progress'
  BY <1>0, ProgressKeeps
<1>7. Settled'
  BY <1>0, SettledKeeps
<1>8. attached => Follows'
  BY <1>0, <1>1, <1>3, FollowsKeeps
<1> QED
  BY <1>1, <1>2, <1>3, <1>4, <1>5, <1>6, <1>7, <1>8 DEF StoreInv
-----------------------------------------------------------------------------
\* What it is to follow, for each kind of job.
LEMMA PlainFollows ==
    ASSUME NEW j, j.at \notin {"restore", "apply", "apply_write"}, NEW m, NEW d, NEW t, NEW c
    PROVE  FollowsAt(j, m, d, t, c) <=>
              m[c] = After(After(d[c], t.log, c), j.ops, c) /\ (t.open => t.snapshot[c] = d[c])
BY DEF FollowsAt, Seen, Expected, Stored

LEMMA CommitFollows ==
    ASSUME NEW j, j.at \in {"apply", "apply_write"}, NEW m, NEW d, NEW t, NEW c
    PROVE  FollowsAt(j, m, d, t, c) <=>
              m[c] = After(After(d[c], j.ops, c), t.log, c) /\ (t.open => t.snapshot[c] = After(d[c], j.ops, c))
BY DEF FollowsAt, Seen, Expected, Stored

LEMMA RestoreFollows ==
    ASSUME NEW j, j.at = "restore", j.ops = <<>>, NEW m, NEW d, NEW t, NEW c
    PROVE  FollowsAt(j, m, d, t, c) <=>
              j.snapshot[c] = After(d[c], t.log, c) /\ (t.open => t.snapshot[c] = d[c])
BY AfterNone DEF FollowsAt, Seen, Expected, Stored

LEMMA RestFollows ==
    ASSUME NEW m, NEW d, NEW t, NEW c
    PROVE  FollowsAt(Resting, m, d, t, c) <=> m[c] = After(d[c], t.log, c) /\ (t.open => t.snapshot[c] = d[c])
<1>1. Resting.at = "rest" /\ Resting.ops = <<>>
  BY DEF Resting
<1>2. FollowsAt(Resting, m, d, t, c) <=>
         m[c] = After(After(d[c], t.log, c), <<>>, c) /\ (t.open => t.snapshot[c] = d[c])
  BY <1>1, PlainFollows
<1> QED
  BY <1>2, AfterNone

\* It is a matter of one cell.
LEMMA FollowsSame ==
    ASSUME NEW j, NEW m, NEW n, NEW d, NEW e, NEW t, NEW c, m[c] = n[c], d[c] = e[c]
    PROVE  FollowsAt(j, m, d, t, c) <=> FollowsAt(j, n, e, t, c)
BY DEF FollowsAt, Seen, Expected, Stored

\* A transaction with the same log and snapshot at the cell, or none with an empty log.
LEMMA FollowsOther ==
    ASSUME NEW j, NEW m, NEW d, NEW t, NEW u, NEW c, \A v : After(v, t.log, c) = After(v, u.log, c),
           u.open => t.open /\ u.snapshot[c] = t.snapshot[c]
    PROVE  FollowsAt(j, m, d, t, c) => FollowsAt(j, m, d, u, c)
BY DEF FollowsAt, Seen, Expected, Stored

LEMMA JobParts ==
    ASSUME NEW j \in JobType
    PROVE  /\ j = [at |-> j.at, ops |-> j.ops, writes |-> j.writes, snapshot |-> j.snapshot, keys |-> j.keys]
           /\ j.at \in Ats /\ j.ops \in Seq(Op) /\ j.writes \in Seq(WriteStep) /\ j.snapshot \in Snaps /\ j.keys \subseteq Key
BY DEF JobType

\* The session goes on with these operations, installs what it brings, or is through.
LEMMA GoesOn ==
    ASSUME NEW s, job[s] \in JobType, NEW ops \in Seq(Op), NEW r, r = Persisting(s, ops)
    PROVE  /\ GoodJob(r) /\ r.writes = <<>> /\ r.ops = ops /\ PendingOf(r) = CellsOfAll(ops)
           /\ r.at \in {"mark", "install", "rest"}
<1>1. CASE ops # <<>>
  <2>1. r = [job[s] EXCEPT !.at = "mark", !.ops = ops, !.writes = <<>>]
    BY <1>1 DEF Persisting
  <2>2. r = [at |-> "mark", ops |-> ops, writes |-> <<>>, snapshot |-> job[s].snapshot, keys |-> job[s].keys]
    BY <2>1, JobParts DEF JobType
  <2>3. r \in JobType
    BY <2>2, JobParts, CellsEmpty DEF JobType, Ats
  <2> QED
    BY <1>1, <2>2, <2>3 DEF GoodJob, JobStage, PendingOf
<1>2. CASE ops = <<>> /\ job[s].snapshot # <<>>
  <2>1. r = [job[s] EXCEPT !.at = "install", !.ops = <<>>, !.writes = <<>>]
    BY <1>2 DEF Persisting
  <2>2. r = [at |-> "install", ops |-> <<>>, writes |-> <<>>, snapshot |-> job[s].snapshot, keys |-> job[s].keys]
    BY <2>1, JobParts DEF JobType
  <2>3. r \in JobType
    BY <2>2, JobParts, CellsEmpty DEF JobType, Ats
  <2> QED
    BY <1>2, <2>2, <2>3 DEF GoodJob, JobStage, PendingOf
<1>3. CASE ops = <<>> /\ job[s].snapshot = <<>>
  <2>1. r = Resting
    BY <1>3 DEF Persisting
  <2>2. r.at = "rest" /\ r.ops = <<>> /\ r.writes = <<>>
    BY <2>1 DEF Resting
  <2> QED
    BY <1>3, <2>1, <2>2, RestingIs, CellsEmpty
<1> QED
  BY <1>1, <1>2, <1>3

\* The writes of an operation, none of them made.
LEMMA WritesStart ==
    ASSUME NEW op \in Op
    PROVE  /\ Writes(op) \in Seq(WriteStep) /\ Writes(op) # <<>> /\ WritesOf(Writes(op), op)
           /\ \A c \in CellsOf(op) : ToWrite(Writes(op), c, "value") \/ ToScan(Writes(op), c)
           /\ \A c \in CellsOf(op) \cap Key : ToWrite(Writes(op), c, "checksum") \/ ToScan(Writes(op), c)
<1>0. op.cell \in Cell /\ op.val \in Val
  BY DEF Op
<1>1. \A part \in Part : Write(part, op) \in WriteStep /\ Write(part, op).part = part
                         /\ Write(part, op).cell = op.cell /\ Write(part, op).val = op.val
  BY <1>0 DEF Write, WriteStep
<1>2. {"value", "checksum", "rows"} \subseteq Part
  BY DEF Part
<1>3. CASE op.cell \in Key
  <2>1. PICK a \in WriteStep, b \in WriteStep : a = Write("value", op) /\ b = Write("checksum", op)
    BY <1>1, <1>2
  <2>2. a.part = "value" /\ b.part = "checksum" /\ a.cell = op.cell /\ b.cell = op.cell /\ a.val = op.val /\ b.val = op.val
    BY <1>1, <1>2, <2>1
  <2>3. Writes(op) = <<a, b>>
    <3>1. Writes(op) = RowWrites(op)
      BY <1>3, KeysAre DEF Writes
    <3> QED
      BY <2>1, <3>1 DEF RowWrites
  <2>4. PICK w : w = <<a, b>> /\ w \in Seq(WriteStep)
    <3>1. <<a, b>> \in Seq(WriteStep)
      OBVIOUS
    <3> QED
      BY <3>1
  <2>5. Len(w) = 2 /\ w[1] = a /\ w[2] = b /\ w # <<>> /\ 1 .. 2 = {1, 2}
    BY <2>4
  <2>6. CellsOf(op) = {op.cell} /\ op.cell \notin Table
    BY <1>3, KeysAre DEF CellsOf
  <2>7. Gives(op, op.cell) = op.val
    BY DEF Gives
  <2>8. WritesOf(w, op)
    BY <1>3, <2>2, <2>5, <2>6, <2>7 DEF WritesOf
  <2>9. ToWrite(w, op.cell, "value") /\ ToWrite(w, op.cell, "checksum")
    BY <2>2, <2>5 DEF ToWrite
  <2> QED
    BY <2>3, <2>4, <2>5, <2>6, <2>8, <2>9
<1>4. CASE op.cell \in Table /\ op.val # 0
  <2>1. PICK a \in WriteStep : a = Write("value", op)
    BY <1>1, <1>2
  <2>2. a.part = "value" /\ a.cell = op.cell /\ a.val = op.val
    BY <1>1, <1>2, <2>1
  <2>3. Writes(op) = <<a>>
    BY <1>4, <2>1, KeysAre DEF Writes
  <2>4. PICK w : w = <<a>> /\ w \in Seq(WriteStep)
    <3>1. <<a>> \in Seq(WriteStep)
      OBVIOUS
    <3> QED
      BY <3>1
  <2>5. Len(w) = 1 /\ w[1] = a /\ w # <<>> /\ 1 .. 1 = {1}
    BY <2>4
  <2>6. CellsOf(op) = {op.cell} /\ op.cell \notin Key
    BY <1>4, KeysAre DEF CellsOf
  <2>7. Gives(op, op.cell) = op.val
    BY DEF Gives
  <2>8. WritesOf(w, op)
    BY <2>2, <2>5, <2>6, <2>7 DEF WritesOf
  <2>9. ToWrite(w, op.cell, "value")
    BY <2>2, <2>5 DEF ToWrite
  <2> QED
    BY <2>3, <2>4, <2>5, <2>6, <2>8, <2>9
<1>5. CASE op.cell \in Table /\ op.val = 0
  <2>1. PICK a \in WriteStep, b \in WriteStep : a = Write("value", op) /\ b = Write("rows", op)
    BY <1>1, <1>2
  <2>2. a.part = "value" /\ b.part = "rows" /\ a.cell = op.cell /\ b.cell = op.cell /\ a.val = op.val /\ b.val = op.val
    BY <1>1, <1>2, <2>1
  <2>3. Writes(op) = <<a, b>>
    BY <1>5, <2>1, KeysAre DEF Writes
  <2>4. PICK w : w = <<a, b>> /\ w \in Seq(WriteStep)
    <3>1. <<a, b>> \in Seq(WriteStep)
      OBVIOUS
    <3> QED
      BY <3>1
  <2>5. Len(w) = 2 /\ w[1] = a /\ w[2] = b /\ w # <<>> /\ 1 .. 2 = {1, 2}
    BY <2>4
  <2>6. CellsOf(op) = {op.cell} \cup KeysOf(op.cell) /\ op.cell \notin Key
    BY <1>5, KeysAre DEF CellsOf
  <2>7. Gives(op, op.cell) = op.val
    BY DEF Gives
  <2>8. WritesOf(w, op)
    BY <1>5, <2>2, <2>5, <2>6, <2>7 DEF WritesOf
  <2>9. ToWrite(w, op.cell, "value") /\ \A c \in Key : ToScan(w, c)
    BY <2>2, <2>5 DEF ToWrite, ToScan
  <2>10. KeysOf(op.cell) \subseteq Key
    BY DEF KeysOf
  <2> QED
    BY <2>3, <2>4, <2>5, <2>6, <2>8, <2>9, <2>10
<1> QED
  BY <1>0, <1>3, <1>4, <1>5 DEF Cell

\* Another step of the session with the job it has.
LEMMA TakesSame ==
    ASSUME StoreTypes, NEW s \in Session
    PROVE  UNCHANGED job => Takes(s, job[s]) /\ GoodJob(job[s])
BY DEF StoreTypes, Takes, GoodJob
-----------------------------------------------------------------------------
\* What else the engine keeps.
SideTypes ==
    /\ script \in [Session -> Seq(Statement)] /\ idem \in [Session -> LogKey \cup {0}]
    /\ executions \in [LogKey -> Nat] /\ mirror \in [Key -> Val]
    /\ dirty \subseteq Key /\ deltas \subseteq Key /\ schema_dirty \subseteq Table /\ unmarked \subseteq Key

LEMMA SideFacts ==
    ASSUME SideTypes
    PROVE  /\ \A s \in Session : idem[s] \in LogKey \cup {0} /\ Executing(s) \subseteq Cell
           /\ \A s \in Session : script[s] # <<>> => Head(script[s]) \in Statement /\ Tail(script[s]) \in Seq(Statement)
           /\ LookingUp \subseteq Cell /\ dirty \subseteq Key
<1>1. \A s \in Session : idem[s] \in LogKey \cup {0}
  BY DEF SideTypes
<1>0. LogKey \subseteq Cell
  BY KeysAre
<1>2. ASSUME NEW s \in Session, NEW k \in Executing(s) PROVE k \in Cell
  <2>1. PICK u \in Session \ {s} : k = idem[u] /\ k # 0
    BY DEF Executing
  <2> QED
    BY <1>0, <1>1, <2>1
<1>3. \A s \in Session : script[s] # <<>> => Head(script[s]) \in Statement /\ Tail(script[s]) \in Seq(Statement)
  BY DEF SideTypes
<1>4. \A st \in Statement : st.do = "lookup" => st.cell \in LogKey
  BY DEF Statement
<1>5. ASSUME NEW k \in LookingUp PROVE k \in Cell
  <2>1. PICK u \in Session : script[u] # <<>> /\ Head(script[u]).do = "lookup" /\ k = Head(script[u]).cell
    BY DEF LookingUp
  <2> QED
    BY <1>0, <1>3, <1>4, <2>1
<1> QED
  BY <1>1, <1>2, <1>3, <1>5 DEF SideTypes

LEMMA StoreFacts ==
    ASSUME StoreInv, NEW s \in Session
    PROVE  /\ StoreTypes /\ mem \in [Cell -> Val] /\ GoodTxn(txn) /\ excused \subseteq Cell
           /\ job[s] \in JobType /\ JobStage(job[s]) /\ GoodJob(job[s])
           /\ Pending(s) = PendingOf(job[s]) /\ Pending(s) \subseteq Cell /\ PendingBut(s) \subseteq Cell
           /\ \A c \in Cell \ excused : c \in Pending(s) => c \notin PendingBut(s)
<1>1. /\ StoreTypes /\ mem \in [Cell -> Val] /\ GoodTxn(txn) /\ excused \subseteq Cell
      /\ \A u \in Session : job[u] \in JobType /\ JobStage(job[u])
  BY DEF StoreInv, StoreTypes
<1>2. \A u \in Session : PendingOf(job[u]) \subseteq Cell
  <2> SUFFICES ASSUME NEW u \in Session PROVE PendingOf(job[u]) \subseteq Cell
    OBVIOUS
  <2>1. job[u].ops \in Seq(Op)
    BY <1>1, JobParts
  <2> QED
    BY <2>1, CellsAre DEF PendingOf
<1>3. Pending(s) = PendingOf(job[s]) /\ Pending(s) \subseteq Cell /\ PendingBut(s) \subseteq Cell
  BY <1>2, PendingIs
<1>4. \A c \in Cell \ excused : c \in Pending(s) => c \notin PendingBut(s)
  BY PendingIs DEF StoreInv, Alone
<1> QED
  BY <1>1, <1>3, <1>4 DEF GoodJob

LEMMA ExecuteStores ==
    ASSUME StoreInv, SideTypes, NEW s \in Session, Execute(s)
    PROVE  StoreInv'
<1>a. PICK st \in Statement : st = Head(script[s])
  BY SideFacts DEF Execute
<1>b. PICK e, r : e = Effect(st) /\ r = Persisting(s, e.ops)
  OBVIOUS
<1>1. st = Head(script[s]) /\ e = Effect(st) /\ r = Persisting(s, e.ops)
  BY <1>a, <1>b
<1>2. /\ Is(s, "rest") /\ mem' = e.mem /\ job' = [job EXCEPT ![s] = r]
      /\ excused' = excused \cup (CellsOfAll(e.ops) \cap PendingBut(s))
      /\ UNCHANGED <<storeVars, attached, txn>>
      /\ st.do \in {"create", "drop", "insert", "upsert", "upsert_nothing", "delete", "update", "move"}
  BY <1>1 DEF Execute
<1>3. EffectFit(e)
  BY <1>1, <1>2, StoreFacts, EffectFits
<1>4. /\ e.mem \in [Cell -> Val] /\ e.ops \in Seq(Op)
      /\ \A c \in Cell : c \notin CellsOfAll(e.ops) => e.mem[c] = mem[c]
      /\ \A c \in Cell : c \in CellsOfAll(e.ops) => Settles(e.ops, c, e.mem[c])
  BY <1>3 DEF EffectFit
<1>5. job[s] = Resting /\ job[s].writes = <<>> /\ Pending(s) = {}
  BY <1>2, StoreFacts, RestingIs DEF Is, JobStage, Resting
<1>6. /\ GoodJob(r) /\ r.writes = <<>> /\ r.ops = e.ops /\ PendingOf(r) = CellsOfAll(e.ops)
      /\ r.at \in {"mark", "install", "rest"}
  BY <1>1, <1>4, StoreFacts, GoesOn
<1>7. excused \subseteq excused' /\ excused' \subseteq Cell
  BY <1>2, <1>4, CellsAre, StoreFacts
<1>8. \A c \in Cell \ excused' : c \in CellsOfAll(e.ops) => c \notin PendingBut(s)
  BY <1>2
<1>9. ASSUME NEW c \in Cell \ excused', NEW u \in Session \ {s}, c \in Pending(u), FollowsAt(job[u], mem, data, txn, c)
      PROVE  FollowsAt(job[u], mem', data, txn', c)
  <2>1. c \notin CellsOfAll(e.ops)
    BY <1>8, <1>9, PendingIs
  <2>2. mem'[c] = mem[c] /\ txn' = txn
    BY <1>2, <1>4, <2>1
  <2> QED
    BY <1>9, <2>2, FollowsSame
<1>10. ASSUME NEW c \in Cell \ excused', c \notin PendingBut(s), FollowsAt(job[s], mem, data, txn, c)
       PROVE  FollowsAt(r, mem', data, txn', c)
  <2>1. mem[c] = After(data[c], txn.log, c) /\ (txn.open => txn.snapshot[c] = data[c])
    BY <1>5, <1>10, RestFollows
  <2>2. mem'[c] = After(mem[c], e.ops, c)
    <3>1. CASE c \in CellsOfAll(e.ops)
      BY <1>2, <1>4, <3>1, AfterIs
    <3>2. CASE c \notin CellsOfAll(e.ops)
      BY <1>2, <1>4, <3>2, AfterAt
    <3> QED
      BY <3>1, <3>2
  <2>3. r.at \notin {"restore", "apply", "apply_write"} /\ txn' = txn
    BY <1>2, <1>6
  <2> QED
    BY <1>6, <2>1, <2>2, <2>3, PlainFollows
<1>11. \A c : ProgressOf(r, data, checksum, c)
  BY <1>6 DEF ProgressOf
<1>12. txn'.open => txn.open
  BY <1>2
<1>13. mem' \in [Cell -> Val] /\ GoodTxn(txn')
  BY <1>2, <1>4, StoreFacts
<1> QED
  BY <1>2, <1>5, <1>6, <1>7, <1>8, <1>9, <1>10, <1>11, <1>12, <1>13, QuietStep DEF Takes

LEMMA MarkStores ==
    ASSUME StoreInv, NEW s \in Session, Mark(s)
    PROVE  StoreInv'
<1>1. PICK r : r = [job[s] EXCEPT !.at = "record"]
  OBVIOUS
<1>2. /\ job' = [job EXCEPT ![s].at = "record"] /\ UNCHANGED <<storeVars, attached, mem, txn, excused>>
      /\ job[s].at = "mark"
  BY DEF Mark, engineHistory, Is
<1>3. job' = [job EXCEPT ![s] = r]
  BY <1>1, <1>2
<1>4. job[s].writes = <<>> /\ job[s].ops # <<>>
  BY <1>2, StoreFacts DEF JobStage
<1>5. r = [at |-> "record", ops |-> job[s].ops, writes |-> <<>>, snapshot |-> job[s].snapshot, keys |-> job[s].keys]
  BY <1>1, <1>4, StoreFacts, JobParts DEF JobType
<1>6. GoodJob(r) /\ r.writes = <<>> /\ r.ops = job[s].ops /\ PendingOf(r) = Pending(s) /\ r.at = "record"
  <2>1. r \in JobType
    BY <1>5, StoreFacts, JobParts, CellsEmpty DEF JobType, Ats
  <2>2. JobStage(r)
    BY <1>4, <1>5 DEF JobStage
  <2>3. Pending(s) = CellsOfAll(job[s].ops)
    BY <1>2 DEF Pending, Is
  <2> QED
    BY <1>5, <2>1, <2>2, <2>3 DEF GoodJob, PendingOf
<1>7. ASSUME NEW c, FollowsAt(job[s], mem, data, txn, c) PROVE FollowsAt(r, mem, data, txn, c)
  BY <1>2, <1>6, <1>7, PlainFollows
<1>8. \A c : ProgressOf(r, data, checksum, c)
  BY <1>6 DEF ProgressOf
<1> QED
  BY <1>2, <1>3, <1>4, <1>6, <1>7, <1>8, StoreFacts, QuietStep DEF Takes

LEMMA RecordStores ==
    ASSUME StoreInv, NEW s \in Session, RecordOrApply(s)
    PROVE  StoreInv'
<1>1. PICK op, ops : op = Head(job[s].ops) /\ ops = Tail(job[s].ops)
  OBVIOUS
<1>2. /\ job[s].at = "record" /\ UNCHANGED <<storeVars, attached, mem, excused>>
  BY DEF RecordOrApply, engineHistory, Is
<1>3. job[s].writes = <<>> /\ job[s].ops # <<>> /\ job[s].ops \in Seq(Op)
  BY <1>2, StoreFacts, JobParts DEF JobStage
<1>4. op \in Op /\ ops \in Seq(Op) /\ CellsOfAll(job[s].ops) = CellsOf(op) \cup CellsOfAll(ops)
  BY <1>1, <1>3, TailOf, CellsTail
<1>5. Pending(s) = CellsOf(op) \cup CellsOfAll(ops)
  BY <1>2, <1>4 DEF Pending, Is
<1>6. \A c : FollowsAt(job[s], mem, data, txn, c) <=>
         mem[c] = After(After(data[c], txn.log, c), job[s].ops, c) /\ (txn.open => txn.snapshot[c] = data[c])
  BY <1>2, PlainFollows
<1>7. \A c, v : After(v, job[s].ops, c) = After(IF c \in CellsOf(op) THEN Gives(op, c) ELSE v, ops, c)
  BY <1>1, <1>3, AfterTail
\* The operation goes into the log ...
<1>8. CASE txn.open
  <2>1. PICK r : r = Persisting(s, ops)
    OBVIOUS
  <2>2. txn' = [txn EXCEPT !.log = Append(@, op)] /\ Takes(s, r)
    BY <1>1, <1>8, <2>1 DEF RecordOrApply, Takes
  <2>3. GoodJob(r) /\ r.writes = <<>> /\ r.ops = ops /\ PendingOf(r) = CellsOfAll(ops) /\ r.at \in {"mark", "install", "rest"}
    BY <1>4, <2>1, StoreFacts, GoesOn
  <2>4. /\ txn \in [snapshot : Snaps, log : Seq(Op), open : BOOLEAN] /\ txn.snapshot \in [Cell -> Val]
    BY <1>8, StoreFacts DEF GoodTxn
  <2>5. txn'.log = Append(txn.log, op) /\ txn'.open /\ txn'.snapshot = txn.snapshot /\ GoodTxn(txn')
    <3>1. Append(txn.log, op) \in Seq(Op)
      BY <1>4, <2>4, AfterAppend
    <3>2. txn' = [snapshot |-> txn.snapshot, log |-> Append(txn.log, op), open |-> txn.open]
      BY <2>2, <2>4
    <3> QED
      BY <1>8, <2>4, <3>1, <3>2 DEF GoodTxn
  <2>6. \A c, v : After(v, txn'.log, c) = IF c \in CellsOf(op) THEN Gives(op, c) ELSE After(v, txn.log, c)
    BY <1>4, <2>4, <2>5, AfterAppend
  <2>7. ASSUME NEW c \in Cell \ excused, NEW u \in Session \ {s}, c \in Pending(u), FollowsAt(job[u], mem, data, txn, c)
        PROVE  FollowsAt(job[u], mem, data, txn', c)
    <3>1. c \notin CellsOf(op)
      BY <1>5, <2>7, PendingIs, StoreFacts
    <3>2. \A v : After(v, txn.log, c) = After(v, txn'.log, c)
      BY <2>6, <3>1
    <3> QED
      BY <1>8, <2>5, <2>7, <3>2, FollowsOther
  <2>8. ASSUME NEW c, FollowsAt(job[s], mem, data, txn, c) PROVE FollowsAt(r, mem, data, txn', c)
    <3>1. mem[c] = After(After(data[c], txn'.log, c), ops, c) /\ txn'.snapshot[c] = data[c]
      BY <1>6, <1>7, <1>8, <2>5, <2>6, <2>8
    <3>2. r.at \notin {"restore", "apply", "apply_write"}
      BY <2>3
    <3> QED
      BY <2>3, <3>1, <3>2, PlainFollows
  <2>9. \A c : ProgressOf(r, data, checksum, c)
    BY <2>3 DEF ProgressOf
  <2> QED
    BY <1>2, <1>3, <1>5, <1>8, <2>2, <2>3, <2>5, <2>7, <2>8, <2>9, StoreFacts, QuietStep
\* ... or to the store ...
<1>9. CASE ~txn.open /\ attached
  <2>1. PICK r : r = [job[s] EXCEPT !.writes = Writes(op), !.at = "write"]
    OBVIOUS
  <2>2. UNCHANGED txn /\ Takes(s, r)
    BY <1>1, <1>9, <2>1 DEF RecordOrApply, Takes
  <2>3. r = [at |-> "write", ops |-> job[s].ops, writes |-> Writes(op), snapshot |-> job[s].snapshot, keys |-> job[s].keys]
    BY <2>1, StoreFacts, JobParts, ZenonT(60) DEF JobType
  <2>4. Writes(op) \in Seq(WriteStep) /\ Writes(op) # <<>> /\ WritesOf(Writes(op), op)
    BY <1>4, WritesStart
  <2>5. GoodJob(r) /\ r.ops = job[s].ops /\ PendingOf(r) = Pending(s) /\ r.at = "write" /\ r.writes = Writes(op)
    <3>1. r \in JobType
      BY <2>3, <2>4, StoreFacts, JobParts DEF JobType, Ats
    <3>2. JobStage(r)
      BY <1>3, <2>3, <2>4 DEF JobStage
    <3> QED
      BY <1>4, <1>5, <2>3, <3>1, <3>2 DEF GoodJob, PendingOf
  <2>6. ASSUME NEW c PROVE ProgressOf(r, data, checksum, c)
    <3>1. c \in CellsOf(op) => ToWrite(r.writes, c, "value") \/ ToScan(r.writes, c)
      BY <1>4, <2>5, WritesStart
    <3>2. c \in CellsOf(op) /\ c \in Key => ToWrite(r.writes, c, "checksum") \/ ToScan(r.writes, c)
      BY <1>4, <2>5, WritesStart
    <3> QED
      BY <1>1, <2>5, <3>1, <3>2 DEF ProgressOf, Stops
  <2>7. ASSUME NEW c, FollowsAt(job[s], mem, data, txn, c) PROVE FollowsAt(r, mem, data, txn, c)
    <3>1. r.at \notin {"restore", "apply", "apply_write"}
      BY <2>5
    <3> QED
      BY <1>6, <2>5, <2>7, <3>1, PlainFollows
  <2> QED
    BY <1>1, <1>2, <1>3, <1>9, <2>2, <2>4, <2>5, <2>6, <2>7, StoreFacts, QuietStep
\* ... or, without one, is over.
<1>10. CASE ~txn.open /\ ~attached
  <2>1. PICK r : r = Persisting(s, ops)
    OBVIOUS
  <2>2. UNCHANGED txn /\ Takes(s, r)
    BY <1>1, <1>10, <2>1 DEF RecordOrApply, Takes
  <2>3. GoodJob(r) /\ r.writes = <<>> /\ r.ops = ops /\ PendingOf(r) = CellsOfAll(ops) /\ r.at \in {"mark", "install", "rest"}
    BY <1>4, <2>1, StoreFacts, GoesOn
  <2>4. \A c : ProgressOf(r, data, checksum, c)
    BY <2>3 DEF ProgressOf
  <2> QED
    BY <1>2, <1>3, <1>5, <1>10, <2>2, <2>3, <2>4, StoreFacts, QuietStep
<1> QED
  BY <1>8, <1>9, <1>10

\* The session rests, and memory has changed in excused cells alone.
LEMMA RestStores ==
    ASSUME StoreInv, NEW s \in Session, Takes(s, Resting), UNCHANGED <<storeVars, attached, txn>>,
           mem' \in [Cell -> Val], excused \subseteq excused', excused' \subseteq Cell,
           \A c \in Cell \ excused' : mem'[c] = mem[c] /\ c \notin Pending(s)
    PROVE  StoreInv'
<1>1. GoodJob(Resting) /\ PendingOf(Resting) = {} /\ Resting.writes = <<>> /\ Resting.at = "rest"
  BY RestingIs DEF Resting
<1>2. \A c : ProgressOf(Resting, data, checksum, c)
  BY <1>1 DEF ProgressOf
<1>3. ASSUME NEW c \in Cell \ excused', NEW j, FollowsAt(j, mem, data, txn, c) PROVE FollowsAt(j, mem', data, txn', c)
  BY <1>3, FollowsSame
<1>4. ASSUME NEW c \in Cell \ excused', FollowsAt(job[s], mem, data, txn, c) PROVE FollowsAt(Resting, mem', data, txn', c)
  <2>1. FollowsAt(Resting, mem, data, txn, c)
    BY <1>4, StoreFacts, RestingSees
  <2> QED
    BY <1>3, <2>1
<1>5. ASSUME NEW c \in Cell \ excused', job[s].writes # <<>>, c \in CellsOf(Head(job[s].ops)) PROVE FALSE
  <2>1. c \in Pending(s)
    BY <1>5, StoreFacts, HeadPending
  <2> QED
    BY <2>1
<1>6. GoodTxn(txn') /\ (txn'.open => txn.open)
  BY StoreFacts
<1> QED
  BY <1>1, <1>2, <1>3, <1>4, <1>5, <1>6, QuietStep

LEMMA StoreErrorStores ==
    ASSUME StoreInv, SideTypes, NEW s \in Session, StoreError(s)
    PROVE  StoreInv'
<1>1. /\ Takes(s, Resting) /\ UNCHANGED <<storeVars, attached, txn, mem>>
      /\ excused' = excused \cup Pending(s) \cup ({idem[s]} \ {0})
  BY DEF StoreError, Takes
<1>2. excused' \subseteq Cell
  <2>1. {idem[s]} \ {0} \subseteq Cell
    <3>1. idem[s] \in LogKey \cup {0}
      BY SideFacts
    <3>2. LogKey \subseteq Cell
      BY KeysAre
    <3> QED
      BY <3>1, <3>2
  <2> QED
    BY <1>1, <2>1, StoreFacts
<1> QED
  BY <1>1, <1>2, StoreFacts, RestStores

LEMMA InstallStores ==
    ASSUME StoreInv, SideTypes, NEW s \in Session, Install(s)
    PROVE  StoreInv'
<1>1. /\ Takes(s, Resting) /\ UNCHANGED <<storeVars, attached, txn>> /\ job[s].at = "install"
      /\ mem' = [c \in Cell |-> IF c \in DOMAIN job[s].snapshot THEN job[s].snapshot[c] ELSE mem[c]]
      /\ excused' = excused \cup {c \in Cell : mem'[c] # mem[c]} \cup (DOMAIN job[s].snapshot \cap PendingBut(s))
                    \cup Executing(s)
  BY DEF Install, Takes, Is
<1>2. job[s].snapshot \in Snaps /\ job[s].ops = <<>>
  BY <1>1, StoreFacts, JobParts DEF JobStage
<1>3. \A c \in DOMAIN job[s].snapshot : job[s].snapshot[c] \in Val
  BY <1>2 DEF Snaps
<1>4. mem' \in [Cell -> Val]
  BY <1>1, <1>3, StoreFacts
<1>5. excused' \subseteq Cell
  BY <1>1, StoreFacts, SideFacts
<1>6. Pending(s) = {}
  BY <1>1, <1>2, CellsEmpty DEF Pending, Is
<1> QED
  BY <1>1, <1>4, <1>5, <1>6, RestStores

LEMMA LoadStores ==
    ASSUME StoreInv, SideTypes, NEW s \in Session, LoadCommit(s)
    PROVE  StoreInv'
<1>1. /\ Takes(s, Resting) /\ UNCHANGED <<storeVars, attached, txn>> /\ job[s].at = "load"
      /\ mem' = [c \in Cell |-> IF c \in Key /\ mem[TableOf(c)] # 0 THEN job[s].snapshot[c] ELSE mem[c]]
      /\ excused' = excused \cup {c \in Cell : mem'[c] # mem[c]} \cup PendingBut(s) \cup Executing(s)
  BY DEF LoadCommit, Takes, Is
<1>2. job[s].snapshot \in [Key -> Val] /\ job[s].ops = <<>>
  BY <1>1, StoreFacts DEF JobStage, Root
<1>3. mem' \in [Cell -> Val]
  BY <1>1, <1>2, StoreFacts
<1>4. excused' \subseteq Cell
  BY <1>1, StoreFacts, SideFacts
<1>5. Pending(s) = {}
  BY <1>1, <1>2, CellsEmpty DEF Pending, Is
<1> QED
  BY <1>1, <1>3, <1>4, <1>5, RestStores

LEMMA ExportStores ==
    ASSUME StoreInv, NEW s \in Session, ExportDirty(s)
    PROVE  StoreInv'
<1>1. Takes(s, Resting) /\ UNCHANGED <<storeVars, attached, txn, mem, excused>> /\ job[s].at = "export"
  BY DEF ExportDirty, Takes, Is, engineHistory
<1>2. Pending(s) = {}
  <2>1. job[s].ops = <<>>
    BY <1>1, StoreFacts DEF JobStage
  <2> QED
    BY <1>1, <2>1, CellsEmpty DEF Pending, Is
<1> QED
  BY <1>1, <1>2, StoreFacts, RestStores

\* The session waits for something else, with nothing in hand before or after.
LEMMA WaitStores ==
    ASSUME StoreInv, NEW s \in Session, NEW r, GoodJob(r), Takes(s, r), UNCHANGED <<storeVars, attached, txn, mem, excused>>,
           job[s].ops = <<>>, job[s].at # "restore", r.ops = <<>>, r.at # "restore"
    PROVE  StoreInv'
<1>1. PendingOf(r) = {} /\ PendingOf(job[s]) = {} /\ Pending(s) = {} /\ r \in JobType
  BY CellsEmpty, StoreFacts DEF PendingOf, GoodJob
<1>2. r.writes = <<>> /\ r.at # "write" /\ job[s].writes = <<>>
  BY StoreFacts DEF GoodJob, JobStage
<1>3. ASSUME NEW c \in Cell, FollowsAt(job[s], mem, data, txn, c) PROVE FollowsAt(r, mem', data, txn', c)
  <2>1. FollowsAt(Resting, mem, data, txn, c)
    BY <1>1, <1>3, StoreFacts, RestingSees
  <2>2. FollowsAt(r, mem, data, txn, c)
    BY <1>1, <2>1, RestingSees
  <2> QED
    BY <2>2
<1>4. \A c : ProgressOf(r, data, checksum, c)
  BY <1>2 DEF ProgressOf
<1> QED
  BY <1>1, <1>2, <1>3, <1>4, StoreFacts, QuietStep

LEMMA VersionStores ==
    ASSUME StoreInv, NEW s \in Session, CallVersion(s)
    PROVE  StoreInv'
<1>1. PICK r : r = [job[s] EXCEPT !.at = Head(script[s]).do]
  OBVIOUS
<1>2. /\ Takes(s, r) /\ UNCHANGED <<storeVars, attached, txn, mem, excused>> /\ job[s].at = "rest"
      /\ Head(script[s]).do \in {"commit", "branch", "branch_from", "checkout", "merge", "log"}
  BY <1>1 DEF CallVersion, Takes, Is, engineHistory
<1>3. job[s].ops = <<>> /\ job[s].writes = <<>>
  BY <1>2, StoreFacts DEF JobStage, Resting
<1>4. r = [at |-> Head(script[s]).do, ops |-> <<>>, writes |-> <<>>, snapshot |-> job[s].snapshot, keys |-> job[s].keys]
  BY <1>1, <1>3, StoreFacts, JobParts DEF JobType
<1>5. r \in JobType /\ r.at \in {"commit", "branch", "branch_from", "checkout", "merge", "log"} /\ r.ops = <<>> /\ r.writes = <<>>
  BY <1>2, <1>4, StoreFacts, JobParts, CellsEmpty DEF JobType, Ats
<1>6. GoodJob(r)
  BY <1>5 DEF GoodJob, JobStage
<1> QED
  BY <1>2, <1>3, <1>5, <1>6, WaitStores

LEMMA TakeStores ==
    ASSUME StoreInv, SideTypes, NEW s \in Session, TakeDirty(s)
    PROVE  StoreInv'
<1>1. PICK r : r = [job[s] EXCEPT !.keys = dirty, !.at = "export"]
  OBVIOUS
<1>2. /\ Takes(s, r) /\ UNCHANGED <<storeVars, attached, txn, mem, excused>> /\ job[s].at = "take"
  BY <1>1 DEF TakeDirty, Takes, Is, engineHistory
<1>3. job[s].ops = <<>> /\ job[s].writes = <<>>
  BY <1>2, StoreFacts DEF JobStage
<1>4. r = [at |-> "export", ops |-> <<>>, writes |-> <<>>, snapshot |-> job[s].snapshot, keys |-> dirty]
  BY <1>1, <1>3, StoreFacts, JobParts DEF JobType
<1>5. r \in JobType /\ r.at = "export" /\ r.ops = <<>> /\ r.writes = <<>>
  BY <1>2, <1>4, StoreFacts, SideFacts, JobParts, CellsEmpty DEF JobType, Ats
<1>6. GoodJob(r)
  BY <1>5 DEF GoodJob, JobStage
<1> QED
  BY <1>2, <1>3, <1>5, <1>6, WaitStores

LEMMA IngestErrorStores ==
    ASSUME StoreInv, NEW s \in Session, IngestError(s)
    PROVE  StoreInv'
<1>1. PICK op, ops, r : op = Head(job[s].ops) /\ ops = Tail(job[s].ops) /\ r = Persisting(s, ops)
  OBVIOUS
<1>2. /\ job[s].at = "write" /\ UNCHANGED <<storeVars, attached, mem, txn>> /\ Takes(s, r)
      /\ excused' = excused \cup CellsOf(op)
  BY <1>1 DEF IngestError, Takes, Is
<1>3. job[s].writes # <<>> /\ job[s].ops # <<>> /\ job[s].ops \in Seq(Op)
  BY <1>2, StoreFacts, JobParts DEF JobStage
<1>4. op \in Op /\ ops \in Seq(Op) /\ CellsOfAll(job[s].ops) = CellsOf(op) \cup CellsOfAll(ops)
  BY <1>1, <1>3, TailOf, CellsTail
<1>5. Pending(s) = CellsOf(op) \cup CellsOfAll(ops)
  BY <1>2, <1>4 DEF Pending, Is
<1>6. GoodJob(r) /\ r.writes = <<>> /\ r.ops = ops /\ PendingOf(r) = CellsOfAll(ops) /\ r.at \in {"mark", "install", "rest"}
  <2>1. job[s] \in JobType /\ ops \in Seq(Op) /\ r = Persisting(s, ops)
    BY <1>1, <1>4, StoreFacts
  <2> QED
    BY <2>1, GoesOn
<1>7. ASSUME NEW c \in Cell \ excused', FollowsAt(job[s], mem, data, txn, c) PROVE FollowsAt(r, mem, data, txn, c)
  <2>1. mem[c] = After(After(data[c], txn.log, c), job[s].ops, c) /\ (txn.open => txn.snapshot[c] = data[c])
    BY <1>2, <1>7, PlainFollows
  <2>2. \A v : After(v, job[s].ops, c) = After(v, ops, c)
    BY <1>1, <1>2, <1>3, AfterTail
  <2>3. r.at \notin {"restore", "apply", "apply_write"}
    BY <1>6
  <2> QED
    BY <1>6, <2>1, <2>2, <2>3, PlainFollows
<1>8. \A c : ProgressOf(r, data, checksum, c)
  BY <1>6 DEF ProgressOf
<1>9. excused' \subseteq Cell
  BY <1>2, <1>4, StoreFacts, OpIs
<1> QED
  BY <1>1, <1>2, <1>3, <1>5, <1>6, <1>7, <1>8, <1>9, StoreFacts, QuietStep

LEMMA ApplyStores ==
    ASSUME StoreInv, NEW s \in Session, ApplyLog(s)
    PROVE  StoreInv'
<1>1. job[s].at = "apply" /\ UNCHANGED <<storeVars, attached, mem, txn, excused>>
  BY DEF ApplyLog, Is, engineHistory
<1>2. job[s].writes = <<>> /\ job[s].ops \in Seq(Op) /\ Pending(s) = CellsOfAll(job[s].ops)
  BY <1>1, StoreFacts, JobParts DEF JobStage, Pending, Is
<1>3. CASE job[s].ops = <<>>
  <2>1. Takes(s, Resting)
    BY <1>3 DEF ApplyLog, Takes
  <2> QED
    BY <1>1, <1>2, <1>3, <2>1, CellsEmpty, StoreFacts, RestStores
<1>4. CASE job[s].ops # <<>>
  <2>1. PICK op, r : op = Head(job[s].ops) /\ r = [job[s] EXCEPT !.writes = Writes(op), !.at = "apply_write"]
    OBVIOUS
  <2>2. Takes(s, r)
    BY <1>4, <2>1 DEF ApplyLog, Takes
  <2>3. op \in Op
    BY <1>2, <1>4, <2>1, TailOf
  <2>4. Writes(op) \in Seq(WriteStep) /\ Writes(op) # <<>> /\ WritesOf(Writes(op), op)
    BY <2>3, WritesStart
  <2>5. r = [at |-> "apply_write", ops |-> job[s].ops, writes |-> Writes(op), snapshot |-> job[s].snapshot, keys |-> job[s].keys]
    BY <2>1, StoreFacts, JobParts, ZenonT(60) DEF JobType
  <2>6. GoodJob(r) /\ r.ops = job[s].ops /\ PendingOf(r) = Pending(s) /\ r.at = "apply_write" /\ r.writes = Writes(op)
    <3>1. r \in JobType
      BY <2>4, <2>5, StoreFacts, JobParts DEF JobType, Ats
    <3>2. job[s].snapshot \in [Cell -> Val]
      BY <1>1, StoreFacts DEF JobStage
    <3>3. JobStage(r)
      BY <1>4, <2>4, <2>5, <3>2 DEF JobStage
    <3> QED
      BY <1>2, <2>5, <3>1, <3>3 DEF GoodJob, PendingOf
  <2>7. ASSUME NEW c PROVE ProgressOf(r, data, checksum, c)
    <3>1. c \in CellsOf(op) => ToWrite(r.writes, c, "value") \/ ToScan(r.writes, c)
      BY <2>3, <2>6, WritesStart
    <3>2. c \in CellsOf(op) /\ c \in Key => ToWrite(r.writes, c, "checksum") \/ ToScan(r.writes, c)
      BY <2>3, <2>6, WritesStart
    <3> QED
      BY <2>1, <2>6, <3>1, <3>2 DEF ProgressOf, Stops
  <2>8. ASSUME NEW c, FollowsAt(job[s], mem, data, txn, c) PROVE FollowsAt(r, mem, data, txn, c)
    BY <1>1, <2>6, <2>8, CommitFollows
  <2> QED
    BY <1>1, <1>2, <2>1, <2>2, <2>4, <2>6, <2>7, <2>8, StoreFacts, QuietStep
<1> QED
  BY <1>3, <1>4

LEMMA CommitErrorStores ==
    ASSUME StoreInv, NEW s \in Session, CommitError(s)
    PROVE  StoreInv'
<1>1. PICK r : r = [job[s] EXCEPT !.at = "restore", !.ops = <<>>, !.writes = <<>>]
  OBVIOUS
<1>2. /\ job[s].at \in {"apply", "apply_write"} /\ UNCHANGED <<storeVars, attached, mem, txn>>
      /\ job' = [job EXCEPT ![s].at = "restore", ![s].ops = <<>>, ![s].writes = <<>>]
      /\ excused' = excused \cup {c \in Cell : mem[c] # job[s].snapshot[c]} \cup CellsOfAll(job[s].ops)
                    \cup PendingBut(s)
  BY DEF CommitError
<1>3. r = [at |-> "restore", ops |-> <<>>, writes |-> <<>>, snapshot |-> job[s].snapshot, keys |-> job[s].keys]
  BY <1>1, StoreFacts, JobParts, ZenonT(60) DEF JobType
<1>4. Takes(s, r)
  <2>1. job \in [Session -> JobType]
    BY StoreFacts DEF StoreTypes
  <2> QED
    BY <1>1, <1>2, <2>1 DEF Takes, JobType
<1>5. GoodJob(r) /\ r.ops = <<>> /\ r.writes = <<>> /\ r.at = "restore" /\ r.snapshot = job[s].snapshot
  <2>1. r \in JobType
    BY <1>3, StoreFacts, JobParts, CellsEmpty DEF JobType, Ats
  <2>2. job[s].snapshot \in [Cell -> Val]
    BY <1>2, StoreFacts DEF JobStage
  <2>3. JobStage(r)
    BY <1>3, <2>2 DEF JobStage
  <2> QED
    BY <1>3, <2>1, <2>3 DEF GoodJob
<1>6. job[s].ops \in Seq(Op) /\ Pending(s) = CellsOfAll(job[s].ops)
  BY <1>2, StoreFacts, JobParts DEF Pending, Is
<1>7. excused \subseteq excused' /\ excused' \subseteq Cell /\ PendingBut(s) \subseteq excused' /\ Pending(s) \subseteq excused'
  BY <1>2, <1>6, StoreFacts
<1>8. ASSUME NEW c \in Cell \ excused', FollowsAt(job[s], mem, data, txn, c) PROVE FollowsAt(r, mem, data, txn, c)
  <2>1. mem[c] = job[s].snapshot[c] /\ c \notin CellsOfAll(job[s].ops)
    BY <1>2
  <2>2. \A v : After(v, job[s].ops, c) = v
    BY <1>6, <2>1, AfterAt
  <2>3. mem[c] = After(data[c], txn.log, c) /\ (txn.open => txn.snapshot[c] = data[c])
    BY <1>2, <1>8, <2>2, CommitFollows
  <2> QED
    BY <1>5, <2>1, <2>3, RestoreFollows
<1>9. \A c : ProgressOf(r, data, checksum, c)
  BY <1>5 DEF ProgressOf
<1>10. ASSUME NEW c \in Cell \ excused', job[s].writes # <<>>, c \in CellsOf(Head(job[s].ops)) PROVE FALSE
  <2>1. c \in Pending(s)
    BY <1>10, StoreFacts, HeadPending
  <2> QED
    BY <1>7, <2>1
<1> QED
  BY <1>2, <1>4, <1>5, <1>7, <1>8, <1>9, <1>10, StoreFacts, QuietStep

LEMMA RestoreStores ==
    ASSUME StoreInv, SideTypes, NEW s \in Session, Restore(s)
    PROVE  StoreInv'
<1>1. /\ job[s].at = "restore" /\ UNCHANGED <<storeVars, attached, txn>> /\ Takes(s, Resting)
      /\ mem' = job[s].snapshot
      /\ excused' = excused \cup PendingBut(s) \cup Executing(s)
                    \cup (IF mem'[LogTable] # mem[LogTable] THEN LookingUp ELSE {})
  BY DEF Restore, Is, Takes
<1>2. mem' \in [Cell -> Val] /\ job[s].ops = <<>> /\ job[s].writes = <<>>
  BY <1>1, StoreFacts DEF JobStage
<1>3. excused' \subseteq Cell /\ PendingBut(s) \subseteq excused'
  BY <1>1, StoreFacts, SideFacts
<1>4. GoodJob(Resting) /\ PendingOf(Resting) = {} /\ Resting.writes = <<>> /\ Resting.at = "rest"
  BY RestingIs DEF Resting
<1>5. ASSUME NEW c, FollowsAt(job[s], mem, data, txn, c) PROVE FollowsAt(Resting, mem', data, txn, c)
  <2>1. job[s].snapshot[c] = After(data[c], txn.log, c) /\ (txn.open => txn.snapshot[c] = data[c])
    BY <1>1, <1>2, <1>5, RestoreFollows
  <2> QED
    BY <1>1, <2>1, RestFollows
<1>6. \A c : ProgressOf(Resting, data, checksum, c)
  BY <1>4 DEF ProgressOf
<1>7. \A c \in Cell \ excused' : \A u \in Session \ {s} : c \notin Pending(u)
  BY <1>3, PendingIs
<1>8. GoodTxn(txn') /\ (txn'.open => txn.open) /\ UNCHANGED <<storeVars, attached>> /\ excused \subseteq excused' /\ txn' = txn
  BY <1>1, StoreFacts
<1>9. job[s].writes = <<>> /\ Takes(s, Resting) /\ mem' \in [Cell -> Val] /\ excused' \subseteq Cell
  BY <1>1, <1>2, <1>3
<1> QED
  BY <1>4, <1>5, <1>6, <1>7, <1>8, <1>9, QuietStep

\* What is not the engine's step.
LEMMA SameStores ==
    ASSUME StoreInv, UNCHANGED <<storeVars, attached, mem, txn, job>>, excused \subseteq excused', excused' \subseteq Cell
    PROVE  StoreInv'
<1>1. data' = data /\ checksum' = checksum /\ attached' = attached /\ mem' = mem /\ txn' = txn /\ job' = job
  BY DEF storeVars
<1>2. StoreTypes'
  BY <1>1 DEF StoreInv, StoreTypes
<1>3. \A s : Pending(s)' = Pending(s)
  BY <1>1 DEF Pending, Is, CellsOfAll
<1>4. Alone'
  BY <1>3 DEF StoreInv, Alone
<1>5. WritesFit' /\ NoneInside' /\ Settled' /\ Progress'
  <2>1. WritesFit'
    BY <1>1 DEF StoreInv, WritesFit
  <2>2. NoneInside'
    BY <1>1 DEF StoreInv, NoneInside
  <2>3. Settled'
    BY <1>1 DEF StoreInv, Settled
  <2>4. Progress'
    BY <1>1 DEF StoreInv, Progress
  <2> QED
    BY <2>1, <2>2, <2>3, <2>4
<1>6. attached => Follows'
  <2> SUFFICES ASSUME attached, NEW c \in Cell \ excused'
               PROVE  /\ (\A s \in Session : c \notin Pending(s)') => FollowsAt(Resting, mem', data', txn', c)
                      /\ \A s \in Session : c \in Pending(s)' => FollowsAt(job'[s], mem', data', txn', c)
    BY DEF Follows
  <2>1. Follows
    BY DEF StoreInv
  <2>2. /\ (\A s \in Session : c \notin Pending(s)) => FollowsAt(Resting, mem, data, txn, c)
        /\ \A s \in Session : c \in Pending(s) => FollowsAt(job[s], mem, data, txn, c)
    BY <2>1 DEF Follows
  <2> QED
    BY <1>1, <1>3, <2>2
<1> QED
  BY <1>1, <1>2, <1>4, <1>5, <1>6 DEF StoreInv

LEMMA LogStores ==
    ASSUME StoreInv, SideTypes, NEW s \in Session, EnsureLog(s) \/ LookUp(s)
    PROVE  StoreInv'
<1>1. UNCHANGED <<storeVars, attached, mem, txn, job>>
  BY DEF EnsureLog, LookUp
<1>2. excused \subseteq excused' /\ excused' \subseteq excused \cup Executing(s)
  BY DEF EnsureLog, LookUp, engineHistory
<1>3. excused' \subseteq Cell
  BY <1>2, StoreFacts, SideFacts
<1> QED
  BY <1>1, <1>2, <1>3, SameStores

LEMMA VersionCallStores ==
    ASSUME StoreInv, NEW s \in Session, VersionCall(s)
    PROVE  StoreInv'
<1>1. UNCHANGED <<storeVars, attached, mem, txn, job, excused>>
  BY DEF VersionCall, engineVars, engineHistory
<1> QED
  BY <1>1, StoreFacts, SameStores

\* BEGIN finds in memory what the store holds.
LEMMA BeginStores ==
    ASSUME StoreInv, SideTypes, NEW s \in Session, Begin(s)
    PROVE  StoreInv'
<1>1. job[s].at = "rest" /\ UNCHANGED <<storeVars, attached, mem, job>>
  BY DEF Begin, Heading, Is
<1>2. CASE txn.open
  <2>1. UNCHANGED <<txn, excused>>
    BY <1>2 DEF Begin
  <2> QED
    BY <1>1, <2>1, StoreFacts, SameStores
<1>3. CASE ~txn.open
  <2>1. /\ txn' = [snapshot |-> mem, log |-> <<>>, open |-> TRUE]
        /\ excused' = excused \cup PendingBut(s) \cup Executing(s)
    BY <1>3 DEF Begin
  <2>2. txn'.open /\ txn'.log = <<>> /\ txn'.snapshot = mem /\ GoodTxn(txn')
    <3>1. mem \in Snaps /\ mem \in [Cell -> Val]
      BY StoreFacts DEF Snaps
    <3> QED
      BY <2>1, <3>1, CellsEmpty DEF GoodTxn
  <2>3. txn.log = <<>>
    BY <1>3, StoreFacts DEF GoodTxn, NoTxn
  <2>4. Takes(s, Resting) /\ job[s] = Resting
    BY <1>1, StoreFacts, TakesSame DEF JobStage
  <2>5. GoodJob(Resting) /\ PendingOf(Resting) = {} /\ Resting.writes = <<>> /\ Resting.at = "rest"
    BY RestingIs DEF Resting
  <2>6. excused \subseteq excused' /\ excused' \subseteq Cell /\ PendingBut(s) \subseteq excused'
    BY <2>1, StoreFacts, SideFacts
  <2>7. \A c \in Cell \ excused' : \A u \in Session \ {s} : c \notin Pending(u)
    BY <2>6, PendingIs
  <2>8. ASSUME NEW c, FollowsAt(Resting, mem, data, txn, c) PROVE FollowsAt(Resting, mem, data, txn', c)
    <3>1. mem[c] = data[c]
      BY <2>3, <2>8, RestFollows, AfterNone
    <3>2. data[c] = After(data[c], txn'.log, c)
      BY <2>2, AfterNone
    <3> QED
      BY <2>2, <3>1, <3>2, RestFollows
  <2>9. \A c : ProgressOf(Resting, data, checksum, c)
    BY <2>5 DEF ProgressOf
  <2>10. UNCHANGED <<storeVars, attached>> /\ mem' \in [Cell -> Val] /\ mem' = mem /\ job[s].writes = <<>>
    BY <1>1, <2>4, <2>5, StoreFacts
  <2> QED
    BY <2>2, <2>4, <2>5, <2>6, <2>7, <2>8, <2>9, <2>10, QuietStep
<1> QED
  BY <1>2, <1>3

LEMMA NoTxnIs == GoodTxn(NoTxn) /\ NoTxn.log = <<>> /\ ~NoTxn.open
BY RestingIs DEF NoTxn

LEMMA CommitTxnStores ==
    ASSUME StoreInv, NEW s \in Session, CommitTxn(s)
    PROVE  StoreInv'
<1>1. job[s].at = "rest" /\ UNCHANGED <<storeVars, attached, mem>> /\ txn' = NoTxn
  BY DEF CommitTxn, Heading, Is
<1>2. job[s] = Resting /\ Pending(s) = {} /\ job[s].writes = <<>>
  BY <1>1, StoreFacts, RestingIs DEF JobStage, Resting
<1>3. GoodJob(Resting) /\ PendingOf(Resting) = {} /\ Resting.writes = <<>> /\ Resting.at = "rest"
  BY RestingIs DEF Resting
<1>4. CASE ~txn.open
  <2>1. txn' = txn /\ UNCHANGED <<job, excused>>
    BY <1>1, <1>4, StoreFacts DEF GoodTxn, CommitTxn
  <2> QED
    BY <1>1, <2>1, StoreFacts, SameStores
<1>5. CASE ~attached
  <2>1. UNCHANGED <<job, excused>>
    BY <1>5 DEF CommitTxn
  <2>2. Takes(s, Resting)
    BY <1>2, <2>1, StoreFacts, TakesSame
  <2>3. \A c : ProgressOf(Resting, data, checksum, c)
    BY <1>3 DEF ProgressOf
  <2> QED
    BY <1>1, <1>2, <1>3, <1>5, <2>1, <2>2, <2>3, NoTxnIs, StoreFacts, QuietStep
<1>6. CASE txn.open /\ attached
  <2>1. PICK r : r = [Resting EXCEPT !.at = "apply", !.ops = txn.log, !.snapshot = txn.snapshot]
    OBVIOUS
  <2>2. Takes(s, r) /\ excused' = excused \cup (CellsOfAll(txn.log) \cap PendingBut(s))
    BY <1>6, <2>1 DEF CommitTxn, Takes
  <2>3. /\ txn.log \in Seq(Op) /\ txn.snapshot \in [Cell -> Val] /\ txn.snapshot \in Snaps
    BY <1>6, StoreFacts DEF GoodTxn
  <2>4. r = [at |-> "apply", ops |-> txn.log, writes |-> <<>>, snapshot |-> txn.snapshot, keys |-> {}]
    BY <2>1 DEF Resting
  <2>5. GoodJob(r) /\ r.ops = txn.log /\ r.writes = <<>> /\ r.at = "apply" /\ PendingOf(r) = CellsOfAll(txn.log)
    <3>1. r \in JobType
      BY <2>3, <2>4, CellsEmpty DEF JobType, Ats
    <3>2. JobStage(r)
      BY <2>3, <2>4 DEF JobStage
    <3> QED
      BY <2>4, <3>1, <3>2 DEF GoodJob, PendingOf
  <2>6. excused \subseteq excused' /\ excused' \subseteq Cell
    BY <2>2, StoreFacts
  <2>7. ASSUME NEW c \in Cell \ excused', NEW u \in Session \ {s}, c \in Pending(u), FollowsAt(job[u], mem, data, txn, c)
        PROVE  FollowsAt(job[u], mem, data, txn', c)
    <3>1. c \notin CellsOfAll(txn.log)
      BY <2>2, <2>7, PendingIs
    <3>2. \A v : After(v, txn.log, c) = After(v, NoTxn.log, c)
      BY <2>3, <3>1, AfterAt, AfterNone, NoTxnIs
    <3> QED
      BY <1>1, <2>7, <3>2, NoTxnIs, FollowsOther
  <2>8. ASSUME NEW c, FollowsAt(Resting, mem, data, txn, c) PROVE FollowsAt(r, mem, data, txn', c)
    <3>1. mem[c] = After(data[c], txn.log, c)
      BY <2>8, RestFollows
    <3>2. mem[c] = After(After(data[c], r.ops, c), txn'.log, c)
      BY <1>1, <2>5, <3>1, NoTxnIs, AfterNone
    <3> QED
      BY <1>1, <2>5, <3>2, NoTxnIs, CommitFollows
  <2>9. \A c : ProgressOf(r, data, checksum, c)
    BY <2>5 DEF ProgressOf
  <2>10. GoodTxn(txn') /\ ~txn'.open /\ mem' = mem /\ mem' \in [Cell -> Val]
    BY <1>1, NoTxnIs, StoreFacts
  <2>11. \A c \in Cell \ excused' : c \in PendingOf(r) => c \notin PendingBut(s)
    BY <2>2, <2>5
  <2> QED
    BY <1>1, <1>2, <2>2, <2>5, <2>6, <2>7, <2>8, <2>9, <2>10, <2>11, QuietStep
<1> QED
  BY <1>4, <1>5, <1>6

LEMMA RollbackStores ==
    ASSUME StoreInv, SideTypes, NEW s \in Session, Rollback(s)
    PROVE  StoreInv'
<1>1. job[s].at = "rest" /\ UNCHANGED <<storeVars, attached, mem>> /\ txn' = NoTxn
  BY DEF Rollback, Heading, Is
<1>2. job[s] = Resting /\ Pending(s) = {} /\ job[s].writes = <<>>
  BY <1>1, StoreFacts, RestingIs DEF JobStage, Resting
<1>3. CASE ~txn.open
  <2>1. txn' = txn /\ UNCHANGED <<job, excused>>
    BY <1>1, <1>3, StoreFacts DEF GoodTxn, Rollback
  <2> QED
    BY <1>1, <2>1, StoreFacts, SameStores
<1>4. CASE txn.open
  <2>1. PICK r : r = [Resting EXCEPT !.at = "restore", !.snapshot = txn.snapshot]
    OBVIOUS
  <2>2. Takes(s, r) /\ excused' = excused \cup PendingBut(s) \cup Executing(s)
    BY <1>4, <2>1 DEF Rollback, Takes
  <2>3. txn.snapshot \in [Cell -> Val] /\ txn.snapshot \in Snaps
    BY <1>4, StoreFacts DEF GoodTxn
  <2>4. r = [at |-> "restore", ops |-> <<>>, writes |-> <<>>, snapshot |-> txn.snapshot, keys |-> {}]
    BY <2>1 DEF Resting
  <2>5. GoodJob(r) /\ r.ops = <<>> /\ r.writes = <<>> /\ r.at = "restore" /\ r.snapshot = txn.snapshot
    <3>1. r \in JobType
      BY <2>3, <2>4, CellsEmpty DEF JobType, Ats
    <3>2. JobStage(r)
      BY <2>3, <2>4 DEF JobStage
    <3> QED
      BY <2>4, <3>1, <3>2 DEF GoodJob
  <2>6. excused \subseteq excused' /\ excused' \subseteq Cell /\ PendingBut(s) \subseteq excused'
    BY <2>2, StoreFacts, SideFacts
  <2>7. \A c \in Cell \ excused' : c \notin PendingBut(s) /\ \A u \in Session \ {s} : c \notin Pending(u)
    BY <2>6, PendingIs
  <2>8. ASSUME NEW c, FollowsAt(Resting, mem, data, txn, c) PROVE FollowsAt(r, mem, data, txn', c)
    <3>1. r.snapshot[c] = data[c]
      BY <1>4, <2>5, <2>8, RestFollows
    <3>2. data[c] = After(data[c], txn'.log, c)
      BY <1>1, NoTxnIs, AfterNone
    <3> QED
      BY <1>1, <2>5, <3>1, <3>2, NoTxnIs, RestoreFollows
  <2>9. \A c : ProgressOf(r, data, checksum, c)
    BY <2>5 DEF ProgressOf
  <2>10. GoodTxn(txn') /\ ~txn'.open /\ mem' = mem /\ mem' \in [Cell -> Val]
    BY <1>1, NoTxnIs, StoreFacts
  <2> QED
    BY <1>1, <1>2, <2>2, <2>5, <2>6, <2>7, <2>8, <2>9, <2>10, QuietStep
<1> QED
  BY <1>3, <1>4
-----------------------------------------------------------------------------
\* Writes of an operation and then other writes of it.
LEMMA WritesJoin ==
    ASSUME NEW op, NEW p \in Seq(WriteStep), NEW q \in Seq(WriteStep), WritesOf(p, op), WritesOf(q, op), NEW r, r = p \o q
    PROVE  WritesOf(r, op) /\ r \in Seq(WriteStep)
<1>1. r \in Seq(WriteStep) /\ JoinOf(p, q, r)
  BY JoinIs
<1>2. /\ Len(r) = Len(p) + Len(q) /\ Len(p) \in Nat /\ Len(q) \in Nat
      /\ \A k \in 1 .. Len(p) : k \in 1 .. Len(r) /\ r[k] = p[k]
      /\ \A k \in 1 .. Len(q) : Len(p) + k \in 1 .. Len(r) /\ r[Len(p) + k] = q[k]
      /\ \A k \in 1 .. Len(r) : k \notin 1 .. Len(p) => k - Len(p) \in 1 .. Len(q) /\ r[k] = q[k - Len(p)]
  BY <1>1 DEF JoinOf
<1> SUFFICES ASSUME NEW i \in 1 .. Len(r)
             PROVE  /\ r[i].part = "rows" => r[i].cell = op.cell /\ op.cell \in Table /\ op.val = 0
                    /\ r[i].part # "rows" => r[i].cell \in CellsOf(op) /\ r[i].val = Gives(op, r[i].cell)
                    /\ r[i].part = "checksum" => r[i].cell \in Key
                    /\ r[i].part = "value" /\ r[i].cell \in Key =>
                          \E j \in 1 .. Len(r) : i < j /\ r[j].part = "checksum" /\ r[j].cell = r[i].cell
  BY <1>1 DEF WritesOf
<1>3. CASE i \in 1 .. Len(p)
  <2>1. r[i] = p[i]
    BY <1>2, <1>3
  <2>2. ASSUME p[i].part = "value", p[i].cell \in Key
        PROVE  \E j \in 1 .. Len(r) : i < j /\ r[j].part = "checksum" /\ r[j].cell = p[i].cell
    <3>1. PICK j \in 1 .. Len(p) : i < j /\ p[j].part = "checksum" /\ p[j].cell = p[i].cell
      BY <1>3, <2>2 DEF WritesOf
    <3> QED
      BY <1>2, <3>1
  <2> QED
    BY <1>3, <2>1, <2>2 DEF WritesOf
<1>4. CASE i \notin 1 .. Len(p)
  <2>1. PICK k \in 1 .. Len(q) : k = i - Len(p) /\ r[i] = q[k] /\ i = Len(p) + k
    BY <1>2, <1>4
  <2>2. ASSUME q[k].part = "value", q[k].cell \in Key
        PROVE  \E j \in 1 .. Len(r) : i < j /\ r[j].part = "checksum" /\ r[j].cell = q[k].cell
    <3>1. PICK j \in 1 .. Len(q) : k < j /\ q[j].part = "checksum" /\ q[j].cell = q[k].cell
      BY <2>2 DEF WritesOf
    <3>2. Len(p) + j \in 1 .. Len(r) /\ r[Len(p) + j] = q[j] /\ i < Len(p) + j
      BY <1>2, <2>1, <3>1
    <3> QED
      BY <3>1, <3>2
  <2> QED
    BY <2>1, <2>2 DEF WritesOf
<1> QED
  BY <1>3, <1>4

\* The removals of the rows of a table that is dropped.
LEMMA RemovalsAre ==
    ASSUME NEW t \in Table, NEW op \in Op, op.cell = t, op.val = 0, NEW rows, rows = Removals(t)
    PROVE  /\ rows \in Seq(WriteStep) /\ WritesOf(rows, op)
           /\ \A k \in KeysOf(t) : data[k] # 0 => ToWrite(rows, k, "value") /\ ToWrite(rows, k, "checksum")
<1>1. PICK S, found : S = {k \in Key : TableOf(k) = t /\ data[k] # 0} /\ found = Ordered(S)
  OBVIOUS
<1>2. S \in SUBSET Key /\ S \in SUBSET Nat /\ IsFiniteSet(S)
  BY <1>1, KeysAre
<1>3. PICK n \in Nat : /\ n = Len(found) /\ \A i \in 1 .. n : found[i] \in S
                       /\ \A k \in S : \E i \in 1 .. n : found[i] = k
  <2>1. PICK n \in Nat : n = Cardinality(S)
    BY <1>2, FS_CardinalityType
  <2>2. found \in Seq(S) /\ Len(found) = n
    BY <1>1, <1>2, <2>1, OrderedIs
  <2>3. \A k \in S : \E i \in 1 .. n : found[i] = k
    BY <1>1, <1>2, <2>1, OrderedIs, ZenonT(60)
  <2>4. \A i \in 1 .. n : found[i] \in S
    BY <2>2
  <2> QED
    BY <2>2, <2>3, <2>4
<1> DEFINE seqs == [i \in 1 .. n |-> RowWrites([cell |-> found[i], val |-> 0])]
<1>4. rows = FlattenSeq(seqs)
  BY <1>1, <1>3 DEF Removals
<1>5. CellsOf(op) = {t} \cup KeysOf(t) /\ t \notin Key
  BY KeysAre DEF CellsOf
<1>6. ASSUME NEW i \in 1 .. n
      PROVE  /\ seqs[i] \in Seq(WriteStep) /\ Len(seqs[i]) = 2 /\ WritesOf(seqs[i], op)
             /\ seqs[i][1].part = "value" /\ seqs[i][2].part = "checksum"
             /\ seqs[i][1].cell = found[i] /\ seqs[i][2].cell = found[i]
  <2>1. PICK k \in Key : k = found[i] /\ k \in KeysOf(t)
    BY <1>1, <1>3, KeysAre
  <2>2. PICK a, b : a = [part |-> "value", cell |-> k, val |-> 0] /\ b = [part |-> "checksum", cell |-> k, val |-> 0]
    OBVIOUS
  <2>3. a \in WriteStep /\ b \in WriteStep
    BY <2>2, KeysAre DEF WriteStep, Part
  <2>4. seqs[i] = <<a, b>>
    BY <2>1, <2>2 DEF RowWrites, Write
  <2>5. PICK w : w = <<a, b>> /\ w \in Seq(WriteStep)
    <3>1. <<a, b>> \in Seq(WriteStep)
      BY <2>3
    <3> QED
      BY <3>1
  <2>6. Len(w) = 2 /\ w[1] = a /\ w[2] = b /\ 1 .. 2 = {1, 2}
    BY <2>5
  <2>7. Gives(op, k) = 0 /\ k \in CellsOf(op)
    BY <1>5, <2>1 DEF Gives
  <2>8. WritesOf(w, op)
    BY <2>2, <2>6, <2>7 DEF WritesOf
  <2>9. seqs[i] = w
    BY <2>4, <2>5
  <2>10. w[1].part = "value" /\ w[2].part = "checksum" /\ w[1].cell = found[i] /\ w[2].cell = found[i]
    BY <2>1, <2>2, <2>6
  <2> HIDE DEF seqs
  <2> QED
    BY <2>5, <2>6, <2>8, <2>9, <2>10
<1>7. CASE n = 0
  <2>1. seqs = <<>>
    BY <1>7
  <2>2. rows = <<>>
    BY <1>4, <2>1 DEF FlattenSeq
  <2>3. WritesOf(<<>>, op)
    <3>1. 1 .. Len(<<>>) = {}
      OBVIOUS
    <3> QED
      BY <3>1 DEF WritesOf
  <2>4. \A k \in KeysOf(t) : data[k] = 0
    <3>1. S = {}
      BY <1>3, <1>7
    <3> QED
      BY <1>1, <3>1, KeysAre
  <2> QED
    BY <2>2, <2>3, <2>4, CellsEmpty
<1>8. CASE n # 0
  <2>1. seqs \in Seq(Seq(WriteStep)) /\ Len(seqs) = n /\ seqs # <<>>
    <3>1. seqs \in [1 .. n -> Seq(WriteStep)]
      BY <1>6
    <3> HIDE DEF seqs
    <3> QED
      BY <1>8, <3>1
  <2> HIDE DEF seqs
  <2>2. FlattenOf(WriteStep, seqs, rows)
    BY <1>4, <2>1, FlattenMembers
  <2>3. ASSUME NEW k \in KeysOf(t), data[k] # 0 PROVE ToWrite(rows, k, "value") /\ ToWrite(rows, k, "checksum")
    <3>0. k \in S
      BY <1>1, <2>3, KeysAre
    <3>1. PICK i \in 1 .. n : found[i] = k
      BY <1>3, <3>0
    <3>2. \A j \in 1 .. 2 : \E l \in 1 .. Len(rows) : rows[l] = seqs[i][j]
      <4>1. \A j \in 1 .. Len(seqs[i]) : \E l \in 1 .. Len(rows) : rows[l] = seqs[i][j]
        BY <2>1, <2>2 DEF FlattenOf
      <4> QED
        BY <1>6, <4>1
    <3>3. 1 \in 1 .. 2 /\ 2 \in 1 .. 2
      OBVIOUS
    <3>4. PICK l \in 1 .. Len(rows), m \in 1 .. Len(rows) : rows[l] = seqs[i][1] /\ rows[m] = seqs[i][2]
      BY <3>2, <3>3
    <3>5. /\ rows[l].part = "value" /\ rows[l].cell = k
          /\ rows[m].part = "checksum" /\ rows[m].cell = k
      BY <1>6, <3>1, <3>4
    <3> QED
      BY <3>5 DEF ToWrite
  <2>4. PICK g : Joins(seqs, n, g) /\ FlattenSeq(seqs) = g[n] /\ \A i \in 1 .. n : g[i] \in Seq(WriteStep)
    BY <2>1, FlattenIs
  <2>5. \A m \in 1 .. n : g[m] = IF m = 1 THEN seqs[m] ELSE g[m - 1] \o seqs[m]
    BY <2>4 DEF Joins
  <2> DEFINE Bad == {m \in 1 .. n : ~WritesOf(g[m], op)}
  <2>6. ASSUME Bad # {} PROVE FALSE
    <3>1. PICK m \in 1 .. n : m \in Bad /\ \A k \in Bad : m <= k
      <4>1. Bad \subseteq 1 .. n /\ Bad \subseteq Nat
        OBVIOUS
      <4> HIDE DEF Bad
      <4> QED
        BY <2>6, <4>1, LeastOf
    <3>2. CASE m = 1
      <4>1. g[m] = seqs[m]
        BY <2>5, <3>2
      <4> QED
        BY <1>6, <3>1, <4>1
    <3>3. CASE m # 1
      <4>1. m - 1 \in 1 .. n /\ ~(m <= m - 1)
        BY <3>3
      <4>2. m - 1 \notin Bad
        BY <3>1, <4>1
      <4>3. WritesOf(g[m - 1], op) /\ WritesOf(seqs[m], op) /\ g[m - 1] \in Seq(WriteStep) /\ seqs[m] \in Seq(WriteStep)
        BY <1>6, <2>4, <4>1, <4>2
      <4>4. g[m] = g[m - 1] \o seqs[m]
        BY <2>5, <3>3
      <4>5. WritesOf(g[m], op)
        BY <4>3, <4>4, WritesJoin
      <4> QED
        BY <3>1, <4>5
    <3> QED
      BY <3>2, <3>3
  <2>7. WritesOf(g[n], op)
    <3>1. n \in 1 .. n /\ n \notin Bad
      BY <1>8, <2>6
    <3> QED
      BY <3>1
  <2>8. rows \in Seq(WriteStep) /\ WritesOf(rows, op)
    BY <1>4, <2>4, <2>7, <2>2 DEF FlattenOf
  <2> QED
    BY <2>3, <2>8
<1> QED
  BY <1>7, <1>8

\* How far the writes of operation op have come with a cell.
Parts(writes, op, d, sum, c) ==
    /\ d[c] = Gives(op, c) \/ ToWrite(writes, c, "value") \/ ToScan(writes, c)
    /\ Stops(d, sum, c) => ToWrite(writes, c, "checksum") \/ ToScan(writes, c)

LEMMA WritesTail ==
    ASSUME NEW op, NEW writes \in Seq(WriteStep), writes # <<>>, WritesOf(writes, op), NEW tail, tail = Tail(writes)
    PROVE  tail \in Seq(WriteStep) /\ WritesOf(tail, op)
<1>1. /\ tail \in Seq(WriteStep) /\ Len(writes) \in Nat \ {0} /\ Len(tail) = Len(writes) - 1
      /\ \A i \in 1 .. Len(tail) : i + 1 \in 1 .. Len(writes) /\ tail[i] = writes[i + 1]
      /\ \A i \in 1 .. Len(writes) : i # 1 => i - 1 \in 1 .. Len(tail) /\ tail[i - 1] = writes[i]
  BY TailOf
<1> SUFFICES ASSUME NEW i \in 1 .. Len(tail)
             PROVE  /\ tail[i].part = "rows" => tail[i].cell = op.cell /\ op.cell \in Table /\ op.val = 0
                    /\ tail[i].part # "rows" => tail[i].cell \in CellsOf(op) /\ tail[i].val = Gives(op, tail[i].cell)
                    /\ tail[i].part = "checksum" => tail[i].cell \in Key
                    /\ tail[i].part = "value" /\ tail[i].cell \in Key =>
                          \E j \in 1 .. Len(tail) : i < j /\ tail[j].part = "checksum" /\ tail[j].cell = tail[i].cell
  BY <1>1 DEF WritesOf
<1>2. i + 1 \in 1 .. Len(writes) /\ tail[i] = writes[i + 1]
  BY <1>1
<1>3. ASSUME tail[i].part = "value", tail[i].cell \in Key
      PROVE  \E j \in 1 .. Len(tail) : i < j /\ tail[j].part = "checksum" /\ tail[j].cell = tail[i].cell
  <2>1. PICK j \in 1 .. Len(writes) : i + 1 < j /\ writes[j].part = "checksum" /\ writes[j].cell = tail[i].cell
    BY <1>2, <1>3 DEF WritesOf
  <2>2. j - 1 \in 1 .. Len(tail) /\ tail[j - 1] = writes[j] /\ i < j - 1
    BY <1>1, <2>1
  <2> QED
    BY <2>1, <2>2
<1> QED
  BY <1>2, <1>3 DEF WritesOf

\* What is left to write of an operation after the first of its writes.
LeftOf(left, writes, op, w) ==
    /\ w \in WriteStep /\ left \in Seq(WriteStep) /\ WritesOf(left, op)
    /\ w.part = "rows" => w.cell = op.cell /\ op.cell \in Table /\ op.val = 0
    /\ w.part # "rows" => w.cell \in CellsOf(op) /\ w.val = Gives(op, w.cell)
    /\ w.part = "checksum" => w.cell \in Key
    /\ \A c, part : ToWrite(writes, c, part) => (w.part = part /\ w.cell = c) \/ ToWrite(left, c, part)
    /\ w.part # "rows" => \A c : ToScan(writes, c) => ToScan(left, c)
    /\ w.part = "rows" => \A c \in KeysOf(w.cell) : data[c] # 0 =>
                             ToWrite(left, c, "value") /\ ToWrite(left, c, "checksum")
    /\ w.part = "value" /\ w.cell \in Key => ToWrite(left, w.cell, "checksum")

LEMMA LeftIs ==
    ASSUME StoreTypes, NEW op \in Op, NEW writes \in Seq(WriteStep), writes # <<>>, WritesOf(writes, op),
           NEW w, w = Head(writes), NEW left, left = (IF w.part = "rows" THEN Removals(w.cell) ELSE <<>>) \o Tail(writes)
    PROVE  LeftOf(left, writes, op, w)
<1>1. PICK tail : tail = Tail(writes)
  OBVIOUS
<1>2. /\ w \in WriteStep /\ w = writes[1] /\ Len(writes) \in Nat \ {0} /\ Len(tail) \in Nat /\ 1 \in 1 .. Len(writes)
      /\ \A i \in 1 .. Len(writes) : i # 1 => i - 1 \in 1 .. Len(tail) /\ tail[i - 1] = writes[i]
  BY <1>1, TailOf
<1>3. /\ w.part = "rows" => w.cell = op.cell /\ op.cell \in Table /\ op.val = 0
      /\ w.part # "rows" => w.cell \in CellsOf(op) /\ w.val = Gives(op, w.cell)
      /\ w.part = "checksum" => w.cell \in Key
      /\ w.part = "value" /\ w.cell \in Key => \E j \in 1 .. Len(writes) : 1 < j /\ writes[j].part = "checksum" /\ writes[j].cell = w.cell
  BY <1>2 DEF WritesOf
<1>4. tail \in Seq(WriteStep) /\ WritesOf(tail, op)
  BY <1>1, WritesTail
<1>5. PICK rows : rows = IF w.part = "rows" THEN Removals(w.cell) ELSE <<>>
  OBVIOUS
<1>6. WritesOf(<<>>, op)
  <2>1. 1 .. Len(<<>>) = {}
    OBVIOUS
  <2> QED
    BY <2>1 DEF WritesOf
<1>7. /\ rows \in Seq(WriteStep) /\ WritesOf(rows, op)
      /\ w.part = "rows" => \A c \in KeysOf(w.cell) : data[c] # 0 => ToWrite(rows, c, "value") /\ ToWrite(rows, c, "checksum")
  <2>1. CASE w.part # "rows"
    BY <1>5, <1>6, <2>1
  <2>2. CASE w.part = "rows"
    <3>1. w.cell \in Table /\ op.cell = w.cell /\ op.val = 0 /\ rows = Removals(w.cell)
      BY <1>3, <1>5, <2>2
    <3> QED
      BY <3>1, RemovalsAre
  <2> QED
    BY <2>1, <2>2
<1>8. left = rows \o tail
  BY <1>1, <1>5
<1>9. left \in Seq(WriteStep) /\ WritesOf(left, op) /\ JoinOf(rows, tail, left)
  BY <1>4, <1>7, <1>8, WritesJoin, JoinIs
<1>10. /\ \A i \in 1 .. Len(rows) : \E j \in 1 .. Len(left) : left[j] = rows[i]
       /\ \A i \in 1 .. Len(tail) : \E j \in 1 .. Len(left) : left[j] = tail[i]
  BY <1>9 DEF JoinOf
<1>11. ASSUME NEW i \in 1 .. Len(writes), i # 1 PROVE \E j \in 1 .. Len(left) : left[j] = writes[i]
  <2>1. PICK k \in 1 .. Len(tail) : tail[k] = writes[i]
    BY <1>2, <1>11
  <2>2. PICK j \in 1 .. Len(left) : left[j] = tail[k]
    BY <1>10
  <2> QED
    BY <2>1, <2>2
<1>12. ASSUME NEW c, NEW part, ToWrite(writes, c, part) PROVE (w.part = part /\ w.cell = c) \/ ToWrite(left, c, part)
  <2>1. PICK i \in 1 .. Len(writes) : writes[i].part = part /\ writes[i].cell = c
    BY <1>12 DEF ToWrite
  <2> QED
    BY <1>2, <1>11, <2>1 DEF ToWrite
<1>13. ASSUME w.part # "rows", NEW c, ToScan(writes, c) PROVE ToScan(left, c)
  <2>1. PICK i \in 1 .. Len(writes) : writes[i].part = "rows"
    BY <1>13 DEF ToScan
  <2> QED
    BY <1>2, <1>11, <1>13, <2>1 DEF ToScan
<1>14. ASSUME NEW c, NEW part, ToWrite(rows, c, part) PROVE ToWrite(left, c, part)
  BY <1>10, <1>14, ZenonT(60) DEF ToWrite
<1>15. ASSUME w.part = "value", w.cell \in Key PROVE ToWrite(left, w.cell, "checksum")
  <2>1. PICK j \in 1 .. Len(writes) : 1 < j /\ writes[j].part = "checksum" /\ writes[j].cell = w.cell
    BY <1>3, <1>15
  <2>2. j # 1
    BY <2>1
  <2> QED
    BY <1>11, <2>1, <2>2, ZenonT(60) DEF ToWrite
<1>16. w.part = "rows" => \A c \in KeysOf(w.cell) : data[c] # 0 => ToWrite(left, c, "value") /\ ToWrite(left, c, "checksum")
  BY <1>7, <1>14
<1> QED
  BY <1>2, <1>3, <1>9, <1>12, <1>13, <1>15, <1>16 DEF LeftOf

\* A write changes a cell of its operation, and brings it nearer to what the operation leaves.
LEMMA PerformIs ==
    ASSUME StoreTypes, NEW op \in Op, NEW writes \in Seq(WriteStep), writes # <<>>, WritesOf(writes, op),
           NEW w, w = Head(writes), NEW left, left = (IF w.part = "rows" THEN Removals(w.cell) ELSE <<>>) \o Tail(writes),
           Perform(w)
    PROVE  /\ data' \in [Cell -> Val] /\ checksum' \in [Key -> Val]
           /\ \A c \in Cell \ CellsOf(op) : data'[c] = data[c] /\ (c \in Key => checksum'[c] = checksum[c])
           /\ \A c \in CellsOf(op) : Parts(writes, op, data, checksum, c) => Parts(left, op, data', checksum', c)
<1>a. data \in [Cell -> Val] /\ checksum \in [Key -> Val]
  BY DEF StoreTypes
<1>b. /\ w \in WriteStep /\ left \in Seq(WriteStep) /\ WritesOf(left, op)
      /\ w.part = "rows" => w.cell = op.cell /\ op.cell \in Table /\ op.val = 0
      /\ w.part # "rows" => w.cell \in CellsOf(op) /\ w.val = Gives(op, w.cell)
      /\ w.part = "checksum" => w.cell \in Key
      /\ \A c, part : ToWrite(writes, c, part) => (w.part = part /\ w.cell = c) \/ ToWrite(left, c, part)
      /\ w.part # "rows" => \A c : ToScan(writes, c) => ToScan(left, c)
      /\ w.part = "rows" => \A c \in KeysOf(w.cell) : data[c] # 0 =>
                               ToWrite(left, c, "value") /\ ToWrite(left, c, "checksum")
      /\ w.part = "value" /\ w.cell \in Key => ToWrite(left, w.cell, "checksum")
  <2>1. LeftOf(left, writes, op, w)
    BY LeftIs
  <2> QED
    BY <2>1 DEF LeftOf
<1>1. w.cell \in Cell /\ w.val \in Val /\ w.part \in {"value", "checksum", "rows"} /\ CellsOf(op) \subseteq Cell
  BY <1>a, <1>b, OpIs DEF WriteStep, Part
<1>2. CASE w.part = "value"
  <2>1. data' = [data EXCEPT ![w.cell] = w.val] /\ checksum' = checksum
    BY <1>2 DEF Perform
  <2>2. data' \in [Cell -> Val] /\ data'[w.cell] = w.val /\ \A c \in Cell : c # w.cell => data'[c] = data[c]
    BY <1>a, <1>b, <1>1, <2>1
  <2>3. ASSUME NEW c \in CellsOf(op), Parts(writes, op, data, checksum, c) PROVE Parts(left, op, data', checksum', c)
    <3>1. CASE c = w.cell
      <4>1. data'[c] = Gives(op, c)
        BY <1>a, <1>b, <1>2, <2>2, <3>1
      <4>2. c \in Key => ToWrite(left, c, "checksum")
        BY <1>a, <1>b, <1>2, <3>1
      <4> QED
        BY <4>1, <4>2 DEF Parts, Stops
    <3>2. CASE c # w.cell
      <4>1. data'[c] = data[c] /\ checksum'[c] = checksum[c]
        BY <1>1, <2>1, <2>2, <3>2
      <4>2. /\ ToWrite(writes, c, "value") => ToWrite(left, c, "value")
            /\ ToWrite(writes, c, "checksum") => ToWrite(left, c, "checksum")
            /\ ToScan(writes, c) => ToScan(left, c)
        BY <1>a, <1>b, <1>2, <3>2
      <4> QED
        BY <2>3, <4>1, <4>2 DEF Parts, Stops
    <3> QED
      BY <3>1, <3>2
  <2> QED
    BY <1>a, <1>b, <1>2, <2>1, <2>2, <2>3
<1>3. CASE w.part = "checksum"
  <2>1. checksum' = [checksum EXCEPT ![w.cell] = w.val] /\ data' = data
    BY <1>3 DEF Perform
  <2>2. checksum' \in [Key -> Val] /\ checksum'[w.cell] = w.val /\ \A c \in Key : c # w.cell => checksum'[c] = checksum[c]
    BY <1>a, <1>b, <1>1, <1>3, <2>1
  <2>3. ASSUME NEW c \in CellsOf(op), Parts(writes, op, data, checksum, c) PROVE Parts(left, op, data', checksum', c)
    <3>1. /\ ToWrite(writes, c, "value") => ToWrite(left, c, "value")
          /\ ToScan(writes, c) => ToScan(left, c)
      BY <1>a, <1>b, <1>3
    <3>2. CASE c = w.cell
      <4>1. checksum'[c] = Gives(op, c) /\ c \in Key
        BY <1>a, <1>b, <1>3, <2>2, <3>2
      <4>2. ToWrite(left, c, "value") => ToWrite(left, c, "checksum")
        <5>1. SUFFICES ASSUME ToWrite(left, c, "value") PROVE ToWrite(left, c, "checksum")
          OBVIOUS
        <5>2. PICK i \in 1 .. Len(left) : left[i].part = "value" /\ left[i].cell = c
          BY <5>1 DEF ToWrite
        <5>3. \E j \in 1 .. Len(left) : left[j].part = "checksum" /\ left[j].cell = c
          BY <1>a, <1>b, <4>1, <5>2 DEF WritesOf
        <5> QED
          BY <5>3 DEF ToWrite
      <4> QED
        BY <2>1, <2>3, <3>1, <4>1, <4>2 DEF Parts, Stops
    <3>3. CASE c # w.cell
      <4>1. ToWrite(writes, c, "checksum") => ToWrite(left, c, "checksum")
        BY <1>a, <1>b, <3>3
      <4>2. c \in Key => checksum'[c] = checksum[c]
        BY <2>2, <3>3
      <4> QED
        BY <2>1, <2>3, <3>1, <4>1, <4>2 DEF Parts, Stops
    <3> QED
      BY <3>2, <3>3
  <2> QED
    BY <1>a, <1>b, <1>3, <2>1, <2>2, <2>3
<1>4. CASE w.part = "rows"
  <2>1. data' = data /\ checksum' = checksum
    BY <1>4 DEF Perform, storeVars
  <2>2. ASSUME NEW c \in CellsOf(op), Parts(writes, op, data, checksum, c) PROVE Parts(left, op, data', checksum', c)
    <3>1. /\ ToWrite(writes, c, "value") => ToWrite(left, c, "value")
          /\ ToWrite(writes, c, "checksum") => ToWrite(left, c, "checksum")
      BY <1>a, <1>b, <1>4
    <3>2. CASE c \in Key
      <4>1. c \in KeysOf(w.cell) /\ Gives(op, c) = 0
        <5>1. CellsOf(op) = {op.cell} \cup KeysOf(op.cell) /\ op.cell \notin Key
          BY <1>a, <1>b, <1>4, KeysAre DEF CellsOf
        <5> QED
          BY <1>a, <1>b, <1>4, <3>2, <5>1 DEF Gives
      <4>2. data[c] # 0 => ToWrite(left, c, "value") /\ ToWrite(left, c, "checksum")
        BY <1>a, <1>b, <1>4, <4>1
      <4> QED
        BY <2>1, <4>1, <4>2 DEF Parts, Stops
    <3>3. CASE c \notin Key
      BY <2>1, <2>2, <3>1, <3>3 DEF Parts, Stops, ToScan
    <3> QED
      BY <3>2, <3>3
  <2> QED
    BY <1>a, <1>b, <2>1, <2>2
<1> QED
  BY <1>1, <1>2, <1>3, <1>4

\* The session goes on: with the other writes, with the other operations, or with those of COMMIT.
LEMMA CommitJob ==
    ASSUME NEW j \in JobType, j.snapshot \in [Cell -> Val], NEW ops \in Seq(Op), NEW r,
           r = [at |-> "apply", ops |-> ops, writes |-> <<>>, snapshot |-> j.snapshot, keys |-> j.keys]
    PROVE  GoodJob(r)
<1>1. r \in JobType
  BY JobParts, CellsEmpty DEF JobType, Ats
<1>2. JobStage(r)
  BY DEF JobStage
<1> QED
  BY <1>1, <1>2 DEF GoodJob

WritesOn(s, r, left) ==
    /\ Takes(s, r) /\ GoodJob(r) /\ r.writes = left
    /\ r.ops = IF left # <<>> THEN job[s].ops ELSE Tail(job[s].ops)
    /\ PendingOf(r) = CellsOfAll(r.ops)
    /\ IF job[s].at = "write" THEN r.at \in {"write", "mark", "install", "rest"} /\ (r.at = "write" => left # <<>>)
       ELSE r.at \in {"apply", "apply_write"}

LEMMA WriteGoesOn ==
    ASSUME StoreInv, NEW s \in Session, StoreWrite(s), NEW left,
           left = (IF Head(job[s].writes).part = "rows" THEN Removals(Head(job[s].writes).cell) ELSE <<>>) \o Tail(job[s].writes),
           left \in Seq(WriteStep), NEW r,
           r = IF left # <<>> THEN [job[s] EXCEPT !.writes = left]
               ELSE IF job[s].at = "write" THEN Persisting(s, Tail(job[s].ops))
               ELSE [job[s] EXCEPT !.at = "apply", !.ops = Tail(job[s].ops), !.writes = <<>>]
    PROVE  WritesOn(s, r, left)
<1>1. job[s].at \in {"write", "apply_write"} /\ job[s] \in JobType /\ JobStage(job[s])
  BY StoreFacts DEF StoreWrite
<1>2. job[s].ops # <<>> /\ job[s].ops \in Seq(Op) /\ Tail(job[s].ops) \in Seq(Op)
  BY <1>1, JobParts, TailOf DEF JobStage
<1>7. PICK ops : ops = Tail(job[s].ops) /\ ops \in Seq(Op)
  BY <1>2
<1>3. Takes(s, r)
  BY DEF StoreWrite, Takes, Is
<1>4. CASE left # <<>>
  <2>1. r = [job[s] EXCEPT !.writes = left]
    BY <1>4
  <2>2. r = [at |-> job[s].at, ops |-> job[s].ops, writes |-> left, snapshot |-> job[s].snapshot, keys |-> job[s].keys]
    BY <1>1, <2>1, JobParts DEF JobType
  <2>3. r \in JobType
    BY <1>1, <2>2, JobParts DEF JobType
  <2>4. JobStage(r)
    BY <1>1, <1>2, <1>4, <2>2 DEF JobStage
  <2> QED
    BY <1>1, <1>3, <1>4, <2>2, <2>3, <2>4 DEF GoodJob, PendingOf, WritesOn
<1>5. CASE left = <<>> /\ job[s].at = "write"
  <2>1. r = Persisting(s, ops) /\ ops \in Seq(Op) /\ job[s] \in JobType
    BY <1>1, <1>5, <1>7
  <2>2. GoodJob(r) /\ r.writes = <<>> /\ r.ops = ops /\ PendingOf(r) = CellsOfAll(ops) /\ r.at \in {"mark", "install", "rest"}
    BY <2>1, GoesOn
  <2> QED
    BY <1>3, <1>5, <1>7, <2>2 DEF WritesOn
<1>6. CASE left = <<>> /\ job[s].at = "apply_write"
  <2>1. r = [job[s] EXCEPT !.at = "apply", !.ops = Tail(job[s].ops), !.writes = <<>>]
    BY <1>6
  <2>2. r = [at |-> "apply", ops |-> ops, writes |-> <<>>, snapshot |-> job[s].snapshot, keys |-> job[s].keys]
    BY <1>1, <1>7, <2>1, JobParts DEF JobType
  <2>3. job[s].snapshot \in [Cell -> Val]
    BY <1>1, <1>6 DEF JobStage
  <2>4. GoodJob(r)
    BY <1>1, <1>7, <2>2, <2>3, CommitJob
  <2> QED
    BY <1>3, <1>6, <1>7, <2>2, <2>4 DEF PendingOf, WritesOn
<1> QED
  BY <1>1, <1>4, <1>5, <1>6

LEMMA StoreWriteStores ==
    ASSUME StoreInv, NEW s \in Session, StoreWrite(s)
    PROVE  StoreInv'
<1>1. PICK op, writes, w : op = Head(job[s].ops) /\ writes = job[s].writes /\ w = Head(writes)
  OBVIOUS
<1>2. PICK left : left = (IF w.part = "rows" THEN Removals(w.cell) ELSE <<>>) \o Tail(writes)
  OBVIOUS
<1>3. /\ job[s].at \in {"write", "apply_write"} /\ Perform(w)
      /\ UNCHANGED <<attached, mem, txn, excused>>
  BY <1>1 DEF StoreWrite, engineHistory
<1>4. /\ job[s] \in JobType /\ JobStage(job[s]) /\ writes # <<>> /\ writes \in Seq(WriteStep)
      /\ job[s].ops # <<>> /\ job[s].ops \in Seq(Op)
  BY <1>1, <1>3, StoreFacts, JobParts DEF JobStage
<1>5. op \in Op /\ WritesOf(writes, op) /\ CellsOf(op) \subseteq CellsOfAll(job[s].ops) /\ CellsOf(op) \subseteq Cell
  <2>1. WritesOf(writes, op)
    BY <1>1, <1>4 DEF StoreInv, WritesFit
  <2> QED
    BY <1>1, <1>4, <2>1, CellsTail, OpIs
<1>6. StoreTypes /\ Alone /\ WritesFit /\ Progress /\ NoneInside /\ Settled /\ (attached => Follows)
  BY DEF StoreInv
<1>7. LeftOf(left, writes, op, w)
  BY <1>1, <1>2, <1>4, <1>5, <1>6, LeftIs
<1>8. left \in Seq(WriteStep) /\ WritesOf(left, op)
  BY <1>7 DEF LeftOf
<1>9. /\ data' \in [Cell -> Val] /\ checksum' \in [Key -> Val]
      /\ \A c \in Cell \ CellsOf(op) : data'[c] = data[c] /\ (c \in Key => checksum'[c] = checksum[c])
      /\ \A c \in CellsOf(op) : Parts(writes, op, data, checksum, c) => Parts(left, op, data', checksum', c)
  BY <1>1, <1>2, <1>3, <1>4, <1>5, <1>6, PerformIs
<1>10. PICK r : r = IF left # <<>> THEN [job[s] EXCEPT !.writes = left]
                    ELSE IF job[s].at = "write" THEN Persisting(s, Tail(job[s].ops))
                    ELSE [job[s] EXCEPT !.at = "apply", !.ops = Tail(job[s].ops), !.writes = <<>>]
  OBVIOUS
<1>11. /\ Takes(s, r) /\ GoodJob(r) /\ r.writes = left
       /\ r.ops = IF left # <<>> THEN job[s].ops ELSE Tail(job[s].ops)
       /\ PendingOf(r) = CellsOfAll(r.ops)
       /\ IF job[s].at = "write" THEN r.at \in {"write", "mark", "install", "rest"} /\ (r.at = "write" => left # <<>>)
          ELSE r.at \in {"apply", "apply_write"}
  <2>1. left = (IF Head(job[s].writes).part = "rows" THEN Removals(Head(job[s].writes).cell) ELSE <<>>) \o Tail(job[s].writes)
    BY <1>1, <1>2
  <2>2. WritesOn(s, r, left)
    BY <1>8, <1>10, <2>1, WriteGoesOn
  <2> QED
    BY <2>2 DEF WritesOn
<1>12. \A c \in CellsOf(op) \ excused : Parts(left, op, data', checksum', c)
  <2> SUFFICES ASSUME NEW c \in CellsOf(op) \ excused PROVE Parts(left, op, data', checksum', c)
    OBVIOUS
  <2>1. ProgressOf(job[s], data, checksum, c)
    BY <1>5, <1>6 DEF Progress
  <2>2. Parts(writes, op, data, checksum, c)
    BY <1>1, <1>4, <2>1 DEF ProgressOf, Parts
  <2> QED
    BY <1>9, <2>2
<1>13. left = <<>> => \A c \in CellsOf(op) \ excused : data'[c] = Gives(op, c) /\ ~Stops(data', checksum', c)
  <2> SUFFICES ASSUME left = <<>>, NEW c \in CellsOf(op) \ excused PROVE data'[c] = Gives(op, c) /\ ~Stops(data', checksum', c)
    OBVIOUS
  <2>1. 1 .. Len(left) = {}
    OBVIOUS
  <2>2. ~ToWrite(left, c, "value") /\ ~ToWrite(left, c, "checksum") /\ ~ToScan(left, c)
    BY <2>1 DEF ToWrite, ToScan
  <2> QED
    BY <1>12, <2>2 DEF Parts
<1>14. Pending(s) = CellsOfAll(job[s].ops) /\ PendingOf(r) \subseteq Pending(s)
  <2>1. Pending(s) = CellsOfAll(job[s].ops)
    BY <1>3, StoreFacts DEF PendingOf
  <2>2. CellsOfAll(Tail(job[s].ops)) \subseteq CellsOfAll(job[s].ops)
    BY <1>4, CellsTail
  <2> QED
    BY <1>11, <2>1, <2>2
<1>15. StoreTypes'
  BY <1>3, <1>6, <1>9, <1>11, JobTaken DEF StoreTypes
<1>16. Alone'
  BY <1>3, <1>6, <1>11, <1>14, AloneKeeps
<1>17. WritesFit'
  <2>1. r.writes # <<>> => WritesOf(r.writes, Head(r.ops))
    BY <1>1, <1>8, <1>11
  <2> QED
    BY <1>6, <1>11, <2>1, WritesKeep
<1>18. NoneInside'
  <2>1. txn'.open => r.at # "write" \/ CellsOf(Head(r.ops)) \subseteq excused'
    <3>1. SUFFICES ASSUME txn.open, r.at = "write" PROVE CellsOf(Head(r.ops)) \subseteq excused
      BY <1>3
    <3>2. job[s].at = "write" /\ left # <<>>
      BY <1>3, <1>11, <3>1
    <3> QED
      BY <1>6, <1>11, <3>1, <3>2 DEF NoneInside
  <2>2. excused \subseteq excused' /\ excused' \subseteq Cell /\ (txn'.open => txn.open)
    BY <1>3, StoreFacts
  <2> QED
    BY <1>6, <1>11, <2>1, <2>2, InsideKeeps
<1>19. /\ job'[s] = r /\ \A u \in Session \ {s} : job'[u] = job[u]
       /\ \A u \in Session : job[u] \in JobType /\ JobStage(job[u])
  BY <1>6, <1>11, JobTaken DEF StoreTypes
\* What the others have pending the write has not touched.
<1>20. ASSUME NEW u \in Session \ {s}, NEW c \in Cell \ excused, c \in Pending(u)
       PROVE  c \notin CellsOf(op) /\ data'[c] = data[c] /\ (c \in Key => checksum'[c] = checksum[c])
  <2>1. c \notin Pending(s)
    BY <1>6, <1>20 DEF Alone
  <2> QED
    BY <1>5, <1>9, <1>14, <2>1
<1>21. Progress'
  <2> SUFFICES ASSUME NEW u \in Session, NEW c \in Cell \ excused PROVE ProgressOf(job'[u], data', checksum', c)
    BY <1>3 DEF Progress
  <2>1. CASE u = s
    <3> SUFFICES ASSUME left # <<>>, c \in CellsOf(op) PROVE Parts(left, op, data', checksum', c)
      BY <1>1, <1>11, <1>19, <2>1 DEF ProgressOf, Parts
    <3> QED
      BY <1>12
  <2>2. CASE u # s
    <3> SUFFICES ASSUME job[u].writes # <<>>, c \in CellsOf(Head(job[u].ops)) PROVE ProgressOf(job[u], data', checksum', c)
      BY <1>19, <2>2 DEF ProgressOf
    <3>1. c \in Pending(u)
      BY <1>19, HeadPending, PendingIs
    <3>2. ProgressOf(job[u], data, checksum, c)
      BY <1>6 DEF Progress
    <3> QED
      BY <1>20, <2>2, <3>1, <3>2 DEF ProgressOf, Stops
  <2> QED
    BY <2>1, <2>2
<1>22. Settled'
  <2> SUFFICES ASSUME NEW c \in Cell \ excused, Stops(data', checksum', c)
               PROVE  \E u \in Session : job'[u].writes # <<>> /\ c \in CellsOf(Head(job'[u].ops))
    BY <1>3 DEF Settled
  <2>1. CASE c \in CellsOf(op)
    <3>1. left # <<>>
      BY <1>13, <2>1
    <3> QED
      BY <1>1, <1>11, <1>19, <2>1, <3>1
  <2>2. CASE c \notin CellsOf(op)
    <3>1. Stops(data, checksum, c)
      BY <1>9, <2>2 DEF Stops
    <3>2. PICK u \in Session : job[u].writes # <<>> /\ c \in CellsOf(Head(job[u].ops))
      BY <1>6, <3>1 DEF Settled
    <3>3. u # s
      BY <1>1, <2>2, <3>2
    <3> QED
      BY <1>19, <3>2, <3>3
  <2> QED
    BY <2>1, <2>2
<1>23. ASSUME attached PROVE Follows'
  <2>1. ASSUME NEW c \in Cell \ excused, NEW u \in Session \ {s}, c \in Pending(u), FollowsAt(job[u], mem, data, txn, c)
        PROVE  FollowsAt(job[u], mem', data', txn', c)
    <3>1. data[c] = data'[c] /\ mem[c] = mem'[c] /\ txn' = txn
      BY <1>3, <1>20, <2>1
    <3> QED
      BY <2>1, <3>1, FollowsSame
  <2>2. ASSUME NEW c \in Cell \ excused, FollowsAt(job[s], mem, data, txn, c)
        PROVE  FollowsAt(r, mem, data', txn, c)
    <3>1. After(data'[c], r.ops, c) = After(data[c], job[s].ops, c)
      <4>1. CASE left # <<>>
        <5>1. r.ops = job[s].ops
          BY <1>11, <4>1
        <5>2. CASE c \in CellsOf(op)
          BY <1>4, <1>5, <5>1, <5>2, AfterSame
        <5>3. CASE c \notin CellsOf(op)
          BY <1>9, <5>1, <5>3
        <5> QED
          BY <5>2, <5>3
      <4>2. CASE left = <<>>
        <5>1. r.ops = Tail(job[s].ops)
          BY <1>11, <4>2
        <5>2. After(data[c], job[s].ops, c) = After(IF c \in CellsOf(op) THEN Gives(op, c) ELSE data[c], r.ops, c)
          BY <1>1, <1>4, <5>1, AfterTail
        <5>3. data'[c] = IF c \in CellsOf(op) THEN Gives(op, c) ELSE data[c]
          BY <1>9, <1>13, <4>2
        <5> QED
          BY <5>2, <5>3
      <4> QED
        BY <4>1, <4>2
    <3>2. CASE job[s].at = "apply_write"
      <4>1. r.at \in {"apply", "apply_write"}
        BY <1>11, <3>2
      <4> QED
        BY <2>2, <3>1, <3>2, <4>1, CommitFollows
    <3>3. CASE job[s].at = "write"
      <4>1. r.at \notin {"restore", "apply", "apply_write"}
        BY <1>11, <3>3
      <4>2. mem[c] = After(After(data[c], txn.log, c), job[s].ops, c) /\ (txn.open => txn.snapshot[c] = data[c])
        BY <2>2, <3>3, PlainFollows
      <4>3. CASE c \notin CellsOf(op)
        <5>1. data'[c] = data[c]
          BY <1>9, <4>3
        <5>2. \A v : After(v, r.ops, c) = After(v, job[s].ops, c)
          BY <1>1, <1>4, <1>11, <4>3, AfterTail
        <5> QED
          BY <4>1, <4>2, <5>1, <5>2, PlainFollows
      <4>4. CASE c \in CellsOf(op)
        <5>1. ~txn.open
          BY <1>1, <1>6, <3>3, <4>4 DEF NoneInside
        <5>2. txn.log = <<>>
          BY <5>1, StoreFacts DEF GoodTxn, NoTxn
        <5> QED
          BY <3>1, <4>1, <4>2, <5>1, <5>2, AfterNone, PlainFollows
      <4> QED
        BY <4>3, <4>4
    <3> QED
      BY <1>3, <3>2, <3>3
  <2>3. Follows /\ excused' = excused /\ txn' = txn /\ mem' = mem
    BY <1>3, <1>6, <1>23
  <2>4. \A c \in Cell \ excused' : \A u \in Session \ {s} : c \in Pending(u) =>
           (FollowsAt(job[u], mem, data, txn, c) => FollowsAt(job[u], mem', data', txn', c))
    BY <2>1, <2>3
  <2>5. \A c \in Cell \ excused' : c \notin PendingBut(s) =>
           (FollowsAt(job[s], mem, data, txn, c) => FollowsAt(r, mem', data', txn', c))
    BY <2>2, <2>3
  <2>6. excused \subseteq excused'
    BY <2>3
  <2> QED
    BY <1>6, <1>11, <1>16, <2>3, <2>4, <2>5, <2>6, FollowsKeeps
<1>24. attached' = attached
  BY <1>3
<1> QED
  BY <1>15, <1>16, <1>17, <1>18, <1>21, <1>22, <1>23, <1>24 DEF StoreInv
-----------------------------------------------------------------------------
(***************************************************************************)
(* The commit graph's types.  A call that has looked up a commit holds one *)
(* that is there, so that a checkout has rows to load.                     *)
(***************************************************************************)
TaskType ==
    [at : {"idle", "start", "named", "head_named", "head_locked", "parent_known", "inserted",
           "recording", "found", "moving", "refused", "done"},
     op : {"none", "head", "commit", "branch", "branch_from", "checkout", "merge"},
     branch : Branch, id : CommitId \cup {NoCommit}, root : Root]

Commits == [parent : CommitId \cup {NoCommit}, root : Root]

\* What a call holds where it is, with these heads and so many commits.
TaskFits(t, heads, n) ==
    /\ t.at \in {"named", "head_named"} => heads[t.branch] # 0
    /\ t.at \in {"head_locked", "parent_known", "inserted", "recording", "found", "moving", "done"} => t.id \in 1 .. n
    /\ t.at = "found" /\ t.op = "checkout" => heads[t.branch] # 0

VersionTypes ==
    /\ commits \in Seq(Commits) /\ Len(commits) \in 1 .. MaxCommit
    /\ branches \in [Branch -> 0 .. Len(commits)]
    /\ current_branch \in Branch /\ branches[current_branch] # 0
    /\ task \in [Session -> TaskType]
    /\ \A s \in Session : TaskFits(task[s], branches, Len(commits))
    /\ landed \subseteq CommitId \X Branch /\ rewritten \subseteq Branch

LEMMA VersionOKIs == VersionTypes => VersionOK
<1> SUFFICES ASSUME VersionTypes PROVE VersionOK
  OBVIOUS
<1>1. Len(commits) \in 1 .. MaxCommit /\ MaxCommit \in Nat
  BY VersionControlAssumption DEF VersionTypes
<1>2. branches \in [Branch -> 0 .. Len(commits)]
  BY DEF VersionTypes
<1>3. 0 .. Len(commits) \subseteq CommitId \cup {NoCommit}
  BY <1>1 DEF CommitId, NoCommit
<1>4. branches \in [Branch -> CommitId \cup {NoCommit}]
  BY <1>2, <1>3
<1>5. commits \in Seq(Commits) /\ task \in [Session -> TaskType]
  BY DEF VersionTypes
<1> QED
  BY <1>1, <1>4, <1>5 DEF VersionTypes, VersionOK, TaskType, Commits

LEMMA VersionFacts ==
    ASSUME VersionTypes, NEW s \in Session
    PROVE  /\ commits \in Seq(Commits) /\ Len(commits) \in 1 .. MaxCommit /\ Len(commits) \in Nat /\ MaxCommit \in Nat
           /\ branches \in [Branch -> 0 .. Len(commits)]
           /\ current_branch \in Branch /\ branches[current_branch] \in 1 .. Len(commits)
           /\ task \in [Session -> TaskType] /\ task[s] \in TaskType /\ TaskFits(task[s], branches, Len(commits))
           /\ landed \subseteq CommitId \X Branch /\ rewritten \subseteq Branch
           /\ 0 .. Len(commits) \subseteq CommitId \cup {NoCommit} /\ 1 .. Len(commits) \subseteq CommitId
           /\ task[s].branch \in Branch /\ task[s].id \in CommitId \cup {NoCommit} /\ task[s].root \in Root
           /\ branches[task[s].branch] \in 0 .. Len(commits)
           /\ task[s] = [at |-> task[s].at, op |-> task[s].op, branch |-> task[s].branch, id |-> task[s].id, root |-> task[s].root]
<1>1. Len(commits) \in 1 .. MaxCommit /\ MaxCommit \in Nat
  BY VersionControlAssumption DEF VersionTypes
<1>2. 0 .. Len(commits) \subseteq CommitId \cup {NoCommit} /\ 1 .. Len(commits) \subseteq CommitId
  BY <1>1 DEF CommitId, NoCommit
<1>3. task \in [Session -> TaskType] /\ task[s] \in TaskType /\ TaskFits(task[s], branches, Len(commits))
  BY DEF VersionTypes
<1>4. /\ branches \in [Branch -> 0 .. Len(commits)] /\ commits \in Seq(Commits)
      /\ current_branch \in Branch /\ branches[current_branch] # 0
      /\ landed \subseteq CommitId \X Branch /\ rewritten \subseteq Branch
  BY DEF VersionTypes
<1>5. /\ task[s].branch \in Branch /\ task[s].id \in CommitId \cup {NoCommit} /\ task[s].root \in Root
      /\ task[s] = [at |-> task[s].at, op |-> task[s].op, branch |-> task[s].branch, id |-> task[s].id, root |-> task[s].root]
  BY <1>3 DEF TaskType
<1>6. branches[current_branch] \in 1 .. Len(commits) /\ branches[task[s].branch] \in 0 .. Len(commits)
  BY <1>1, <1>4, <1>5
<1> QED
  BY <1>1, <1>2, <1>3, <1>4, <1>5, <1>6

\* A step of a call, from its task to r; heads that are there stay there.
LEMMA TaskMoves ==
    ASSUME VersionTypes, NEW s \in Session, NEW r \in TaskType, task' = [task EXCEPT ![s] = r],
           commits' \in Seq(Commits), Len(commits') \in 1 .. MaxCommit, Len(commits) <= Len(commits'),
           branches' \in [Branch -> 0 .. Len(commits')], \A b \in Branch : branches[b] # 0 => branches'[b] # 0,
           current_branch' \in Branch, branches'[current_branch'] # 0,
           landed' \subseteq CommitId \X Branch, rewritten' \subseteq Branch,
           TaskFits(r, branches', Len(commits'))
    PROVE  VersionTypes'
<1>0. task \in [Session -> TaskType] /\ Len(commits) \in Nat /\ MaxCommit \in Nat
  BY VersionFacts
<1>1. Len(commits') \in Nat
  BY <1>0
<1>2. task' \in [Session -> TaskType] /\ task'[s] = r /\ \A u \in Session \ {s} : task'[u] = task[u]
  BY <1>0
<1>3. ASSUME NEW u \in Session PROVE TaskFits(task'[u], branches', Len(commits'))
  <2>1. CASE u = s
    BY <1>2, <2>1
  <2>2. CASE u # s
    <3>1. task'[u] = task[u] /\ task[u].branch \in Branch /\ TaskFits(task[u], branches, Len(commits))
      BY <1>2, <2>2, VersionFacts
    <3>2. 1 .. Len(commits) \subseteq 1 .. Len(commits')
      BY <1>0, <1>1
    <3> QED
      BY <3>1, <3>2 DEF TaskFits
  <2> QED
    BY <2>1, <2>2
<1> QED
  BY <1>2, <1>3 DEF VersionTypes

\* A step that changes no more than the call's task and the name of the current branch.
LEMMA TaskPasses ==
    ASSUME VersionTypes, NEW s \in Session, NEW r \in TaskType, task' = [task EXCEPT ![s] = r],
           UNCHANGED <<commits, branches, landed>>, current_branch' \in Branch, branches[current_branch'] # 0,
           rewritten' \subseteq Branch, TaskFits(r, branches, Len(commits))
    PROVE  VersionTypes'
<1>1. commits' = commits /\ branches' = branches /\ landed' = landed
  OBVIOUS
<1>2. Len(commits) <= Len(commits)
  BY VersionFacts
<1> QED
  BY <1>1, <1>2, VersionFacts, TaskMoves

LEMMA TaskIs ==
    ASSUME NEW at \in {"idle", "start", "named", "head_named", "head_locked", "parent_known", "inserted",
                       "recording", "found", "moving", "refused", "done"},
           NEW op \in {"none", "head", "commit", "branch", "branch_from", "checkout", "merge"},
           NEW branch \in Branch, NEW id \in CommitId \cup {NoCommit}, NEW root \in Root
    PROVE  [at |-> at, op |-> op, branch |-> branch, id |-> id, root |-> root] \in TaskType
BY DEF TaskType

LEMMA TaskTyped == ASSUME VersionTypes, NEW s \in Session PROVE task \in [Session -> TaskType] /\ task[s] \in TaskType
BY VersionFacts

LEMMA TaskParts ==
    ASSUME NEW t \in TaskType
    PROVE  /\ t.at \in {"idle", "start", "named", "head_named", "head_locked", "parent_known", "inserted",
                       "recording", "found", "moving", "refused", "done"}
           /\ t.op \in {"none", "head", "commit", "branch", "branch_from", "checkout", "merge"}
           /\ t.branch \in Branch /\ t.id \in CommitId \cup {NoCommit} /\ t.root \in Root
           /\ t = [at |-> t.at, op |-> t.op, branch |-> t.branch, id |-> t.id, root |-> t.root]
BY DEF TaskType

LEMMA HolderFits == ASSUME VersionTypes, NEW s \in Session PROVE TaskFits(task[s], branches, Len(commits))
BY VersionFacts

LEMMA HeadIs ==
    ASSUME VersionTypes, NEW b \in Branch, branches[b] # 0
    PROVE  branches[b] \in 1 .. Len(commits) /\ branches[b] \in CommitId \cup {NoCommit}
<1>1. branches \in [Branch -> 0 .. Len(commits)] /\ Len(commits) \in Nat /\ Len(commits) \in 1 .. MaxCommit /\ MaxCommit \in Nat
  BY VersionControlAssumption DEF VersionTypes
<1>2. branches[b] \in 0 .. Len(commits)
  BY <1>1
<1> QED
  BY <1>1, <1>2 DEF CommitId

LEMMA GraphIs ==
    ASSUME VersionTypes
    PROVE  /\ commits \in Seq(Commits) /\ Len(commits) \in 1 .. MaxCommit /\ Len(commits) \in Nat /\ DOMAIN commits = 1 .. Len(commits)
           /\ 1 .. Len(commits) \subseteq CommitId
<1>1. commits \in Seq(Commits) /\ Len(commits) \in 1 .. MaxCommit /\ MaxCommit \in Nat
  BY VersionControlAssumption DEF VersionTypes
<1> QED
  BY <1>1 DEF CommitId

LEMMA NamesAre ==
    ASSUME VersionTypes
    PROVE  /\ branches \in [Branch -> 0 .. Len(commits)] /\ current_branch \in Branch /\ branches[current_branch] # 0
           /\ landed \subseteq CommitId \X Branch /\ rewritten \subseteq Branch
BY DEF VersionTypes

\* A step that changes a call's task and nothing else.
LEMMA TaskGoes ==
    ASSUME VersionTypes, NEW s \in Session, NEW r \in TaskType, task' = [task EXCEPT ![s] = r],
           UNCHANGED <<commits, branches, current_branch, landed, rewritten>>, TaskFits(r, branches, Len(commits))
    PROVE  VersionTypes'
<1>1. /\ UNCHANGED <<commits, branches, landed>> /\ current_branch' \in Branch /\ branches[current_branch'] # 0
      /\ rewritten' \subseteq Branch
  BY NamesAre
<1> QED
  BY <1>1, TaskPasses

LEMMA CallTyped ==
    ASSUME VersionTypes, NEW s \in Session, NEW op \in {"head", "commit", "branch", "branch_from", "checkout", "merge"},
           NEW branch \in Branch, NEW id \in CommitId \cup {NoCommit}, NEW root \in Root, Call(s, op, branch, id, root)
    PROVE  VersionTypes'
<1>1. PICK r : r = [at |-> "start", op |-> op, branch |-> branch, id |-> id, root |-> root]
  OBVIOUS
<1>2. r \in TaskType /\ TaskFits(r, branches, Len(commits))
  BY <1>1 DEF TaskType, TaskFits
<1>3. task' = [task EXCEPT ![s] = r] /\ UNCHANGED <<commits, branches, landed>> /\ current_branch' = current_branch
  BY <1>1 DEF Call
<1>4. rewritten' \subseteq Branch
  BY NamesAre DEF Call
<1>5. current_branch' \in Branch /\ branches[current_branch'] # 0
  BY <1>3, NamesAre
<1> QED
  BY <1>2, <1>3, <1>4, <1>5, TaskPasses

LEMMA ReadCurrentTyped == ASSUME VersionTypes, NEW s \in Session, ReadCurrent(s) PROVE VersionTypes'
<1>1. task \in [Session -> TaskType] /\ task[s] \in TaskType /\ TaskFits(task[s], branches, Len(commits))
  BY TaskTyped, HolderFits
<1>2. PICK at \in {"named", "head_named", "recording", "moving"} :
         /\ task' = [task EXCEPT ![s].branch = current_branch, ![s].at = at]
         /\ at \in {"recording", "moving"} => task[s].at \in {"inserted", "found"}
  BY DEF ReadCurrent, At
<1>3. PICK r : r = [at |-> at, op |-> task[s].op, branch |-> current_branch, id |-> task[s].id, root |-> task[s].root]
  OBVIOUS
<1>4. task' = [task EXCEPT ![s] = r]
  <2>1. DOMAIN task = Session /\ task[s] = [at |-> task[s].at, op |-> task[s].op, branch |-> task[s].branch, id |-> task[s].id,
                                        root |-> task[s].root]
    BY <1>1, TaskParts
  <2>2. DOMAIN task' = Session /\ task'[s] = r /\ task' = [u \in Session |-> task'[u]]
    BY <1>1, <1>2, <1>3, <2>1
  <2>3. \A u \in Session \ {s} : task'[u] = task[u]
    BY <1>1, <1>2, <1>3, <2>1
  <2> QED
    BY <1>1, <2>1, <2>2, <2>3
<1>5. current_branch \in Branch /\ branches[current_branch] # 0
  BY NamesAre
<1>6. r \in TaskType
  BY <1>1, <1>3, <1>5, TaskParts DEF TaskType
<1>7. TaskFits(r, branches, Len(commits))
  BY <1>1, <1>2, <1>3, <1>5 DEF TaskFits
<1>8. UNCHANGED <<commits, branches, current_branch, landed, rewritten>>
  BY DEF ReadCurrent
<1> QED
  BY <1>4, <1>6, <1>7, <1>8, TaskGoes

LEMMA LockHeadTyped == ASSUME VersionTypes, NEW s \in Session, LockHead(s) PROVE VersionTypes'
<1>1. task \in [Session -> TaskType] /\ task[s] \in TaskType /\ TaskFits(task[s], branches, Len(commits))
  BY TaskTyped, HolderFits
<1>2. PICK r : r = [at |-> "head_locked", op |-> task[s].op, branch |-> task[s].branch, id |-> branches[task[s].branch],
                    root |-> task[s].root]
  OBVIOUS
<1>3. task' = [task EXCEPT ![s] = r]
  <2>1. DOMAIN task = Session /\ task[s] = [at |-> task[s].at, op |-> task[s].op, branch |-> task[s].branch, id |-> task[s].id,
                                        root |-> task[s].root]
    BY <1>1, TaskParts
  <2>2. DOMAIN task' = Session /\ task'[s] = r /\ task' = [u \in Session |-> task'[u]]
    BY <1>1, <1>2, <2>1 DEF LockHead
  <2>3. \A u \in Session \ {s} : task'[u] = task[u]
    BY <1>1, <1>2, <2>1 DEF LockHead
  <2> QED
    BY <1>1, <2>1, <2>2, <2>3
<1>4. task[s].branch \in Branch /\ branches[task[s].branch] # 0
  BY <1>1, TaskParts DEF LockHead, At, TaskFits
<1>5. branches[task[s].branch] \in 1 .. Len(commits) /\ branches[task[s].branch] \in CommitId \cup {NoCommit}
  BY <1>4, HeadIs
<1>6. r \in TaskType
  BY <1>1, <1>2, <1>5, TaskParts DEF TaskType
<1>7. TaskFits(r, branches, Len(commits))
  BY <1>2, <1>5 DEF TaskFits
<1>8. UNCHANGED <<commits, branches, current_branch, landed, rewritten>>
  BY DEF LockHead
<1> QED
  BY <1>3, <1>6, <1>7, <1>8, TaskGoes

\* A call goes on to another place and holds what it held.
LEMMA StepTyped ==
    ASSUME VersionTypes, NEW s \in Session,
           NEW at \in {"idle", "start", "named", "head_named", "head_locked", "parent_known", "inserted",
                       "recording", "found", "moving", "refused", "done"},
           task' = [task EXCEPT ![s].at = at], UNCHANGED <<commits, branches, current_branch, landed, rewritten>>,
           TaskFits([task[s] EXCEPT !.at = at], branches, Len(commits))
    PROVE  VersionTypes'
<1>1. task \in [Session -> TaskType] /\ task[s] \in TaskType
  BY TaskTyped
<1>2. PICK r : r = [task[s] EXCEPT !.at = at]
  OBVIOUS
<1>3. r \in TaskType /\ task' = [task EXCEPT ![s] = r]
  BY <1>1, <1>2 DEF TaskType
<1> QED
  BY <1>2, <1>3, TaskGoes

LEMMA ReadHeadTyped == ASSUME VersionTypes, NEW s \in Session, ReadHead(s) PROVE VersionTypes'
<1>1. PICK at \in {"done", "parent_known"} : task' = [task EXCEPT ![s].at = at]
  BY DEF ReadHead, Finish, Step
<1>2. task[s] \in TaskType /\ TaskFits(task[s], branches, Len(commits)) /\ task[s].at = "head_locked"
  BY TaskTyped, HolderFits DEF ReadHead, At
<1>3. TaskFits([task[s] EXCEPT !.at = at], branches, Len(commits))
  BY <1>2 DEF TaskFits, TaskType
<1>4. UNCHANGED <<commits, branches, current_branch, landed, rewritten>>
  BY DEF ReadHead
<1> QED
  BY <1>1, <1>3, <1>4, StepTyped

LEMMA InsertCommitTyped == ASSUME VersionTypes, NEW s \in Session, InsertCommit(s) PROVE VersionTypes'
<1>1. PICK r, x, n : /\ r = [at |-> "inserted", op |-> task[s].op, branch |-> task[s].branch, id |-> n, root |-> task[s].root]
                     /\ x = [parent |-> task[s].id, root |-> task[s].root] /\ n = Len(commits) + 1
  OBVIOUS
<1>2. task \in [Session -> TaskType] /\ task[s] \in TaskType
  BY TaskTyped
<1>3. /\ task' = [task EXCEPT ![s].id = n, ![s].at = "inserted"] /\ commits' = Append(commits, x) /\ Len(commits) < MaxCommit
      /\ UNCHANGED <<branches, current_branch, landed, rewritten>>
  BY <1>1 DEF InsertCommit
<1>4. task' = [task EXCEPT ![s] = r]
  <2>1. DOMAIN task = Session /\ task[s] = [at |-> task[s].at, op |-> task[s].op, branch |-> task[s].branch, id |-> task[s].id,
                                        root |-> task[s].root]
    BY <1>2, TaskParts
  <2>2. DOMAIN task' = Session /\ task'[s] = r /\ task' = [u \in Session |-> task'[u]]
    BY <1>1, <1>2, <1>3, <2>1
  <2>3. \A u \in Session \ {s} : task'[u] = task[u]
    BY <1>1, <1>2, <1>3, <2>1
  <2> QED
    BY <1>2, <2>1, <2>2, <2>3
<1>5. x \in Commits
  BY <1>1, <1>2, TaskParts DEF Commits
<1>6. commits \in Seq(Commits) /\ Len(commits) \in 1 .. MaxCommit /\ Len(commits) \in Nat /\ MaxCommit \in Nat
  BY GraphIs, VersionControlAssumption
<1>7. commits' \in Seq(Commits) /\ Len(commits') = n
  BY <1>1, <1>3, <1>5, <1>6
<1>8. n \in 1 .. MaxCommit /\ Len(commits) <= n /\ n \in 1 .. n /\ 0 .. Len(commits) \subseteq 0 .. n
  BY <1>1, <1>3, <1>6
<1>9. n \in CommitId
  BY <1>8 DEF CommitId
<1>10. r \in TaskType
  BY <1>1, <1>2, <1>9, TaskParts, TaskIs
<1>11. TaskFits(r, branches', Len(commits'))
  BY <1>1, <1>7, <1>8 DEF TaskFits
<1>12. branches \in [Branch -> 0 .. Len(commits)] /\ current_branch \in Branch /\ branches[current_branch] # 0
       /\ landed \subseteq CommitId \X Branch /\ rewritten \subseteq Branch
  BY NamesAre
<1>13. branches' \in [Branch -> 0 .. Len(commits')]
  BY <1>3, <1>7, <1>8, <1>12
<1>14. /\ Len(commits') \in 1 .. MaxCommit /\ Len(commits) <= Len(commits') /\ \A b \in Branch : branches[b] # 0 => branches'[b] # 0
       /\ current_branch' \in Branch /\ branches'[current_branch'] # 0
       /\ landed' \subseteq CommitId \X Branch /\ rewritten' \subseteq Branch
  BY <1>3, <1>7, <1>8, <1>12
<1> QED
  BY <1>4, <1>7, <1>10, <1>11, <1>13, <1>14, TaskMoves

\* A head moves to the commit the call holds, and the call is over.
LEMMA HeadMoves ==
    ASSUME VersionTypes, NEW s \in Session, NEW b \in Branch, task[s].at \in {"recording", "found", "moving"},
           branches' = [branches EXCEPT ![b] = task[s].id], Finish(s), UNCHANGED <<commits, current_branch>>,
           landed' \subseteq CommitId \X Branch, rewritten' \subseteq Branch
    PROVE  VersionTypes'
<1>1. task \in [Session -> TaskType] /\ task[s] \in TaskType /\ TaskFits(task[s], branches, Len(commits))
  BY TaskTyped, HolderFits
<1>2. PICK r : r = [task[s] EXCEPT !.at = "done"]
  OBVIOUS
<1>3. r \in TaskType /\ task' = [task EXCEPT ![s] = r]
  BY <1>1, <1>2 DEF TaskType, Finish
<1>4. task[s].id \in 1 .. Len(commits)
  BY <1>1 DEF TaskFits
<1>5. TaskFits(r, branches', Len(commits'))
  BY <1>1, <1>2, <1>4 DEF TaskFits, TaskType
<1>6. branches \in [Branch -> 0 .. Len(commits)] /\ current_branch \in Branch /\ branches[current_branch] # 0
  BY NamesAre
<1>7. commits \in Seq(Commits) /\ Len(commits) \in 1 .. MaxCommit /\ Len(commits) \in Nat
  BY GraphIs
<1>8. task[s].id \in 0 .. Len(commits) /\ task[s].id # 0
  BY <1>4, <1>7
<1>9. /\ branches' \in [Branch -> 0 .. Len(commits')] /\ \A c \in Branch : branches[c] # 0 => branches'[c] # 0
      /\ current_branch' \in Branch /\ branches'[current_branch'] # 0
  BY <1>6, <1>8
<1>10. commits' \in Seq(Commits) /\ Len(commits') \in 1 .. MaxCommit /\ Len(commits) <= Len(commits')
  BY <1>7
<1> QED
  BY <1>3, <1>5, <1>9, <1>10, TaskMoves

LEMMA FindTargetTyped == ASSUME VersionTypes, NEW s \in Session, FindTarget(s) PROVE VersionTypes'
<1>a. UNCHANGED <<commits, branches, current_branch, landed, rewritten>>
  BY DEF FindTarget
<1>b. task \in [Session -> TaskType] /\ task[s] \in TaskType /\ TaskFits(task[s], branches, Len(commits))
  BY TaskTyped, HolderFits
<1>1. ASSUME task' = [task EXCEPT ![s].id = branches[task[s].branch], ![s].at = "found"], branches[task[s].branch] # 0
      PROVE  VersionTypes'
  <2>1. PICK r : r = [at |-> "found", op |-> task[s].op, branch |-> task[s].branch, id |-> branches[task[s].branch],
                      root |-> task[s].root]
    OBVIOUS
  <2>2. task' = [task EXCEPT ![s] = r]
    <3>1. DOMAIN task = Session /\ task[s] = [at |-> task[s].at, op |-> task[s].op, branch |-> task[s].branch, id |-> task[s].id,
                                          root |-> task[s].root]
      BY <1>b, TaskParts
    <3>2. DOMAIN task' = Session /\ task'[s] = r /\ task' = [u \in Session |-> task'[u]]
      BY <1>1, <1>b, <2>1, <3>1
    <3>3. \A u \in Session \ {s} : task'[u] = task[u]
      BY <1>1, <1>b, <2>1, <3>1
    <3> QED
      BY <1>b, <3>1, <3>2, <3>3
  <2>3. branches[task[s].branch] \in 1 .. Len(commits) /\ branches[task[s].branch] \in CommitId \cup {NoCommit}
    BY <1>1, <1>b, TaskParts, HeadIs
  <2>4. r \in TaskType
    <3>1. task[s].op \in {"none", "head", "commit", "branch", "branch_from", "checkout", "merge"}
          /\ task[s].branch \in Branch /\ task[s].root \in Root
      BY <1>b, TaskParts
    <3>2. [at |-> "found", op |-> task[s].op, branch |-> task[s].branch, id |-> branches[task[s].branch],
           root |-> task[s].root] \in TaskType
      BY <2>3, <3>1, TaskIs
    <3> QED
      BY <2>1, <3>2
  <2>5. TaskFits(r, branches, Len(commits))
    BY <1>1, <2>1, <2>3 DEF TaskFits
  <2> QED
    BY <1>a, <2>2, <2>4, <2>5, TaskGoes
<1>2. ASSUME NEW at \in {"found", "refused"}, task' = [task EXCEPT ![s].at = at],
             at = "found" => task[s].op # "checkout" /\ task[s].id \in 1 .. Len(commits)
      PROVE  VersionTypes'
  <2>1. TaskFits([task[s] EXCEPT !.at = at], branches, Len(commits))
    BY <1>2, <1>b DEF TaskFits, TaskType
  <2> QED
    BY <1>a, <1>2, <2>1, StepTyped
<1>3. CASE At(s, "named") /\ task' = [task EXCEPT ![s].id = branches[task[s].branch], ![s].at = "found"]
  BY <1>1, <1>3, <1>b DEF At, TaskFits
<1>4. CASE /\ task[s].op = "branch_from" /\ At(s, "start")
           /\ Step(s, IF task[s].id \in DOMAIN commits THEN "found" ELSE "refused")
  <2>1. DOMAIN commits = 1 .. Len(commits)
    BY GraphIs
  <2> QED
    BY <1>2, <1>4, <2>1 DEF Step
<1>5. CASE task[s].op \in {"checkout", "merge"} /\ At(s, "start")
           /\ IF branches[task[s].branch] = NoCommit THEN Step(s, "refused")
              ELSE task' = [task EXCEPT ![s].id = branches[task[s].branch], ![s].at = "found"]
  <2>1. CASE branches[task[s].branch] = NoCommit
    BY <1>2, <1>5, <2>1 DEF Step
  <2>2. CASE branches[task[s].branch] # NoCommit
    BY <1>1, <1>5, <2>2 DEF NoCommit
  <2> QED
    BY <2>1, <2>2
<1> QED
  BY <1>3, <1>4, <1>5 DEF FindTarget

LEMMA CheckoutTyped == ASSUME VersionTypes, NEW s \in Session, Checkout(s) PROVE VersionTypes'
<1>1. task \in [Session -> TaskType] /\ task[s] \in TaskType /\ TaskFits(task[s], branches, Len(commits))
  BY TaskTyped, HolderFits
<1>2. PICK r : r = [at |-> "start", op |-> "head", branch |-> task[s].branch, id |-> task[s].id, root |-> task[s].root]
  OBVIOUS
<1>3. task' = [task EXCEPT ![s] = r]
  <2>1. DOMAIN task = Session /\ task[s] = [at |-> task[s].at, op |-> task[s].op, branch |-> task[s].branch, id |-> task[s].id,
                                        root |-> task[s].root]
    BY <1>1, TaskParts
  <2>2. DOMAIN task' = Session /\ task'[s] = r /\ task' = [u \in Session |-> task'[u]]
    BY <1>1, <1>2, <2>1 DEF Checkout
  <2>3. \A u \in Session \ {s} : task'[u] = task[u]
    BY <1>1, <1>2, <2>1 DEF Checkout
  <2> QED
    BY <1>1, <2>1, <2>2, <2>3
<1>4. r \in TaskType
  BY <1>1, <1>2, TaskParts, TaskIs
<1>5. TaskFits(r, branches, Len(commits))
  BY <1>2 DEF TaskFits
<1>6. UNCHANGED <<commits, branches, landed, rewritten>> /\ current_branch' = task[s].branch
  BY DEF Checkout
<1>7. task[s].branch \in Branch /\ branches[task[s].branch] # 0
  BY <1>1, TaskParts DEF Checkout, At, TaskFits
<1>8. rewritten' \subseteq Branch /\ current_branch' \in Branch /\ branches[current_branch'] # 0
  BY <1>6, <1>7, NamesAre
<1> QED
  BY <1>3, <1>4, <1>5, <1>6, <1>8, TaskPasses

LEMMA VersionStepTyped == ASSUME VersionTypes, NEW s \in Session, VersionStep(s) PROVE VersionTypes'
<1>a. task[s] \in TaskType /\ TaskFits(task[s], branches, Len(commits)) /\ landed \subseteq CommitId \X Branch /\ rewritten \subseteq Branch
  BY TaskTyped, HolderFits, NamesAre
<1>b. 1 .. Len(commits) \subseteq CommitId
  BY GraphIs
<1>1. CASE ReadCurrent(s) \/ LockHead(s) \/ ReadHead(s) \/ InsertCommit(s) \/ FindTarget(s) \/ Checkout(s)
  BY <1>1, ReadCurrentTyped, LockHeadTyped, ReadHeadTyped, InsertCommitTyped, FindTargetTyped, CheckoutTyped
<1>2. CASE RecordCommit(s)
  <2>1. task[s].at = "recording" /\ task[s].id \in CommitId
    BY <1>2, <1>a, <1>b DEF RecordCommit, At, TaskFits
  <2>2. task[s].branch \in Branch
    BY <1>a, TaskParts
  <2>3. landed' \subseteq CommitId \X Branch /\ rewritten' \subseteq Branch
    BY <1>2, <1>a, <2>1, <2>2 DEF RecordCommit
  <2>4. branches' = [branches EXCEPT ![task[s].branch] = task[s].id] /\ Finish(s) /\ UNCHANGED <<commits, current_branch>>
    BY <1>2 DEF RecordCommit
  <2> QED
    BY <2>1, <2>2, <2>3, <2>4, HeadMoves
<1>3. CASE InsertBranch(s)
  <2>1. rewritten' \subseteq Branch /\ OtherBranch \in Branch
    BY <1>3, <1>a DEF InsertBranch, Move, Branch
  <2>2. /\ branches' = [branches EXCEPT ![OtherBranch] = task[s].id] /\ Finish(s) /\ UNCHANGED <<commits, current_branch>>
        /\ task[s].at = "found" /\ landed' \subseteq CommitId \X Branch
    BY <1>3, <1>a DEF InsertBranch, Move, At
  <2> QED
    BY <2>1, <2>2, HeadMoves
<1>4. CASE MergeBranch(s)
  <2>1. rewritten' \subseteq Branch
    BY <1>4, <1>a, TaskParts DEF MergeBranch, Move
  <2>2. /\ branches' = [branches EXCEPT ![task[s].branch] = task[s].id] /\ Finish(s) /\ UNCHANGED <<commits, current_branch>>
        /\ task[s].at = "moving" /\ landed' \subseteq CommitId \X Branch
    BY <1>4, <1>a DEF MergeBranch, Move, At
  <2>3. task[s].branch \in Branch
    BY <1>a, TaskParts
  <2> QED
    BY <2>1, <2>2, <2>3, HeadMoves
<1> QED
  BY <1>1, <1>2, <1>3, <1>4 DEF VersionStep

LEMMA EmptyRootIs == EmptyRoot \in Root
<1>1. 0 \in Val
  BY KeysAre
<1> QED
  BY <1>1 DEF EmptyRoot, Root

LEMMA IdleTyped == Idle \in TaskType /\ \A heads, n : TaskFits(Idle, heads, n)
<1>1. Idle \in TaskType
  BY EmptyRootIs DEF Idle, TaskType, Branch
<1> QED
  BY <1>1 DEF Idle, TaskFits

LEMMA LeaveTyped == ASSUME VersionTypes, NEW s \in Session, Leave(s) PROVE VersionTypes'
<1>1. task' = [task EXCEPT ![s] = Idle] /\ UNCHANGED <<commits, branches, current_branch, landed, rewritten>>
  BY DEF Leave
<1>2. Idle \in TaskType /\ TaskFits(Idle, branches, Len(commits))
  BY IdleTyped
<1> QED
  BY <1>1, <1>2, TaskGoes

\* Also after a crash, which leaves the graph as at the start.
LEMMA VersionStarts ==
    ASSUME NEW cs, NEW bs, NEW ts, cs = <<[parent |-> NoCommit, root |-> EmptyRoot]>>,
           bs = [b \in Branch |-> IF b = Main THEN 1 ELSE NoCommit], ts = [s \in Session |-> Idle]
    PROVE  /\ cs \in Seq(Commits) /\ Len(cs) \in 1 .. MaxCommit /\ bs \in [Branch -> 0 .. Len(cs)]
           /\ Main \in Branch /\ bs[Main] # 0 /\ ts \in [Session -> TaskType]
           /\ \A s \in Session : TaskFits(ts[s], bs, Len(cs))
<1>1. PICK x : x = [parent |-> NoCommit, root |-> EmptyRoot]
  OBVIOUS
<1>2. x \in Commits /\ cs = <<x>>
  BY <1>1, EmptyRootIs DEF Commits
<1>3. cs \in Seq(Commits) /\ Len(cs) = 1 /\ 1 \in 1 .. MaxCommit
  <2>1. <<x>> \in Seq(Commits) /\ Len(<<x>>) = 1
    BY <1>2
  <2>2. MaxCommit \in Nat \ {0}
    BY VersionControlAssumption
  <2>3. 1 \in 1 .. MaxCommit
    BY <2>2
  <2> QED
    BY <1>2, <2>1, <2>3
<1>4. bs \in [Branch -> 0 .. 1] /\ Main \in Branch /\ bs[Main] = 1
  BY DEF NoCommit, Branch
<1>5. ts \in [Session -> TaskType] /\ \A s \in Session : ts[s] = Idle
  BY IdleTyped
<1> QED
  BY <1>3, <1>4, <1>5, IdleTyped
-----------------------------------------------------------------------------
(***************************************************************************)
(* Tables that are brought in (Backup reads the files).                    *)
(***************************************************************************)
\* An operation that brings in the table or a row of its image.
OfImage(t, image, op) ==
    op \in Op /\ op.val # 0 /\ op.cell \in {t} \cup KeysOf(t) /\ op.val = IF op.cell = t THEN 1 ELSE image[op.cell]

LEMMA ImageOps ==
    ASSUME NEW t \in Table, NEW image \in [KeysOf(t) -> Val], NEW keys, keys = Ordered({k \in KeysOf(t) : image[k] # 0}),
           NEW ops, ops = <<[cell |-> t, val |-> 1]>> \o [i \in DOMAIN keys |-> [cell |-> keys[i], val |-> image[keys[i]]]]
    PROVE  ops \in Seq(Op) /\ ops # <<>> /\ \A i \in 1 .. Len(ops) : OfImage(t, image, ops[i])
<1>1. PICK S : S = {k \in KeysOf(t) : image[k] # 0}
  OBVIOUS
<1>2. S \in SUBSET Key /\ S \in SUBSET Nat /\ IsFiniteSet(S)
  BY <1>1, KeysAre
<1>3. keys \in Seq(S) /\ Len(keys) \in Nat /\ DOMAIN keys = 1 .. Len(keys)
  <2>1. Ordered(S) \in Seq(S) /\ Len(Ordered(S)) = Cardinality(S) /\ Cardinality(S) \in Nat /\ DOMAIN Ordered(S) = 1 .. Cardinality(S)
    BY <1>2, OrderedIs
  <2> QED
    BY <1>1, <2>1
<1>4. \A i \in 1 .. Len(keys) : keys[i] \in S
  BY <1>3
<1>5. PICK head : head = [cell |-> t, val |-> 1] /\ head \in Op
  <2>1. [cell |-> t, val |-> 1] \in Op
    BY KeysAre, OpIs
  <2> QED
    BY <2>1
<1>6. PICK rows : rows = [i \in 1 .. Len(keys) |-> [cell |-> keys[i], val |-> image[keys[i]]]]
  OBVIOUS
<1>7. ASSUME NEW i \in 1 .. Len(keys) PROVE OfImage(t, image, rows[i])
  <2>1. keys[i] \in KeysOf(t) /\ image[keys[i]] # 0 /\ image[keys[i]] \in Val /\ keys[i] \in Cell /\ keys[i] # t
    BY <1>1, <1>4, KeysAre
  <2>2. PICK k, v : k = keys[i] /\ v = image[keys[i]]
    OBVIOUS
  <2>3. rows[i] = [cell |-> k, val |-> v] /\ rows[i] \in Op
    BY <1>6, <2>1, <2>2, OpIs
  <2> QED
    BY <2>1, <2>2, <2>3 DEF OfImage
<1>8. rows \in Seq(Op) /\ Len(rows) = Len(keys)
  <2>1. \A i \in 1 .. Len(keys) : rows[i] \in Op
    BY <1>7 DEF OfImage
  <2>2. PICK n \in Nat : n = Len(keys)
    BY <1>3
  <2>3. rows \in [1 .. n -> Op]
    BY <1>6, <2>1, <2>2
  <2>4. rows \in Seq(Op) /\ Len(rows) = n
    BY <2>3
  <2> QED
    BY <2>2, <2>4
<1>9. PICK first : first = <<head>> /\ first \in Seq(Op) /\ Len(first) = 1 /\ first[1] = head
  <2>1. <<head>> \in Seq(Op) /\ Len(<<head>>) = 1 /\ <<head>>[1] = head
    BY <1>5
  <2> QED
    BY <2>1
<1>10. ops = first \o rows
  BY <1>3, <1>5, <1>6, <1>9
<1>11. ops \in Seq(Op) /\ JoinOf(first, rows, ops)
  BY <1>8, <1>9, <1>10, JoinIs
<1>12. OfImage(t, image, head)
  BY <1>5 DEF OfImage
<1>13. ASSUME NEW i \in 1 .. Len(ops) PROVE OfImage(t, image, ops[i])
  <2>1. CASE i \in 1 .. Len(first)
    <3>1. i = 1
      BY <1>9, <2>1
    <3>2. ops[i] = first[1]
      BY <1>11, <2>1, <3>1 DEF JoinOf
    <3> QED
      BY <1>9, <1>12, <3>2
  <2>2. CASE i \notin 1 .. Len(first)
    <3>1. i - Len(first) \in 1 .. Len(rows) /\ ops[i] = rows[i - Len(first)]
      BY <1>11, <2>2 DEF JoinOf
    <3>2. PICK j \in 1 .. Len(keys) : ops[i] = rows[j]
      BY <1>8, <3>1
    <3> QED
      BY <1>7, <3>2
  <2> QED
    BY <2>1, <2>2
<1>14. ops # <<>>
  <2>1. Len(ops) = 1 + Len(keys)
    BY <1>8, <1>9, <1>11 DEF JoinOf
  <2> QED
    BY <1>3, <2>1
<1> QED
  BY <1>11, <1>13, <1>14

LEMMA ImageSettles ==
    ASSUME NEW t \in Table, NEW image \in [KeysOf(t) -> Val], NEW ops \in Seq(Op),
           \A i \in 1 .. Len(ops) : OfImage(t, image, ops[i]),
           NEW c \in CellsOfAll(ops)
    PROVE  c \in {t} \cup KeysOf(t) /\ Settles(ops, c, IF c = t THEN 1 ELSE image[c])
<1>1. ASSUME NEW i \in 1 .. Len(ops), c \in CellsOf(ops[i])
      PROVE  ops[i].cell = c /\ c \in {t} \cup KeysOf(t) /\ Gives(ops[i], c) = IF c = t THEN 1 ELSE image[c]
  <2>1. OfImage(t, image, ops[i])
    OBVIOUS
  <2>2. /\ ops[i] \in Op /\ ops[i].val # 0 /\ ops[i].cell \in {t} \cup KeysOf(t)
        /\ ops[i].val = IF ops[i].cell = t THEN 1 ELSE image[ops[i].cell]
    BY <2>1 DEF OfImage
  <2>3. c = ops[i].cell
    BY <1>1, <2>2, OpIs
  <2> QED
    BY <2>2, <2>3 DEF Gives
<1>2. PICK i \in 1 .. Len(ops) : c \in CellsOf(ops[i])
  BY CellsAre
<1> QED
  BY <1>1, <1>2 DEF Settles

LEMMA IngestStores ==
    ASSUME StoreInv, NEW s \in Session, NEW t \in Table, NEW image \in [KeysOf(t) -> Val], IngestTable(s, t, image)
    PROVE  StoreInv'
<1>1. PICK keys, new : /\ keys = Ordered({k \in KeysOf(t) : image[k] # 0})
                       /\ new = [c \in Cell |-> IF c = t THEN 1 ELSE IF c \in KeysOf(t) THEN image[c] ELSE 0]
  OBVIOUS
<1>2. PICK ops : ops = <<[cell |-> t, val |-> 1]>> \o [i \in DOMAIN keys |-> [cell |-> keys[i], val |-> image[keys[i]]]]
  OBVIOUS
<1>3. PICK snap : snap = [c \in {t} \cup KeysOf(t) |-> new[c]]
  OBVIOUS
<1>4. PICK r : r = [Resting EXCEPT !.at = "mark", !.snapshot = snap, !.ops = ops]
  OBVIOUS
<1>5. /\ Is(s, "rest") /\ job' = [job EXCEPT ![s] = r]
      /\ excused' = excused \cup (({t} \cup KeysOf(t)) \cap PendingBut(s)) \cup {c \in {t} \cup KeysOf(t) : mem[c] # new[c]}
      /\ UNCHANGED <<storeVars, attached, txn, mem>>
  BY <1>1, <1>2, <1>3, <1>4 DEF IngestTable
<1>6. ops \in Seq(Op) /\ ops # <<>> /\ \A i \in 1 .. Len(ops) : OfImage(t, image, ops[i])
  BY <1>1, <1>2, ImageOps
<1>7. \A c \in CellsOfAll(ops) : c \in {t} \cup KeysOf(t) /\ Settles(ops, c, IF c = t THEN 1 ELSE image[c])
  BY <1>6, ImageSettles
<1>8. {t} \cup KeysOf(t) \subseteq Cell /\ t \notin KeysOf(t)
  BY KeysAre
<1>9. \A c \in {t} \cup KeysOf(t) : new[c] = (IF c = t THEN 1 ELSE image[c]) /\ new[c] \in Val
  BY <1>1, <1>8, KeysAre
<1>10. snap \in Snaps
  <2>1. snap \in [{t} \cup KeysOf(t) -> Val]
    BY <1>3, <1>9
  <2> QED
    BY <1>8, <2>1 DEF Snaps
<1>11. r = [at |-> "mark", ops |-> ops, writes |-> <<>>, snapshot |-> snap, keys |-> {}]
  BY <1>4 DEF Resting
<1>12. r \in JobType /\ r.at = "mark" /\ r.ops = ops /\ r.writes = <<>>
  BY <1>6, <1>10, <1>11, CellsEmpty DEF JobType, Ats
<1>13. GoodJob(r) /\ PendingOf(r) = CellsOfAll(ops)
  BY <1>6, <1>12 DEF GoodJob, JobStage, PendingOf
<1>14. job[s] = Resting /\ job[s].writes = <<>> /\ Pending(s) = {}
  BY <1>5, StoreFacts, RestingIs DEF Is, JobStage, Resting
<1>15. excused \subseteq excused' /\ excused' \subseteq Cell
  BY <1>5, <1>8, StoreFacts
<1>16. \A c \in Cell \ excused' : c \in CellsOfAll(ops) => c \notin PendingBut(s) /\ mem[c] = new[c]
  BY <1>5, <1>7
<1>17. ASSUME NEW c \in Cell \ excused', c \notin PendingBut(s), FollowsAt(job[s], mem, data, txn, c)
       PROVE  FollowsAt(r, mem', data, txn', c)
  <2>1. mem[c] = After(data[c], txn.log, c) /\ (txn.open => txn.snapshot[c] = data[c])
    BY <1>14, <1>17, RestFollows
  <2>2. mem[c] = After(mem[c], ops, c)
    <3>1. CASE c \in CellsOfAll(ops)
      <4>1. Settles(ops, c, mem[c])
        BY <1>7, <1>9, <1>16, <3>1
      <4> QED
        BY <1>6, <3>1, <4>1, AfterIs
    <3>2. CASE c \notin CellsOfAll(ops)
      BY <1>6, <3>2, AfterAt
    <3> QED
      BY <3>1, <3>2
  <2>3. r.at \notin {"restore", "apply", "apply_write"} /\ txn' = txn /\ mem' = mem
    BY <1>5, <1>12
  <2> QED
    BY <1>12, <2>1, <2>2, <2>3, PlainFollows
<1>18. \A c : ProgressOf(r, data, checksum, c)
  BY <1>12 DEF ProgressOf
<1>19. /\ mem' \in [Cell -> Val] /\ GoodTxn(txn') /\ (txn'.open => txn.open) /\ r.at # "write" /\ Takes(s, r)
       /\ UNCHANGED <<storeVars, attached>>
  BY <1>5, <1>12, StoreFacts DEF Takes
<1>20. \A c \in Cell \ excused' : \A u \in Session \ {s} : c \in Pending(u) =>
          (FollowsAt(job[u], mem, data, txn, c) => FollowsAt(job[u], mem', data, txn', c))
  BY <1>5
<1>21. \A c \in Cell \ excused' : c \in PendingOf(r) => c \in Pending(s) \/ c \notin PendingBut(s)
  BY <1>13, <1>16
<1> QED
  BY <1>12, <1>13, <1>14, <1>15, <1>17, <1>18, <1>19, <1>20, <1>21, QuietStep
-----------------------------------------------------------------------------
(***************************************************************************)
(* What else an engine step leaves as it should be.                        *)
(***************************************************************************)
LEMMA ReturnStores ==
    ASSUME StoreInv, SideTypes, VersionTypes, SyncInv, NEW s \in Session, Return(s)
    PROVE  StoreInv'
<1>1. /\ UNCHANGED <<storeVars, attached, txn, mem, excused>>
      /\ task[s].at \in {"done", "refused"}
  BY DEF Return, engineHistory
<1>2. job[s].at \in VersionCalls
  BY <1>1 DEF SyncInv, JobShape
<1>3. job[s].ops = <<>> /\ job[s].writes = <<>> /\ job[s].at # "restore" /\ Pending(s) = {}
  BY <1>2, StoreFacts, CellsEmpty DEF JobStage, VersionCalls, PendingOf
<1>4. CASE job' = [job EXCEPT ![s] = Resting]
  BY <1>1, <1>3, <1>4, StoreFacts, RestStores DEF Takes
<1>5. ASSUME NEW r, job' = [job EXCEPT ![s] = r], r \in JobType, r.at \in {"take", "load"}, r.ops = <<>>, r.writes = <<>>,
             r.at = "load" => r.snapshot \in Root
      PROVE  StoreInv'
  <2>1. GoodJob(r)
    BY <1>5 DEF GoodJob, JobStage
  <2>2. r.at # "restore" /\ Takes(s, r)
    BY <1>5 DEF Takes
  <2> QED
    BY <1>1, <1>3, <1>5, <2>1, <2>2, WaitStores
<1>6. ASSUME NEW r, r = [job[s] EXCEPT !.at = "take"], job' = [job EXCEPT ![s] = r] PROVE StoreInv'
  <2>2. r = [at |-> "take", ops |-> <<>>, writes |-> <<>>, snapshot |-> job[s].snapshot, keys |-> job[s].keys]
    BY <1>3, <1>6, StoreFacts, JobParts DEF JobType
  <2>3. r \in JobType /\ r.at = "take" /\ r.ops = <<>> /\ r.writes = <<>>
    BY <2>2, StoreFacts, JobParts, CellsEmpty DEF JobType, Ats
  <2> QED
    BY <1>5, <1>6, <2>3
<1>7. ASSUME At(s, "done"), NEW r, r = [job[s] EXCEPT !.at = "load", !.snapshot = commits[task[s].id].root],
             job' = [job EXCEPT ![s] = r]
      PROVE  StoreInv'
  <2>1. TaskFits(task[s], branches, Len(commits))
    BY HolderFits
  <2>2. task[s].id \in 1 .. Len(commits)
    BY <1>7, <2>1 DEF TaskFits, At
  <2>3. commits[task[s].id] \in Commits
    BY <2>2, GraphIs
  <2>4. PICK root \in Root : root = commits[task[s].id].root
    BY <2>3 DEF Commits
  <2>5. root \in Snaps
    BY KeysAre DEF Root, Snaps
  <2>6. r = [job[s] EXCEPT !.at = "load", !.snapshot = root]
    BY <1>7, <2>4
  <2>7. r = [at |-> "load", ops |-> <<>>, writes |-> <<>>, snapshot |-> root, keys |-> job[s].keys]
    BY <1>3, <2>6, StoreFacts, JobParts DEF JobType
  <2>8. r \in JobType /\ r.at = "load" /\ r.ops = <<>> /\ r.writes = <<>> /\ r.snapshot = root
    BY <2>5, <2>7, StoreFacts, JobParts, CellsEmpty DEF JobType, Ats
  <2> QED
    BY <1>5, <1>7, <2>8
<1>8. ASSUME At(s, "done"), NEW r, job' = [job EXCEPT ![s] = r],
             r = CASE Is(s, "commit") -> [job[s] EXCEPT !.at = "take"]
                   [] Is(s, "checkout") -> [job[s] EXCEPT !.at = "load", !.snapshot = commits[task[s].id].root]
                   [] OTHER -> Resting
      PROVE  StoreInv'
  <2>1. CASE Is(s, "commit")
    <3>1. ~Is(s, "checkout")
      BY <2>1 DEF Is
    <3>2. r = [job[s] EXCEPT !.at = "take"]
      BY <1>8, <2>1, <3>1
    <3> QED
      BY <1>6, <1>8, <3>2
  <2>2. CASE Is(s, "checkout")
    <3>1. ~Is(s, "commit")
      BY <2>2 DEF Is
    <3>2. r = [job[s] EXCEPT !.at = "load", !.snapshot = commits[task[s].id].root]
      BY <1>8, <2>2, <3>1
    <3> QED
      BY <1>7, <1>8, <3>2
  <2>3. CASE ~Is(s, "commit") /\ ~Is(s, "checkout")
    <3>1. r = Resting
      BY <1>8, <2>3
    <3> QED
      BY <1>4, <1>8, <3>1
  <2> QED
    BY <2>1, <2>2, <2>3
<1>9. CASE At(s, "done") /\ job' = [job EXCEPT ![s] = CASE Is(s, "commit") -> [@ EXCEPT !.at = "take"]
                                           [] Is(s, "checkout") -> [@ EXCEPT !.at = "load", !.snapshot = commits[task[s].id].root]
                                           [] OTHER -> Resting]
  <2>1. PICK r : r = CASE Is(s, "commit") -> [job[s] EXCEPT !.at = "take"]
                       [] Is(s, "checkout") -> [job[s] EXCEPT !.at = "load", !.snapshot = commits[task[s].id].root]
                       [] OTHER -> Resting
    OBVIOUS
  <2>2. job' = [job EXCEPT ![s] = r]
    BY <1>9, <2>1, Zenon
  <2> QED
    BY <1>8, <1>9, <2>1, <2>2
<1> QED
  BY <1>4, <1>9 DEF Return

LEMMA ScriptTyped ==
    ASSUME SideTypes, NEW s \in Session, NEW q \in Seq(Statement), script' = [script EXCEPT ![s] = q]
    PROVE  script' \in [Session -> Seq(Statement)]
BY DEF SideTypes

LEMMA NoScript == <<>> \in Seq(Statement)
OBVIOUS

LEMMA AdvanceTyped ==
    ASSUME SideTypes, NEW s \in Session, Stop(s) \/ (Advance(s) /\ script[s] # <<>>)
    PROVE  script' \in [Session -> Seq(Statement)]
<1>1. CASE Stop(s)
  BY <1>1, NoScript, ScriptTyped DEF Stop
<1>2. CASE Advance(s) /\ script[s] # <<>>
  <2>1. PICK q : q = Tail(script[s])
    OBVIOUS
  <2>2. q \in Seq(Statement) /\ script' = [script EXCEPT ![s] = q]
    BY <1>2, <2>1, SideFacts DEF Advance
  <2> QED
    BY <2>2, ScriptTyped
<1> QED
  BY <1>1, <1>2

LEMMA CreateIs == [do |-> "create", cell |-> LogTable, val |-> 0, new |-> 0] \in Statement
BY DEF Statement, Table

LEMMA EnsureTyped == ASSUME SideTypes, NEW s \in Session, EnsureLog(s) PROVE script' \in [Session -> Seq(Statement)]
<1>1. script[s] # <<>> /\ Tail(script[s]) \in Seq(Statement)
  BY SideFacts DEF EnsureLog, Heading
<1>2. PICK create \in Statement : create = [do |-> "create", cell |-> LogTable, val |-> 0, new |-> 0]
  BY CreateIs
<1>3. PICK rest \in Seq(Statement) : rest = Tail(script[s])
  BY <1>1
<1>4. PICK q : q = (IF mem[LogTable] = 0 THEN <<create>> ELSE <<>>) \o rest
  OBVIOUS
<1>5. q \in Seq(Statement)
  <2>1. <<create>> \o rest \in Seq(Statement) /\ <<>> \o rest \in Seq(Statement)
    OBVIOUS
  <2> QED
    BY <1>4, <2>1
<1>6. script' = [script EXCEPT ![s] = q]
  BY <1>2, <1>3, <1>4 DEF EnsureLog
<1> QED
  BY <1>5, <1>6, ScriptTyped

LEMMA LookUpTyped == ASSUME SideTypes, NEW s \in Session, LookUp(s) PROVE script' \in [Session -> Seq(Statement)]
<1>1. CASE Advance(s)
  BY <1>1, AdvanceTyped DEF LookUp, Heading
<1>2. CASE script' = [script EXCEPT ![s] = SubSeq(@, 5, Len(@))]
  <2>1. PICK old \in Seq(Statement) : old = script[s]
    BY DEF SideTypes
  <2>2. PICK q : q = SubSeq(old, 5, Len(old))
    OBVIOUS
  <2>3. q \in Seq(Statement)
    BY <2>2
  <2>4. script' = [script EXCEPT ![s] = q]
    BY <1>2, <2>1, <2>2
  <2> QED
    BY <2>3, <2>4, ScriptTyped
<1> QED
  BY <1>1, <1>2 DEF LookUp

LEMMA EngineScripts == ASSUME SideTypes, NEW s \in Session, EngineStep(s) PROVE script' \in [Session -> Seq(Statement)]
<1>1. UNCHANGED script => script' \in [Session -> Seq(Statement)]
  BY DEF SideTypes
<1>2. CASE Execute(s)
  BY <1>2, AdvanceTyped DEF Execute
<1>3. CASE Mark(s) \/ RecordOrApply(s) \/ StoreWrite(s) \/ IngestError(s) \/ Install(s) \/ ApplyLog(s)
  <2>1. UNCHANGED script
    BY <1>3, Zenon DEF Mark, RecordOrApply, StoreWrite, IngestError, Install, ApplyLog
  <2> QED
    BY <1>1, <2>1
<1>4. CASE CommitError(s) \/ Restore(s) \/ VersionCall(s) \/ TakeDirty(s) \/ ExportDirty(s) \/ LoadCommit(s)
  BY <1>1, <1>4 DEF CommitError, Restore, VersionCall, TakeDirty, ExportDirty, LoadCommit, engineVars
<1>5. CASE StoreError(s)
  BY <1>5, AdvanceTyped DEF StoreError
<1>6. CASE Begin(s) \/ CommitTxn(s) \/ Rollback(s)
  BY <1>6, AdvanceTyped DEF Begin, CommitTxn, Rollback, Heading
<1>7. CASE EnsureLog(s) \/ LookUp(s)
  BY <1>7, EnsureTyped, LookUpTyped
<1>8. CASE CallVersion(s)
  BY <1>8, AdvanceTyped DEF CallVersion
<1>9. CASE Return(s)
  BY <1>1, <1>9, AdvanceTyped DEF Return
<1> QED
  BY <1>2, <1>3, <1>4, <1>5, <1>6, <1>7, <1>8, <1>9 DEF EngineStep

LEMMA IdemTyped ==
    ASSUME SideTypes, NEW s \in Session, NEW k \in LogKey \cup {0}, idem' = [idem EXCEPT ![s] = k] \/ idem' = idem
    PROVE  idem' \in [Session -> LogKey \cup {0}]
BY DEF SideTypes

LEMMA EngineIdem == ASSUME SideTypes, NEW s \in Session, EngineStep(s) PROVE idem' \in [Session -> LogKey \cup {0}]
<1>1. UNCHANGED idem => idem' \in [Session -> LogKey \cup {0}]
  BY DEF SideTypes
<1>2. CASE Execute(s)
  BY <1>2, IdemTyped DEF Execute
<1>3. CASE Mark(s) \/ RecordOrApply(s) \/ StoreWrite(s) \/ IngestError(s) \/ Install(s) \/ ApplyLog(s)
  <2>1. UNCHANGED idem
    BY <1>3, Zenon DEF Mark, RecordOrApply, StoreWrite, IngestError, Install, ApplyLog, engineHistory
  <2> QED
    BY <1>1, <2>1
<1>4. CASE CommitError(s) \/ Restore(s) \/ VersionCall(s) \/ TakeDirty(s) \/ ExportDirty(s) \/ LoadCommit(s)
  BY <1>1, <1>4 DEF CommitError, Restore, VersionCall, TakeDirty, ExportDirty, LoadCommit, engineHistory
<1>5. CASE StoreError(s)
  BY <1>5, IdemTyped DEF StoreError
<1>6. CASE Begin(s) \/ CommitTxn(s) \/ Rollback(s) \/ EnsureLog(s) \/ CallVersion(s) \/ Return(s)
  BY <1>1, <1>6 DEF Begin, CommitTxn, Rollback, EnsureLog, CallVersion, Return, engineHistory
<1>7. CASE LookUp(s)
  <2>1. Head(script[s]) \in Statement /\ Head(script[s]).do = "lookup"
    BY <1>7, SideFacts DEF LookUp, Heading
  <2>2. PICK k \in LogKey : k = Head(script[s]).cell
    BY <2>1 DEF Statement
  <2>3. idem' = [idem EXCEPT ![s] = k] \/ idem' = idem
    BY <1>7, <2>2 DEF LookUp
  <2> QED
    BY <2>3, IdemTyped
<1> QED
  BY <1>2, <1>3, <1>4, <1>5, <1>6, <1>7 DEF EngineStep

LEMMA CountTyped ==
    ASSUME SideTypes, NEW m
    PROVE  [k \in LogKey |-> IF m[k] = mem[k] THEN executions[k] ELSE 0] \in [LogKey -> Nat]
BY DEF SideTypes

LEMMA EngineCounts == ASSUME SideTypes, NEW s \in Session, EngineStep(s) PROVE executions' \in [LogKey -> Nat]
<1>1. UNCHANGED executions => executions' \in [LogKey -> Nat]
  BY DEF SideTypes
<1>2. CASE Execute(s)
  <2>1. executions' = executions \/ (idem[s] # 0 /\ executions' = [executions EXCEPT ![idem[s]] = @ + 1])
    BY <1>2 DEF Execute
  <2>2. CASE idem[s] # 0 /\ executions' = [executions EXCEPT ![idem[s]] = @ + 1]
    <3>1. PICK k \in LogKey : k = idem[s]
      BY <2>2, SideFacts
    <3>2. executions \in [LogKey -> Nat]
      BY DEF SideTypes
    <3> QED
      BY <2>2, <3>1, <3>2
  <2> QED
    BY <1>1, <2>1, <2>2
<1>3. CASE Mark(s) \/ RecordOrApply(s) \/ StoreWrite(s) \/ StoreError(s) \/ IngestError(s) \/ ApplyLog(s)
  <2>1. UNCHANGED executions
    BY <1>3, Zenon DEF Mark, RecordOrApply, StoreWrite, StoreError, IngestError, ApplyLog, engineHistory
  <2> QED
    BY <1>1, <2>1
<1>4. CASE CommitError(s) \/ VersionCall(s) \/ TakeDirty(s) \/ ExportDirty(s)
  BY <1>1, <1>4 DEF CommitError, VersionCall, TakeDirty, ExportDirty, engineHistory
<1>5. CASE Begin(s) \/ CommitTxn(s) \/ Rollback(s) \/ EnsureLog(s) \/ LookUp(s) \/ CallVersion(s) \/ Return(s)
  BY <1>1, <1>5 DEF Begin, CommitTxn, Rollback, EnsureLog, LookUp, CallVersion, Return, engineHistory
<1>6. CASE Install(s) \/ Restore(s) \/ LoadCommit(s)
  <2>1. executions' = [k \in LogKey |-> IF mem'[k] = mem[k] THEN executions[k] ELSE 0]
    BY <1>6 DEF Install, Restore, LoadCommit
  <2>2. executions \in [LogKey -> Nat]
    BY DEF SideTypes
  <2> QED
    BY <2>1, <2>2
<1> QED
  BY <1>2, <1>3, <1>4, <1>5, <1>6 DEF EngineStep

MarksFit == dirty \subseteq Key /\ deltas \subseteq Key /\ schema_dirty \subseteq Table /\ unmarked \subseteq Key

LEMMA EngineMarks == ASSUME StoreInv, SideTypes, NEW s \in Session, EngineStep(s) PROVE MarksFit'
<1>0. MarksFit
  BY DEF SideTypes, MarksFit
<1>1. UNCHANGED <<dirty, deltas, schema_dirty, unmarked>> => MarksFit'
  BY <1>0 DEF MarksFit
<1>2. CASE Mark(s)
  <2>1. PICK op : op = Head(job[s].ops)
    OBVIOUS
  <2>2. /\ dirty' = IF op.cell \in Key /\ op.val # 0 THEN dirty \cup {op.cell} ELSE dirty
        /\ deltas' = IF op.cell \in Key THEN deltas \cup {op.cell} ELSE deltas \ CellsOf([op EXCEPT !.val = 0])
        /\ schema_dirty' = IF op.cell \in Table THEN schema_dirty \cup {op.cell} ELSE schema_dirty
        /\ unmarked' = unmarked
    BY <1>2, <2>1 DEF Mark, engineHistory
  <2>3. dirty' \subseteq Key
    BY <1>0, <2>2 DEF MarksFit
  <2>4. deltas' \subseteq Key
    BY <1>0, <2>2 DEF MarksFit
  <2> QED
    BY <1>0, <2>2, <2>3, <2>4 DEF MarksFit
<1>3. CASE RecordOrApply(s) \/ StoreWrite(s) \/ ApplyLog(s) \/ IngestError(s) \/ Execute(s)
  <2>1. UNCHANGED <<dirty, deltas, schema_dirty, unmarked>>
    BY <1>3, Zenon DEF RecordOrApply, StoreWrite, ApplyLog, IngestError, Execute, engineHistory
  <2> QED
    BY <1>1, <2>1
<1>4. CASE CommitError(s) \/ VersionCall(s) \/ ExportDirty(s)
  BY <1>1, <1>4 DEF CommitError, VersionCall, ExportDirty, engineVars, engineHistory
<1>5. CASE Begin(s) \/ CommitTxn(s) \/ Rollback(s) \/ EnsureLog(s) \/ LookUp(s) \/ CallVersion(s) \/ Return(s)
  BY <1>1, <1>5 DEF Begin, CommitTxn, Rollback, EnsureLog, LookUp, CallVersion, Return, engineHistory
<1>6. CASE TakeDirty(s)
  <2>1. dirty' = {} /\ UNCHANGED <<deltas, schema_dirty, unmarked>>
    BY <1>6 DEF TakeDirty, engineHistory
  <2> QED
    BY <1>0, <2>1 DEF MarksFit
<1>7. CASE Install(s) \/ Restore(s) \/ LoadCommit(s)
  <2>1. UNCHANGED <<dirty, deltas, schema_dirty>> /\ unmarked' = unmarked \cup {k \in Key : mem'[k] # mem[k]}
    BY <1>7 DEF Install, Restore, LoadCommit
  <2> QED
    BY <1>0, <2>1 DEF MarksFit
<1>8. CASE StoreError(s)
  <2>1. UNCHANGED <<dirty, deltas, schema_dirty>> /\ unmarked' \subseteq unmarked \cup Key
    BY <1>8 DEF StoreError
  <2> QED
    BY <1>0, <2>1 DEF MarksFit
<1> QED
  BY <1>2, <1>3, <1>4, <1>5, <1>6, <1>7, <1>8 DEF EngineStep

LEMMA EngineMirror == ASSUME StoreInv, SideTypes, NEW s \in Session, EngineStep(s) PROVE mirror' \in [Key -> Val]
<1>0. mirror \in [Key -> Val] /\ mem \in [Cell -> Val] /\ Key \subseteq Cell
  BY KeysAre DEF SideTypes, StoreInv, StoreTypes
<1>1. CASE ExportDirty(s)
  <2>1. mirror' = [k \in Key |-> IF k \in job[s].keys /\ mem[k] # 0 THEN mem[k] ELSE mirror[k]]
    BY <1>1 DEF ExportDirty
  <2> QED
    BY <1>0, <2>1
<1>2. CASE UNCHANGED mirror
  BY <1>0, <1>2
<1>3. ExportDirty(s) \/ UNCHANGED mirror
  <2>1. Execute(s) \/ Mark(s) \/ RecordOrApply(s) \/ StoreWrite(s) \/ StoreError(s) => UNCHANGED mirror
    BY Zenon DEF Execute, Mark, RecordOrApply, StoreWrite, StoreError
  <2>2. IngestError(s) \/ Install(s) \/ Begin(s) \/ CommitTxn(s) \/ ApplyLog(s) => UNCHANGED mirror
    BY Zenon DEF IngestError, Install, Begin, CommitTxn, ApplyLog
  <2>3. CommitError(s) \/ Rollback(s) \/ Restore(s) \/ EnsureLog(s) \/ LookUp(s) => UNCHANGED mirror
    BY Zenon DEF CommitError, Rollback, Restore, EnsureLog, LookUp
  <2>4. TakeDirty(s) \/ LoadCommit(s) \/ CallVersion(s) \/ VersionCall(s) \/ Return(s) => UNCHANGED mirror
    BY DEF TakeDirty, LoadCommit, CallVersion, VersionCall, Return, engineVars
  <2> QED
    BY <2>1, <2>2, <2>3, <2>4 DEF EngineStep
<1> QED
  BY <1>1, <1>2, <1>3

LEMMA EngineSides == ASSUME StoreInv, SideTypes, NEW s \in Session, EngineStep(s) PROVE SideTypes'
<1>1. script' \in [Session -> Seq(Statement)]
  BY EngineScripts
<1>2. idem' \in [Session -> LogKey \cup {0}]
  BY EngineIdem
<1>3. executions' \in [LogKey -> Nat]
  BY EngineCounts
<1>4. MarksFit' /\ mirror' \in [Key -> Val]
  BY EngineMarks, EngineMirror
<1> QED
  BY <1>1, <1>2, <1>3, <1>4 DEF SideTypes, MarksFit

LEMMA EngineStores == ASSUME StoreInv, SideTypes, VersionTypes, SyncInv, NEW s \in Session, EngineStep(s) PROVE StoreInv'
<1>1. CASE Execute(s) \/ Mark(s) \/ RecordOrApply(s) \/ StoreWrite(s) \/ StoreError(s)
  BY <1>1, ExecuteStores, MarkStores, RecordStores, StoreWriteStores, StoreErrorStores
<1>2. CASE IngestError(s) \/ Install(s) \/ Begin(s) \/ CommitTxn(s) \/ ApplyLog(s)
  BY <1>2, IngestErrorStores, InstallStores, BeginStores, CommitTxnStores, ApplyStores
<1>3. CASE CommitError(s) \/ Rollback(s) \/ Restore(s) \/ EnsureLog(s) \/ LookUp(s)
  BY <1>3, CommitErrorStores, RollbackStores, RestoreStores, LogStores
<1>4. CASE CallVersion(s) \/ VersionCall(s) \/ Return(s)
  BY <1>4, VersionStores, VersionCallStores, ReturnStores
<1>5. CASE TakeDirty(s) \/ ExportDirty(s) \/ LoadCommit(s)
  BY <1>5, TakeStores, ExportStores, LoadStores
<1> QED
  BY <1>1, <1>2, <1>3, <1>4, <1>5 DEF EngineStep

LEMMA EngineVersions == ASSUME StoreInv, SideTypes, VersionTypes, NEW s \in Session, EngineStep(s) PROVE VersionTypes'
<1>1. CASE CallVersion(s)
  <2>1. PICK st : st = Head(script[s])
    OBVIOUS
  <2>2. st \in Statement /\ st.do \in {"commit", "branch", "branch_from", "checkout", "merge", "log"}
    BY <1>1, <2>1, SideFacts DEF CallVersion
  <2>3. st.val \in CommitId \cup {NoCommit}
    BY <2>2 DEF Statement, NoCommit
  <2>4. Rows \in Root
    BY KeysAre DEF Rows, Root, StoreInv, StoreTypes
  <2>5. PICK op \in {"head", "commit", "branch", "branch_from", "checkout", "merge"}, branch \in Branch :
           Call(s, op, branch, st.val, Rows)
    <3>1. (IF st.do = "log" THEN "head" ELSE st.do) \in {"head", "commit", "branch", "branch_from", "checkout", "merge"}
      BY <2>2
    <3>2. (IF st.cell = OtherBranch THEN OtherBranch ELSE Main) \in Branch
      BY DEF Branch
    <3> QED
      BY <1>1, <2>1, <3>1, <3>2 DEF CallVersion
  <2> QED
    BY <2>3, <2>4, <2>5, CallTyped
<1>2. CASE VersionCall(s)
  BY <1>2, VersionStepTyped DEF VersionCall
<1>3. CASE Return(s)
  BY <1>3, LeaveTyped DEF Return
<1>4. CASE UNCHANGED versionVars
  BY <1>4 DEF versionVars, VersionTypes
<1>5. CallVersion(s) \/ VersionCall(s) \/ Return(s) \/ UNCHANGED versionVars
  <2>1. Execute(s) \/ Mark(s) \/ RecordOrApply(s) \/ StoreWrite(s) \/ StoreError(s) => UNCHANGED versionVars
    BY Zenon DEF Execute, Mark, RecordOrApply, StoreWrite, StoreError
  <2>2. IngestError(s) \/ Install(s) \/ Begin(s) \/ CommitTxn(s) \/ ApplyLog(s) => UNCHANGED versionVars
    BY Zenon DEF IngestError, Install, Begin, CommitTxn, ApplyLog
  <2>3. CommitError(s) \/ Rollback(s) \/ Restore(s) \/ EnsureLog(s) \/ LookUp(s) => UNCHANGED versionVars
    BY Zenon DEF CommitError, Rollback, Restore, EnsureLog, LookUp
  <2>4. TakeDirty(s) \/ ExportDirty(s) \/ LoadCommit(s) => UNCHANGED versionVars
    BY Zenon DEF TakeDirty, ExportDirty, LoadCommit
  <2> QED
    BY <2>1, <2>2, <2>3, <2>4 DEF EngineStep
<1> QED
  BY <1>1, <1>2, <1>3, <1>4, <1>5
-----------------------------------------------------------------------------
(***************************************************************************)
(* The types of backups.  Whichever session wrote it, a file of a table    *)
(* holds rows of that table, and a manifest a checksum of rows for each.   *)
(***************************************************************************)
Images == UNION {[KeysOf(t) -> Val] : t \in Table}
Cuts == {c \in UNION {[S -> Images] : S \in SUBSET Table} : \A t \in DOMAIN c : c[t] \in [KeysOf(t) -> Val]}
Files == {f \in UNION {[S -> Images \cup Cuts] : S \in SUBSET File} :
            /\ \A t \in DOMAIN f \ {Manifest} : f[t] \in [KeysOf(t) -> Val]
            /\ Manifest \in DOMAIN f => f[Manifest] \in Cuts}

Stages == {"rest", "dump", "hash", "manifest", "upload", "download", "open", "check", "read", "ingest", "end"}
BackupType == [at : Stages, cut : Cuts, sums : Cuts, todo : SUBSET File]

\* The files a session goes through are those of tables, that its cut has, or the remote destination.
TodoFits(r, there) ==
    /\ r.at \in {"dump", "hash", "check", "read", "ingest"} => r.todo # {} /\ r.todo \subseteq Table
    /\ r.at \in {"dump", "hash"} => r.todo \subseteq DOMAIN r.cut
    /\ r.at = "download" => r.todo \subseteq there

BackupTypes ==
    /\ staged \in Files /\ remote \in Files
    /\ backup \in [Session -> BackupType] /\ \A s \in Session : TodoFits(backup[s], DOMAIN remote)

LEMMA CutMade ==
    ASSUME NEW S \in SUBSET Table, NEW c, DOMAIN c = S, c = [t \in S |-> c[t]], \A t \in S : c[t] \in [KeysOf(t) -> Val]
    PROVE  c \in Cuts
<1>1. \A t \in S : c[t] \in Images
  BY DEF Images
<1>2. c \in [S -> Images]
  BY <1>1
<1> QED
  BY <1>2 DEF Cuts

LEMMA FileMade ==
    ASSUME NEW S \in SUBSET File, NEW f, DOMAIN f = S, f = [t \in S |-> f[t]],
           \A t \in S \ {Manifest} : f[t] \in [KeysOf(t) -> Val], Manifest \in S => f[Manifest] \in Cuts
    PROVE  f \in Files
<1>1. \A t \in S \ {Manifest} : t \in Table
  BY DEF File
<1>2. \A t \in S \ {Manifest} : f[t] \in Images
  BY <1>1 DEF Images
<1>3. f \in [S -> Images \cup Cuts]
  BY <1>2
<1> QED
  BY <1>3 DEF Files

LEMMA CutsAre ==
    \A c \in Cuts : DOMAIN c \subseteq Table /\ c = [t \in DOMAIN c |-> c[t]] /\ \A t \in DOMAIN c : c[t] \in [KeysOf(t) -> Val]
BY DEF Cuts

LEMMA FilesAre ==
    \A f \in Files : /\ DOMAIN f \subseteq File
                     /\ \A t \in DOMAIN f \ {Manifest} : f[t] \in [KeysOf(t) -> Val]
                     /\ Manifest \in DOMAIN f => f[Manifest] \in Cuts
BY DEF Files

LEMMA CutGrows ==
    ASSUME NEW c \in Cuts, NEW t \in Table, NEW image \in [KeysOf(t) -> Val], NEW with, with = With(c, t, image)
    PROVE  with \in Cuts
<1>1. DOMAIN with = DOMAIN c \cup {t} /\ with = [g \in DOMAIN c \cup {t} |-> with[g]]
  BY DEF With
<1>2. with[t] = image /\ \A g \in DOMAIN c \ {t} : with[g] = c[g]
  BY DEF With
<1>3. DOMAIN c \subseteq Table /\ \A g \in DOMAIN c : c[g] \in [KeysOf(g) -> Val]
  BY CutsAre
<1>4. \A g \in DOMAIN c \cup {t} : with[g] \in [KeysOf(g) -> Val]
  BY <1>2, <1>3
<1>5. DOMAIN c \cup {t} \in SUBSET Table
  BY <1>3
<1> QED
  BY <1>1, <1>4, <1>5, CutMade

LEMMA FileGrows ==
    ASSUME NEW f \in Files, NEW g \in File, NEW x, g # Manifest => x \in [KeysOf(g) -> Val], g = Manifest => x \in Cuts,
           NEW with, with = With(f, g, x)
    PROVE  with \in Files /\ DOMAIN with = DOMAIN f \cup {g}
<1>1. DOMAIN with = DOMAIN f \cup {g} /\ with = [h \in DOMAIN f \cup {g} |-> with[h]]
  BY DEF With
<1>2. with[g] = x /\ \A h \in DOMAIN f \ {g} : with[h] = f[h]
  BY DEF With
<1>3. /\ DOMAIN f \subseteq File /\ \A h \in DOMAIN f \ {Manifest} : f[h] \in [KeysOf(h) -> Val]
      /\ Manifest \in DOMAIN f => f[Manifest] \in Cuts
  BY FilesAre
<1>4. \A h \in (DOMAIN f \cup {g}) \ {Manifest} : with[h] \in [KeysOf(h) -> Val]
  BY <1>2, <1>3
<1>5. Manifest \in DOMAIN f \cup {g} => with[Manifest] \in Cuts
  BY <1>2, <1>3
<1>6. DOMAIN f \cup {g} \in SUBSET File
  BY <1>3
<1> QED
  BY <1>1, <1>4, <1>5, <1>6, FileMade

LEMMA NoFilesIs == NoFiles \in Files /\ NoFiles \in Cuts /\ DOMAIN NoFiles = {}
<1>1. PICK f : f = NoFiles
  OBVIOUS
<1>2. DOMAIN f = {} /\ f = [t \in {} |-> f[t]]
  BY <1>1 DEF NoFiles
<1>3. {} \in SUBSET File /\ {} \in SUBSET Table
  OBVIOUS
<1>4. f \in Cuts
  BY <1>2, <1>3, CutMade
<1>5. f \in Files
  BY <1>2, <1>3, FileMade
<1> QED
  BY <1>1, <1>2, <1>4, <1>5

LEMMA NoBackupIs == NoBackup \in BackupType /\ \A there : TodoFits(NoBackup, there)
<1>1. NoBackup = [at |-> "rest", cut |-> NoFiles, sums |-> NoFiles, todo |-> {}]
  BY DEF NoBackup, NoFiles
<1>2. NoBackup \in BackupType
  BY <1>1, NoFilesIs DEF BackupType, Stages
<1> QED
  BY <1>1, <1>2 DEF TodoFits

LEMMA NoBackupWith ==
    ASSUME NEW at, NEW awaited, NEW r, r = [NoBackup EXCEPT !.at = at, !.todo = awaited]
    PROVE  r = [at |-> at, cut |-> NoFiles, sums |-> NoFiles, todo |-> awaited]
<1>1. NoBackup = [at |-> "rest", cut |-> NoFiles, sums |-> NoFiles, todo |-> {}]
  BY DEF NoBackup, NoFiles
<1>2. r = [[at |-> "rest", cut |-> NoFiles, sums |-> NoFiles, todo |-> {}] EXCEPT !.at = at, !.todo = awaited]
  BY <1>1
<1> QED
  BY <1>2

LEMMA BackupParts ==
    ASSUME BackupTypes, NEW s \in Session
    PROVE  /\ backup[s] \in BackupType /\ TodoFits(backup[s], DOMAIN remote) /\ staged \in Files /\ remote \in Files
           /\ backup[s].cut \in Cuts /\ backup[s].sums \in Cuts /\ backup[s].todo \subseteq File /\ backup[s].at \in Stages
           /\ backup[s] = [at |-> backup[s].at, cut |-> backup[s].cut, sums |-> backup[s].sums, todo |-> backup[s].todo]
<1>1. backup[s] \in BackupType /\ TodoFits(backup[s], DOMAIN remote) /\ staged \in Files /\ remote \in Files
  BY DEF BackupTypes
<1> QED
  BY <1>1 DEF BackupType

LEMMA BackupTypesMove ==
    ASSUME BackupTypes, NEW s \in Session, NEW r \in BackupType, backup' = [backup EXCEPT ![s] = r],
           staged' \in Files, remote' \in Files, DOMAIN remote \subseteq DOMAIN remote', TodoFits(r, DOMAIN remote')
    PROVE  BackupTypes'
<1>1. backup \in [Session -> BackupType] /\ \A u \in Session : TodoFits(backup[u], DOMAIN remote)
  BY DEF BackupTypes
<1>2. backup' \in [Session -> BackupType] /\ backup'[s] = r /\ \A u \in Session \ {s} : backup'[u] = backup[u]
  BY <1>1
<1>3. \A u \in Session \ {s} : TodoFits(backup'[u], DOMAIN remote')
  BY <1>1, <1>2 DEF TodoFits
<1> QED
  BY <1>2, <1>3 DEF BackupTypes

LEMMA OnwardTyped ==
    ASSUME BackupTypes, NEW s \in Session, NEW awaited \in SUBSET File, NEW at \in Stages, NEW after \in Stages,
           NEW r, r = Onward(s, awaited, at, after)
    PROVE  /\ r = [at |-> IF awaited = {} THEN after ELSE at, cut |-> backup[s].cut, sums |-> backup[s].sums, todo |-> awaited]
           /\ r \in BackupType
<1>1. PICK to \in Stages : to = IF awaited = {} THEN after ELSE at
  OBVIOUS
<1>2. r = [[at |-> backup[s].at, cut |-> backup[s].cut, sums |-> backup[s].sums, todo |-> backup[s].todo]
              EXCEPT !.todo = awaited, !.at = to]
  <2>1. r = [backup[s] EXCEPT !.todo = awaited, !.at = to]
    BY <1>1 DEF Onward
  <2>2. backup[s] = [at |-> backup[s].at, cut |-> backup[s].cut, sums |-> backup[s].sums, todo |-> backup[s].todo]
    BY BackupParts
  <2> QED
    BY <2>1, <2>2
<1>3. r = [at |-> to, cut |-> backup[s].cut, sums |-> backup[s].sums, todo |-> awaited]
  BY <1>2
<1>4. backup[s].cut \in Cuts /\ backup[s].sums \in Cuts
  BY BackupParts
<1> QED
  BY <1>1, <1>3, <1>4 DEF BackupType

LEMMA MadeOf ==
    ASSUME NEW at \in Stages, NEW cut \in Cuts, NEW sums \in Cuts, NEW awaited \in SUBSET File
    PROVE  [at |-> at, cut |-> cut, sums |-> sums, todo |-> awaited] \in BackupType
BY DEF BackupType

\* A move of one field of a session's backup is a move of the whole record.
LEMMA TodoMoves ==
    ASSUME BackupTypes, NEW s \in Session, NEW awaited, backup' = [backup EXCEPT ![s].todo = awaited],
           NEW r, r = [at |-> backup[s].at, cut |-> backup[s].cut, sums |-> backup[s].sums, todo |-> awaited]
    PROVE  backup' = [backup EXCEPT ![s] = r]
<1>1. backup \in [Session -> BackupType] /\ DOMAIN backup = Session
  BY DEF BackupTypes
<1>2. backup[s] = [at |-> backup[s].at, cut |-> backup[s].cut, sums |-> backup[s].sums, todo |-> backup[s].todo]
  BY BackupParts
<1>3. DOMAIN backup' = Session /\ backup'[s] = r /\ backup' = [u \in Session |-> backup'[u]]
  BY <1>1, <1>2
<1>4. \A u \in Session \ {s} : backup'[u] = backup[u]
  BY <1>1
<1> QED
  BY <1>1, <1>3, <1>4

LEMMA TablesAre == Table \subseteq File /\ Manifest \notin Table /\ Manifest \in File /\ File \ {Manifest} = Table
BY BackupAssumption DEF File

LEMMA StartSnapshotTyped ==
    ASSUME BackupTypes, mem \in [Cell -> Val], NEW s \in Session, StartSnapshot(s) PROVE BackupTypes'
<1>1. PICK there, cut : there = {t \in Table : mem[t] # 0} /\ cut = [t \in there |-> ImageOf(t)]
  OBVIOUS
<1>2. PICK onward : onward = Onward(s, there, "dump", "manifest")
  OBVIOUS
<1>3. PICK r : r = [onward EXCEPT !.cut = cut, !.sums = <<>>]
  OBVIOUS
<1>4. backup' = [backup EXCEPT ![s] = r] /\ UNCHANGED <<staged, remote>>
  BY <1>1, <1>2, <1>3 DEF StartSnapshot
<1>5. there \in SUBSET Table /\ DOMAIN cut = there
  BY <1>1
<1>6. cut \in Cuts
  <2>1. \A t \in there : ImageOf(t) \in [KeysOf(t) -> Val]
    BY KeysAre DEF ImageOf
  <2>2. cut = [t \in there |-> cut[t]] /\ \A t \in there : cut[t] \in [KeysOf(t) -> Val]
    BY <1>1, <2>1
  <2> QED
    BY <1>5, <2>2, CutMade
<1>7. PICK at \in Stages : at = IF there = {} THEN "manifest" ELSE "dump"
  BY DEF Stages
<1>8. onward = [at |-> at, cut |-> backup[s].cut, sums |-> backup[s].sums, todo |-> there]
  <2>1. there \in SUBSET File /\ "dump" \in Stages /\ "manifest" \in Stages
    BY <1>5, TablesAre DEF Stages
  <2> QED
    BY <1>2, <1>7, <2>1, OnwardTyped
<1>9. r = [at |-> at, cut |-> cut, sums |-> NoFiles, todo |-> there]
  BY <1>3, <1>8 DEF NoFiles
<1>10. r \in BackupType
  BY <1>5, <1>6, <1>9, NoFilesIs, TablesAre, MadeOf
<1>11. TodoFits(r, DOMAIN remote')
  BY <1>5, <1>7, <1>9 DEF TodoFits
<1> QED
  BY <1>4, <1>10, <1>11, BackupParts, BackupTypesMove

LEMMA WriteFileTyped == ASSUME BackupTypes, NEW s \in Session, WriteFile(s) PROVE BackupTypes'
<1>1. PICK t : t = First(backup[s].todo)
  OBVIOUS
<1>2. /\ backup[s].at = "dump" /\ staged' = With(staged, t, backup[s].cut[t]) /\ backup' = [backup EXCEPT ![s].at = "hash"]
      /\ remote' = remote
  BY <1>1 DEF WriteFile, Doing
<1>3. backup[s].todo # {} /\ backup[s].todo \subseteq Table /\ backup[s].todo \subseteq DOMAIN backup[s].cut
  BY <1>2, BackupParts DEF TodoFits
<1>4. t \in backup[s].todo /\ t \in Table
  BY <1>1, <1>3, FirstOf
<1>5. backup[s].cut[t] \in [KeysOf(t) -> Val]
  BY <1>3, <1>4, BackupParts, CutsAre
<1>6. staged' \in Files
  BY <1>2, <1>4, <1>5, BackupParts, TablesAre, FileGrows
<1>7. PICK r : r = [at |-> "hash", cut |-> backup[s].cut, sums |-> backup[s].sums, todo |-> backup[s].todo]
  OBVIOUS
<1>8. r \in BackupType
  BY <1>7, BackupParts, MadeOf DEF Stages
<1>9. backup' = [backup EXCEPT ![s] = r]
  <2>1. backup \in [Session -> BackupType] /\ DOMAIN backup = Session
    BY DEF BackupTypes
  <2>2. backup[s] = [at |-> backup[s].at, cut |-> backup[s].cut, sums |-> backup[s].sums, todo |-> backup[s].todo]
    BY BackupParts
  <2>3. DOMAIN backup' = Session /\ backup'[s] = r /\ backup' = [u \in Session |-> backup'[u]]
    BY <1>2, <1>7, <2>1, <2>2
  <2>4. \A u \in Session \ {s} : backup'[u] = backup[u]
    BY <1>2, <1>7, <2>1
  <2> QED
    BY <2>1, <2>3, <2>4
<1>10. TodoFits(r, DOMAIN remote')
  BY <1>3, <1>7 DEF TodoFits
<1> QED
  BY <1>2, <1>6, <1>8, <1>9, <1>10, BackupParts, BackupTypesMove

LEMMA HashFileTyped == ASSUME BackupTypes, NEW s \in Session, HashFile(s) PROVE BackupTypes'
<1>1. PICK t : t = First(backup[s].todo)
  OBVIOUS
<1>2. PICK onward, more : onward = Onward(s, backup[s].todo \ {t}, "dump", "manifest") /\ more = With(backup[s].sums, t, staged[t])
  OBVIOUS
<1>3. PICK r : r = [onward EXCEPT !.sums = more]
  OBVIOUS
<1>4. /\ backup[s].at = "hash" /\ t \in DOMAIN staged /\ backup' = [backup EXCEPT ![s] = r]
      /\ staged' = staged /\ remote' = remote
  BY <1>1, <1>2, <1>3 DEF HashFile, Doing
<1>5. backup[s].todo # {} /\ backup[s].todo \subseteq Table /\ backup[s].todo \subseteq DOMAIN backup[s].cut
  BY <1>4, BackupParts DEF TodoFits
<1>6. t \in backup[s].todo /\ t \in Table
  BY <1>1, <1>5, FirstOf
<1>7. staged[t] \in [KeysOf(t) -> Val]
  <2>1. t # Manifest /\ staged \in Files
    BY <1>6, TablesAre, BackupParts
  <2> QED
    BY <1>4, <2>1, FilesAre
<1>8. more \in Cuts
  BY <1>2, <1>6, <1>7, BackupParts, CutGrows
<1>9. PICK at \in Stages : at = IF backup[s].todo \ {t} = {} THEN "manifest" ELSE "dump"
  BY DEF Stages
<1>10. onward = [at |-> at, cut |-> backup[s].cut, sums |-> backup[s].sums, todo |-> backup[s].todo \ {t}]
  <2>1. PICK awaited : awaited = backup[s].todo \ {t}
    OBVIOUS
  <2>2. awaited \in SUBSET File /\ "dump" \in Stages /\ "manifest" \in Stages
    BY <2>1, BackupParts DEF Stages
  <2>3. onward = Onward(s, awaited, "dump", "manifest")
    BY <1>2, <2>1
  <2>4. onward = [at |-> IF awaited = {} THEN "manifest" ELSE "dump", cut |-> backup[s].cut, sums |-> backup[s].sums, todo |-> awaited]
    BY <2>2, <2>3, OnwardTyped
  <2> QED
    BY <1>9, <2>1, <2>4
<1>11. r = [at |-> at, cut |-> backup[s].cut, sums |-> more, todo |-> backup[s].todo \ {t}]
  BY <1>3, <1>10
<1>12. r \in BackupType
  <2>1. backup[s].todo \ {t} \in SUBSET File /\ backup[s].cut \in Cuts
    BY BackupParts
  <2> QED
    BY <1>8, <1>11, <2>1, MadeOf
<1>13. TodoFits(r, DOMAIN remote')
  BY <1>5, <1>9, <1>11 DEF TodoFits
<1> QED
  BY <1>4, <1>12, <1>13, BackupParts, BackupTypesMove

\* What rests, or waits for files it need not find.
LEMMA WaitTyped ==
    ASSUME BackupTypes, NEW s \in Session, NEW r \in BackupType, backup' = [backup EXCEPT ![s] = r],
           r.at \in {"rest", "manifest", "upload", "open", "end"}, staged' \in Files, UNCHANGED remote
    PROVE  BackupTypes'
<1>1. TodoFits(r, DOMAIN remote')
  BY DEF TodoFits
<1> QED
  BY <1>1, BackupParts, BackupTypesMove

LEMMA RestTyped ==
    ASSUME BackupTypes, NEW s \in Session, backup' = [backup EXCEPT ![s] = NoBackup], staged' \in Files, UNCHANGED remote
    PROVE  BackupTypes'
BY NoBackupIs, WaitTyped DEF NoBackup

LEMMA WriteManifestTyped == ASSUME BackupTypes, NEW s \in Session, WriteManifest(s) PROVE BackupTypes'
<1>1. staged' = With(staged, Manifest, backup[s].sums) /\ remote' = remote
  BY DEF WriteManifest
<1>2. staged' \in Files /\ DOMAIN staged' \subseteq File
  BY <1>1, BackupParts, TablesAre, FileGrows, FilesAre
<1>3. CASE backup' = [backup EXCEPT ![s] = NoBackup]
  BY <1>1, <1>2, <1>3, RestTyped
<1>4. CASE backup' = [backup EXCEPT ![s] = [NoBackup EXCEPT !.at = "upload", !.todo = DOMAIN staged']]
  <2>1. PICK r : r = [at |-> "upload", cut |-> NoFiles, sums |-> NoFiles, todo |-> DOMAIN staged']
    OBVIOUS
  <2>2. backup' = [backup EXCEPT ![s] = r]
    <3>1. PICK awaited : awaited = DOMAIN staged'
      OBVIOUS
    <3>2. [NoBackup EXCEPT !.at = "upload", !.todo = awaited] = r
      <4>1. PICK x : x = [NoBackup EXCEPT !.at = "upload", !.todo = awaited]
        OBVIOUS
      <4>2. x = [at |-> "upload", cut |-> NoFiles, sums |-> NoFiles, todo |-> awaited]
        BY <4>1, NoBackupWith
      <4> QED
        BY <2>1, <3>1, <4>1, <4>2
    <3> QED
      BY <1>4, <3>1, <3>2
  <2>3. r \in BackupType /\ r.at = "upload"
    BY <1>2, <2>1, NoFilesIs, MadeOf DEF Stages
  <2> QED
    BY <1>1, <1>2, <2>2, <2>3, WaitTyped
<1> QED
  BY <1>3, <1>4 DEF WriteManifest

LEMMA UploadTyped == ASSUME BackupTypes, NEW s \in Session, Upload(s) PROVE BackupTypes'
<1>1. PICK f \in backup[s].todo \cap DOMAIN staged :
         remote' = With(remote, f, staged[f]) /\ backup' = [backup EXCEPT ![s].todo = @ \ {f}]
  BY DEF Upload
<1>2. backup[s].at = "upload" /\ staged' = staged
  BY DEF Upload, Doing
<1>3. /\ f \in File /\ (f # Manifest => staged[f] \in [KeysOf(f) -> Val]) /\ (f = Manifest => staged[f] \in Cuts)
      /\ staged \in Files /\ remote \in Files
  <2>1. staged \in Files /\ remote \in Files
    BY BackupParts
  <2> QED
    BY <2>1, FilesAre
<1>4. remote' \in Files /\ DOMAIN remote \subseteq DOMAIN remote'
  <2>1. PICK x : x = staged[f]
    OBVIOUS
  <2>2. /\ remote \in Files /\ f \in File /\ (f # Manifest => x \in [KeysOf(f) -> Val]) /\ (f = Manifest => x \in Cuts)
        /\ remote' = With(remote, f, x)
    BY <1>1, <1>3, <2>1
  <2>3. PICK with : with = With(remote, f, x)
    OBVIOUS
  <2>4. with \in Files /\ DOMAIN with = DOMAIN remote \cup {f}
    BY <2>2, <2>3, FileGrows
  <2> QED
    BY <2>2, <2>3, <2>4
<1>5. PICK r : r = [at |-> "upload", cut |-> backup[s].cut, sums |-> backup[s].sums, todo |-> backup[s].todo \ {f}]
  OBVIOUS
<1>6. r \in BackupType
  <2>1. backup[s].todo \ {f} \in SUBSET File /\ backup[s].cut \in Cuts /\ backup[s].sums \in Cuts
    BY BackupParts
  <2> QED
    BY <1>5, <2>1, MadeOf DEF Stages
<1>7. backup' = [backup EXCEPT ![s] = r]
  <2>1. PICK awaited : awaited = backup[s].todo \ {f}
    OBVIOUS
  <2>2. backup' = [backup EXCEPT ![s].todo = awaited]
    <3>1. DOMAIN backup = Session
      BY DEF BackupTypes
    <3> QED
      BY <1>1, <2>1, <3>1
  <2>3. r = [at |-> backup[s].at, cut |-> backup[s].cut, sums |-> backup[s].sums, todo |-> awaited]
    BY <1>2, <1>5, <2>1
  <2> QED
    BY <2>2, <2>3, TodoMoves
<1>8. TodoFits(r, DOMAIN remote')
  BY <1>5 DEF TodoFits
<1> QED
  BY <1>2, <1>3, <1>4, <1>6, <1>7, <1>8, BackupTypesMove

LEMMA StartRestoreTyped == ASSUME BackupTypes, NEW s \in Session, StartRestore(s) PROVE BackupTypes'
<1>1. staged' = staged /\ remote' = remote
  BY DEF StartRestore
<1>2. CASE UNCHANGED backup
  BY <1>1, <1>2 DEF BackupTypes
<1>3. CASE backup' = [backup EXCEPT ![s] = [NoBackup EXCEPT !.at = "open"]]
  <2>1. PICK r : r = [at |-> "open", cut |-> NoFiles, sums |-> NoFiles, todo |-> {}]
    OBVIOUS
  <2>2. backup' = [backup EXCEPT ![s] = r]
    <3>1. NoBackup = [at |-> "rest", cut |-> NoFiles, sums |-> NoFiles, todo |-> {}]
      BY DEF NoBackup, NoFiles
    <3>2. [NoBackup EXCEPT !.at = "open"] = r
      BY <2>1, <3>1
    <3> QED
      BY <1>3, <3>2
  <2>3. r \in BackupType /\ r.at = "open"
    BY <2>1, NoFilesIs, MadeOf DEF Stages
  <2> QED
    BY <1>1, <2>2, <2>3, BackupParts, WaitTyped
<1>4. CASE backup' = [backup EXCEPT ![s] = [NoBackup EXCEPT !.at = "download", !.todo = DOMAIN remote]]
  <2>1. PICK r : r = [at |-> "download", cut |-> NoFiles, sums |-> NoFiles, todo |-> DOMAIN remote]
    OBVIOUS
  <2>2. backup' = [backup EXCEPT ![s] = r]
    <3>1. [NoBackup EXCEPT !.at = "download", !.todo = DOMAIN remote] = r
      <4>1. PICK x : x = [NoBackup EXCEPT !.at = "download", !.todo = DOMAIN remote]
        OBVIOUS
      <4>2. x = [at |-> "download", cut |-> NoFiles, sums |-> NoFiles, todo |-> DOMAIN remote]
        BY <4>1, NoBackupWith
      <4> QED
        BY <2>1, <4>1, <4>2
    <3> QED
      BY <1>4, <3>1
  <2>3. DOMAIN remote \in SUBSET File
    BY BackupParts, FilesAre
  <2>4. r \in BackupType
    BY <2>1, <2>3, NoFilesIs, MadeOf DEF Stages
  <2>5. TodoFits(r, DOMAIN remote')
    BY <1>1, <2>1 DEF TodoFits
  <2> QED
    BY <1>1, <2>2, <2>4, <2>5, BackupParts, BackupTypesMove
<1> QED
  BY <1>2, <1>3, <1>4 DEF StartRestore

LEMMA DownloadTyped == ASSUME BackupTypes, NEW s \in Session, Download(s) PROVE BackupTypes'
<1>1. PICK f \in backup[s].todo :
         /\ staged' = With(staged, f, remote[f])
         /\ backup' = [backup EXCEPT ![s] = Onward(s, backup[s].todo \ {f}, "download", "open")]
  BY DEF Download
<1>2. backup[s].at = "download" /\ remote' = remote
  BY DEF Download, Doing
<1>3. backup[s].todo \subseteq DOMAIN remote
  BY <1>2, BackupParts DEF TodoFits
<1>4. staged \in Files /\ remote \in Files
  BY BackupParts
<1>5. f \in File /\ (f # Manifest => remote[f] \in [KeysOf(f) -> Val]) /\ (f = Manifest => remote[f] \in Cuts)
  BY <1>3, <1>4, FilesAre
<1>6. staged' \in Files
  BY <1>1, <1>4, <1>5, FileGrows
<1>7. PICK r : r = Onward(s, backup[s].todo \ {f}, "download", "open")
  OBVIOUS
<1>8. PICK at \in Stages : at = IF backup[s].todo \ {f} = {} THEN "open" ELSE "download"
  BY DEF Stages
<1>9. r = [at |-> at, cut |-> backup[s].cut, sums |-> backup[s].sums, todo |-> backup[s].todo \ {f}] /\ r \in BackupType
  <2>1. backup[s].todo \ {f} \in SUBSET File /\ "download" \in Stages /\ "open" \in Stages
    BY BackupParts DEF Stages
  <2> QED
    BY <1>7, <1>8, <2>1, OnwardTyped
<1>10. TodoFits(r, DOMAIN remote')
  BY <1>2, <1>3, <1>8, <1>9 DEF TodoFits
<1>11. backup' = [backup EXCEPT ![s] = r]
  BY <1>1, <1>7
<1> QED
  BY <1>2, <1>4, <1>6, <1>9, <1>10, <1>11, BackupTypesMove

LEMMA OpenManifestTyped == ASSUME BackupTypes, NEW s \in Session, OpenManifest(s) PROVE BackupTypes'
<1>1. staged' = staged /\ remote' = remote /\ staged \in Files /\ remote \in Files
  BY BackupParts DEF OpenManifest
<1>2. CASE Manifest \notin DOMAIN staged
  BY <1>1, <1>2, RestTyped DEF OpenManifest, Fail
<1>3. CASE Manifest \in DOMAIN staged
  <2>1. PICK sums : sums = staged[Manifest]
    OBVIOUS
  <2>2. PICK onward, r : onward = Onward(s, DOMAIN sums, "check", "end") /\ r = [onward EXCEPT !.sums = sums]
    OBVIOUS
  <2>3. backup' = [backup EXCEPT ![s] = r]
    BY <1>3, <2>1, <2>2 DEF OpenManifest
  <2>4. sums \in Cuts
    BY <1>1, <1>3, <2>1, FilesAre
  <2>5. DOMAIN sums \subseteq Table /\ DOMAIN sums \in SUBSET File
    BY <2>4, CutsAre, TablesAre
  <2>6. PICK at \in Stages : at = IF DOMAIN sums = {} THEN "end" ELSE "check"
    BY DEF Stages
  <2>7. onward = [at |-> at, cut |-> backup[s].cut, sums |-> backup[s].sums, todo |-> DOMAIN sums]
    <3>1. "check" \in Stages /\ "end" \in Stages
      BY DEF Stages
    <3> QED
      BY <2>2, <2>5, <2>6, <3>1, OnwardTyped
  <2>8. r = [at |-> at, cut |-> backup[s].cut, sums |-> sums, todo |-> DOMAIN sums]
    BY <2>2, <2>7
  <2>9. r \in BackupType
    <3>1. backup[s].cut \in Cuts
      BY BackupParts
    <3> QED
      BY <2>4, <2>5, <2>8, <3>1, MadeOf
  <2>10. TodoFits(r, DOMAIN remote')
    BY <2>5, <2>6, <2>8 DEF TodoFits
  <2> QED
    BY <1>1, <2>3, <2>9, <2>10, BackupTypesMove
<1> QED
  BY <1>2, <1>3

LEMMA CheckFileTyped == ASSUME BackupTypes, NEW s \in Session, CheckFile(s) PROVE BackupTypes'
<1>1. staged' = staged /\ remote' = remote /\ staged \in Files /\ remote \in Files /\ backup[s].at = "check"
  BY BackupParts DEF CheckFile, Doing
<1>2. CASE Fail(s)
  BY <1>1, <1>2, RestTyped DEF Fail
<1>3. CASE backup' = [backup EXCEPT ![s].at = "read"]
  <2>1. PICK r : r = [at |-> "read", cut |-> backup[s].cut, sums |-> backup[s].sums, todo |-> backup[s].todo]
    OBVIOUS
  <2>2. backup' = [backup EXCEPT ![s] = r]
    <3>1. backup \in [Session -> BackupType] /\ DOMAIN backup = Session
      BY DEF BackupTypes
    <3>2. backup[s] = [at |-> backup[s].at, cut |-> backup[s].cut, sums |-> backup[s].sums, todo |-> backup[s].todo]
      BY BackupParts
    <3>3. DOMAIN backup' = Session /\ backup'[s] = r /\ backup' = [u \in Session |-> backup'[u]]
      BY <1>3, <2>1, <3>1, <3>2
    <3>4. \A u \in Session \ {s} : backup'[u] = backup[u]
      BY <1>3, <2>1, <3>1
    <3> QED
      BY <3>1, <3>3, <3>4
  <2>3. r \in BackupType
    BY <2>1, BackupParts, MadeOf DEF Stages
  <2>4. TodoFits(r, DOMAIN remote')
    BY <1>1, <2>1, BackupParts DEF TodoFits
  <2> QED
    BY <1>1, <2>2, <2>3, <2>4, BackupTypesMove
<1> QED
  BY <1>2, <1>3 DEF CheckFile

LEMMA ReadFileTyped ==
    ASSUME BackupTypes, NEW s \in Session, ReadFile(s)
    PROVE  BackupTypes' /\ \E t \in Table : \E image \in [KeysOf(t) -> Val] : IngestTable(s, t, image)
<1>1. PICK t : t = First(backup[s].todo)
  OBVIOUS
<1>2. PICK more : more = With(backup[s].cut, t, staged[t])
  OBVIOUS
<1>3. /\ backup[s].at = "read" /\ t \in DOMAIN staged /\ IngestTable(s, t, staged[t])
      /\ backup' = [backup EXCEPT ![s].at = "ingest", ![s].cut = more]
      /\ staged' = staged /\ remote' = remote
  <2>1. backup' = [backup EXCEPT ![s].at = "ingest", ![s].cut = With(@, t, staged[t])]
    BY <1>1 DEF ReadFile
  <2>2. backup' = [backup EXCEPT ![s].at = "ingest", ![s].cut = With(backup[s].cut, t, staged[t])]
    <3>1. DOMAIN backup = Session /\ backup[s] \in BackupType
      BY BackupParts DEF BackupTypes
    <3> QED
      BY <2>1, <3>1 DEF BackupType
  <2> QED
    BY <1>1, <1>2, <2>2 DEF ReadFile, Doing
<1>4. backup[s].todo # {} /\ backup[s].todo \subseteq Table
  BY <1>3, BackupParts DEF TodoFits
<1>5. t \in Table
  BY <1>1, <1>4, FirstOf
<1>6. staged[t] \in [KeysOf(t) -> Val]
  <2>1. t # Manifest /\ staged \in Files
    BY <1>5, TablesAre, BackupParts
  <2> QED
    BY <1>3, <2>1, FilesAre
<1>7. more \in Cuts
  BY <1>2, <1>5, <1>6, BackupParts, CutGrows
<1>8. PICK r : r = [at |-> "ingest", cut |-> more, sums |-> backup[s].sums, todo |-> backup[s].todo]
  OBVIOUS
<1>9. r \in BackupType
  <2>1. backup[s].sums \in Cuts /\ backup[s].todo \in SUBSET File /\ "ingest" \in Stages
    BY BackupParts DEF Stages
  <2> QED
    BY <1>7, <1>8, <2>1, MadeOf
<1>10. backup' = [backup EXCEPT ![s] = r]
  <2>1. backup \in [Session -> BackupType] /\ DOMAIN backup = Session
    BY DEF BackupTypes
  <2>2. backup[s] = [at |-> backup[s].at, cut |-> backup[s].cut, sums |-> backup[s].sums, todo |-> backup[s].todo]
    BY BackupParts
  <2>3. DOMAIN backup' = Session /\ backup'[s] = r /\ backup' = [u \in Session |-> backup'[u]]
    BY <1>3, <1>8, <2>1, <2>2
  <2>4. \A u \in Session \ {s} : backup'[u] = backup[u]
    BY <1>3, <1>8, <2>1
  <2> QED
    BY <2>1, <2>3, <2>4
<1>11. TodoFits(r, DOMAIN remote')
  BY <1>4, <1>8 DEF TodoFits
<1>12. BackupTypes'
  BY <1>3, <1>9, <1>10, <1>11, BackupParts, BackupTypesMove
<1> QED
  BY <1>3, <1>5, <1>6, <1>12

LEMMA NextFileTyped == ASSUME BackupTypes, NEW s \in Session, NextFile(s) PROVE BackupTypes'
<1>1. PICK t : t = First(backup[s].todo)
  OBVIOUS
<1>2. PICK r : r = Onward(s, backup[s].todo \ {t}, "check", "end")
  OBVIOUS
<1>3. backup[s].at = "ingest" /\ backup' = [backup EXCEPT ![s] = r] /\ staged' = staged /\ remote' = remote
  BY <1>1, <1>2 DEF NextFile, Doing
<1>4. backup[s].todo \subseteq Table
  BY <1>3, BackupParts DEF TodoFits
<1>5. PICK at \in Stages : at = IF backup[s].todo \ {t} = {} THEN "end" ELSE "check"
  BY DEF Stages
<1>6. r = [at |-> at, cut |-> backup[s].cut, sums |-> backup[s].sums, todo |-> backup[s].todo \ {t}] /\ r \in BackupType
  <2>1. backup[s].todo \ {t} \in SUBSET File /\ "check" \in Stages /\ "end" \in Stages
    BY BackupParts DEF Stages
  <2> QED
    BY <1>2, <1>5, <2>1, OnwardTyped
<1>7. TodoFits(r, DOMAIN remote')
  BY <1>4, <1>5, <1>6 DEF TodoFits
<1> QED
  BY <1>3, <1>6, <1>7, BackupParts, BackupTypesMove

LEMMA BackupTyped ==
    ASSUME BackupTypes, mem \in [Cell -> Val], NEW s \in Session, BackupStep(s) \/ BackupFailure(s) \/ ReadStep(s)
    PROVE  BackupTypes'
<1>1. CASE StartSnapshot(s) \/ WriteFile(s) \/ HashFile(s) \/ WriteManifest(s) \/ Upload(s)
  BY <1>1, StartSnapshotTyped, WriteFileTyped, HashFileTyped, WriteManifestTyped, UploadTyped
<1>2. CASE StartRestore(s) \/ Download(s) \/ OpenManifest(s) \/ CheckFile(s) \/ NextFile(s)
  BY <1>2, StartRestoreTyped, DownloadTyped, OpenManifestTyped, CheckFileTyped, NextFileTyped
<1>3. CASE EndUpload(s)
  <2>1. staged' = NoFiles /\ remote' = remote /\ backup' = [backup EXCEPT ![s] = NoBackup]
    BY <1>3 DEF EndUpload
  <2> QED
    BY <2>1, NoFilesIs, RestTyped
<1>4. CASE EndRestore(s)
  <2>1. staged' \in {NoFiles, staged} /\ remote' = remote /\ backup' = [backup EXCEPT ![s] = NoBackup]
    BY <1>4 DEF EndRestore
  <2> QED
    BY <2>1, NoFilesIs, BackupParts, RestTyped
<1>5. CASE BackupFailure(s)
  <2>1. staged' = staged /\ remote' = remote /\ backup' = [backup EXCEPT ![s] = NoBackup]
    BY <1>5 DEF BackupFailure, BackupError, Fail
  <2> QED
    BY <2>1, BackupParts, RestTyped
<1>6. CASE ReadStep(s)
  BY <1>6, ReadFileTyped DEF ReadStep
<1> QED
  BY <1>1, <1>2, <1>3, <1>4, <1>5, <1>6 DEF BackupStep
-----------------------------------------------------------------------------
(***************************************************************************)
(* A start of the process: nothing is under way, and memory is what the    *)
(* store holds, but for cells that are excused.                            *)
(***************************************************************************)
AllRest ==
    /\ data \in [Cell -> Val] /\ checksum \in [Key -> Val] /\ mem \in [Cell -> Val]
    /\ txn = NoTxn /\ job = [s \in Session |-> Resting] /\ excused \subseteq Cell
    /\ \A c \in Cell \ excused : mem[c] = data[c] /\ ~Stops(data, checksum, c)

LEMMA RestsFollow == AllRest => StoreInv
<1> SUFFICES ASSUME AllRest PROVE StoreInv
  OBVIOUS
<1>1. /\ data \in [Cell -> Val] /\ checksum \in [Key -> Val] /\ mem \in [Cell -> Val] /\ txn = NoTxn
      /\ excused \subseteq Cell /\ \A s \in Session : job[s] = Resting
  BY DEF AllRest
<1>2. Resting \in JobType /\ JobStage(Resting) /\ PendingOf(Resting) = {} /\ GoodTxn(NoTxn)
  BY RestingIs DEF GoodJob
<1>3. Resting.at = "rest" /\ Resting.writes = <<>> /\ Resting.ops = <<>> /\ ~NoTxn.open /\ NoTxn.log = <<>>
  BY DEF Resting, NoTxn
<1>4. \A s \in Session : Pending(s) = {}
  BY <1>1, <1>2, PendingIs
<1>5. StoreTypes
  <2>1. job = [s \in Session |-> Resting]
    BY DEF AllRest
  <2>2. job \in [Session -> JobType]
    BY <1>2, <2>1
  <2> QED
    BY <1>1, <1>2, <2>2 DEF StoreTypes
<1>6. Alone
  BY <1>4 DEF Alone
<1>7. WritesFit /\ Progress
  BY <1>1, <1>3 DEF WritesFit, Progress, ProgressOf
<1>8. NoneInside /\ Settled
  BY <1>1, <1>3 DEF NoneInside, Settled, AllRest
<1>9. Follows
  <2> SUFFICES ASSUME NEW c \in Cell \ excused PROVE FollowsAt(Resting, mem, data, txn, c)
    BY <1>4 DEF Follows
  <2>1. mem[c] = data[c]
    BY DEF AllRest
  <2>2. txn.log = <<>> /\ ~txn.open
    BY <1>1, <1>3
  <2>3. Seen(Resting, mem, c) = mem[c] /\ Expected(Resting, data, txn, c) = data[c]
    BY <1>3, <2>2, AfterNone DEF Seen, Expected, Stored
  <2> QED
    BY <2>1, <2>2, <2>3 DEF FollowsAt
<1> QED
  BY <1>5, <1>6, <1>7, <1>8, <1>9 DEF StoreInv

\* Without a row whose checksum stops it, the load brings in all but rows without a table.
LEMMA LoadedIs ==
    ASSUME data \in [Cell -> Val]
    PROVE  /\ Loaded \in [Cell -> Val]
           /\ (\A k \in Corrupted : data[TableOf(k)] = 0) =>
                 \A c \in Cell : (c \in Key => data[c] = 0 \/ data[TableOf(c)] # 0) => Loaded[c] = data[c]
<1>1. Loaded \in [Cell -> Val]
  BY KeysAre DEF Loaded
<1>2. ASSUME \A k \in Corrupted : data[TableOf(k)] = 0, NEW c \in Cell, c \in Key => data[c] = 0 \/ data[TableOf(c)] # 0
      PROVE  Loaded[c] = data[c]
  <2>1. \A t : Loadable(t) <=> data[t] # 0
    BY <1>2 DEF Loadable
  <2>2. Loaded[c] = IF Loadable(IF c \in Table THEN c ELSE TableOf(c)) THEN data[c] ELSE 0
    BY DEF Loaded
  <2>3. Cell = Table \cup Key
    BY KeysAre
  <2> QED
    BY <1>2, <2>1, <2>2, <2>3
<1> QED
  BY <1>1, <1>2

LEMMA CrashRests == ASSUME StoreInv, SideTypes, Crash PROVE AllRest'
<1>1. mem' = Loaded /\ txn' = NoTxn /\ job' = [s \in Session |-> Resting] /\ UNCHANGED <<data, checksum>>
  BY DEF Crash, storeVars
<1> DEFINE cut == UNION {Pending(s) : s \in Session}
<1> DEFINE calls == {idem[s] : s \in Session} \ {0}
<1> DEFINE kept == {c \in excused : c \in LogKey \/ mem'[c] # data[c] \/ c \in Corrupted}
<1> DEFINE orphans == {k \in Key : data[k] # 0 /\ data[TableOf(k)] = 0}
<1> DEFINE all == IF \E k \in Corrupted : data[TableOf(k)] # 0 THEN Cell ELSE {}
<1>a. /\ \A c : c \in cut <=> \E s \in Session : c \in Pending(s)
      /\ \A c : c \in calls <=> c # 0 /\ \E s \in Session : c = idem[s]
      /\ \A c : c \in kept <=> c \in excused /\ (c \in LogKey \/ mem'[c] # data[c] \/ c \in Corrupted)
      /\ \A c : c \in orphans <=> c \in Key /\ data[c] # 0 /\ data[TableOf(c)] = 0
      /\ all \subseteq Cell /\ ((\E k \in Corrupted : data[TableOf(k)] # 0) => all = Cell)
  OBVIOUS
<1>b. excused' = cut \cup calls \cup kept \cup orphans \cup all
  <2>1. excused' = (UNION {Pending(s) : s \in Session}) \cup ({idem[s] : s \in Session} \ {0})
                   \cup {c \in excused : c \in LogKey \/ mem'[c] # data[c] \/ c \in Corrupted}
                   \cup {k \in Key : data[k] # 0 /\ data[TableOf(k)] = 0}
                   \cup (IF \E k \in Corrupted : data[TableOf(k)] # 0 THEN Cell ELSE {})
    BY DEF Crash
  <2> QED
    BY <2>1
<1> HIDE DEF cut, calls, kept, orphans, all
<1>2. data \in [Cell -> Val] /\ checksum \in [Key -> Val] /\ excused \subseteq Cell
  BY DEF StoreInv, StoreTypes
<1>3. excused' \subseteq Cell
  <2>1. \A s \in Session : Pending(s) \subseteq Cell
    BY StoreFacts
  <2>2. \A s \in Session : idem[s] = 0 \/ idem[s] \in Cell
    BY SideFacts, KeysAre
  <2>3. Key \subseteq Cell
    BY KeysAre
  <2>4. cut \subseteq Cell
    BY <1>a, <2>1
  <2>5. calls \subseteq Cell
    BY <1>a, <2>2
  <2>6. kept \subseteq Cell
    BY <1>a, <1>2
  <2>7. orphans \subseteq Cell
    BY <1>a, <2>3
  <2>8. all \subseteq Cell
    BY <1>a
  <2> QED
    BY <1>b, <2>4, <2>5, <2>6, <2>7, <2>8
<1>4. ASSUME NEW c \in Cell \ excused' PROVE mem'[c] = data[c] /\ ~Stops(data, checksum, c)
  <2>a. c \in Cell /\ c \notin cut /\ c \notin kept /\ c \notin orphans /\ c \notin all
    BY <1>b, <1>4
  <2>1. \A k \in Corrupted : data[TableOf(k)] = 0
    BY <1>a, <2>a
  <2>2. c \in Key => data[c] = 0 \/ data[TableOf(c)] # 0
    BY <1>a, <2>a
  <2>3. mem'[c] = data[c]
    BY <1>1, <1>2, <2>1, <2>2, LoadedIs
  <2>4. Stops(data, checksum, c) => c \in Corrupted
    BY DEF Stops, Corrupted
  <2>5. c \in excused => c \notin Corrupted
    BY <1>a, <2>a
  <2>6. ASSUME Stops(data, checksum, c), c \notin excused PROVE FALSE
    <3>1. PICK s \in Session : job[s].writes # <<>> /\ c \in CellsOf(Head(job[s].ops))
      BY <1>4, <2>6 DEF StoreInv, Settled
    <3>2. job[s] \in JobType /\ JobStage(job[s]) /\ Pending(s) = PendingOf(job[s])
      BY StoreFacts
    <3>3. job[s].ops \in Seq(Op) /\ job[s].ops # <<>> /\ job[s].at # "restore"
      BY <3>1, <3>2, JobParts DEF JobStage
    <3>4. CellsOf(Head(job[s].ops)) \subseteq CellsOfAll(job[s].ops)
      <4>1. 1 \in 1 .. Len(job[s].ops) /\ Head(job[s].ops) = job[s].ops[1]
        BY <3>3
      <4> QED
        BY <3>3, <4>1, CellsAre
    <3>5. c \in Pending(s)
      BY <3>1, <3>2, <3>3, <3>4 DEF PendingOf
    <3> QED
      BY <1>a, <2>a, <3>5
  <2> QED
    BY <2>3, <2>4, <2>5, <2>6
<1>5. mem' \in [Cell -> Val]
  BY <1>1, <1>2, LoadedIs
<1> QED
  BY <1>1, <1>2, <1>3, <1>4, <1>5 DEF AllRest, Stops

LEMMA CrashStores == ASSUME StoreInv, SideTypes, Crash PROVE StoreInv'
<1>1. AllRest'
  BY CrashRests
<1> QED
  BY <1>1, RestsFollow, PTL

LEMMA CrashSides == ASSUME SideTypes, Crash PROVE SideTypes'
<1>1. /\ script' = [s \in Session |-> IF job[s] = Resting /\ ~Calling(s) THEN script[s] ELSE <<>>]
      /\ idem' = [s \in Session |-> 0] /\ dirty' = {} /\ deltas' = {} /\ schema_dirty' = {}
      /\ executions' = [k \in LogKey |-> IF mem'[k] = mem[k] THEN executions[k] ELSE 0]
      /\ unmarked' = unmarked \cup {k \in Key : mem'[k] # mirror[k]} /\ mirror' = mirror
  BY DEF Crash
<1>2. script' \in [Session -> Seq(Statement)]
  BY <1>1, NoScript DEF SideTypes
<1>3. executions' \in [LogKey -> Nat] /\ idem' \in [Session -> LogKey \cup {0}]
  BY <1>1 DEF SideTypes
<1> QED
  BY <1>1, <1>2, <1>3 DEF SideTypes

LEMMA CrashVersions == ASSUME Crash PROVE VersionTypes'
<1>1. PICK cs, bs, ts : /\ cs = <<[parent |-> NoCommit, root |-> EmptyRoot]>>
                        /\ bs = [b \in Branch |-> IF b = Main THEN 1 ELSE NoCommit] /\ ts = [s \in Session |-> Idle]
  OBVIOUS
<1>2. /\ cs \in Seq(Commits) /\ Len(cs) \in 1 .. MaxCommit /\ bs \in [Branch -> 0 .. Len(cs)]
      /\ Main \in Branch /\ bs[Main] # 0 /\ ts \in [Session -> TaskType]
      /\ \A s \in Session : TaskFits(ts[s], bs, Len(cs))
  BY <1>1, VersionStarts
<1>3. commits' = cs /\ branches' = bs /\ task' = ts /\ current_branch' = Main /\ landed' = {} /\ rewritten' = {}
  BY <1>1 DEF Crash
<1> QED
  BY <1>2, <1>3 DEF VersionTypes
-----------------------------------------------------------------------------
(***************************************************************************)
(* The engine in the process (Database).                                   *)
(***************************************************************************)
EngineInv == StoreInv /\ SideTypes /\ VersionTypes /\ BackupTypes

LEMMA EngineStart ==
    ASSUME NEW w, w.script \in [Session -> Seq(Statement)], Start(w)
    PROVE  EngineInv
<1>1. /\ data = [c \in Cell |-> 0] /\ checksum = [k \in Key |-> 0] /\ mem = [c \in Cell |-> 0] /\ txn = NoTxn
      /\ job = [s \in Session |-> Resting] /\ excused = {} /\ VersionInit
      /\ script = w.script /\ idem = [s \in Session |-> 0] /\ executions = [k \in LogKey |-> 0]
      /\ mirror = [k \in Key |-> 0] /\ dirty = {} /\ deltas = {} /\ schema_dirty = {} /\ unmarked = {}
  BY DEF Start, EngineInit, RowStoreInit
<1>2. 0 \in Val
  BY KeysAre
<1>3. StoreInv
  <2>1. AllRest
    BY <1>1, <1>2 DEF AllRest, Stops
  <2> QED
    BY <2>1, RestsFollow
<1>4. SideTypes
  <2>1. script \in [Session -> Seq(Statement)]
    BY <1>1
  <2>2. idem \in [Session -> LogKey \cup {0}] /\ executions \in [LogKey -> Nat] /\ mirror \in [Key -> Val]
    BY <1>1, <1>2
  <2> QED
    BY <1>1, <2>1, <2>2 DEF SideTypes
<1>5. VersionTypes
  <2>1. PICK cs, bs, ts : cs = commits /\ bs = branches /\ ts = task
    OBVIOUS
  <2>2. /\ cs = <<[parent |-> NoCommit, root |-> EmptyRoot]>>
        /\ bs = [b \in Branch |-> IF b = Main THEN 1 ELSE NoCommit] /\ ts = [s \in Session |-> Idle]
        /\ current_branch = Main /\ landed = {} /\ rewritten = {}
    BY <1>1, <2>1 DEF VersionInit
  <2>3. /\ cs \in Seq(Commits) /\ Len(cs) \in 1 .. MaxCommit /\ bs \in [Branch -> 0 .. Len(cs)]
        /\ Main \in Branch /\ bs[Main] # 0 /\ ts \in [Session -> TaskType]
        /\ \A s \in Session : TaskFits(ts[s], bs, Len(cs))
    BY <2>2, VersionStarts
  <2> QED
    BY <2>1, <2>2, <2>3 DEF VersionTypes
<1>6. BackupTypes
  <2>1. staged = NoFiles /\ remote = NoFiles /\ backup = [s \in Session |-> NoBackup]
    BY DEF Start, BackupInit
  <2> QED
    BY <2>1, NoFilesIs, NoBackupIs DEF BackupTypes
<1> QED
  BY <1>3, <1>4, <1>5, <1>6 DEF EngineInv

LEMMA EngineStarts == Init => EngineInv
<1> SUFFICES ASSUME Init PROVE EngineInv
  OBVIOUS
<1>1. CASE \E w \in Workloads : Start(w)
  <2>1. PICK w \in Workloads : Start(w)
    BY <1>1
  <2>2. w.script \in [Session -> Seq(Statement)]
    BY DatabaseAssumption
  <2> QED
    BY <2>1, <2>2, EngineStart
<1>2. CASE Start(Nothing)
  <2>1. PICK nothing : nothing = Nothing
    OBVIOUS
  <2>2. nothing.script = [s \in Session |-> <<>>]
    BY <2>1 DEF Nothing
  <2>3. nothing.script \in [Session -> Seq(Statement)]
    BY <2>2, NoScript
  <2> QED
    BY <1>2, <2>1, <2>3, EngineStart
<1> QED
  BY <1>1, <1>2 DEF Init

LEMMA SidesSame ==
    ASSUME SideTypes, script' \in [Session -> Seq(Statement)], UNCHANGED <<idem, executions, mirror, dirty, unmarked>>,
           deltas' \subseteq deltas, schema_dirty' \subseteq schema_dirty
    PROVE  SideTypes'
BY DEF SideTypes

LEMMA BackupScripts ==
    ASSUME SideTypes, NEW s \in Session, BackupStep(s) \/ BackupFailure(s) \/ ReadStep(s)
    PROVE  script' \in [Session -> Seq(Statement)]
<1>1. CASE StartSnapshot(s) \/ StartRestore(s)
  BY <1>1, AdvanceTyped DEF StartSnapshot, StartRestore, Heading
<1>2. CASE UNCHANGED script
  BY <1>2 DEF SideTypes
<1>3. StartSnapshot(s) \/ StartRestore(s) \/ UNCHANGED script
  <2>1. WriteFile(s) \/ HashFile(s) \/ WriteManifest(s) \/ Upload(s) \/ EndUpload(s) => UNCHANGED script
    BY Zenon DEF WriteFile, HashFile, WriteManifest, Upload, EndUpload
  <2>2. Download(s) \/ OpenManifest(s) \/ CheckFile(s) \/ NextFile(s) \/ EndRestore(s) => UNCHANGED script
    BY Zenon DEF Download, OpenManifest, CheckFile, NextFile, EndRestore, Fail
  <2>3. BackupError(s) \/ ReadFile(s) => UNCHANGED script
    BY Zenon DEF BackupError, Fail, ReadFile, IngestTable
  <2> QED
    BY <2>1, <2>2, <2>3 DEF BackupStep, BackupFailure, ReadStep
<1> QED
  BY <1>1, <1>2, <1>3

LEMMA EngineBackup ==
    ASSUME EngineInv, NEW s \in Session, BackupStep(s) \/ BackupFailure(s) \/ ReadStep(s)
    PROVE  EngineInv'
<1>1. StoreInv /\ SideTypes /\ VersionTypes /\ BackupTypes
  BY DEF EngineInv
<1>2. script' \in [Session -> Seq(Statement)]
  BY <1>1, BackupScripts
<1>3. BackupTypes'
  BY <1>1, StoreFacts, BackupTyped
<1>4. CASE BackupStep(s) \/ BackupFailure(s)
  <2>1. /\ UNCHANGED <<storeVars, attached, mem, txn, job, excused>> /\ UNCHANGED versionVars
        /\ UNCHANGED <<idem, executions, mirror, dirty, unmarked, deltas, schema_dirty>>
    BY <1>4 DEF BackupStep, BackupFailure, engineHistory
  <2>2. StoreInv'
    BY <1>1, <2>1, StoreFacts, SameStores
  <2>3. VersionTypes'
    BY <1>1, <2>1 DEF versionVars, VersionTypes
  <2>4. SideTypes'
    BY <1>1, <1>2, <2>1, SidesSame
  <2> QED
    BY <1>3, <2>2, <2>3, <2>4 DEF EngineInv
<1>5. CASE ReadStep(s)
  <2>1. PICK t \in Table : \E image \in [KeysOf(t) -> Val] : IngestTable(s, t, image)
    BY <1>1, <1>5, ReadFileTyped DEF ReadStep
  <2>2. PICK image \in [KeysOf(t) -> Val] : IngestTable(s, t, image)
    BY <2>1
  <2>3. UNCHANGED versionVars /\ UNCHANGED <<idem, executions, mirror, dirty, unmarked, deltas, schema_dirty>>
    BY <2>2 DEF IngestTable
  <2>4. StoreInv'
    BY <1>1, <2>2, IngestStores
  <2>5. VersionTypes'
    BY <1>1, <2>3 DEF versionVars, VersionTypes
  <2>6. SideTypes'
    BY <1>1, <1>2, <2>3, SidesSame
  <2> QED
    BY <1>3, <2>4, <2>5, <2>6 DEF EngineInv
<1> QED
  BY <1>4, <1>5

LEMMA EngineKeeps == DatabaseInv /\ EngineInv /\ [Next]_vars => EngineInv'
<1> SUFFICES ASSUME DatabaseInv, EngineInv, [Next]_vars PROVE EngineInv'
  OBVIOUS
<1>0. StoreInv /\ SideTypes /\ VersionTypes /\ BackupTypes /\ SyncInv
  BY DEF EngineInv, DatabaseInv
<1>1. ASSUME NEW s \in Session, SessionStep(s) PROVE EngineInv'
  <2>1. EngineStep(s) /\ UNCHANGED <<backup, staged, remote>>
    BY <1>1 DEF SessionStep, backupVars
  <2>2. BackupTypes'
    BY <1>0, <2>1 DEF BackupTypes
  <2> QED
    BY <1>0, <2>1, <2>2, EngineStores, EngineSides, EngineVersions DEF EngineInv
<1>2. ASSUME NEW s \in Session, SessionBackup(s) PROVE EngineInv'
  BY <1>2, EngineBackup DEF SessionBackup
<1>3. CASE /\ UNCHANGED <<storeVars, attached, mem, txn, job, excused>> /\ UNCHANGED versionVars
           /\ UNCHANGED <<script, idem, executions, mirror, dirty, unmarked>>
           /\ deltas' \subseteq deltas /\ schema_dirty' \subseteq schema_dirty
           /\ UNCHANGED <<backup, staged, remote>>
  <2>1. StoreInv'
    BY <1>0, <1>3, SameStores DEF StoreInv, StoreTypes
  <2>2. VersionTypes'
    BY <1>0, <1>3 DEF versionVars, VersionTypes
  <2>3. SideTypes'
    BY <1>0, <1>3 DEF SideTypes
  <2>4. BackupTypes'
    BY <1>0, <1>3 DEF BackupTypes
  <2> QED
    BY <2>1, <2>2, <2>3, <2>4 DEF EngineInv
<1>4. CASE \E f \in Refresher : OlapQuery(f)
  <2>1. PICK f \in Refresher : OlapQuery(f)
    BY <1>4
  <2>2. deltas' \subseteq deltas /\ schema_dirty' \subseteq schema_dirty
    BY <2>1 DEF OlapQuery, OlapStep, StartRefresh, CheckTable, SnapshotTable, ClearSchemaDirty, DropDeltas, InsertCopy,
           TakeDeltas, MergeDeltas
  <2> QED
    BY <1>3, <2>1, <2>2 DEF OlapQuery, OlapStep, engineHistory, backupVars
<1>5. CASE Replicate
  BY <1>3, <1>5 DEF Replicate, ReplicaStep, engineVars, engineHistory, backupVars
<1>6. CASE Configure
  BY <1>3, <1>6 DEF Configure, engineVars, engineHistory, backupVars
<1>7. CASE Restart
  <2>1. Crash /\ backup' = [s \in Session |-> NoBackup] /\ UNCHANGED <<staged, remote>>
    BY <1>7 DEF Restart
  <2>2. BackupTypes'
    BY <1>0, <2>1, NoBackupIs DEF BackupTypes
  <2> QED
    BY <1>0, <2>1, <2>2, CrashStores, CrashSides, CrashVersions DEF EngineInv
<1>8. CASE UNCHANGED vars
  BY <1>3, <1>8 DEF vars, engineVars, engineHistory, backupVars
<1> QED
  BY <1>1, <1>2, <1>4, <1>5, <1>6, <1>7, <1>8 DEF Next

LEMMA EngineInvHolds == Spec => []EngineInv
<1>1. Init => EngineInv
  BY EngineStarts
<1> QED
  BY <1>1, EngineKeeps, DatabaseInvHolds, PTL DEF Spec
-----------------------------------------------------------------------------
\* The session that has a cell pending is the one whose operations StoreFollowsMemory speaks of.
LEMMA OwnerIs ==
    ASSUME StoreInv, NEW c \in Cell \ excused, NEW s \in Session, c \in Pending(s)
    PROVE  /\ OpsFor(c, TRUE) = IF job[s].at \in {"apply", "apply_write"} THEN job[s].ops ELSE <<>>
           /\ OpsFor(c, FALSE) = IF job[s].at \in {"apply", "apply_write"} THEN <<>> ELSE job[s].ops
           /\ Memory(c) = Seen(job[s], mem, c)
<1>1. \A u \in Session : c \in Pending(u) => u = s
  BY DEF StoreInv, Alone
<1>2. \A u \in Session : c \in CellsOfAll(job[u].ops) => u = s
  <2> SUFFICES ASSUME NEW u \in Session, c \in CellsOfAll(job[u].ops) PROVE c \in Pending(u)
    BY <1>1
  <2> QED
    BY PendingIs DEF PendingOf
<1>3. Restoring = IF job[s].at = "restore" THEN {s} ELSE {}
  <2>1. \A u \in Session : job[u].at = "restore" => u = s
    BY <1>1, PendingIs DEF PendingOf
  <2> QED
    BY <2>1 DEF Restoring, Is
<1>4. Memory(c) = Seen(job[s], mem, c)
  BY <1>3 DEF Memory, Seen
<1>5. job[s].at = "restore" => job[s].ops = <<>>
  BY StoreFacts DEF JobStage
<1>6. c \in CellsOfAll(job[s].ops) \/ job[s].ops = <<>>
  BY <1>5, PendingIs DEF PendingOf
<1>7. \A committing \in BOOLEAN :
         OpsFor(c, committing) = IF committing <=> job[s].at \in {"apply", "apply_write"} THEN job[s].ops ELSE <<>>
  <2> SUFFICES ASSUME NEW committing \in BOOLEAN
               PROVE  OpsFor(c, committing) = IF committing <=> job[s].at \in {"apply", "apply_write"} THEN job[s].ops ELSE <<>>
    OBVIOUS
  <2> DEFINE owners == {u \in Session : c \in CellsOfAll(job[u].ops) /\ (committing <=> job[u].at \in {"apply", "apply_write"})}
  <2>1. OpsFor(c, committing) = IF owners = {} THEN <<>> ELSE job[CHOOSE u \in owners : TRUE].ops
    BY DEF OpsFor
  <2>2. owners = IF c \in CellsOfAll(job[s].ops) /\ (committing <=> job[s].at \in {"apply", "apply_write"}) THEN {s} ELSE {}
    BY <1>2
  <2> HIDE DEF owners
  <2>3. owners # {} => owners = {s} /\ (CHOOSE u \in owners : TRUE) = s
    BY <2>2
  <2> QED
    BY <1>6, <2>1, <2>2, <2>3
<1> QED
  BY <1>4, <1>7

LEMMA NoOwner ==
    ASSUME NEW c \in Cell, \A s \in Session : c \notin Pending(s)
    PROVE  OpsFor(c, TRUE) = <<>> /\ OpsFor(c, FALSE) = <<>> /\ Memory(c) = mem[c]
<1>1. \A u \in Session : c \notin CellsOfAll(job[u].ops) /\ job[u].at # "restore"
  BY PendingIs DEF PendingOf
<1>2. Restoring = {}
  BY <1>1 DEF Restoring, Is
<1>3. \A committing : OpsFor(c, committing) = <<>>
  BY <1>1 DEF OpsFor
<1> QED
  BY <1>2, <1>3 DEF Memory

LEMMA MemoryFollows == StoreInv => StoreFollowsMemory
<1> SUFFICES ASSUME StoreInv PROVE StoreFollowsMemory
  OBVIOUS
<1>1. ASSUME attached, NEW c \in Cell \ excused
      PROVE  /\ Memory(c) = After(After(Committed(c), txn.log, c), OpsFor(c, FALSE), c)
             /\ txn.open => txn.snapshot[c] = Committed(c)
  <2>1. Follows
    BY <1>1 DEF StoreInv
  <2>2. CASE \E s \in Session : c \in Pending(s)
    <3>1. PICK s \in Session : c \in Pending(s)
      BY <2>2
    <3>2. FollowsAt(job[s], mem, data, txn, c)
      BY <2>1, <3>1 DEF Follows
    <3>3. /\ OpsFor(c, TRUE) = IF job[s].at \in {"apply", "apply_write"} THEN job[s].ops ELSE <<>>
          /\ OpsFor(c, FALSE) = IF job[s].at \in {"apply", "apply_write"} THEN <<>> ELSE job[s].ops
          /\ Memory(c) = Seen(job[s], mem, c)
      BY <3>1, OwnerIs
    <3>4. Committed(c) = Stored(job[s], data, c)
      BY <3>3, AfterNone DEF Committed, Stored
    <3>5. After(After(Committed(c), txn.log, c), OpsFor(c, FALSE), c) = Expected(job[s], data, txn, c)
      BY <3>3, <3>4, AfterNone DEF Expected
    <3> QED
      BY <3>2, <3>3, <3>4, <3>5 DEF FollowsAt
  <2>3. CASE \A s \in Session : c \notin Pending(s)
    <3>1. FollowsAt(Resting, mem, data, txn, c)
      BY <2>1, <2>3 DEF Follows
    <3>2. OpsFor(c, TRUE) = <<>> /\ OpsFor(c, FALSE) = <<>> /\ Memory(c) = mem[c]
      BY <2>3, NoOwner
    <3>3. Resting.at = "rest" /\ Resting.ops = <<>>
      BY DEF Resting
    <3>4. Seen(Resting, mem, c) = mem[c] /\ Stored(Resting, data, c) = Committed(c)
      BY <3>2, <3>3, AfterNone DEF Seen, Stored, Committed
    <3>5. After(After(Committed(c), txn.log, c), OpsFor(c, FALSE), c) = Expected(Resting, data, txn, c)
      BY <3>2, <3>3, <3>4 DEF Expected
    <3> QED
      BY <3>1, <3>2, <3>4, <3>5 DEF FollowsAt
  <2> QED
    BY <2>2, <2>3
<1>2. ASSUME NEW k \in Corrupted, k \notin excused PROVE k \in MidWrite
  <2>1. k \in Cell \ excused /\ Stops(data, checksum, k)
    BY <1>2, KeysAre DEF Corrupted, Stops
  <2>2. PICK s \in Session : job[s].writes # <<>> /\ k \in CellsOf(Head(job[s].ops))
    BY <2>1 DEF StoreInv, Settled
  <2> QED
    BY <2>2 DEF MidWrite
<1> QED
  BY <1>1, <1>2 DEF StoreFollowsMemory

\* Memory is at every moment the store with what sessions, COMMIT and the open transaction have
\* still to bring to it (engine.rs, record_or_apply and txn_commit; aruaru-storage, RowStore), and
\* no row is left with a checksum that would stop the next start, but for the cells listed with the
\* invariant: for any number of sessions, whatever they execute, and over restarts and backups.
THEOREM MemoryIsWhatIsStored == Spec => []StoreFollowsMemory
<1>1. EngineInv => StoreFollowsMemory
  BY MemoryFollows DEF EngineInv
<1> QED
  BY <1>1, EngineInvHolds, PTL
=============================================================================
