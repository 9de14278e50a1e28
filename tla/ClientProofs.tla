---------------------------- MODULE ClientProofs ----------------------------
(***************************************************************************)
(* What clients of one process rely on: an idempotent call                 *)
(* (execute_idempotent of engine.rs) takes effect once, ExecutedOnce of    *)
(* QueryEngine; and a query of the cache (olap.rs) misses no change,       *)
(* OlapCatchesUp of OlapCache.                                             *)
(***************************************************************************)
EXTENDS EngineProofs
-----------------------------------------------------------------------------
(***************************************************************************)
(* Scripts of idempotent calls, and what is left of them.                  *)
(***************************************************************************)
\* What is left of such a script (IdempotentCalls) while the session executes the call with key k, or none if k is 0.
Under(q, k) ==
    \/ Len(q) >= 2 /\ Answers(q[1], k) /\ q[2].do = "commit"
    \/ Len(q) >= 3 /\ Effective(q[1]) /\ Answers(q[2], k) /\ q[3].do = "commit"

Created(st) == st.do = "create" /\ st.cell = LogTable

Proper(q, k) ==
    /\ \A i \in 1 .. Len(q) : q[i].do = "lookup" => CallAt(q, i)
    /\ \A i \in 2 .. Len(q) : q[i].do = "lookup" => q[i - 1].do = "ensure" \/ (i = 2 /\ Created(q[1]))
    /\ \A i \in 1 .. Len(q) : OnLog(q[i]) => \/ i > 2 /\ q[i - 2].do = "lookup"
                                             \/ i \in {1, 2} /\ Answers(q[i], k) /\ k # 0
    /\ k # 0 => Under(q, k)

LEMMA ProperStarts == ASSUME NEW q \in Seq(Statement), OnlyCalls(q) PROVE Proper(q, 0)
<1>1. Len(q) \in Nat
  OBVIOUS
<1> QED
  BY <1>1 DEF OnlyCalls, Proper

LEMMA ProperEmpty == Proper(<<>>, 0)
BY DEF Proper

\* The rest of a proper script, n statements on.
RestOf(q, n, p) == n \in Nat \ {0} /\ Len(p) + n = Len(q) /\ \A i \in 1 .. Len(p) : p[i] = q[i + n]

Passed(q, k, n, p) ==
    /\ \A i \in 1 .. Len(p) : p[i].do = "lookup" => CallAt(p, i)
    /\ \A i \in 2 .. Len(p) : p[i].do = "lookup" => p[i - 1].do = "ensure"
    /\ \A i \in 1 .. Len(p) : OnLog(p[i]) =>
          \/ i > 2 /\ p[i - 2].do = "lookup"
          \/ i \in {1, 2} /\ i + n > 2 /\ q[i + n - 2].do = "lookup"
          \/ i = 1 /\ n = 1 /\ Answers(p[1], k) /\ k # 0

LEMMA ProperMoves ==
    ASSUME NEW q \in Seq(Statement), NEW k, Proper(q, k), NEW n, NEW p \in Seq(Statement), RestOf(q, n, p)
    PROVE  Passed(q, k, n, p)
<1>a. /\ Len(p) \in Nat /\ Len(q) \in Nat /\ n \in Nat /\ n >= 1
      /\ Len(p) + n = Len(q) /\ \A i \in 1 .. Len(p) : p[i] = q[i + n]
  BY DEF RestOf
<1>1. ASSUME NEW i \in 1 .. Len(p), p[i].do = "lookup" PROVE CallAt(p, i)
  <2>1. i + n \in 1 .. Len(q) /\ q[i + n].do = "lookup"
    BY <1>a, <1>1
  <2>2. CallAt(q, i + n)
    BY <2>1 DEF Proper
  <2>3. i + n + 3 <= Len(q)
    BY <2>2 DEF CallAt
  <2>4. i + 3 <= Len(p) /\ i + 1 \in 1 .. Len(p) /\ i + 2 \in 1 .. Len(p) /\ i + 3 \in 1 .. Len(p)
    BY <1>a, <2>3
  <2>5. p[i + 1] = q[i + n + 1] /\ p[i + 2] = q[i + n + 2] /\ p[i + 3] = q[i + n + 3] /\ p[i] = q[i + n]
    <3>1. (i + 1) + n = i + n + 1 /\ (i + 2) + n = i + n + 2 /\ (i + 3) + n = i + n + 3
      BY <1>a
    <3> QED
      BY <1>a, <2>4, <3>1
  <2> QED
    BY <2>2, <2>4, <2>5 DEF CallAt
<1>2. ASSUME NEW i \in 2 .. Len(p), p[i].do = "lookup" PROVE p[i - 1].do = "ensure"
  <2>1. i \in 1 .. Len(p) /\ i - 1 \in 1 .. Len(p) /\ i + n \in 2 .. Len(q) /\ i + n # 2 /\ (i - 1) + n = i + n - 1
    BY <1>a, <1>2
  <2>2. q[i + n].do = "lookup" /\ p[i - 1] = q[i + n - 1]
    BY <1>a, <1>2, <2>1
  <2> QED
    BY <1>a, <1>2, <2>1, <2>2 DEF Proper
<1>3. ASSUME NEW i \in 1 .. Len(p), OnLog(p[i])
      PROVE  \/ i > 2 /\ p[i - 2].do = "lookup"
             \/ i \in {1, 2} /\ i + n > 2 /\ q[i + n - 2].do = "lookup"
             \/ i = 1 /\ n = 1 /\ Answers(p[1], k) /\ k # 0
  <2>1. i + n \in 1 .. Len(q) /\ OnLog(q[i + n]) /\ p[i] = q[i + n]
    BY <1>a, <1>3
  <2>2. \/ i + n > 2 /\ q[i + n - 2].do = "lookup"
        \/ i + n \in {1, 2} /\ Answers(q[i + n], k) /\ k # 0
    <3>1. PICK m : m = i + n
      OBVIOUS
    <3>2. m \in 1 .. Len(q) /\ OnLog(q[m])
      BY <2>1, <3>1
    <3>3. (m > 2 /\ q[m - 2].do = "lookup") \/ (m \in {1, 2} /\ Answers(q[m], k) /\ k # 0)
      BY <3>2 DEF Proper
    <3>4. i + n = m /\ i + n - 2 = m - 2
      BY <1>a, <3>1
    <3>5. (i + n > 2 /\ q[i + n - 2].do = "lookup") \/ (i + n \in {1, 2} /\ Answers(q[i + n], k) /\ k # 0)
      BY <3>3, <3>4, Zenon
    <3> QED
      BY <3>5
  <2>3. i > 2 => i - 2 \in 1 .. Len(p) /\ (i - 2) + n = i + n - 2
    BY <1>a
  <2>4. i > 2 => p[i - 2] = q[i + n - 2]
    BY <1>a, <2>3
  <2> QED
    BY <1>a, <2>1, <2>2, <2>4
<1> QED
  BY <1>1, <1>2, <1>3 DEF Passed

LEMMA LogKeys ==
    ASSUME NEW k \in LogKey
    PROVE  /\ k # 0 /\ k \in Cell /\ k \notin Table /\ k \notin UserKey /\ TableOf(k) = LogTable /\ k # LogTable
           /\ \A st : Answers(st, k) => OnLog(st) /\ ~Effective(st) /\ st.do = "insert"
<1>1. k # 0 /\ k \in Key /\ k \in Cell /\ k \notin Table /\ k \notin UserKey
  BY KeysAre, RowStoreAssumption DEF Key
<1>2. TableOf(k) = LogTable /\ LogTable \in Table
  BY <1>1 DEF TableOf, Table
<1>3. ASSUME NEW st, Answers(st, k) PROVE OnLog(st) /\ ~Effective(st) /\ st.do = "insert"
  BY <1>1, <1>2, <1>3 DEF Answers, OnLog, Effective, Effects, TableFor
<1> QED
  BY <1>1, <1>2, <1>3

\* The rest of a script in the form in which ProperMoves speaks of it.
LEMMA TailMoves ==
    ASSUME NEW q \in Seq(Statement), q # <<>>, NEW p, p = Tail(q)
    PROVE  /\ p \in Seq(Statement) /\ Len(p) + 1 = Len(q) /\ Len(p) \in Nat /\ \A i \in 1 .. Len(p) : p[i] = q[i + 1]
           /\ Head(q) = q[1] /\ (p # <<>> => 1 \in 1 .. Len(p) /\ p[1] = q[2] /\ 2 \in 1 .. Len(q))
<1>1. p \in Seq(Statement) /\ Head(q) = q[1] /\ Len(q) \in Nat \ {0} /\ Len(p) = Len(q) - 1
  BY TailOf
<1>2. \A i \in 1 .. Len(p) : p[i] = q[i + 1]
  BY TailOf
<1>3. p # <<>> => Len(p) > 0
  BY <1>1
<1> QED
  BY <1>1, <1>2, <1>3

\* The next statement of a script is not part of a call.
LEMMA ProperTail ==
    ASSUME NEW q \in Seq(Statement), q # <<>>, Proper(q, 0), q[1].do # "lookup", NEW p, p = Tail(q)
    PROVE  /\ Proper(p, 0) /\ p \in Seq(Statement)
           /\ p # <<>> /\ p[1].do = "lookup" => q[1].do = "ensure" \/ Created(q[1])
<1>1. p \in Seq(Statement) /\ Len(p) + 1 = Len(q) /\ Len(p) \in Nat /\ \A i \in 1 .. Len(p) : p[i] = q[i + 1]
  BY TailMoves
<1>a. Passed(q, 0, 1, p)
  <2>1. RestOf(q, 1, p)
    BY <1>1 DEF RestOf
  <2> QED
    BY <1>1, <2>1, ProperMoves
<1>2. /\ \A i \in 1 .. Len(p) : p[i].do = "lookup" => CallAt(p, i)
      /\ \A i \in 2 .. Len(p) : p[i].do = "lookup" => p[i - 1].do = "ensure"
      /\ \A i \in 1 .. Len(p) : OnLog(p[i]) =>
            \/ i > 2 /\ p[i - 2].do = "lookup"
            \/ i \in {1, 2} /\ i + 1 > 2 /\ q[i + 1 - 2].do = "lookup"
            \/ i = 1 /\ Answers(p[1], 0) /\ 0 # 0
  BY <1>a DEF Passed
<1>3. ASSUME NEW i \in 1 .. Len(p), OnLog(p[i]) PROVE i > 2 /\ p[i - 2].do = "lookup"
  <2>1. i \in {1, 2} /\ i + 1 > 2 => i = 2 /\ i + 1 - 2 = 1
    OBVIOUS
  <2> QED
    BY <1>2, <1>3, <2>1
<1>4. Proper(p, 0)
  BY <1>2, <1>3 DEF Proper
<1>5. ASSUME p # <<>>, p[1].do = "lookup" PROVE q[1].do = "ensure" \/ Created(q[1])
  <2>1. p[1] = q[2] /\ 2 \in 2 .. Len(q)
    BY <1>5, TailMoves
  <2> QED
    BY <1>5, <2>1 DEF Proper
<1> QED
  BY <1>1, <1>4, <1>5

\* A call begins: its lookup finds nothing.
LEMMA ProperLook ==
    ASSUME NEW q \in Seq(Statement), q # <<>>, Proper(q, 0), q[1].do = "lookup", NEW k \in LogKey, k = q[1].cell,
           NEW p, p = Tail(q)
    PROVE  /\ Proper(p, k) /\ p \in Seq(Statement) /\ p # <<>> /\ p[1].do # "lookup" /\ ~Answers(p[1], k)
<1>1. /\ p \in Seq(Statement) /\ Len(p) + 1 = Len(q) /\ Len(p) \in Nat /\ \A i \in 1 .. Len(p) : p[i] = q[i + 1]
      /\ 1 \in 1 .. Len(q)
  BY TailMoves
<1>a. Passed(q, 0, 1, p)
  <2>1. RestOf(q, 1, p)
    BY <1>1 DEF RestOf
  <2> QED
    BY <1>1, <2>1, ProperMoves
<1>2. /\ \A i \in 1 .. Len(p) : p[i].do = "lookup" => CallAt(p, i)
      /\ \A i \in 2 .. Len(p) : p[i].do = "lookup" => p[i - 1].do = "ensure"
      /\ \A i \in 1 .. Len(p) : OnLog(p[i]) =>
            \/ i > 2 /\ p[i - 2].do = "lookup"
            \/ i \in {1, 2} /\ i + 1 > 2 /\ q[i + 1 - 2].do = "lookup"
            \/ i = 1 /\ Answers(p[1], 0) /\ 0 # 0
  BY <1>a DEF Passed
<1>3. 1 + 3 <= Len(q) /\ Effective(q[1 + 1]) /\ Answers(q[1 + 2], k) /\ q[1 + 3].do = "commit"
  BY <1>1 DEF Proper, CallAt
<1>4. 1 \in 1 .. Len(p) /\ 2 \in 1 .. Len(p) /\ 3 \in 1 .. Len(p) /\ Len(p) >= 3
  BY <1>1, <1>3
<1>5. Effective(p[1]) /\ Answers(p[2], k) /\ p[3].do = "commit"
  BY <1>1, <1>3, <1>4
<1>6. ASSUME NEW i \in 1 .. Len(p), OnLog(p[i]) PROVE (i > 2 /\ p[i - 2].do = "lookup") \/ (i \in {1, 2} /\ Answers(p[i], k) /\ k # 0)
  <2>1. i \in {1, 2} /\ i + 1 > 2 => i = 2
    OBVIOUS
  <2> QED
    BY <1>2, <1>5, <1>6, <2>1, LogKeys
<1>7. \A i \in 2 .. Len(p) : p[i].do = "lookup" => p[i - 1].do = "ensure" \/ (i = 2 /\ Created(p[1]))
  BY <1>2
<1>8. Proper(p, k)
  BY <1>2, <1>4, <1>5, <1>6, <1>7 DEF Proper, Under
<1>9. p[1].do # "lookup" /\ ~Answers(p[1], k) /\ p # <<>>
  <2>1. ~Answers(p[1], k) /\ p[1].do # "lookup"
    BY <1>5, LogKeys DEF Effective, Effects
  <2> QED
    BY <1>4, <2>1
<1> QED
  BY <1>1, <1>8, <1>9

\* A call whose answer was found is passed over.
LEMMA ProperFound ==
    ASSUME NEW q \in Seq(Statement), q # <<>>, Proper(q, 0), q[1].do = "lookup", NEW p, p = SubSeq(q, 5, Len(q))
    PROVE  Proper(p, 0) /\ p \in Seq(Statement) /\ (p # <<>> => p[1].do # "lookup")
<1>1. Len(q) \in Nat /\ 1 \in 1 .. Len(q)
  BY TailOf
<1>2. 1 + 3 <= Len(q) /\ Effective(q[1 + 1]) /\ Answers(q[1 + 2], q[1].cell) /\ q[1 + 3].do = "commit"
  BY <1>1 DEF Proper, CallAt
<1>3. p \in Seq(Statement) /\ Len(p) + 4 = Len(q) /\ Len(p) \in Nat /\ \A i \in 1 .. Len(p) : p[i] = q[i + 4]
  <2>1. p \in Seq(Statement) /\ Len(p) = IF 5 <= Len(q) THEN Len(q) - 5 + 1 ELSE 0
    <3>1. \A i \in 5 .. Len(q) : q[i] \in Statement
      BY <1>1
    <3> QED
      BY <1>1, <3>1
  <2>2. Len(p) + 4 = Len(q) /\ Len(p) \in Nat
    <3>1. Len(q) >= 4
      BY <1>1, <1>2
    <3>2. Len(p) = IF 5 <= Len(q) THEN Len(q) - 5 + 1 ELSE 0
      BY <2>1
    <3>3. PICK m, n : m = Len(q) /\ n = Len(p) /\ m \in Nat
      BY <1>1
    <3>4. m >= 4 /\ n = IF 5 <= m THEN m - 5 + 1 ELSE 0
      BY <3>1, <3>2, <3>3
    <3>5. n + 4 = m /\ n \in Nat
      BY <3>3, <3>4
    <3> QED
      BY <3>3, <3>5
  <2>3. \A i \in 1 .. Len(p) : p[i] = q[i + 4]
    <3> SUFFICES ASSUME NEW i \in 1 .. Len(p) PROVE p[i] = q[i + 4]
      OBVIOUS
    <3>1. i + 4 = 5 + i - 1 /\ i \in 1 .. Len(q) - 5 + 1
      BY <2>2
    <3> QED
      BY <1>1, <3>1
  <2> QED
    BY <2>1, <2>2, <2>3
<1>a. Passed(q, 0, 4, p)
  <2>1. RestOf(q, 4, p)
    BY <1>3 DEF RestOf
  <2> QED
    BY <1>3, <2>1, ProperMoves
<1>4. /\ \A i \in 1 .. Len(p) : p[i].do = "lookup" => CallAt(p, i)
      /\ \A i \in 2 .. Len(p) : p[i].do = "lookup" => p[i - 1].do = "ensure"
      /\ \A i \in 1 .. Len(p) : OnLog(p[i]) =>
            \/ i > 2 /\ p[i - 2].do = "lookup"
            \/ i \in {1, 2} /\ i + 4 > 2 /\ q[i + 4 - 2].do = "lookup"
            \/ i = 1 /\ 4 = 1 /\ Answers(p[1], 0) /\ 0 # 0
  BY <1>a DEF Passed
<1>5. q[3].do = "insert" /\ q[4].do = "commit"
  BY <1>2 DEF Answers
<1>6. ASSUME NEW i \in 1 .. Len(p), OnLog(p[i]) PROVE i > 2 /\ p[i - 2].do = "lookup"
  <2>1. i \in {1, 2} => i + 4 - 2 = 3 \/ i + 4 - 2 = 4
    OBVIOUS
  <2> QED
    BY <1>4, <1>5, <1>6, <2>1
<1>7. Proper(p, 0)
  BY <1>4, <1>6 DEF Proper
<1>8. ASSUME p # <<>>, p[1].do = "lookup" PROVE FALSE
  <2>1. 1 \in 1 .. Len(p) /\ 5 \in 2 .. Len(q) /\ p[1] = q[5]
    BY <1>3, <1>8
  <2>2. q[5 - 1].do = "ensure" \/ 5 = 2
    BY <1>8, <2>1 DEF Proper
  <2> QED
    BY <1>5, <2>2
<1> QED
  BY <1>3, <1>7, <1>8

\* The next statement of a script, with no call or with one under way.
LEMMA ProperHead ==
    ASSUME NEW q \in Seq(Statement), NEW k, Proper(q, k), k \in LogKey \cup {0}
    PROVE  /\ k # 0 => q # <<>> /\ k \in LogKey /\ (Effective(q[1]) \/ Answers(q[1], k)) /\ q[1].do \in Effects
           /\ q # <<>> => Head(q) = q[1] /\ (OnLog(q[1]) => k # 0 /\ Answers(q[1], k))
<1>1. ASSUME k # 0 PROVE q # <<>> /\ k \in LogKey /\ (Effective(q[1]) \/ Answers(q[1], k)) /\ q[1].do \in Effects
  <2>1. Under(q, k)
    BY <1>1 DEF Proper
  <2>2. Len(q) >= 2 /\ (Effective(q[1]) \/ Answers(q[1], k))
    BY <2>1 DEF Under
  <2>3. q[1].do \in Effects
    BY <2>2 DEF Effective, Answers, Effects
  <2>4. q # <<>>
    BY <2>2
  <2> QED
    BY <1>1, <2>2, <2>3, <2>4
<1>2. ASSUME q # <<>>, OnLog(q[1]) PROVE k # 0 /\ Answers(q[1], k)
  <2>1. 1 \in 1 .. Len(q)
    BY <1>2
  <2> QED
    BY <1>2, <2>1 DEF Proper
<1>3. q # <<>> => Head(q) = q[1]
  OBVIOUS
<1> QED
  BY <1>1, <1>2, <1>3

\* A call's statement is executed: its answer comes next.
LEMMA ProperEffect ==
    ASSUME NEW q \in Seq(Statement), NEW k \in LogKey, Proper(q, k), Effective(q[1]), NEW p, p = Tail(q)
    PROVE  Proper(p, k) /\ p \in Seq(Statement) /\ p # <<>> /\ Answers(p[1], k) /\ p[1].do # "lookup"
<1>0. k # 0 /\ ~Answers(q[1], k) /\ q[1].do # "lookup"
  BY LogKeys DEF Effective, Effects
<1>1. Len(q) >= 3 /\ Answers(q[2], k) /\ q[3].do = "commit"
  BY <1>0 DEF Proper, Under
<1>2. q # <<>>
  BY <1>1
<1>3. p \in Seq(Statement) /\ Len(p) + 1 = Len(q) /\ Len(p) \in Nat /\ \A i \in 1 .. Len(p) : p[i] = q[i + 1]
  BY <1>2, TailMoves
<1>a. Passed(q, k, 1, p)
  <2>1. RestOf(q, 1, p)
    BY <1>3 DEF RestOf
  <2> QED
    BY <1>3, <2>1, ProperMoves
<1>4. /\ \A i \in 1 .. Len(p) : p[i].do = "lookup" => CallAt(p, i)
      /\ \A i \in 2 .. Len(p) : p[i].do = "lookup" => p[i - 1].do = "ensure"
      /\ \A i \in 1 .. Len(p) : OnLog(p[i]) =>
            \/ i > 2 /\ p[i - 2].do = "lookup"
            \/ i \in {1, 2} /\ i + 1 > 2 /\ q[i + 1 - 2].do = "lookup"
            \/ i = 1 /\ Answers(p[1], k) /\ k # 0
  BY <1>a DEF Passed
<1>5. Len(p) >= 2 /\ 1 \in 1 .. Len(p) /\ 2 \in 1 .. Len(p) /\ p # <<>>
  BY <1>1, <1>3
<1>6. Answers(p[1], k) /\ p[2].do = "commit"
  BY <1>1, <1>3, <1>5
<1>7. ASSUME NEW i \in 1 .. Len(p), OnLog(p[i]) PROVE (i > 2 /\ p[i - 2].do = "lookup") \/ (i \in {1, 2} /\ Answers(p[i], k) /\ k # 0)
  <2>1. i \in {1, 2} /\ i + 1 > 2 => i + 1 - 2 = 1
    OBVIOUS
  <2> QED
    BY <1>0, <1>4, <1>7, <2>1
<1>8. Proper(p, k)
  BY <1>4, <1>5, <1>6, <1>7 DEF Proper, Under
<1> QED
  BY <1>3, <1>5, <1>6, <1>8 DEF Answers

\* A call's answer is logged: the call is over but for its commit.
LEMMA ProperAnswer ==
    ASSUME NEW q \in Seq(Statement), NEW k \in LogKey, Proper(q, k), Answers(q[1], k), NEW p, p = Tail(q)
    PROVE  Proper(p, 0) /\ p \in Seq(Statement) /\ (p # <<>> => p[1].do # "lookup")
<1>0. k # 0 /\ ~Effective(q[1]) /\ q[1].do = "insert" /\ \A st : Answers(st, k) => st.do = "insert"
  BY LogKeys
<1>1. Len(q) >= 2 /\ q[2].do = "commit"
  BY <1>0 DEF Proper, Under
<1>2. q # <<>>
  BY <1>1
<1>3. p \in Seq(Statement) /\ Len(p) + 1 = Len(q) /\ Len(p) \in Nat /\ \A i \in 1 .. Len(p) : p[i] = q[i + 1]
  BY <1>2, TailMoves
<1>a. Passed(q, k, 1, p)
  <2>1. RestOf(q, 1, p)
    BY <1>3 DEF RestOf
  <2> QED
    BY <1>3, <2>1, ProperMoves
<1>4. /\ \A i \in 1 .. Len(p) : p[i].do = "lookup" => CallAt(p, i)
      /\ \A i \in 2 .. Len(p) : p[i].do = "lookup" => p[i - 1].do = "ensure"
      /\ \A i \in 1 .. Len(p) : OnLog(p[i]) =>
            \/ i > 2 /\ p[i - 2].do = "lookup"
            \/ i \in {1, 2} /\ i + 1 > 2 /\ q[i + 1 - 2].do = "lookup"
            \/ i = 1 /\ Answers(p[1], k) /\ k # 0
  BY <1>a DEF Passed
<1>5. 1 \in 1 .. Len(p) /\ p[1].do = "commit"
  BY <1>1, <1>3
<1>6. ASSUME NEW i \in 1 .. Len(p), OnLog(p[i]) PROVE i > 2 /\ p[i - 2].do = "lookup"
  <2>1. i \in {1, 2} /\ i + 1 > 2 => i + 1 - 2 = 1
    OBVIOUS
  <2> QED
    BY <1>0, <1>4, <1>5, <1>6, <2>1
<1>7. Proper(p, 0)
  BY <1>4, <1>6 DEF Proper
<1> QED
  BY <1>3, <1>5, <1>7

\* The log table is created first.
LEMMA ProperEnsure ==
    ASSUME NEW q \in Seq(Statement), q # <<>>, Proper(q, 0), q[1].do = "ensure", NEW st \in Statement, Created(st),
           NEW p, p = <<st>> \o Tail(q)
    PROVE  Proper(p, 0) /\ p \in Seq(Statement) /\ p[1].do # "lookup"
<1>1. /\ Tail(q) \in Seq(Statement) /\ Len(q) \in Nat \ {0} /\ Len(Tail(q)) = Len(q) - 1
      /\ \A i \in 1 .. Len(q) : i # 1 => i - 1 \in 1 .. Len(Tail(q)) /\ Tail(q)[i - 1] = q[i]
  BY TailOf
<1>2. p \in Seq(Statement) /\ Len(p) = Len(q) /\ p[1] = st /\ \A i \in 1 .. Len(p) : i # 1 => p[i] = q[i]
  <2>a. <<st>> \in Seq(Statement)
    OBVIOUS
  <2>b. PICK one : one = <<st>> /\ one \in Seq(Statement)
    BY <2>a
  <2>c. PICK rest : rest = Tail(q) /\ rest \in Seq(Statement)
    BY <1>1
  <2>1. one = <<st>> /\ rest = Tail(q)
    BY <2>b, <2>c
  <2>2. Len(one) = 1 /\ one[1] = st
    BY <2>1
  <2>3. p \in Seq(Statement) /\ JoinOf(one, rest, p)
    BY <2>1, <2>b, <2>c, JoinIs
  <2>4. /\ Len(p) = Len(one) + Len(rest) /\ \A k \in 1 .. Len(one) : p[k] = one[k]
        /\ \A k \in 1 .. Len(p) : k \notin 1 .. Len(one) => p[k] = rest[k - Len(one)]
    BY <2>3 DEF JoinOf
  <2>5. Len(p) = Len(q)
    BY <1>1, <2>1, <2>2, <2>4
  <2>6. ASSUME NEW i \in 1 .. Len(p), i # 1 PROVE p[i] = q[i]
    BY <1>1, <2>1, <2>2, <2>4, <2>5, <2>6
  <2> QED
    BY <2>2, <2>3, <2>4, <2>5, <2>6
<1>3. st.do = "create" /\ ~OnLog(st) /\ st.do # "lookup"
  BY DEF Created, OnLog
<1>4. ASSUME NEW i \in 1 .. Len(p), p[i].do = "lookup" PROVE CallAt(p, i)
  <2>1. i # 1 /\ i \in 1 .. Len(q) /\ p[i] = q[i]
    BY <1>2, <1>3, <1>4
  <2>2. CallAt(q, i)
    BY <1>4, <2>1 DEF Proper
  <2>3. i + 3 <= Len(q) /\ i + 1 # 1 /\ i + 2 # 1 /\ i + 3 # 1 /\ {i + 1, i + 2, i + 3} \subseteq 1 .. Len(p)
    BY <1>1, <1>2, <2>1, <2>2 DEF CallAt
  <2>4. p[i + 1] = q[i + 1] /\ p[i + 2] = q[i + 2] /\ p[i + 3] = q[i + 3]
    BY <1>2, <2>3
  <2> QED
    BY <1>2, <2>1, <2>2, <2>4 DEF CallAt
<1>5. ASSUME NEW i \in 2 .. Len(p), p[i].do = "lookup" PROVE p[i - 1].do = "ensure" \/ (i = 2 /\ Created(p[1]))
  <2>1. i # 1 /\ i \in 1 .. Len(p) /\ i \in 2 .. Len(q) /\ p[i] = q[i]
    BY <1>1, <1>2
  <2>2. CASE i = 2
    BY <1>2, <2>2
  <2>3. CASE i # 2
    <3>1. i - 1 \in 1 .. Len(p) /\ i - 1 # 1 /\ p[i - 1] = q[i - 1]
      BY <1>1, <1>2, <2>3
    <3> QED
      BY <1>5, <2>1, <2>3, <3>1 DEF Proper
  <2> QED
    BY <2>2, <2>3
<1>6. ASSUME NEW i \in 1 .. Len(p), OnLog(p[i]) PROVE i > 2 /\ p[i - 2].do = "lookup"
  <2>1. i # 1 /\ i \in 1 .. Len(q) /\ p[i] = q[i]
    BY <1>2, <1>3, <1>6
  <2>2. i > 2 /\ q[i - 2].do = "lookup"
    BY <1>6, <2>1 DEF Proper
  <2>3. i - 2 # 1
    <3>1. i - 2 = 1 => q[i - 2].do = "ensure"
      OBVIOUS
    <3> QED
      BY <2>2, <3>1
  <2>4. i - 2 \in 1 .. Len(p)
    BY <1>1, <1>2, <2>1, <2>2
  <2> QED
    BY <1>2, <2>2, <2>3, <2>4
<1>7. Proper(p, 0)
  BY <1>4, <1>5, <1>6 DEF Proper
<1> QED
  BY <1>2, <1>3, <1>7
-----------------------------------------------------------------------------
(***************************************************************************)
(* The invariant.                                                          *)
(***************************************************************************)
\* What concerns c, of these operations, gives it v, and is none if v is 0.
HasOnly(ops, c, v) == \A i \in 1 .. Len(ops) : c \in CellsOf(ops[i]) => v # 0 /\ Gives(ops[i], c) = v

LEMMA HasNone ==
    ASSUME NEW ops \in Seq(Op), NEW c, c \notin CellsOfAll(ops)
    PROVE  \A v : HasOnly(ops, c, v)
BY CellsAre DEF HasOnly

LEMMA HasZero ==
    ASSUME NEW ops \in Seq(Op), NEW c, HasOnly(ops, c, 0)
    PROVE  c \notin CellsOfAll(ops)
BY CellsAre DEF HasOnly

LEMMA HasEmpty == \A c, v : HasOnly(<<>>, c, v)
BY DEF HasOnly

LEMMA HasTail ==
    ASSUME NEW ops \in Seq(Op), ops # <<>>, NEW c, NEW v, HasOnly(ops, c, v)
    PROVE  HasOnly(Tail(ops), c, v) /\ (c \in CellsOf(Head(ops)) => v # 0 /\ Gives(Head(ops), c) = v)
<1>1. /\ Head(ops) = ops[1] /\ 1 \in 1 .. Len(ops)
      /\ \A i \in 1 .. Len(Tail(ops)) : i + 1 \in 1 .. Len(ops) /\ Tail(ops)[i] = ops[i + 1]
  <2>1. Len(ops) \in Nat \ {0}
    BY TailOf
  <2> QED
    BY <2>1, TailOf
<1> QED
  BY <1>1 DEF HasOnly

LEMMA HasAppend ==
    ASSUME NEW ops \in Seq(Op), NEW op \in Op, NEW c, NEW v, HasOnly(ops, c, v),
           c \in CellsOf(op) => v # 0 /\ Gives(op, c) = v
    PROVE  HasOnly(Append(ops, op), c, v)
<1>1. /\ Len(Append(ops, op)) = Len(ops) + 1 /\ Len(ops) \in Nat
      /\ Append(ops, op)[Len(ops) + 1] = op /\ \A i \in 1 .. Len(ops) : Append(ops, op)[i] = ops[i]
  OBVIOUS
<1>2. \A i \in 1 .. Len(ops) + 1 : i \in 1 .. Len(ops) \/ i = Len(ops) + 1
  BY <1>1
<1> QED
  BY <1>1, <1>2 DEF HasOnly

LEMMA HasOne ==
    ASSUME NEW op \in Op, NEW c, NEW v, c \in CellsOf(op) => v # 0 /\ Gives(op, c) = v, NEW ops, ops = <<op>>
    PROVE  HasOnly(ops, c, v)
<1>1. Len(ops) = 1 /\ ops[1] = op
  OBVIOUS
<1> QED
  BY <1>1 DEF HasOnly

\* The row of a key in the log, seen as v: it is nowhere anything but v, or not there.
LogView(m, d, t, k, v) ==
    /\ v \in {0, m[k]} /\ d[k] \in {0, v} /\ HasOnly(t.log, k, v)
    /\ t.open => t.snapshot[k] \in {0, v}

\* Rows of the log are as memory has them, and as a transaction about to be undone had them.
LogKept ==
    \A k \in LogKey \ excused :
       /\ LogView(mem, data, txn, k, mem[k])
       /\ \A s \in Session : /\ HasOnly(job[s].ops, k, mem[k])
                             /\ job[s].at = "restore" => LogView(mem, data, txn, k, job[s].snapshot[k])

\* Where a session may be in the course of a call.
Inside == {"rest", "mark", "record", "write", "install"}

CallsProper ==
    \A s \in Session : Proper(script[s], idem[s]) /\ (job[s].at \notin Inside => idem[s] = 0)

\* The log table is there when a key is looked up ...
LooksAt(q, m, x) == q # <<>> /\ q[1].do = "lookup" => m[LogTable] # 0 \/ q[1].cell \in x

LooksFit == \A s \in Session : LooksAt(script[s], mem, excused)

\* ... and during the call, whose statement has taken effect when its answer is all that is left.
OnceAt(k, q, m, x) == m[LogTable] # 0 /\ m[k] = 0 /\ x[k] = IF Answers(q[1], k) THEN 1 ELSE 0

CallsOnce ==
    \A s \in Session : idem[s] \notin excused \cup {0} =>
       /\ OnceAt(idem[s], script[s], mem, executions)
       /\ \A u \in Session : idem[u] = idem[s] => u = s

\* What has taken effect is logged, or a call is about to log it.
KeyAt(k, m, x) == x[k] \in {0, 1} /\ (m[k] # 0 => x[k] = 1)

KeysOnce ==
    \A k \in LogKey \ excused :
       /\ KeyAt(k, mem, executions)
       /\ executions[k] = 1 => mem[k] # 0 \/ \E s \in Session : idem[s] = k

\* A table brought in from outside is there, and without a store nothing is written.
Brings(j) ==
    j.at \in {"mark", "record", "write", "install"} /\ LogTable \in DOMAIN j.snapshot => j.snapshot[LogTable] # 0

Brought == \A s \in Session : Brings(job[s])

Writing == {"write", "apply", "apply_write"}

Detached == ~attached => (\A k \in LogKey : data[k] = 0) /\ \A s \in Session : job[s].at \notin Writing

OnceInv == CallsProper /\ LooksFit /\ CallsOnce /\ KeysOnce /\ LogKept /\ Brought /\ Detached
-----------------------------------------------------------------------------
(***************************************************************************)
(* A session's step.                                                       *)
(***************************************************************************)
\* What a step leaves of the row of a key that others have pending.
LeftAlone(k) ==
    /\ mem'[k] = mem[k] /\ data'[k] = data[k] /\ \A v : HasOnly(txn.log, k, v) => HasOnly(txn'.log, k, v)
    /\ txn'.open => txn.open /\ txn'.snapshot[k] = txn.snapshot[k]

LEMMA LogKeeps ==
    ASSUME StoreTypes, LogKept, NEW s \in Session, NEW r, GoodJob(r), Takes(s, r), excused \subseteq excused',
           \A k \in LogKey \ excused' : k \in PendingBut(s) => LeftAlone(k),
           \A k \in LogKey \ excused' : LogView(mem', data', txn', k, mem'[k]) /\ HasOnly(r.ops, k, mem'[k]),
           \A k \in LogKey \ excused' : r.at = "restore" => LogView(mem', data', txn', k, r.snapshot[k])
    PROVE  LogKept'
<1>1. job'[s] = r /\ \A u \in Session \ {s} : job'[u] = job[u]
  BY JobTaken
<1>2. \A u \in Session : job[u] \in JobType
  BY DEF StoreTypes
<1> SUFFICES ASSUME NEW k \in LogKey \ excused', NEW u \in Session
             PROVE  /\ HasOnly(job'[u].ops, k, mem'[k])
                    /\ job'[u].at = "restore" => LogView(mem', data', txn', k, job'[u].snapshot[k])
  BY DEF LogKept
<1>3. CASE u = s
  BY <1>1, <1>3
<1>4. CASE u # s /\ k \notin Pending(u)
  <2>1. job[u].at # "restore" /\ k \notin CellsOfAll(job[u].ops) /\ job[u].ops \in Seq(Op)
    BY <1>2, <1>4, PendingIs, KeysAre DEF PendingOf, JobType
  <2>2. HasOnly(job[u].ops, k, mem'[k])
    BY <2>1, HasNone
  <2> QED
    BY <1>1, <1>4, <2>1, <2>2
<1>5. CASE u # s /\ k \in Pending(u)
  <2>1. LeftAlone(k)
    BY <1>5, PendingIs
  <2>2. HasOnly(job[u].ops, k, mem[k]) /\ (job[u].at = "restore" => LogView(mem, data, txn, k, job[u].snapshot[k]))
    BY DEF LogKept
  <2>3. \A v : LogView(mem, data, txn, k, v) => LogView(mem', data', txn', k, v)
    BY <2>1 DEF LeftAlone, LogView
  <2> QED
    BY <1>1, <1>5, <2>1, <2>2, <2>3 DEF LeftAlone
<1> QED
  BY <1>3, <1>4, <1>5

\* Memory, the store and the transaction are as they were.
LEMMA LogStays ==
    ASSUME StoreTypes, LogKept, NEW s \in Session, NEW r, GoodJob(r), Takes(s, r), excused \subseteq excused',
           UNCHANGED <<mem, data, txn>>,
           \A k \in LogKey \ excused' : HasOnly(r.ops, k, mem[k]),
           \A k \in LogKey \ excused' : r.at = "restore" => LogView(mem, data, txn, k, r.snapshot[k])
    PROVE  LogKept'
<1>1. mem' = mem /\ data' = data /\ txn' = txn
  OBVIOUS
<1>2. \A k : LeftAlone(k)
  BY <1>1 DEF LeftAlone
<1>3. \A k \in LogKey \ excused' : LogView(mem', data', txn', k, mem'[k]) /\ HasOnly(r.ops, k, mem'[k])
  BY <1>1 DEF LogKept
<1>4. \A k \in LogKey \ excused' : r.at = "restore" => LogView(mem', data', txn', k, r.snapshot[k])
  BY <1>1
<1> QED
  BY <1>2, <1>3, <1>4, LogKeeps

\* What others are doing is left alone.
Spares(s) ==
    /\ mem[LogTable] # 0 => mem'[LogTable] # 0 \/ (LookingUp \subseteq excused' /\ Executing(s) \subseteq excused')
    /\ \A k \in Executing(s) \ excused' : mem'[k] = mem[k] /\ executions'[k] = executions[k]

LEMMA OnceStep ==
    ASSUME StoreTypes, SideTypes, OnceInv, NEW s \in Session, NEW r, GoodJob(r), Takes(s, r),
           NEW p \in Seq(Statement), script' = [script EXCEPT ![s] = p], NEW k \in LogKey \cup {0}, idem' = [idem EXCEPT ![s] = k],
           excused \subseteq excused', Spares(s),
           Proper(p, k), r.at \in Inside \/ k = 0, LooksAt(p, mem', excused'),
           k \notin excused' \cup {0} => OnceAt(k, p, mem', executions') /\ k \notin Executing(s),
           \A c \in LogKey \ excused' : KeyAt(c, mem', executions')
                                        /\ (executions'[c] = 1 => mem'[c] # 0 \/ c = k \/ c \in Executing(s)),
           LogKept', Brings(r), Detached'
    PROVE  OnceInv'
<1>1. job'[s] = r /\ \A u \in Session \ {s} : job'[u] = job[u]
  BY JobTaken
<1>2. /\ script'[s] = p /\ \A u \in Session \ {s} : script'[u] = script[u]
      /\ idem'[s] = k /\ \A u \in Session \ {s} : idem'[u] = idem[u]
  BY DEF SideTypes
<1>3. \A u \in Session \ {s} : idem[u] # 0 => idem[u] \in Executing(s)
  BY DEF Executing
<1>4. \A c \in Executing(s) : \E u \in Session \ {s} : idem[u] = c
  BY DEF Executing
<1>5. CallsProper'
  <2> SUFFICES ASSUME NEW u \in Session PROVE Proper(script'[u], idem'[u]) /\ (job'[u].at \notin Inside => idem'[u] = 0)
    BY DEF CallsProper
  <2> QED
    BY <1>1, <1>2 DEF OnceInv, CallsProper
<1>6. LooksFit'
  <2> SUFFICES ASSUME NEW u \in Session PROVE LooksAt(script'[u], mem', excused')
    BY DEF LooksFit
  <2>1. CASE u = s
    BY <1>2, <2>1
  <2>2. CASE u # s
    <3>1. LooksAt(script[u], mem, excused) /\ script'[u] = script[u]
      BY <1>2, <2>2 DEF OnceInv, LooksFit
    <3>2. ASSUME script[u] # <<>>, script[u][1].do = "lookup" PROVE mem'[LogTable] # 0 \/ script[u][1].cell \in excused'
      <4>1. mem[LogTable] # 0 \/ script[u][1].cell \in excused
        BY <3>1, <3>2 DEF LooksAt
      <4>2. script[u][1].cell \in LookingUp
        BY <3>2 DEF LookingUp
      <4> QED
        BY <4>1, <4>2 DEF Spares
    <3> QED
      BY <3>1, <3>2 DEF LooksAt
  <2> QED
    BY <2>1, <2>2
<1>7. CallsOnce'
  <2> SUFFICES ASSUME NEW u \in Session, idem'[u] \notin excused' \cup {0}
               PROVE  /\ OnceAt(idem'[u], script'[u], mem', executions')
                      /\ \A v \in Session : idem'[v] = idem'[u] => v = u
    BY DEF CallsOnce
  <2>1. CASE u = s
    BY <1>2, <1>3, <2>1
  <2>2. CASE u # s
    <3>1. idem'[u] = idem[u] /\ idem[u] \in Executing(s) \ excused' /\ script'[u] = script[u]
      BY <1>2, <1>3, <2>2
    <3>2. idem[u] \notin excused \cup {0}
      BY <2>2, <3>1
    <3>3. OnceAt(idem[u], script[u], mem, executions) /\ \A v \in Session : idem[v] = idem[u] => v = u
      BY <3>2 DEF OnceInv, CallsOnce
    <3>4. mem'[LogTable] # 0 /\ mem'[idem[u]] = mem[idem[u]] /\ executions'[idem[u]] = executions[idem[u]]
      BY <3>1, <3>3 DEF Spares, OnceAt
    <3>5. k # idem[u]
      BY <3>1, <3>2
    <3>6. OnceAt(idem[u], script[u], mem', executions')
      BY <3>3, <3>4 DEF OnceAt
    <3> QED
      BY <1>2, <2>2, <3>1, <3>3, <3>5, <3>6
  <2> QED
    BY <2>1, <2>2
<1>8. KeysOnce'
  <2> SUFFICES ASSUME NEW c \in LogKey \ excused'
               PROVE  /\ KeyAt(c, mem', executions')
                      /\ executions'[c] = 1 => mem'[c] # 0 \/ \E u \in Session : idem'[u] = c
    BY DEF KeysOnce
  <2> QED
    BY <1>2, <1>4
<1>9. Brought'
  <2> SUFFICES ASSUME NEW u \in Session PROVE Brings(job'[u])
    BY DEF Brought
  <2> QED
    BY <1>1 DEF OnceInv, Brought
<1> QED
  BY <1>5, <1>6, <1>7, <1>8, <1>9 DEF OnceInv

\* Statements and calls are where they were.
LEMMA OnceQuiet ==
    ASSUME StoreTypes, SideTypes, OnceInv, NEW s \in Session, NEW r, GoodJob(r), Takes(s, r),
           UNCHANGED <<mem, script, idem, executions>>, excused \subseteq excused',
           r.at \in Inside \/ job[s].at \notin Inside \/ idem[s] = 0,
           LogKept', Brings(r), Detached'
    PROVE  OnceInv'
<1>1. job'[s] = r /\ \A u \in Session \ {s} : job'[u] = job[u]
  BY JobTaken
<1>2. CallsProper'
  <2> SUFFICES ASSUME NEW u \in Session PROVE Proper(script'[u], idem'[u]) /\ (job'[u].at \notin Inside => idem'[u] = 0)
    BY DEF CallsProper
  <2>1. Proper(script[u], idem[u]) /\ (job[u].at \notin Inside => idem[u] = 0)
    BY DEF OnceInv, CallsProper
  <2> QED
    BY <1>1, <2>1
<1>3. LooksFit'
  BY DEF OnceInv, LooksFit, LooksAt
<1>4. CallsOnce'
  BY DEF OnceInv, CallsOnce
<1>5. KeysOnce'
  BY DEF OnceInv, KeysOnce
<1>6. Brought'
  <2> SUFFICES ASSUME NEW u \in Session PROVE Brings(job'[u])
    BY DEF Brought
  <2> QED
    BY <1>1 DEF OnceInv, Brought
<1> QED
  BY <1>2, <1>3, <1>4, <1>5, <1>6 DEF OnceInv
LEMMA Became ==
    ASSUME StoreTypes, StoreTypes', NEW s \in Session, NEW r, Takes(s, r)
    PROVE  GoodJob(r) /\ r \in JobType /\ job'[s] = r
<1>1. job \in [Session -> JobType] /\ job' = [job EXCEPT ![s] = r] /\ job' \in [Session -> JobType] /\ JobStage(job'[s])
  BY DEF StoreTypes, Takes
<1>2. job'[s] = r
  BY <1>1
<1> QED
  BY <1>1, <1>2 DEF GoodJob

LEMMA DetachedKeeps ==
    ASSUME StoreTypes, Detached, NEW s \in Session, NEW r, GoodJob(r), Takes(s, r), UNCHANGED <<attached, data>>,
           attached \/ r.at \notin Writing
    PROVE  Detached'
<1>1. job'[s] = r /\ \A u \in Session \ {s} : job'[u] = job[u]
  BY JobTaken
<1> QED
  BY <1>1 DEF Detached

\* A step that changes a session's job alone, in that of the things the invariant speaks of.
LEMMA OnlyJob ==
    ASSUME StoreTypes, StoreTypes', SideTypes, OnceInv, NEW s \in Session, NEW r, Takes(s, r),
           UNCHANGED <<mem, script, idem, executions, data, attached, txn>>, excused \subseteq excused',
           r.at \in Inside \/ job[s].at \notin Inside \/ idem[s] = 0,
           \A k \in LogKey \ excused' : HasOnly(job[s].ops, k, mem[k]) => HasOnly(r.ops, k, mem[k]),
           \A k \in LogKey \ excused' : r.at = "restore" => LogView(mem, data, txn, k, r.snapshot[k]),
           Brings(r), attached \/ r.at \notin Writing
    PROVE  OnceInv'
<1>1. GoodJob(r)
  BY Became
<1>2. LogKept'
  <2>1. \A k \in LogKey \ excused' : HasOnly(r.ops, k, mem[k])
    BY DEF OnceInv, LogKept
  <2> QED
    BY <1>1, <2>1, LogStays DEF OnceInv
<1>3. Detached'
  BY <1>1, DetachedKeeps DEF OnceInv
<1> QED
  BY <1>1, <1>2, <1>3, OnceQuiet

LEMMA GoesBrings ==
    ASSUME NEW s \in Session, LogTable \in DOMAIN job[s].snapshot => job[s].snapshot[LogTable] # 0, job[s] \in JobType,
           NEW ops, NEW r, r = Persisting(s, ops)
    PROVE  Brings(r) /\ r.at \in {"mark", "install", "rest"}
<1>1. CASE ops # <<>>
  <2>1. r = [job[s] EXCEPT !.at = "mark", !.ops = ops, !.writes = <<>>]
    BY <1>1 DEF Persisting
  <2>2. r.snapshot = job[s].snapshot /\ r.at = "mark"
    BY <2>1 DEF JobType
  <2> QED
    BY <2>2 DEF Brings
<1>2. CASE ops = <<>> /\ job[s].snapshot # <<>>
  <2>1. r = [job[s] EXCEPT !.at = "install", !.ops = <<>>, !.writes = <<>>]
    BY <1>2 DEF Persisting
  <2>2. r.snapshot = job[s].snapshot /\ r.at = "install"
    BY <2>1 DEF JobType
  <2> QED
    BY <2>2 DEF Brings
<1>3. CASE ops = <<>> /\ job[s].snapshot = <<>>
  <2>1. r.at = "rest"
    BY <1>3 DEF Persisting, Resting
  <2> QED
    BY <2>1 DEF Brings
<1> QED
  BY <1>1, <1>2, <1>3

LEMMA RestBrings == Brings(Resting) /\ Resting.at = "rest" /\ Resting.ops = <<>> /\ \A c, v : HasOnly(Resting.ops, c, v)
BY HasEmpty DEF Brings, Resting

LEMMA MarkOnce ==
    ASSUME StoreInv, StoreTypes', SideTypes, OnceInv, NEW s \in Session, Mark(s)
    PROVE  OnceInv'
<1>1. PICK r : r = [job[s] EXCEPT !.at = "record"]
  OBVIOUS
<1>2. /\ Takes(s, r) /\ job[s].at = "mark" /\ UNCHANGED <<storeVars, attached, mem, txn, script, engineHistory>>
  BY <1>1 DEF Mark, Is, Takes
<1>3. r.at = "record" /\ r.ops = job[s].ops /\ r.snapshot = job[s].snapshot
  BY <1>1, StoreFacts DEF JobType
<1>4. Brings(r)
  BY <1>2, <1>3 DEF OnceInv, Brought, Brings
<1>5. r.at \in Inside /\ r.at \notin Writing /\ r.at # "restore"
  BY <1>3 DEF Inside, Writing
<1> QED
  BY <1>2, <1>3, <1>4, <1>5, StoreFacts, OnlyJob DEF storeVars, engineHistory

LEMMA ExportOnce ==
    ASSUME StoreInv, StoreTypes', SideTypes, OnceInv, NEW s \in Session, TakeDirty(s) \/ ExportDirty(s)
    PROVE  OnceInv'
<1>1. PICK r : /\ Takes(s, r) /\ r.at \notin Writing /\ r.at # "restore" /\ Brings(r)
               /\ r.ops = job[s].ops \/ r.ops = <<>>
  <2>1. CASE TakeDirty(s)
    <3>1. PICK r : r = [job[s] EXCEPT !.keys = dirty, !.at = "export"]
      OBVIOUS
    <3>2. Takes(s, r)
      BY <2>1, <3>1 DEF TakeDirty, Takes
    <3>3. r.at = "export" /\ r.ops = job[s].ops
      BY <3>1, StoreFacts DEF JobType
    <3> QED
      BY <3>2, <3>3 DEF Writing, Brings
  <2>2. CASE ExportDirty(s)
    BY <2>2, RestBrings DEF ExportDirty, Takes, Writing
  <2> QED
    BY <2>1, <2>2
<1>2. job[s].at \in {"take", "export"} /\ UNCHANGED <<storeVars, attached, mem, txn, script, engineHistory>>
  BY DEF TakeDirty, ExportDirty, Is
<1>3. job[s].at \notin Inside
  BY <1>2 DEF Inside
<1>4. \A k \in LogKey : HasOnly(job[s].ops, k, mem[k]) => HasOnly(r.ops, k, mem[k])
  BY <1>1, HasEmpty
<1> QED
  BY <1>1, <1>2, <1>3, <1>4, StoreFacts, OnlyJob DEF storeVars, engineHistory

LEMMA ApplyOnce ==
    ASSUME StoreInv, StoreTypes', SideTypes, OnceInv, NEW s \in Session, ApplyLog(s)
    PROVE  OnceInv'
<1>1. job[s].at = "apply" /\ UNCHANGED <<storeVars, attached, mem, txn, script, engineHistory>>
  BY DEF ApplyLog, Is
<1>2. job[s].at \notin Inside /\ attached
  BY <1>1 DEF Inside, OnceInv, Detached, Writing
<1>3. PICK r : /\ Takes(s, r) /\ r.at # "restore" /\ Brings(r) /\ (r.ops = job[s].ops \/ r.ops = <<>>)
  <2>1. CASE job[s].ops = <<>>
    <3>1. Takes(s, Resting)
      BY <2>1 DEF ApplyLog, Takes
    <3> QED
      BY <3>1, RestBrings
  <2>2. CASE job[s].ops # <<>>
    <3>1. PICK r : r = [job[s] EXCEPT !.writes = Writes(Head(job[s].ops)), !.at = "apply_write"]
      OBVIOUS
    <3>2. Takes(s, r)
      BY <2>2, <3>1 DEF ApplyLog, Takes
    <3>3. r.at = "apply_write" /\ r.ops = job[s].ops
      BY <3>1, StoreFacts DEF JobType
    <3> QED
      BY <3>2, <3>3 DEF Brings
  <2> QED
    BY <2>1, <2>2
<1>4. \A k \in LogKey : HasOnly(job[s].ops, k, mem[k]) => HasOnly(r.ops, k, mem[k])
  BY <1>3, HasEmpty
<1> QED
  BY <1>1, <1>2, <1>3, <1>4, StoreFacts, OnlyJob DEF storeVars, engineHistory

LEMMA IngestErrorOnce ==
    ASSUME StoreInv, StoreTypes', SideTypes, OnceInv, NEW s \in Session, IngestError(s)
    PROVE  OnceInv'
<1>1. PICK ops, r : ops = Tail(job[s].ops) /\ r = Persisting(s, ops)
  OBVIOUS
<1>2. /\ job[s].at = "write" /\ UNCHANGED <<storeVars, attached, mem, txn, script, idem, executions>> /\ Takes(s, r)
      /\ excused \subseteq excused'
  BY <1>1 DEF IngestError, Takes, Is
<1>3. job[s].ops # <<>> /\ job[s].ops \in Seq(Op) /\ ops \in Seq(Op) /\ job[s] \in JobType
  BY <1>1, <1>2, StoreFacts, JobParts, TailOf DEF JobStage
<1>4. Brings(r) /\ r.at \in {"mark", "install", "rest"}
  <2>1. LogTable \in DOMAIN job[s].snapshot => job[s].snapshot[LogTable] # 0
    BY <1>2 DEF OnceInv, Brought, Brings
  <2> QED
    BY <1>1, <1>3, <2>1, GoesBrings
<1>5. r.ops = ops
  <2>1. job[s] \in JobType /\ ops \in Seq(Op) /\ r = Persisting(s, ops)
    BY <1>1, <1>3
  <2> QED
    BY <2>1, GoesOn
<1>6. \A k \in LogKey : HasOnly(job[s].ops, k, mem[k]) => HasOnly(r.ops, k, mem[k])
  BY <1>1, <1>3, <1>5, HasTail
<1>7. r.at \in Inside /\ r.at \notin Writing /\ r.at # "restore"
  BY <1>4 DEF Inside, Writing
<1> QED
  BY <1>2, <1>4, <1>6, <1>7, StoreFacts, OnlyJob DEF storeVars

LEMMA CommitErrorOnce ==
    ASSUME StoreInv, StoreTypes', SideTypes, OnceInv, NEW s \in Session, CommitError(s)
    PROVE  OnceInv'
<1>1. PICK r : r = [job[s] EXCEPT !.at = "restore", !.ops = <<>>, !.writes = <<>>]
  OBVIOUS
<1>2. /\ job[s].at \in {"apply", "apply_write"} /\ UNCHANGED <<storeVars, attached, mem, txn, script, idem, executions>>
      /\ job' = [job EXCEPT ![s].at = "restore", ![s].ops = <<>>, ![s].writes = <<>>]
      /\ excused \subseteq excused' /\ {c \in Cell : mem[c] # job[s].snapshot[c]} \subseteq excused'
  BY DEF CommitError
<1>3. r = [at |-> "restore", ops |-> <<>>, writes |-> <<>>, snapshot |-> job[s].snapshot, keys |-> job[s].keys]
  BY <1>1, StoreFacts, JobParts DEF JobType
<1>4. Takes(s, r)
  <2>1. job \in [Session -> JobType]
    BY StoreFacts DEF StoreTypes
  <2> QED
    BY <1>1, <1>2, <2>1 DEF Takes, JobType
<1>5. \A k \in LogKey \ excused' : LogView(mem, data, txn, k, r.snapshot[k])
  <2> SUFFICES ASSUME NEW k \in LogKey \ excused' PROVE LogView(mem, data, txn, k, r.snapshot[k])
    OBVIOUS
  <2>1. r.snapshot[k] = mem[k] /\ k \notin excused
    BY <1>2, <1>3, KeysAre
  <2> QED
    BY <2>1 DEF OnceInv, LogKept
<1>6. r.at = "restore" /\ Brings(r) /\ r.at \notin Writing /\ job[s].at \notin Inside /\ \A k, v : HasOnly(r.ops, k, v)
  BY <1>2, <1>3, HasEmpty DEF Brings, Writing, Inside
<1> QED
  BY <1>2, <1>4, <1>5, <1>6, StoreFacts, OnlyJob DEF storeVars
\* An operation goes into the log of the transaction: its cells are no one else's.
LEMMA RecordOnce ==
    ASSUME StoreInv, StoreTypes', SideTypes, OnceInv, NEW s \in Session, RecordOrApply(s)
    PROVE  OnceInv'
<1>1. PICK op, ops : op = Head(job[s].ops) /\ ops = Tail(job[s].ops)
  OBVIOUS
<1>2. job[s].at = "record" /\ UNCHANGED <<storeVars, attached, mem, script, engineHistory>>
  BY DEF RecordOrApply, Is
<1>3. job[s].ops # <<>> /\ job[s].ops \in Seq(Op) /\ job[s] \in JobType
  BY <1>2, StoreFacts, JobParts DEF JobStage
<1>4. op \in Op /\ ops \in Seq(Op) /\ CellsOf(op) \subseteq Pending(s)
  <2>1. op \in Op /\ ops \in Seq(Op) /\ CellsOfAll(job[s].ops) = CellsOf(op) \cup CellsOfAll(ops)
    BY <1>1, <1>3, TailOf, CellsTail
  <2>2. Pending(s) = CellsOfAll(job[s].ops)
    BY <1>2 DEF Pending, Is
  <2> QED
    BY <2>1, <2>2
<1>5. LogTable \in DOMAIN job[s].snapshot => job[s].snapshot[LogTable] # 0
  BY <1>2 DEF OnceInv, Brought, Brings
<1>6. \A k \in LogKey \ excused : HasOnly(job[s].ops, k, mem[k])
  BY DEF OnceInv, LogKept
<1>7. \A k \in LogKey \ excused : HasOnly(ops, k, mem[k]) /\ (k \in CellsOf(op) => mem[k] # 0 /\ Gives(op, k) = mem[k])
  BY <1>1, <1>3, <1>6, HasTail
<1>a. PICK q : q = Persisting(s, ops)
  OBVIOUS
<1>b. Brings(q) /\ q.at \in {"mark", "install", "rest"} /\ q.ops = ops /\ q.at \in Inside /\ q.at \notin Writing /\ q.at # "restore"
  <2>1. job[s] \in JobType /\ ops \in Seq(Op) /\ q = Persisting(s, ops)
    BY <1>3, <1>4, <1>a
  <2>2. q.ops = ops
    BY <2>1, GoesOn
  <2>3. Brings(q) /\ q.at \in {"mark", "install", "rest"}
    BY <1>5, <2>1, GoesBrings
  <2> QED
    BY <2>2, <2>3 DEF Inside, Writing
<1>8. CASE txn.open
  <2>1. txn' = [txn EXCEPT !.log = Append(@, op)] /\ Takes(s, q)
    BY <1>1, <1>8, <1>a DEF RecordOrApply, Takes
  <2>2. txn \in [snapshot : Snaps, log : Seq(Op), open : BOOLEAN] /\ GoodJob(q)
    BY <1>8, <2>1, StoreFacts, Became DEF GoodTxn
  <2>3. txn'.log = Append(txn.log, op) /\ txn'.open /\ txn'.snapshot = txn.snapshot
    BY <1>8, <2>1, <2>2
  <2>4. \A k \in LogKey \ excused : \A v : HasOnly(txn.log, k, v) /\ (v = mem[k] \/ k \notin CellsOf(op)) => HasOnly(txn'.log, k, v)
    BY <1>4, <1>7, <2>2, <2>3, HasAppend
  <2>5. mem' = mem /\ data' = data /\ excused' = excused /\ UNCHANGED <<script, idem, executions, attached>>
    BY <1>2 DEF storeVars, engineHistory
  <2>6. ASSUME NEW k \in LogKey \ excused', k \in PendingBut(s) PROVE LeftAlone(k)
    <3>1. k \notin CellsOf(op)
      BY <1>4, <2>5, <2>6, StoreFacts, KeysAre
    <3> QED
      BY <1>8, <2>3, <2>4, <2>5, <3>1 DEF LeftAlone
  <2>7. ASSUME NEW k \in LogKey \ excused' PROVE LogView(mem', data', txn', k, mem'[k]) /\ HasOnly(q.ops, k, mem'[k])
    <3>1. LogView(mem, data, txn, k, mem[k])
      BY <2>5 DEF OnceInv, LogKept
    <3>2. HasOnly(txn'.log, k, mem[k]) /\ HasOnly(q.ops, k, mem[k])
      BY <1>7, <1>b, <2>4, <2>5, <3>1 DEF LogView
    <3> QED
      BY <1>8, <2>3, <2>5, <3>1, <3>2 DEF LogView
  <2>8. LogKept'
    BY <1>b, <2>1, <2>2, <2>5, <2>6, <2>7, StoreFacts, LogKeeps DEF OnceInv
  <2>9. Detached'
    BY <1>b, <2>1, <2>2, <2>5, StoreFacts, DetachedKeeps DEF OnceInv
  <2> QED
    BY <1>b, <2>1, <2>2, <2>5, <2>8, <2>9, StoreFacts, OnceQuiet
<1>9. CASE ~txn.open /\ attached
  <2>1. PICK r : r = [job[s] EXCEPT !.writes = Writes(op), !.at = "write"]
    OBVIOUS
  <2>2. UNCHANGED txn /\ Takes(s, r)
    BY <1>1, <1>9, <2>1 DEF RecordOrApply, Takes
  <2>3. r.at = "write" /\ r.ops = job[s].ops /\ r.snapshot = job[s].snapshot
    BY <1>3, <2>1 DEF JobType
  <2>4. Brings(r) /\ r.at \in Inside /\ r.at # "restore"
    BY <1>5, <2>3 DEF Brings, Inside
  <2> QED
    BY <1>2, <1>9, <2>2, <2>3, <2>4, StoreFacts, OnlyJob DEF storeVars, engineHistory
<1>10. CASE ~txn.open /\ ~attached
  <2>1. UNCHANGED txn /\ Takes(s, q)
    BY <1>1, <1>10, <1>a DEF RecordOrApply, Takes
  <2>2. \A k \in LogKey \ excused' : HasOnly(job[s].ops, k, mem[k]) => HasOnly(q.ops, k, mem[k])
    BY <1>2, <1>7, <1>b DEF engineHistory
  <2> QED
    BY <1>2, <1>b, <2>1, <2>2, StoreFacts, OnlyJob DEF storeVars, engineHistory
<1> QED
  BY <1>8, <1>9, <1>10

\* A write changes a cell of its operation to what that gives, or nothing.
LEMMA WriteGives ==
    ASSUME data \in [Cell -> Val], NEW op \in Op, NEW writes \in Seq(WriteStep), writes # <<>>, WritesOf(writes, op),
           Perform(Head(writes))
    PROVE  \A c \in Cell : data'[c] = data[c] \/ (c \in CellsOf(op) /\ data'[c] = Gives(op, c))
<1>1. PICK w : w = Head(writes)
  OBVIOUS
<1>2. w \in WriteStep /\ w = writes[1] /\ 1 \in 1 .. Len(writes)
  <2>1. Len(writes) \in Nat \ {0}
    BY TailOf
  <2> QED
    BY <1>1, <2>1, TailOf
<1>3. w.part # "rows" => w.cell \in CellsOf(op) /\ w.val = Gives(op, w.cell)
  BY <1>2 DEF WritesOf
<1>4. w.part \in {"value", "checksum", "rows"}
  BY <1>2 DEF WriteStep, Part
<1>5. CASE w.part = "value"
  <2>1. data' = [data EXCEPT ![w.cell] = w.val]
    BY <1>1, <1>5 DEF Perform
  <2> QED
    BY <1>3, <1>5, <2>1
<1>6. CASE w.part # "value"
  <2>1. data' = data
    BY <1>1, <1>4, <1>6 DEF Perform, storeVars
  <2> QED
    BY <2>1
<1> QED
  BY <1>5, <1>6

LEMMA StoreWriteOnce ==
    ASSUME StoreInv, StoreTypes', SideTypes, OnceInv, NEW s \in Session, StoreWrite(s)
    PROVE  OnceInv'
<1>1. PICK op, writes, w : op = Head(job[s].ops) /\ writes = job[s].writes /\ w = Head(writes)
  OBVIOUS
<1>2. PICK left : left = (IF w.part = "rows" THEN Removals(w.cell) ELSE <<>>) \o Tail(writes)
  OBVIOUS
<1>3. /\ job[s].at \in {"write", "apply_write"} /\ Perform(w)
      /\ UNCHANGED <<attached, mem, txn, script, engineHistory>>
  BY <1>1 DEF StoreWrite
<1>4. /\ job[s] \in JobType /\ JobStage(job[s]) /\ writes # <<>> /\ writes \in Seq(WriteStep)
      /\ job[s].ops # <<>> /\ job[s].ops \in Seq(Op)
  BY <1>1, <1>3, StoreFacts, JobParts DEF JobStage
<1>5. op \in Op /\ WritesOf(writes, op) /\ CellsOf(op) \subseteq Pending(s)
  <2>1. WritesOf(writes, op)
    BY <1>1, <1>4 DEF StoreInv, WritesFit
  <2>2. Pending(s) = CellsOfAll(job[s].ops)
    BY <1>3 DEF Pending, Is
  <2> QED
    BY <1>1, <1>4, <2>1, <2>2, CellsTail, TailOf
<1>6. \A c \in Cell : data'[c] = data[c] \/ (c \in CellsOf(op) /\ data'[c] = Gives(op, c))
  <2>1. data \in [Cell -> Val]
    BY StoreFacts DEF StoreTypes
  <2> QED
    BY <1>1, <1>3, <1>4, <1>5, <2>1, WriteGives
<1>7. PICK r : r = IF left # <<>> THEN [job[s] EXCEPT !.writes = left]
                   ELSE IF job[s].at = "write" THEN Persisting(s, Tail(job[s].ops))
                   ELSE [job[s] EXCEPT !.at = "apply", !.ops = Tail(job[s].ops), !.writes = <<>>]
  OBVIOUS
<1>8. Takes(s, r)
  BY <1>1, <1>2, <1>7 DEF StoreWrite, Takes, Is
<1>9. attached /\ attached'
  BY <1>3 DEF OnceInv, Detached, Writing
<1>10. job[s].at = "write" => (LogTable \in DOMAIN job[s].snapshot => job[s].snapshot[LogTable] # 0)
  BY DEF OnceInv, Brought, Brings
<1>11. /\ r.ops = job[s].ops \/ r.ops = Tail(job[s].ops)
       /\ Brings(r) /\ r.at # "restore"
       /\ r.at \in Inside \/ job[s].at \notin Inside
  <2>1. CASE left # <<>>
    <3>1. r.ops = job[s].ops /\ r.at = job[s].at /\ r.snapshot = job[s].snapshot
      BY <1>4, <1>7, <2>1 DEF JobType
    <3> QED
      BY <1>3, <1>10, <3>1 DEF Brings, Inside
  <2>2. CASE left = <<>> /\ job[s].at = "write"
    <3>1. PICK ops : ops = Tail(job[s].ops) /\ ops \in Seq(Op)
      BY <1>4, TailOf
    <3>2. r = Persisting(s, ops) /\ job[s] \in JobType
      BY <1>4, <1>7, <2>2, <3>1
    <3>3. r.ops = ops
      BY <3>1, <3>2, GoesOn
    <3>4. Brings(r) /\ r.at \in {"mark", "install", "rest"}
      BY <1>10, <2>2, <3>2, GoesBrings
    <3> QED
      BY <3>1, <3>3, <3>4 DEF Inside
  <2>3. CASE left = <<>> /\ job[s].at = "apply_write"
    <3>1. r = [job[s] EXCEPT !.at = "apply", !.ops = Tail(job[s].ops), !.writes = <<>>]
      BY <1>7, <2>3
    <3>2. r.at = "apply" /\ r.ops = Tail(job[s].ops)
      BY <1>4, <3>1 DEF JobType
    <3> QED
      BY <2>3, <3>2 DEF Brings, Inside
  <2> QED
    BY <1>3, <2>1, <2>2, <2>3
<1>12. \A k \in LogKey \ excused : HasOnly(job[s].ops, k, mem[k])
  BY DEF OnceInv, LogKept
<1>13. \A k \in LogKey \ excused : HasOnly(r.ops, k, mem[k]) /\ (k \in CellsOf(op) => Gives(op, k) = mem[k])
  BY <1>1, <1>4, <1>11, <1>12, HasTail
<1>14. UNCHANGED <<mem, txn, script, idem, executions, excused>> /\ excused' = excused /\ mem' = mem /\ txn' = txn
  BY <1>3 DEF engineHistory
<1>15. ASSUME NEW k \in LogKey \ excused', k \in PendingBut(s) PROVE LeftAlone(k)
  <2>1. k \notin CellsOf(op) /\ k \in Cell
    BY <1>5, <1>14, <1>15, StoreFacts, KeysAre
  <2> QED
    BY <1>6, <1>14, <2>1 DEF LeftAlone
<1>16. ASSUME NEW k \in LogKey \ excused' PROVE LogView(mem', data', txn', k, mem'[k]) /\ HasOnly(r.ops, k, mem'[k])
  <2>1. LogView(mem, data, txn, k, mem[k]) /\ k \in Cell
    BY <1>14, KeysAre DEF OnceInv, LogKept
  <2>2. data'[k] \in {data[k], mem[k]}
    BY <1>6, <1>13, <1>14, <2>1
  <2> QED
    BY <1>13, <1>14, <2>1, <2>2 DEF LogView
<1>17. GoodJob(r) /\ StoreTypes
  BY <1>8, StoreFacts, Became
<1>18. LogKept'
  BY <1>8, <1>11, <1>14, <1>15, <1>16, <1>17, LogKeeps DEF OnceInv
<1>19. Detached'
  BY <1>9 DEF Detached
<1> QED
  BY <1>8, <1>11, <1>14, <1>17, <1>18, <1>19, OnceQuiet
LEMMA IngestOnce ==
    ASSUME StoreInv, StoreTypes', SideTypes, OnceInv, NEW s \in Session, NEW t \in Table, NEW image \in [KeysOf(t) -> Val],
           IngestTable(s, t, image)
    PROVE  OnceInv'
<1>1. PICK keys, new : /\ keys = Ordered({k \in KeysOf(t) : image[k] # 0})
                       /\ new = [c \in Cell |-> IF c = t THEN 1 ELSE IF c \in KeysOf(t) THEN image[c] ELSE 0]
  OBVIOUS
<1>2. PICK ops : ops = <<[cell |-> t, val |-> 1]>> \o [i \in DOMAIN keys |-> [cell |-> keys[i], val |-> image[keys[i]]]]
  OBVIOUS
<1>3. PICK snap : snap = [c \in {t} \cup KeysOf(t) |-> new[c]]
  OBVIOUS
<1>4. PICK r : r = [Resting EXCEPT !.at = "mark", !.snapshot = snap, !.ops = ops]
  OBVIOUS
<1>5. /\ job' = [job EXCEPT ![s] = r]
      /\ excused' = excused \cup (({t} \cup KeysOf(t)) \cap PendingBut(s)) \cup {c \in {t} \cup KeysOf(t) : mem[c] # new[c]}
      /\ UNCHANGED <<storeVars, attached, txn, mem, script, idem, executions>>
  BY <1>1, <1>2, <1>3, <1>4 DEF IngestTable
<1>6. ops \in Seq(Op) /\ ops # <<>> /\ \A i \in 1 .. Len(ops) : OfImage(t, image, ops[i])
  BY <1>1, <1>2, ImageOps
<1>7. r.at = "mark" /\ r.ops = ops /\ r.snapshot = snap
  BY <1>4 DEF Resting
<1>8. ASSUME NEW k \in LogKey \ excused' PROVE HasOnly(ops, k, mem[k])
  <2> SUFFICES ASSUME NEW i \in 1 .. Len(ops), k \in CellsOf(ops[i]) PROVE mem[k] # 0 /\ Gives(ops[i], k) = mem[k]
    BY DEF HasOnly
  <2>1. OfImage(t, image, ops[i])
    BY <1>6
  <2>2. /\ ops[i] \in Op /\ ops[i].val # 0 /\ ops[i].cell \in {t} \cup KeysOf(t)
        /\ ops[i].val = IF ops[i].cell = t THEN 1 ELSE image[ops[i].cell]
    BY <2>1 DEF OfImage
  <2>3. k = ops[i].cell
    BY <2>2, OpIs
  <2>4. k # t /\ k \in Cell
    BY LogKeys
  <2>5. new[k] = image[k] /\ k \in KeysOf(t)
    BY <1>1, <2>2, <2>3, <2>4
  <2>6. mem[k] = new[k]
    BY <1>5, <2>5
  <2> QED
    BY <2>2, <2>3, <2>4, <2>5, <2>6 DEF Gives
<1>9. Brings(r)
  <2>1. LogTable \in Table /\ LogTable \in Cell /\ LogTable \notin KeysOf(t)
    BY KeysAre DEF Table
  <2>2. LogTable \in {t} \cup KeysOf(t) => snap[LogTable] = 1
    BY <1>1, <1>3, <2>1
  <2>3. DOMAIN snap = {t} \cup KeysOf(t)
    BY <1>3
  <2> QED
    BY <1>7, <2>2, <2>3 DEF Brings
<1>10. r.at \in Inside /\ r.at \notin Writing /\ r.at # "restore" /\ Takes(s, r) /\ excused \subseteq excused'
  BY <1>5, <1>7 DEF Inside, Writing, Takes
<1> QED
  BY <1>5, <1>7, <1>8, <1>9, <1>10, StoreFacts, OnlyJob DEF storeVars

\* Nothing that the invariant speaks of has changed, but that more may be excused.
LEMMA SameOnce ==
    ASSUME OnceInv, UNCHANGED <<mem, data, txn, job, script, idem, executions, attached>>, excused \subseteq excused'
    PROVE  OnceInv'
<1>1. CallsProper' /\ Brought' /\ Detached'
  BY DEF OnceInv, CallsProper, Brought, Detached
<1>2. LooksFit'
  BY DEF OnceInv, LooksFit, LooksAt
<1>3. CallsOnce'
  BY DEF OnceInv, CallsOnce
<1>4. KeysOnce'
  BY DEF OnceInv, KeysOnce
<1>5. LogKept'
  BY DEF OnceInv, LogKept
<1> QED
  BY <1>1, <1>2, <1>3, <1>4, <1>5 DEF OnceInv

\* The session goes on in its script, in no call.
LEMMA OnceMoves ==
    ASSUME StoreTypes, StoreTypes', SideTypes, OnceInv, NEW s \in Session, NEW r, Takes(s, r),
           NEW p \in Seq(Statement), script' = [script EXCEPT ![s] = p], UNCHANGED <<mem, executions, idem>>, idem[s] = 0,
           Proper(p, 0), LooksAt(p, mem, excused'), excused \subseteq excused', LogKept', Brings(r), Detached'
    PROVE  OnceInv'
<1>1. PICK k \in LogKey \cup {0} : k = 0
  OBVIOUS
<1>2. idem' = [idem EXCEPT ![s] = k]
  <2>1. idem \in [Session -> LogKey \cup {0}]
    BY DEF SideTypes
  <2> QED
    BY <1>1, <2>1
<1>3. Spares(s)
  BY DEF Spares
<1>4. ASSUME NEW c \in LogKey \ excused'
      PROVE  KeyAt(c, mem', executions') /\ (executions'[c] = 1 => mem'[c] # 0 \/ c = k \/ c \in Executing(s))
  <2>1. KeyAt(c, mem, executions) /\ (executions[c] = 1 => mem[c] # 0 \/ \E u \in Session : idem[u] = c)
    BY DEF OnceInv, KeysOnce
  <2>2. c # 0
    BY LogKeys
  <2>3. ASSUME NEW u \in Session, idem[u] = c PROVE c \in Executing(s)
    BY <2>2, <2>3 DEF Executing
  <2> QED
    BY <2>1, <2>3
<1>5. GoodJob(r)
  BY Became
<1> QED
  BY <1>1, <1>2, <1>3, <1>4, <1>5, OnceStep

\* The next statement is nothing to a call.
LEMMA Passes ==
    ASSUME SideTypes, OnceInv, NEW s \in Session, script[s] # <<>>, Head(script[s]).do \notin Effects \cup {"ensure", "lookup"},
           NEW p, p = Tail(script[s])
    PROVE  idem[s] = 0 /\ p \in Seq(Statement) /\ Proper(p, 0) /\ \A m, x : LooksAt(p, m, x)
<1>1. PICK q \in Seq(Statement) : q = script[s]
  BY DEF SideTypes
<1>2. PICK k \in LogKey \cup {0} : k = idem[s]
  BY SideFacts
<1>3. Proper(q, k)
  BY <1>1, <1>2 DEF OnceInv, CallsProper
<1>4. q # <<>> /\ Head(q) = q[1]
  BY <1>1, <1>3, ProperHead
<1>5. k = 0
  BY <1>1, <1>3, <1>4, ProperHead
<1>6. q[1].do # "lookup" /\ q[1].do # "ensure" /\ ~Created(q[1])
  BY <1>1, <1>4 DEF Created, Effects
<1>7. Proper(q, 0) /\ p = Tail(q)
  BY <1>1, <1>3, <1>5
<1>8. Proper(p, 0) /\ p \in Seq(Statement) /\ (p # <<>> => p[1].do # "lookup")
  BY <1>4, <1>6, <1>7, ProperTail
<1> QED
  BY <1>2, <1>5, <1>8 DEF LooksAt

LEMMA Stopped == <<>> \in Seq(Statement) /\ Proper(<<>>, 0) /\ \A m, x : LooksAt(<<>>, m, x)
BY ProperEmpty, NoScript DEF LooksAt

LEMMA NoTxnView ==
    ASSUME NEW m, NEW d, NEW t, NEW k, NEW v, LogView(m, d, t, k, v)
    PROVE  LogView(m, d, NoTxn, k, v)
BY NoTxnIs, HasEmpty DEF LogView

\* The script goes on, in no call; the session's job and what it works on are as they were.
LEMMA ScriptOnce ==
    ASSUME StoreInv, StoreTypes', SideTypes, OnceInv, NEW s \in Session,
           NEW p \in Seq(Statement), script' = [script EXCEPT ![s] = p],
           UNCHANGED <<mem, data, txn, job, executions, idem, attached>>, idem[s] = 0,
           Proper(p, 0), LooksAt(p, mem, excused'), excused \subseteq excused'
    PROVE  OnceInv'
<1>1. Takes(s, job[s]) /\ StoreTypes
  BY StoreFacts, TakesSame
<1>2. Brings(job[s])
  BY DEF OnceInv, Brought
<1>3. LogKept'
  BY DEF OnceInv, LogKept
<1>4. Detached'
  BY DEF OnceInv, Detached
<1> QED
  BY <1>1, <1>2, <1>3, <1>4, OnceMoves

LEMMA HeadingIs ==
    ASSUME StoreInv, SideTypes, OnceInv, NEW s \in Session, NEW what \in {"begin", "commit_txn", "rollback"}, Heading(s, what),
           NEW p, p = Tail(script[s])
    PROVE  /\ job[s] = Resting /\ idem[s] = 0 /\ p \in Seq(Statement) /\ Proper(p, 0) /\ \A m, x : LooksAt(p, m, x)
           /\ Advance(s) => script' = [script EXCEPT ![s] = p]
<1>1. job[s].at = "rest" /\ script[s] # <<>> /\ Head(script[s]).do = what
  BY DEF Heading, Is
<1>2. job[s] = Resting
  BY <1>1, StoreFacts DEF JobStage
<1>3. what \notin Effects \cup {"ensure", "lookup"}
  BY DEF Effects
<1>4. idem[s] = 0 /\ p \in Seq(Statement) /\ Proper(p, 0) /\ \A m, x : LooksAt(p, m, x)
  BY <1>1, <1>3, Passes
<1> QED
  BY <1>2, <1>4 DEF Advance

LEMMA BeginOnce ==
    ASSUME StoreInv, StoreTypes', SideTypes, OnceInv, NEW s \in Session, Begin(s)
    PROVE  OnceInv'
<1>1. PICK p : p = Tail(script[s])
  OBVIOUS
<1>2. /\ job[s] = Resting /\ idem[s] = 0 /\ p \in Seq(Statement) /\ Proper(p, 0) /\ \A m, x : LooksAt(p, m, x)
      /\ Advance(s) => script' = [script EXCEPT ![s] = p]
  BY <1>1, HeadingIs DEF Begin
<1>3. UNCHANGED <<mem, data, job, executions, idem, attached>>
  BY DEF Begin, storeVars
<1>4. CASE txn.open
  <2>1. script' = [script EXCEPT ![s] = <<>>] /\ UNCHANGED <<txn, excused>>
    BY <1>4 DEF Begin, Stop
  <2> QED
    BY <1>2, <1>3, <2>1, Stopped, ScriptOnce
<1>5. CASE ~txn.open
  <2>1. /\ txn' = [snapshot |-> mem, log |-> <<>>, open |-> TRUE] /\ script' = [script EXCEPT ![s] = p]
        /\ excused' = excused \cup PendingBut(s) \cup Executing(s)
    BY <1>2, <1>5 DEF Begin
  <2>2. txn'.snapshot = mem /\ txn'.log = <<>>
    BY <2>1
  <2>3. ASSUME NEW k \in LogKey \ excused' PROVE LogView(mem', data', txn', k, mem'[k]) /\ HasOnly(Resting.ops, k, mem'[k])
    <3>1. LogView(mem, data, txn, k, mem[k])
      BY <2>1 DEF OnceInv, LogKept
    <3>2. HasOnly(txn'.log, k, mem[k]) /\ HasOnly(Resting.ops, k, mem[k])
      BY <2>2, HasEmpty, RestBrings
    <3> QED
      BY <1>3, <2>2, <3>1, <3>2 DEF LogView
  <2>4. Takes(s, Resting) /\ StoreTypes
    BY <1>2, <1>3, StoreFacts, TakesSame
  <2>5. LogKept'
    BY <2>1, <2>3, <2>4, RestBrings, RestingIs, LogKeeps DEF OnceInv
  <2>6. Detached'
    BY <1>3 DEF OnceInv, Detached
  <2> QED
    BY <1>2, <1>3, <2>1, <2>4, <2>5, <2>6, RestBrings, OnceMoves
<1> QED
  BY <1>4, <1>5

LEMMA CommitTxnOnce ==
    ASSUME StoreInv, StoreTypes', SideTypes, OnceInv, NEW s \in Session, CommitTxn(s)
    PROVE  OnceInv'
<1>1. PICK p : p = Tail(script[s])
  OBVIOUS
<1>2. /\ job[s] = Resting /\ idem[s] = 0 /\ p \in Seq(Statement) /\ Proper(p, 0) /\ \A m, x : LooksAt(p, m, x)
      /\ script' = [script EXCEPT ![s] = p]
  BY <1>1, HeadingIs DEF CommitTxn
<1>3. UNCHANGED <<mem, data, executions, idem, attached>> /\ txn' = NoTxn
  BY DEF CommitTxn, storeVars
<1>4. PICK r : /\ Takes(s, r) /\ excused \subseteq excused' /\ (r = Resting \/ (r.at = "apply" /\ r.ops = txn.log /\ attached))
  <2>1. CASE ~txn.open \/ ~attached
    <3>1. UNCHANGED <<job, excused>>
      BY <2>1 DEF CommitTxn
    <3>2. Takes(s, Resting)
      BY <1>2, <3>1, StoreFacts, TakesSame
    <3> QED
      BY <3>1, <3>2
  <2>2. CASE txn.open /\ attached
    <3>1. PICK r : r = [Resting EXCEPT !.at = "apply", !.ops = txn.log, !.snapshot = txn.snapshot]
      OBVIOUS
    <3>2. Takes(s, r) /\ excused' = excused \cup (CellsOfAll(txn.log) \cap PendingBut(s))
      BY <2>2, <3>1 DEF CommitTxn, Takes
    <3>3. r.at = "apply" /\ r.ops = txn.log
      BY <3>1 DEF Resting
    <3> QED
      BY <2>2, <3>2, <3>3
  <2> QED
    BY <2>1, <2>2
<1>5. GoodJob(r) /\ StoreTypes
  BY <1>4, StoreFacts, Became
<1>6. ASSUME NEW k \in LogKey \ excused' PROVE LogView(mem', data', txn', k, mem'[k]) /\ HasOnly(r.ops, k, mem'[k])
  <2>1. LogView(mem, data, txn, k, mem[k])
    BY <1>4 DEF OnceInv, LogKept
  <2>2. LogView(mem, data, txn', k, mem[k])
    BY <1>3, <2>1, NoTxnView
  <2>3. HasOnly(r.ops, k, mem[k])
    BY <1>4, <2>1, RestBrings DEF LogView
  <2> QED
    BY <1>3, <2>2, <2>3
<1>7. ASSUME NEW k \in LogKey \ excused' PROVE LeftAlone(k)
  <2>1. \A v : HasOnly(txn'.log, k, v)
    BY <1>3, NoTxnIs, HasEmpty
  <2> QED
    BY <1>3, <2>1, NoTxnIs DEF LeftAlone
<1>8. r.at # "restore" /\ Brings(r) /\ (attached \/ r.at \notin Writing)
  BY <1>4, RestBrings DEF Brings, Writing
<1>9. LogKept'
  BY <1>4, <1>5, <1>6, <1>7, <1>8, LogKeeps DEF OnceInv
<1>10. Detached'
  BY <1>3, <1>4, <1>5, <1>8, DetachedKeeps DEF OnceInv
<1> QED
  BY <1>2, <1>3, <1>4, <1>5, <1>8, <1>9, <1>10, OnceMoves

LEMMA RollbackOnce ==
    ASSUME StoreInv, StoreTypes', SideTypes, OnceInv, NEW s \in Session, Rollback(s)
    PROVE  OnceInv'
<1>1. PICK p : p = Tail(script[s])
  OBVIOUS
<1>2. /\ job[s] = Resting /\ idem[s] = 0 /\ p \in Seq(Statement) /\ Proper(p, 0) /\ \A m, x : LooksAt(p, m, x)
      /\ script' = [script EXCEPT ![s] = p]
  BY <1>1, HeadingIs DEF Rollback
<1>3. UNCHANGED <<mem, data, executions, idem, attached>> /\ txn' = NoTxn
  BY DEF Rollback, storeVars
<1>4. CASE ~txn.open
  <2>1. UNCHANGED <<job, excused>> /\ txn' = txn
    BY <1>3, <1>4, StoreFacts DEF Rollback, GoodTxn
  <2> QED
    BY <1>2, <1>3, <2>1, ScriptOnce
<1>5. CASE txn.open
  <2>1. PICK r : r = [Resting EXCEPT !.at = "restore", !.snapshot = txn.snapshot]
    OBVIOUS
  <2>2. Takes(s, r) /\ excused' = excused \cup PendingBut(s) \cup Executing(s)
    BY <1>5, <2>1 DEF Rollback, Takes
  <2>3. r.at = "restore" /\ r.ops = <<>> /\ r.snapshot = txn.snapshot
    BY <2>1 DEF Resting
  <2>4. GoodJob(r) /\ StoreTypes
    BY <2>2, StoreFacts, Became
  <2>5. ASSUME NEW k \in LogKey \ excused' PROVE data[k] \in {0, txn.snapshot[k]}
    <3>1. k \in Cell \ excused /\ k \notin PendingBut(s)
      BY <2>2, <2>5, KeysAre
    <3>2. CASE attached
      <4>2. Pending(s) = {}
        BY <1>2, StoreFacts, RestingIs
      <4>3. \A u \in Session : k \notin Pending(u)
        BY <3>1, <4>2, PendingIs
      <4>4. FollowsAt(Resting, mem, data, txn, k)
        BY <3>1, <3>2, <4>3 DEF StoreInv, Follows
      <4> QED
        BY <1>5, <4>4, RestFollows
    <3>3. CASE ~attached
      BY <3>3 DEF OnceInv, Detached
    <3> QED
      BY <3>2, <3>3
  <2>6. ASSUME NEW k \in LogKey \ excused'
        PROVE  /\ LogView(mem', data', txn', k, mem'[k]) /\ HasOnly(r.ops, k, mem'[k])
               /\ LogView(mem', data', txn', k, r.snapshot[k])
    <3>1. LogView(mem, data, txn, k, mem[k])
      BY <2>2 DEF OnceInv, LogKept
    <3>2. LogView(mem, data, txn', k, mem[k])
      BY <1>3, <3>1, NoTxnView
    <3>3. \A v : HasOnly(r.ops, k, v) /\ HasOnly(NoTxn.log, k, v)
      BY <2>3, HasEmpty, NoTxnIs
    <3>4. LogView(mem, data, NoTxn, k, txn.snapshot[k])
      BY <1>5, <2>5, <3>1, <3>3, NoTxnIs DEF LogView
    <3> QED
      BY <1>3, <2>3, <3>2, <3>3, <3>4
  <2>7. ASSUME NEW k \in LogKey \ excused' PROVE LeftAlone(k)
    <3>1. \A v : HasOnly(txn'.log, k, v)
      BY <1>3, NoTxnIs, HasEmpty
    <3> QED
      BY <1>3, <3>1, NoTxnIs DEF LeftAlone
  <2>8. Brings(r) /\ r.at \notin Writing /\ excused \subseteq excused'
    BY <2>2, <2>3 DEF Brings, Writing
  <2>9. LogKept'
    BY <2>2, <2>4, <2>6, <2>7, <2>8, LogKeeps DEF OnceInv
  <2>10. Detached'
    BY <1>3, <2>2, <2>4, <2>8, DetachedKeeps DEF OnceInv
  <2> QED
    BY <1>2, <1>3, <2>2, <2>4, <2>8, <2>9, <2>10, OnceMoves
<1> QED
  BY <1>4, <1>5

LEMMA CallVersionOnce ==
    ASSUME StoreInv, StoreTypes', SideTypes, OnceInv, NEW s \in Session, CallVersion(s)
    PROVE  OnceInv'
<1>1. PICK p, r : p = Tail(script[s]) /\ r = [job[s] EXCEPT !.at = Head(script[s]).do]
  OBVIOUS
<1>2. /\ Head(script[s]).do \in {"commit", "branch", "branch_from", "checkout", "merge", "log"} /\ script[s] # <<>>
      /\ job[s].at = "rest" /\ Takes(s, r) /\ script' = [script EXCEPT ![s] = p]
      /\ UNCHANGED <<mem, data, txn, executions, idem, attached, excused>>
  BY <1>1 DEF CallVersion, Is, Takes, Advance, storeVars, engineHistory
<1>3. idem[s] = 0 /\ p \in Seq(Statement) /\ Proper(p, 0) /\ \A m, x : LooksAt(p, m, x)
  <2>1. Head(script[s]).do \notin Effects \cup {"ensure", "lookup"}
    BY <1>2 DEF Effects
  <2> QED
    BY <1>1, <1>2, <2>1, Passes
<1>4. r.at = Head(script[s]).do /\ r.ops = <<>>
  BY <1>1, <1>2, StoreFacts DEF JobType, JobStage, Resting
<1>5. r.at \notin Writing /\ r.at # "restore" /\ Brings(r) /\ \A k, v : HasOnly(r.ops, k, v)
  BY <1>2, <1>4, HasEmpty DEF Writing, Brings
<1>6. GoodJob(r) /\ StoreTypes
  BY <1>2, StoreFacts, Became
<1>7. LogKept' /\ Detached'
  BY <1>2, <1>5, <1>6, LogStays, DetachedKeeps DEF OnceInv
<1> QED
  BY <1>2, <1>3, <1>5, <1>6, <1>7, OnceMoves

LEMMA VersionCallOnce ==
    ASSUME OnceInv, NEW s \in Session, VersionCall(s)
    PROVE  OnceInv'
BY SameOnce DEF VersionCall, storeVars, engineVars, engineHistory

LEMMA ReturnOnce ==
    ASSUME StoreInv, StoreTypes', SideTypes, OnceInv, SyncInv, NEW s \in Session, Return(s)
    PROVE  OnceInv'
<1>1. /\ UNCHANGED <<mem, data, txn, executions, idem, attached, excused>>
      /\ task[s].at \in {"done", "refused"}
  BY DEF Return, engineHistory, storeVars
<1>2. job[s].at \in VersionCalls
  BY <1>1 DEF SyncInv, JobShape
<1>3. job[s].at \notin Inside /\ job[s].ops = <<>>
  BY <1>2, StoreFacts DEF JobStage, VersionCalls, Inside
<1>4. idem[s] = 0
  BY <1>3 DEF OnceInv, CallsProper
<1>5. PICK q : q = script[s] /\ q \in Seq(Statement) /\ Proper(q, 0) /\ LooksAt(q, mem, excused)
  <2>1. Proper(script[s], 0) /\ LooksAt(script[s], mem, excused) /\ script[s] \in Seq(Statement)
    BY <1>4 DEF OnceInv, CallsProper, LooksFit, SideTypes
  <2> QED
    BY <2>1
<1>6. PICK p \in Seq(Statement) : script' = [script EXCEPT ![s] = p] /\ Proper(p, 0) /\ LooksAt(p, mem, excused)
  <2>1. CASE Stop(s)
    BY <2>1, Stopped DEF Stop
  <2>2. CASE UNCHANGED script
    <3>1. script' = [script EXCEPT ![s] = q]
      BY <1>5, <2>2 DEF SideTypes
    <3> QED
      BY <1>5, <3>1
  <2> QED
    BY <2>1, <2>2 DEF Return
<1>7. PICK r : Takes(s, r) /\ (r = Resting \/ r.at \in {"take", "load"}) /\ r.ops = <<>>
  <2>1. CASE job' = [job EXCEPT ![s] = Resting]
    BY <2>1, RestBrings DEF Takes
  <2>2. CASE job' = [job EXCEPT ![s] = CASE Is(s, "commit") -> [@ EXCEPT !.at = "take"]
                                        [] Is(s, "checkout") -> [@ EXCEPT !.at = "load", !.snapshot = commits[task[s].id].root]
                                        [] OTHER -> Resting]
    <3>1. PICK r : r = CASE Is(s, "commit") -> [job[s] EXCEPT !.at = "take"]
                         [] Is(s, "checkout") -> [job[s] EXCEPT !.at = "load", !.snapshot = commits[task[s].id].root]
                         [] OTHER -> Resting
      OBVIOUS
    <3>2. Takes(s, r)
      BY <2>2, <3>1, Zenon DEF Takes
    <3>3. CASE Is(s, "commit")
      <4>1. ~Is(s, "checkout")
        BY <3>3 DEF Is
      <4>2. r = [job[s] EXCEPT !.at = "take"]
        BY <3>1, <3>3, <4>1
      <4>3. r.at = "take" /\ r.ops = <<>>
        BY <1>3, <4>2, StoreFacts DEF JobType
      <4> QED
        BY <3>2, <4>3
    <3>4. CASE Is(s, "checkout")
      <4>1. ~Is(s, "commit")
        BY <3>4 DEF Is
      <4>2. r = [job[s] EXCEPT !.at = "load", !.snapshot = commits[task[s].id].root]
        BY <3>1, <3>4, <4>1
      <4>3. r.at = "load" /\ r.ops = <<>>
        BY <1>3, <4>2, StoreFacts DEF JobType
      <4> QED
        BY <3>2, <4>3
    <3>5. CASE ~Is(s, "commit") /\ ~Is(s, "checkout")
      <4>1. r = Resting
        BY <3>1, <3>5
      <4> QED
        BY <3>2, <4>1, RestBrings
    <3> QED
      BY <3>3, <3>4, <3>5
  <2> QED
    BY <2>1, <2>2 DEF Return
<1>8. r.at \notin Writing /\ r.at # "restore" /\ Brings(r) /\ \A k, v : HasOnly(r.ops, k, v)
  BY <1>7, RestBrings, HasEmpty DEF Writing, Brings
<1>9. GoodJob(r) /\ StoreTypes
  BY <1>7, StoreFacts, Became
<1>10. LogKept' /\ Detached'
  BY <1>1, <1>7, <1>8, <1>9, LogStays, DetachedKeeps DEF OnceInv
<1>11. LooksAt(p, mem, excused') /\ excused \subseteq excused'
  BY <1>1, <1>6
<1> QED
  BY <1>1, <1>4, <1>6, <1>7, <1>8, <1>9, <1>10, <1>11, OnceMoves

\* The log table is there, or about to be created, before the key is looked up.
LEMMA EnsureOnce ==
    ASSUME StoreInv, StoreTypes', SideTypes, OnceInv, NEW s \in Session, EnsureLog(s)
    PROVE  OnceInv'
<1>1. PICK q \in Seq(Statement) : q = script[s]
  BY DEF SideTypes
<1>2. q # <<>> /\ q[1].do = "ensure" /\ job[s].at = "rest"
  BY <1>1 DEF EnsureLog, Heading, Is
<1>3. PICK k \in LogKey \cup {0} : k = idem[s]
  BY SideFacts
<1>4. Proper(q, k)
  BY <1>1, <1>3 DEF OnceInv, CallsProper
<1>5. k = 0 /\ Proper(q, 0)
  <2>1. q[1].do \notin Effects
    BY <1>2 DEF Effects
  <2> QED
    BY <1>4, <2>1, ProperHead
<1>6. PICK rest \in Seq(Statement) : rest = Tail(q)
  <2>1. Tail(q) \in Seq(Statement)
    BY <1>2, TailOf
  <2> QED
    BY <2>1
<1>7. PICK st \in Statement : st = [do |-> "create", cell |-> LogTable, val |-> 0, new |-> 0]
  BY CreateIs
<1>8. script' = [script EXCEPT ![s] = (IF mem[LogTable] = 0 THEN <<st>> ELSE <<>>) \o rest]
  BY <1>1, <1>6, <1>7 DEF EnsureLog
<1>9. UNCHANGED <<mem, data, txn, job, executions, idem, attached, excused>>
  BY DEF EnsureLog, storeVars, engineHistory
<1>10. PICK p \in Seq(Statement) : script' = [script EXCEPT ![s] = p] /\ Proper(p, 0) /\ LooksAt(p, mem, excused')
  <2>1. CASE mem[LogTable] = 0
    <3>1. PICK p : p = <<st>> \o Tail(q)
      OBVIOUS
    <3>2. Created(st)
      BY <1>7 DEF Created
    <3>3. Proper(p, 0) /\ p \in Seq(Statement) /\ p[1].do # "lookup"
      BY <1>2, <1>5, <3>1, <3>2, ProperEnsure
    <3>4. script' = [script EXCEPT ![s] = p]
      BY <1>6, <1>8, <2>1, <3>1
    <3> QED
      BY <3>3, <3>4 DEF LooksAt
  <2>2. CASE mem[LogTable] # 0
    <3>1. <<>> \o rest = rest
      OBVIOUS
    <3>2. script' = [script EXCEPT ![s] = rest]
      BY <1>8, <2>2, <3>1
    <3>3. Proper(rest, 0)
      BY <1>2, <1>5, <1>6, ProperTail
    <3> QED
      BY <2>2, <3>2, <3>3 DEF LooksAt
  <2> QED
    BY <2>1, <2>2
<1> QED
  BY <1>3, <1>5, <1>9, <1>10, ScriptOnce

\* A key is looked up: the call is over if its answer is there, else its statement comes next.
LEMMA LookUpOnce ==
    ASSUME StoreInv, StoreTypes', SideTypes, OnceInv, NEW s \in Session, LookUp(s)
    PROVE  OnceInv'
<1>1. PICK q \in Seq(Statement) : q = script[s]
  BY DEF SideTypes
<1>2. q # <<>> /\ Head(q) = q[1] /\ q[1].do = "lookup" /\ job[s].at = "rest"
  BY <1>1 DEF LookUp, Heading, Is
<1>3. idem[s] = 0 /\ Proper(q, 0)
  <2>1. PICK k \in LogKey \cup {0} : k = idem[s]
    BY SideFacts
  <2>2. Proper(q, k)
    BY <1>1, <2>1 DEF OnceInv, CallsProper
  <2>3. q[1].do \notin Effects
    BY <1>2 DEF Effects
  <2>4. k = 0
    BY <2>2, <2>3, ProperHead
  <2> QED
    BY <2>1, <2>2, <2>4
<1>4. PICK k \in LogKey : k = q[1].cell
  <2>1. q[1] \in Statement
    BY <1>1, <1>2, SideFacts
  <2> QED
    BY <1>2, <2>1 DEF Statement
<1>5. UNCHANGED <<mem, data, txn, job, executions, attached>> /\ excused \subseteq excused'
  BY DEF LookUp, storeVars
<1>6. CASE Logged(k)
  <2>1. PICK p : p = SubSeq(q, 5, Len(q))
    OBVIOUS
  <2>2. script' = [script EXCEPT ![s] = p] /\ UNCHANGED idem
    BY <1>1, <1>2, <1>4, <1>6, <2>1 DEF LookUp
  <2>3. Proper(p, 0) /\ p \in Seq(Statement) /\ LooksAt(p, mem, excused')
    BY <1>2, <1>3, <2>1, ProperFound DEF LooksAt
  <2> QED
    BY <1>3, <1>5, <2>2, <2>3, ScriptOnce
<1>7. CASE ~Logged(k)
  <2>1. PICK p : p = Tail(q)
    OBVIOUS
  <2>2. script' = [script EXCEPT ![s] = p] /\ idem' = [idem EXCEPT ![s] = k] /\ excused' = excused \cup ({k} \cap Executing(s))
    BY <1>1, <1>2, <1>4, <1>7, <2>1 DEF LookUp, Advance
  <2>3. Proper(p, k) /\ p \in Seq(Statement) /\ p # <<>> /\ p[1].do # "lookup" /\ ~Answers(p[1], k)
    BY <1>2, <1>3, <1>4, <2>1, ProperLook
  <2>4. Takes(s, job[s]) /\ GoodJob(job[s]) /\ StoreTypes /\ job[s].at \in Inside /\ Brings(job[s])
    BY <1>2, <1>5, StoreFacts, TakesSame DEF Inside, OnceInv, Brought
  <2>5. LogKept' /\ Detached'
    BY <1>5 DEF OnceInv, LogKept, Detached
  <2>6. \A c \in LogKey, u \in Session : idem[u] = c => c \in Executing(s)
    BY <1>3, LogKeys DEF Executing
  <2>7. ASSUME NEW c \in LogKey \ excused'
        PROVE  KeyAt(c, mem, executions) /\ (executions[c] = 1 => mem[c] # 0 \/ c \in Executing(s))
    BY <2>2, <2>6, <2>7 DEF OnceInv, KeysOnce
  <2>8. ASSUME k \notin excused' \cup {0} PROVE OnceAt(k, p, mem', executions') /\ k \notin Executing(s)
    <3>1. k \notin Executing(s) /\ mem[k] = 0
      BY <1>7, <2>2, <2>8 DEF Logged
    <3>2. executions[k] = 0
      BY <2>7, <2>8, <3>1 DEF KeyAt
    <3>3. mem[LogTable] # 0
      BY <1>1, <1>2, <1>4, <2>2, <2>8 DEF OnceInv, LooksFit, LooksAt
    <3> QED
      BY <1>5, <2>3, <3>1, <3>2, <3>3 DEF OnceAt
  <2>9. Spares(s) /\ LooksAt(p, mem', excused')
    BY <1>5, <2>3 DEF Spares, LooksAt
  <2>10. ASSUME NEW c \in LogKey \ excused'
         PROVE  KeyAt(c, mem', executions') /\ (executions'[c] = 1 => mem'[c] # 0 \/ c = k \/ c \in Executing(s))
    BY <1>5, <2>7
  <2> QED
    BY <1>5, <2>2, <2>3, <2>4, <2>5, <2>8, <2>9, <2>10, OnceStep
<1> QED
  BY <1>6, <1>7

\* The session gives up; its call, if it is in one, is excused.
LEMMA StoreErrorOnce ==
    ASSUME StoreInv, StoreTypes', SideTypes, OnceInv, NEW s \in Session, StoreError(s)
    PROVE  OnceInv'
<1>1. /\ Takes(s, Resting) /\ UNCHANGED <<mem, data, txn, executions, attached>>
      /\ script' = [script EXCEPT ![s] = <<>>] /\ idem' = [idem EXCEPT ![s] = 0]
      /\ excused' = excused \cup Pending(s) \cup ({idem[s]} \ {0})
  BY DEF StoreError, Takes, Stop, storeVars
<1>2. PICK k \in LogKey \cup {0} : k = 0
  OBVIOUS
<1>3. PICK p \in Seq(Statement) : p = <<>>
  BY NoScript
<1>4. GoodJob(Resting) /\ StoreTypes /\ Brings(Resting) /\ Resting.at \notin Writing /\ Resting.at # "restore"
  BY RestingIs, StoreFacts, RestBrings DEF Writing
<1>5. \A c, v : HasOnly(Resting.ops, c, v)
  BY RestBrings
<1>6. LogKept' /\ Detached'
  <2>1. LogKept'
    BY <1>1, <1>4, <1>5, LogStays DEF OnceInv
  <2>2. Detached'
    BY <1>1, <1>4, DetachedKeeps DEF OnceInv
  <2> QED
    BY <2>1, <2>2
<1>7. Spares(s)
  BY <1>1 DEF Spares
<1>8. ASSUME NEW c \in LogKey \ excused'
      PROVE  KeyAt(c, mem', executions') /\ (executions'[c] = 1 => mem'[c] # 0 \/ c = k \/ c \in Executing(s))
  <2>1. KeyAt(c, mem, executions) /\ (executions[c] = 1 => mem[c] # 0 \/ \E u \in Session : idem[u] = c)
    BY <1>1 DEF OnceInv, KeysOnce
  <2>2. c # 0 /\ idem[s] # c
    BY <1>1, <1>8, LogKeys
  <2>3. ASSUME NEW u \in Session, idem[u] = c PROVE c \in Executing(s)
    BY <2>2, <2>3 DEF Executing
  <2> QED
    BY <1>1, <2>1, <2>3
<1>9. Proper(p, k) /\ LooksAt(p, mem', excused') /\ excused \subseteq excused'
  BY <1>1, <1>2, <1>3, Stopped
<1>10. script' = [script EXCEPT ![s] = p] /\ idem' = [idem EXCEPT ![s] = k]
  BY <1>1, <1>2, <1>3
<1> QED
  BY <1>1, <1>2, <1>4, <1>6, <1>7, <1>8, <1>9, <1>10, OnceStep

\* Memory is replaced, of the log's rows by nothing but what was there, or emptied.
LEMMA MemoryOnce ==
    ASSUME StoreInv, StoreTypes', SideTypes, OnceInv, NEW s \in Session, Takes(s, Resting),
           UNCHANGED <<data, txn, script, idem, attached>>, excused \subseteq excused', Executing(s) \subseteq excused',
           executions' = [k \in LogKey |-> IF mem'[k] = mem[k] THEN executions[k] ELSE 0],
           mem[LogTable] # 0 => mem'[LogTable] # 0 \/ (LookingUp \subseteq excused' /\ idem[s] = 0),
           \A k \in LogKey \ excused' : /\ mem'[k] = mem[k] \/ (mem'[k] = 0 /\ idem[s] # k /\ k \notin PendingBut(s))
                                        /\ LogView(mem', data, txn, k, mem'[k])
    PROVE  OnceInv'
<1>1. PICK p \in Seq(Statement) : p = script[s]
  BY DEF SideTypes
<1>2. PICK k \in LogKey \cup {0} : k = idem[s]
  BY SideFacts
<1>3. script' = [script EXCEPT ![s] = p] /\ idem' = [idem EXCEPT ![s] = k]
  BY <1>1, <1>2 DEF SideTypes
<1>4. GoodJob(Resting) /\ StoreTypes /\ Brings(Resting) /\ Resting.at \notin Writing /\ Resting.at # "restore"
      /\ Resting.at \in Inside
  BY RestingIs, StoreFacts, RestBrings DEF Writing, Inside
<1>5. \A c, v : HasOnly(Resting.ops, c, v)
  BY RestBrings
<1>6. LogKept'
  <2>1. ASSUME NEW c \in LogKey \ excused', c \in PendingBut(s) PROVE LeftAlone(c)
    <3>1. mem'[c] = mem[c]
      BY <2>1
    <3> QED
      BY <3>1 DEF LeftAlone
  <2>2. \A c \in LogKey \ excused' : LogView(mem', data', txn', c, mem'[c]) /\ HasOnly(Resting.ops, c, mem'[c])
    BY <1>5
  <2>3. \A c \in LogKey \ excused' : Resting.at = "restore" => LogView(mem', data', txn', c, Resting.snapshot[c])
    BY <1>4
  <2> QED
    BY <1>4, <2>1, <2>2, <2>3, LogKeeps DEF OnceInv
<1>7. Detached'
  BY <1>4, DetachedKeeps DEF OnceInv
<1>8. Spares(s)
  BY DEF Spares
<1>9. Proper(p, k) /\ LooksAt(p, mem', excused')
  <2>1. LooksAt(p, mem, excused) /\ Proper(p, k)
    BY <1>1, <1>2 DEF OnceInv, LooksFit, CallsProper
  <2>2. p # <<>> /\ p[1].do = "lookup" => p[1].cell \in LookingUp
    <3>1. p # <<>> => Head(script[s]) = p[1]
      BY <1>1
    <3> QED
      BY <1>1, <3>1 DEF LookingUp
  <2> QED
    BY <2>1, <2>2 DEF LooksAt
<1>10. ASSUME k \notin excused' \cup {0} PROVE OnceAt(k, p, mem', executions') /\ k \notin Executing(s)
  <2>1. OnceAt(k, p, mem, executions)
    BY <1>1, <1>2, <1>10 DEF OnceInv, CallsOnce
  <2>2. mem'[k] = mem[k] /\ executions'[k] = executions[k] /\ mem'[LogTable] # 0
    BY <1>2, <1>10, <2>1 DEF OnceAt
  <2> QED
    BY <1>10, <2>1, <2>2 DEF OnceAt
<1>11. ASSUME NEW c \in LogKey \ excused'
       PROVE  KeyAt(c, mem', executions') /\ (executions'[c] = 1 => mem'[c] # 0 \/ c = k \/ c \in Executing(s))
  <2>1. KeyAt(c, mem, executions) /\ (executions[c] = 1 => mem[c] # 0 \/ \E u \in Session : idem[u] = c)
    BY <1>11 DEF OnceInv, KeysOnce
  <2>2. c # 0
    BY LogKeys
  <2>3. ASSUME NEW u \in Session, idem[u] = c PROVE c = k \/ c \in Executing(s)
    BY <1>2, <2>2, <2>3 DEF Executing
  <2>4. CASE mem'[c] = mem[c]
    BY <2>1, <2>3, <2>4 DEF KeyAt
  <2>5. CASE mem'[c] # mem[c]
    BY <2>5 DEF KeyAt
  <2> QED
    BY <2>4, <2>5
<1>12. Takes(s, Resting) /\ excused \subseteq excused'
  OBVIOUS
<1> QED
  BY <1>3, <1>4, <1>6, <1>7, <1>8, <1>9, <1>10, <1>11, <1>12, OnceStep

\* A row that is as it was is seen as it was.
LEMMA ViewStays ==
    ASSUME NEW m, NEW n, NEW d, NEW t, NEW k, n[k] = m[k], LogView(m, d, t, k, m[k])
    PROVE  LogView(n, d, t, k, n[k])
BY DEF LogView

LEMMA InstallOnce ==
    ASSUME StoreInv, StoreTypes', SideTypes, OnceInv, NEW s \in Session, Install(s)
    PROVE  OnceInv'
<1>1. /\ Takes(s, Resting) /\ UNCHANGED <<data, txn, script, idem, attached>> /\ job[s].at = "install"
      /\ mem' = [c \in Cell |-> IF c \in DOMAIN job[s].snapshot THEN job[s].snapshot[c] ELSE mem[c]]
      /\ executions' = [k \in LogKey |-> IF mem'[k] = mem[k] THEN executions[k] ELSE 0]
      /\ excused' = excused \cup {c \in Cell : mem'[c] # mem[c]} \cup (DOMAIN job[s].snapshot \cap PendingBut(s))
                    \cup Executing(s)
  BY DEF Install, Takes, Is, storeVars
<1>2. mem[LogTable] # 0 => mem'[LogTable] # 0
  <2>1. LogTable \in Cell
    BY KeysAre DEF Table
  <2>2. Brings(job[s])
    BY DEF OnceInv, Brought
  <2> QED
    BY <1>1, <2>1, <2>2 DEF Brings
<1>3. ASSUME NEW k \in LogKey \ excused' PROVE mem'[k] = mem[k] /\ LogView(mem', data, txn, k, mem'[k])
  <2>1. mem'[k] = mem[k]
    BY <1>1, <1>3, KeysAre
  <2>2. LogView(mem, data, txn, k, mem[k])
    BY <1>1, <1>3 DEF OnceInv, LogKept
  <2> QED
    BY <2>1, <2>2, ViewStays
<1> QED
  BY <1>1, <1>2, <1>3, MemoryOnce

LEMMA LoadOnce ==
    ASSUME StoreInv, StoreTypes', SideTypes, OnceInv, NEW s \in Session, LoadCommit(s)
    PROVE  OnceInv'
<1>1. /\ Takes(s, Resting) /\ UNCHANGED <<data, txn, script, idem, attached>> /\ job[s].at = "load"
      /\ mem' = [c \in Cell |-> IF c \in Key /\ mem[TableOf(c)] # 0 THEN job[s].snapshot[c] ELSE mem[c]]
      /\ executions' = [k \in LogKey |-> IF mem'[k] = mem[k] THEN executions[k] ELSE 0]
      /\ excused' = excused \cup {c \in Cell : mem'[c] # mem[c]} \cup PendingBut(s) \cup Executing(s)
  BY DEF LoadCommit, Takes, Is, storeVars
<1>2. mem[LogTable] # 0 => mem'[LogTable] # 0
  <2>1. LogTable \in Cell /\ LogTable \notin Key
    BY KeysAre DEF Table
  <2> QED
    BY <1>1, <2>1
<1>3. ASSUME NEW k \in LogKey \ excused' PROVE mem'[k] = mem[k] /\ LogView(mem', data, txn, k, mem'[k])
  <2>1. mem'[k] = mem[k]
    BY <1>1, <1>3, KeysAre
  <2>2. LogView(mem, data, txn, k, mem[k])
    BY <1>1, <1>3 DEF OnceInv, LogKept
  <2> QED
    BY <2>1, <2>2, ViewStays
<1> QED
  BY <1>1, <1>2, <1>3, MemoryOnce

LEMMA RestoreOnce ==
    ASSUME StoreInv, StoreTypes', SideTypes, OnceInv, NEW s \in Session, Restore(s)
    PROVE  OnceInv'
<1>1. /\ Takes(s, Resting) /\ UNCHANGED <<data, txn, script, idem, attached>> /\ job[s].at = "restore"
      /\ mem' = job[s].snapshot
      /\ executions' = [k \in LogKey |-> IF mem'[k] = mem[k] THEN executions[k] ELSE 0]
      /\ excused' = excused \cup PendingBut(s) \cup Executing(s)
                    \cup (IF mem'[LogTable] # mem[LogTable] THEN LookingUp ELSE {})
  BY DEF Restore, Takes, Is, storeVars
<1>2. idem[s] = 0
  BY <1>1 DEF OnceInv, CallsProper, Inside
<1>3. ASSUME NEW k \in LogKey \ excused'
      PROVE  /\ mem'[k] = mem[k] \/ (mem'[k] = 0 /\ idem[s] # k /\ k \notin PendingBut(s))
             /\ LogView(mem', data, txn, k, mem'[k])
  <2>1. LogView(mem, data, txn, k, job[s].snapshot[k])
    BY <1>1, <1>3 DEF OnceInv, LogKept
  <2>2. LogView(mem', data, txn, k, mem'[k])
    BY <1>1, <2>1 DEF LogView
  <2>3. mem'[k] \in {0, mem[k]}
    BY <1>1, <2>1 DEF LogView
  <2>4. k # 0 /\ k \notin PendingBut(s)
    BY <1>1, <1>3, LogKeys
  <2> QED
    BY <1>2, <2>2, <2>3, <2>4
<1> QED
  BY <1>1, <1>2, <1>3, MemoryOnce
-----------------------------------------------------------------------------
(***************************************************************************)
(* Statements.                                                             *)
(***************************************************************************)
\* A statement that does not concern the log's rows ...
SparesLog(e) ==
    /\ \A k \in LogKey : e.mem[k] = mem[k] /\ k \notin CellsOfAll(e.ops)
    /\ mem[LogTable] # 0 => e.mem[LogTable] # 0

LEMMA WithinSpares ==
    ASSUME NEW e, EffectFit(e), NEW t \in Table, t # LogTable, CellsOfAll(e.ops) \subseteq {t} \cup KeysOf(t)
    PROVE  SparesLog(e)
<1>1. \A c \in Cell : c \notin CellsOfAll(e.ops) => e.mem[c] = mem[c]
  BY DEF EffectFit
<1>2. ASSUME NEW k \in LogKey PROVE k \in Cell /\ k \notin {t} \cup KeysOf(t)
  BY LogKeys, KeysAre
<1>3. LogTable \in Cell /\ LogTable \notin {t} \cup KeysOf(t)
  BY KeysAre DEF Table
<1> QED
  BY <1>1, <1>2, <1>3 DEF SparesLog

LEMMA EffectSpares ==
    ASSUME mem \in [Cell -> Val], NEW st \in Statement, Effective(st), NEW e, e = Effect(st)
    PROVE  /\ SparesLog(e) /\ (Created(st) => e.mem[LogTable] # 0 /\ e.ok)
           /\ st.cell \notin LogKey
<1>1. st.do \in Effects /\ (st.do = "create" \/ TableFor(st) # LogTable)
  BY DEF Effective, OnLog
<1>2. PICK t \in Table : t = TableFor(st)
  BY <1>1, TableForIs DEF Effects
<1>3. PICK hits : hits = Hits(t, st.val)
  OBVIOUS
<1>4. /\ hits \in Seq(Key) /\ ToSet(hits) = RowsOf(t, st.val)
      /\ ToSet(hits) \subseteq KeysOf(t) /\ ToSet(hits) \subseteq Key
  <2>1. hits \in Seq(Key) /\ ToSet(hits) = RowsOf(t, st.val) /\ ToSet(hits) \subseteq Key
    BY <1>3, HitsAre DEF RowsOf
  <2>2. RowsOf(t, st.val) \subseteq KeysOf(t)
    BY KeysAre DEF RowsOf
  <2> QED
    BY <2>1, <2>2
<1>5. EffectFit(e)
  BY <1>1, EffectFits DEF Effects
<1>6. EffectFor(st, e, t, hits)
  BY <1>2, <1>3, EffectKinds
<1>7. st.cell \notin LogKey
  <2>1. ASSUME st.cell \in LogKey PROVE FALSE
    <3>1. TableFor(st) = LogTable /\ st.cell \notin Table
      BY <2>1, LogKeys DEF TableFor
    <3> QED
      BY <1>1, <3>1, StatementIs
  <2> QED
    BY <2>1
<1>8. CASE st.do = "create"
  <2>1. e = [ok |-> TRUE, mem |-> Changed(mem, t, 1), ops |-> <<[cell |-> t, val |-> 1]>>]
    BY <1>2, <1>8, Zenon DEF Effect, TableFor
  <2>2. PICK op \in Op : op = [cell |-> t, val |-> 1]
    BY KeysAre, OpIs
  <2>3. e.ok /\ e.mem = Changed(mem, t, 1) /\ e.ops = <<op>> /\ CellsOf(op) = {t}
    BY <2>1, <2>2, OpIs
  <2>4. CellsOfAll(e.ops) = {t}
    BY <2>3, OneOp
  <2>5. \A c \in Cell : e.mem[c] = IF c = t THEN 1 ELSE mem[c]
    BY <2>3, KeysAre DEF Changed
  <2>6. LogTable \in Cell /\ \A k \in LogKey : k \in Cell /\ k # t
    BY KeysAre, LogKeys DEF Table
  <2>7. Created(st) => t = LogTable
    BY <1>2 DEF Created, TableFor, Table
  <2> QED
    BY <1>7, <2>3, <2>4, <2>5, <2>6, <2>7 DEF SparesLog
<1>9. CASE st.do # "create"
  <2>1. t # LogTable /\ ~Created(st)
    BY <1>1, <1>2, <1>9 DEF Created
  <2>2. st.do \in {"insert", "upsert", "upsert_nothing"} => st.cell \in KeysOf(t) /\ st.cell \in Cell
    BY <1>2, StatementIs, KeysAre DEF TableFor
  <2>3. CASE e = Unchanged \/ e = Failed
    <3>1. e.ops = <<>>
      BY <2>3 DEF Unchanged, Failed
    <3> QED
      BY <1>5, <1>7, <2>1, <3>1, CellsEmpty, WithinSpares
  <2>4. CASE e = [ok |-> TRUE, mem |-> ChangedAll(mem, {t} \cup KeysOf(t), 0), ops |-> <<[cell |-> t, val |-> 0]>>]
    <3>1. PICK op \in Op : op = [cell |-> t, val |-> 0]
      BY KeysAre, OpIs
    <3>2. e.ops = <<op>> /\ CellsOf(op) = {t} \cup KeysOf(t)
      BY <2>4, <3>1 DEF CellsOf
    <3>3. CellsOfAll(e.ops) = {t} \cup KeysOf(t)
      BY <3>2, OneOp
    <3> QED
      BY <1>5, <1>7, <2>1, <3>3, WithinSpares
  <2>5. ASSUME NEW m, NEW v \in Val, st.do \in {"insert", "upsert", "upsert_nothing"},
               e = [ok |-> TRUE, mem |-> m, ops |-> <<[cell |-> st.cell, val |-> v]>>]
        PROVE  SparesLog(e)
    <3>1. PICK op \in Op : op = [cell |-> st.cell, val |-> v]
      BY <2>2, <2>5, OpIs
    <3>2. e.ops = <<op>> /\ op.cell \in Key
      BY <2>2, <2>5, <3>1, KeysAre
    <3>3. CellsOfAll(e.ops) = {st.cell}
      BY <3>1, <3>2, OpIs, OneOp
    <3> QED
      BY <1>5, <2>1, <2>2, <2>5, <3>3, WithinSpares
  <2>6. ASSUME NEW m, NEW v \in Val, e = [ok |-> TRUE, mem |-> m, ops |-> Ops(hits, v)]
        PROVE  SparesLog(e)
    <3>1. e.ops = Ops(hits, v)
      BY <2>6
    <3>2. CellsOfAll(e.ops) = ToSet(hits)
      BY <1>4, <3>1, OpsAre
    <3> QED
      BY <1>4, <1>5, <2>1, <3>2, WithinSpares
  <2>7. ASSUME NEW m, st.do = "move", hits # <<>>, e = [ok |-> TRUE, mem |-> m, ops |-> Moved(hits, st.new)]
        PROVE  SparesLog(e)
    <3>1. st.new \in Key /\ TableOf(st.new) = t
      BY <1>2, <2>7 DEF Statement, TableFor
    <3>2. PICK ops : ops = Moved(hits, st.new)
      OBVIOUS
    <3>3. CellsOfAll(ops) = ToSet(hits) \cup {st.new}
      BY <1>4, <2>7, <3>1, <3>2, MovedAre
    <3>4. e.ops = ops
      BY <2>7, <3>2
    <3>5. st.new \in KeysOf(t)
      BY <3>1, KeysAre
    <3> QED
      BY <1>4, <1>5, <2>1, <3>3, <3>4, <3>5, WithinSpares
  <2>8. st.do \in {"insert", "upsert", "upsert_nothing"} => st.val \in Val /\ mem[st.cell] \in Val
    BY <2>2, StatementIs
  <2>9. st.do = "update" => st.new \in Val
    BY StatementIs
  <2>10. 0 \in Val
    BY KeysAre
  <2>11. SparesLog(e)
    <3>1. CASE st.do = "upsert_nothing" /\ mem[st.cell] # 0
               /\ e = [ok |-> TRUE, mem |-> mem, ops |-> <<[cell |-> st.cell, val |-> mem[st.cell]]>>]
      BY <2>5, <2>8, <3>1
    <3>2. CASE /\ st.do \in {"insert", "upsert", "upsert_nothing"}
               /\ e = [ok |-> TRUE, mem |-> Changed(mem, st.cell, st.val), ops |-> <<[cell |-> st.cell, val |-> st.val]>>]
      BY <2>5, <2>8, <3>2
    <3>3. CASE e = [ok |-> TRUE, mem |-> ChangedAll(mem, ToSet(hits), 0), ops |-> Ops(hits, 0)]
      BY <2>6, <2>10, <3>3
    <3>4. CASE /\ st.do = "update"
               /\ e = [ok |-> TRUE, mem |-> ChangedAll(mem, ToSet(hits), st.new), ops |-> Ops(hits, st.new)]
      BY <2>6, <2>9, <3>4
    <3>5. CASE /\ st.do = "move" /\ hits # <<>>
               /\ e = [ok |-> TRUE,
                       mem |-> Changed(ChangedAll(mem, ToSet(hits), 0), st.new, mem[Last(hits)]),
                       ops |-> Moved(hits, st.new)]
      BY <2>7, <3>5
    <3> QED
      BY <1>6, <1>9, <2>3, <2>4, <3>1, <3>2, <3>3, <3>4, <3>5, Zenon DEF EffectFor
  <2> QED
    BY <1>7, <2>1, <2>11
<1> QED
  BY <1>8, <1>9

\* ... and the one that logs an answer.
LEMMA AnswerIs ==
    ASSUME mem \in [Cell -> Val], NEW st \in Statement, NEW k \in LogKey, Answers(st, k), NEW e, e = Effect(st)
    PROVE  /\ mem[LogTable] # 0 => /\ e.ok /\ e.ops = <<[cell |-> k, val |-> st.val]>> /\ st.val \in Val \ {0}
                                   /\ e.mem = [mem EXCEPT ![k] = st.val]
           /\ mem[LogTable] = 0 => e = Failed
<1>1. st.do = "insert" /\ st.cell = k /\ k \notin Table /\ TableOf(k) = LogTable
  BY LogKeys DEF Answers
<1>2. CASE mem[LogTable] = 0
  <2>1. e = Failed
    BY <1>1, <1>2, Zenon DEF Effect
  <2> QED
    BY <1>2, <2>1
<1>3. CASE mem[LogTable] # 0
  <2>1. e = [ok |-> TRUE, mem |-> Changed(mem, k, st.val), ops |-> <<[cell |-> k, val |-> st.val]>>]
    <3>1. EffectFor(st, e, LogTable, Hits(LogTable, st.val))
      BY <1>1, EffectKinds DEF TableFor
    <3>2. e # Unchanged /\ e # Failed
      BY <1>1, <1>3 DEF Effect, Unchanged, Failed
    <3> QED
      BY <1>1, <3>1, <3>2 DEF EffectFor
  <2>2. st.val \in Val \ {0}
    BY <1>1, StatementIs
  <2> QED
    BY <1>3, <2>1, <2>2 DEF Changed
<1> QED
  BY <1>2, <1>3

LEMMA FailedIs == ASSUME NEW st, NEW e, e = Effect(st), ~e.ok PROVE e.mem = mem /\ e.ops = <<>>
<1>1. EffectFor(st, e, TableFor(st), Hits(TableFor(st), st.val))
  BY EffectKinds
<1>2. e = Unchanged => e.ok
  BY DEF Unchanged
<1>3. e = Failed
  BY <1>1, <1>2 DEF EffectFor
<1> QED
  BY <1>3 DEF Failed

\* A statement of session s with script q in the course of the call with key k, or of none.
Executes(s, q, k, st, e, r) ==
    /\ q = script[s] /\ q # <<>> /\ q[1] = st /\ k = idem[s] /\ Proper(q, k) /\ st \in Statement /\ st.do \in Effects
    /\ e = Effect(st) /\ mem' = e.mem /\ Takes(s, r) /\ GoodJob(r) /\ r.ops = e.ops /\ e.ops \in Seq(Op)
    /\ r.at \in Inside /\ r.at # "restore" /\ Brings(r) /\ UNCHANGED <<data, txn>> /\ Detached'
    /\ script' = [script EXCEPT ![s] = IF e.ok THEN Tail(q) ELSE <<>>]
    /\ idem' = IF st.cell \in LogKey \/ ~e.ok THEN [idem EXCEPT ![s] = 0] ELSE idem
    /\ executions' = IF k # 0 /\ st.cell \notin LogKey /\ e.ok THEN [executions EXCEPT ![k] = @ + 1] ELSE executions
    /\ excused' = excused \cup (CellsOfAll(e.ops) \cap PendingBut(s))

LEMMA ExecuteIs ==
    ASSUME StoreInv, StoreTypes', SideTypes, OnceInv, NEW s \in Session, Execute(s)
    PROVE  \E q \in Seq(Statement) : \E k \in LogKey \cup {0} : \E st, e, r : Executes(s, q, k, st, e, r)
<1>1. PICK q \in Seq(Statement) : q = script[s]
  BY DEF SideTypes
<1>2. PICK k \in LogKey \cup {0} : k = idem[s]
  BY SideFacts
<1>3. PICK st, e : st = Head(q) /\ e = Effect(st)
  OBVIOUS
<1>4. PICK r : r = Persisting(s, e.ops)
  OBVIOUS
<1>5. /\ q # <<>> /\ job[s].at = "rest" /\ mem' = e.mem /\ Takes(s, r) /\ UNCHANGED <<data, txn, attached>>
      /\ st.do \in {"create", "drop", "insert", "upsert", "upsert_nothing", "delete", "update", "move"}
      /\ IF e.ok THEN Advance(s) ELSE Stop(s)
      /\ idem' = IF st.cell \in LogKey \/ ~e.ok THEN [idem EXCEPT ![s] = 0] ELSE idem
      /\ executions' = IF k # 0 /\ st.cell \notin LogKey /\ e.ok THEN [executions EXCEPT ![k] = @ + 1] ELSE executions
      /\ excused' = excused \cup (CellsOfAll(e.ops) \cap PendingBut(s))
  BY <1>1, <1>2, <1>3, <1>4 DEF Execute, Is, Takes, storeVars
<1>6. st \in Statement /\ st = q[1] /\ Proper(q, k)
  BY <1>1, <1>2, <1>3, <1>5, TailOf DEF OnceInv, CallsProper
<1>7. EffectFit(e) /\ e.ops \in Seq(Op)
  <2>1. EffectFit(e)
    BY <1>3, <1>5, <1>6, StoreFacts, EffectFits
  <2> QED
    BY <2>1 DEF EffectFit
<1>8. job[s] \in JobType /\ job[s].snapshot = <<>>
  BY <1>5, StoreFacts DEF JobStage, Resting
<1>9. GoodJob(r) /\ r.ops = e.ops
  <2>1. PICK ops \in Seq(Op) : ops = e.ops
    BY <1>7
  <2>2. job[s] \in JobType /\ ops \in Seq(Op) /\ r = Persisting(s, ops)
    BY <1>4, <1>8, <2>1
  <2> QED
    BY <2>1, <2>2, GoesOn
<1>10. Brings(r) /\ r.at \in {"mark", "install", "rest"}
  <2>1. PICK ops : ops = e.ops
    OBVIOUS
  <2>2. r = Persisting(s, ops) /\ LogTable \notin DOMAIN job[s].snapshot
    BY <1>4, <1>8, <2>1
  <2> QED
    BY <1>8, <2>2, GoesBrings
<1>11. Detached'
  <2>1. r.at \notin Writing /\ StoreTypes
    BY <1>10, StoreFacts DEF Writing
  <2> QED
    BY <1>5, <1>9, <2>1, DetachedKeeps DEF OnceInv
<1>12. script' = [script EXCEPT ![s] = IF e.ok THEN Tail(q) ELSE <<>>]
  BY <1>1, <1>5 DEF Advance, Stop
<1>13. st.do \in Effects /\ r.at \in Inside /\ r.at # "restore"
  BY <1>5, <1>10 DEF Effects, Inside
<1>14. Executes(s, q, k, st, e, r)
  BY <1>1, <1>2, <1>3, <1>5, <1>6, <1>7, <1>9, <1>10, <1>11, <1>12, <1>13 DEF Executes
<1> QED
  BY <1>1, <1>2, <1>14

\* Of keys that it is not about a call says nothing new.
LEMMA OthersOnce ==
    ASSUME OnceInv, NEW s \in Session, NEW c \in LogKey \ excused
    PROVE  /\ KeyAt(c, mem, executions)
           /\ executions[c] = 1 => mem[c] # 0 \/ c = idem[s] \/ c \in Executing(s)
           /\ idem[s] = c => OnceAt(c, script[s], mem, executions) /\ c \notin Executing(s)
<1>1. c # 0
  BY LogKeys
<1>2. \A u \in Session : idem[u] = c => u = s \/ c \in Executing(s)
  BY <1>1 DEF Executing
<1>3. ASSUME idem[s] = c PROVE OnceAt(c, script[s], mem, executions) /\ c \notin Executing(s)
  BY <1>1, <1>3 DEF OnceInv, CallsOnce, Executing
<1> QED
  BY <1>2, <1>3 DEF OnceInv, KeysOnce

LEMMA FailsOnce ==
    ASSUME StoreInv, StoreTypes', SideTypes, OnceInv, NEW s \in Session, NEW q \in Seq(Statement), NEW k \in LogKey \cup {0},
           NEW st, NEW e, NEW r, Executes(s, q, k, st, e, r), ~e.ok
    PROVE  OnceInv'
<1>1. /\ q = script[s] /\ q[1] = st /\ k = idem[s] /\ Proper(q, k) /\ st \in Statement /\ st.do \in Effects
      /\ e = Effect(st) /\ Takes(s, r) /\ GoodJob(r) /\ r.at \in Inside /\ r.at # "restore" /\ Brings(r) /\ Detached'
      /\ UNCHANGED <<data, txn>> /\ mem' = e.mem /\ r.ops = e.ops
      /\ script' = [script EXCEPT ![s] = <<>>] /\ idem' = [idem EXCEPT ![s] = 0] /\ executions' = executions
      /\ excused \subseteq excused'
  BY DEF Executes
<1>2. mem' = mem /\ r.ops = <<>>
  BY <1>1, FailedIs
<1>3. PICK p \in Seq(Statement), n \in LogKey \cup {0} : p = <<>> /\ n = 0
  BY NoScript
<1>4. LogKept'
  <2>1. \A c, v : HasOnly(r.ops, c, v)
    BY <1>2, HasEmpty
  <2> QED
    BY <1>1, <1>2, <2>1, StoreFacts, LogStays DEF OnceInv
<1>5. Spares(s)
  BY <1>1, <1>2 DEF Spares
<1>6. ASSUME NEW c \in LogKey \ excused'
      PROVE  KeyAt(c, mem', executions') /\ (executions'[c] = 1 => mem'[c] # 0 \/ c = n \/ c \in Executing(s))
  <2>1. /\ KeyAt(c, mem, executions) /\ (executions[c] = 1 => mem[c] # 0 \/ c = k \/ c \in Executing(s))
        /\ k = c => OnceAt(c, q, mem, executions)
    BY <1>1, <1>6, OthersOnce
  <2>2. ASSUME k = c PROVE executions[c] = 0
    <3>1. Effective(st) \/ Answers(st, k)
      BY <1>1, <2>2, LogKeys, ProperHead
    <3>2. mem[LogTable] # 0 /\ executions[c] = IF Answers(st, k) THEN 1 ELSE 0
      BY <1>1, <2>1, <2>2 DEF OnceAt
    <3>3. ~Answers(st, k)
      <4>1. ASSUME Answers(st, k) PROVE FALSE
        <5>1. k \in LogKey
          BY <2>2
        <5>2. e.ok
          BY <1>1, <3>2, <4>1, <5>1, StoreFacts, AnswerIs
        <5> QED
          BY <5>2
      <4> QED
        BY <4>1
    <3> QED
      BY <3>2, <3>3
  <2> QED
    BY <1>1, <1>2, <2>1, <2>2
<1>7. script' = [script EXCEPT ![s] = p] /\ idem' = [idem EXCEPT ![s] = n]
  BY <1>1, <1>3
<1>8. Proper(p, n) /\ LooksAt(p, mem', excused')
  BY <1>3, Stopped
<1> QED
  BY <1>1, <1>3, <1>4, <1>5, <1>6, <1>7, <1>8, StoreFacts, OnceStep

\* The statement of a call takes effect, once; or one that is part of no call.
LEMMA EffectOnce ==
    ASSUME StoreInv, StoreTypes', SideTypes, OnceInv, NEW s \in Session, NEW q \in Seq(Statement), NEW k \in LogKey \cup {0},
           NEW st, NEW e, NEW r, Executes(s, q, k, st, e, r), e.ok, Effective(st)
    PROVE  OnceInv'
<1>1. /\ q = script[s] /\ q # <<>> /\ q[1] = st /\ k = idem[s] /\ Proper(q, k) /\ st \in Statement /\ st.do \in Effects
      /\ e = Effect(st) /\ Takes(s, r) /\ GoodJob(r) /\ r.at \in Inside /\ r.at # "restore" /\ Brings(r) /\ Detached'
      /\ UNCHANGED <<data, txn>> /\ mem' = e.mem /\ r.ops = e.ops /\ r.ops \in Seq(Op)
      /\ excused \subseteq excused'
  BY DEF Executes
<1>2. /\ SparesLog(e) /\ (Created(st) => e.mem[LogTable] # 0) /\ st.cell \notin LogKey
  BY <1>1, StoreFacts, EffectSpares
<1>3. /\ script' = [script EXCEPT ![s] = Tail(q)] /\ UNCHANGED idem
      /\ executions' = IF k # 0 THEN [executions EXCEPT ![k] = @ + 1] ELSE executions
  BY <1>2 DEF Executes
<1>4. (\A c \in LogKey : mem'[c] = mem[c] /\ \A v : HasOnly(r.ops, c, v)) /\ (mem[LogTable] # 0 => mem'[LogTable] # 0)
  BY <1>1, <1>2, HasNone DEF SparesLog
<1>5. LogKept'
  <2>1. ASSUME NEW c \in LogKey \ excused' PROVE LogView(mem', data', txn', c, mem'[c]) /\ HasOnly(r.ops, c, mem'[c])
    <3>1. LogView(mem, data, txn, c, mem[c])
      BY <1>1, <2>1 DEF OnceInv, LogKept
    <3>2. LogView(mem', data, txn, c, mem'[c])
      BY <1>4, <3>1, ViewStays
    <3> QED
      BY <1>1, <1>4, <3>2
  <2>2. \A c \in LogKey \ excused' : c \in PendingBut(s) => LeftAlone(c)
    BY <1>1, <1>4 DEF LeftAlone
  <2> QED
    BY <1>1, <2>1, <2>2, StoreFacts, LogKeeps DEF OnceInv
<1>6. PICK p : p = Tail(q)
  OBVIOUS
<1>7. Proper(p, k) /\ p \in Seq(Statement) /\ LooksAt(p, mem', excused') /\ (k # 0 => Answers(p[1], k))
  <2>1. CASE k = 0
    <3>1. Proper(p, 0) /\ p \in Seq(Statement) /\ (p # <<>> /\ p[1].do = "lookup" => Created(q[1]))
      <4>1. q[1].do # "lookup" /\ q[1].do # "ensure"
        BY <1>1 DEF Effects
      <4>2. q # <<>> /\ Proper(q, 0)
        BY <1>1, <2>1
      <4> QED
        BY <1>6, <4>1, <4>2, ProperTail
    <3> QED
      BY <1>1, <1>2, <2>1, <3>1 DEF LooksAt
  <2>2. CASE k # 0
    <3>1. k \in LogKey
      BY <2>2
    <3>2. Proper(p, k) /\ p \in Seq(Statement) /\ Answers(p[1], k) /\ p[1].do # "lookup"
      BY <1>1, <1>6, <3>1, ProperEffect
    <3> QED
      BY <3>2 DEF LooksAt
  <2> QED
    BY <2>1, <2>2
<1>8. executions \in [LogKey -> Nat]
  BY DEF SideTypes
<1>9. \A c \in LogKey : executions'[c] = IF c = k THEN executions[c] + 1 ELSE executions[c]
  <2>1. \A c \in LogKey : c # 0
    BY LogKeys
  <2> QED
    BY <1>3, <1>8, <2>1
<1>10. ASSUME NEW c \in LogKey \ excused', c = k
       PROVE  executions'[c] = 1 /\ mem'[c] = 0 /\ mem'[LogTable] # 0 /\ c \notin Executing(s)
  <2>1. OnceAt(c, q, mem, executions) /\ c \notin Executing(s)
    BY <1>1, <1>10, OthersOnce
  <2>2. ~Answers(q[1], c)
    BY <1>1, LogKeys
  <2> QED
    BY <1>4, <1>9, <1>10, <2>1, <2>2 DEF OnceAt
<1>11. ASSUME k \notin excused' \cup {0} PROVE OnceAt(k, p, mem', executions') /\ k \notin Executing(s)
  BY <1>7, <1>10, <1>11 DEF OnceAt
<1>12. ASSUME NEW c \in LogKey \ excused'
       PROVE  KeyAt(c, mem', executions') /\ (executions'[c] = 1 => mem'[c] # 0 \/ c = k \/ c \in Executing(s))
  <2>1. CASE c = k
    BY <1>10, <2>1 DEF KeyAt
  <2>2. CASE c # k
    <3>1. KeyAt(c, mem, executions) /\ (executions[c] = 1 => mem[c] # 0 \/ c \in Executing(s))
      BY <1>1, <1>12, <2>2, OthersOnce
    <3> QED
      BY <1>4, <1>9, <2>2, <3>1 DEF KeyAt
  <2> QED
    BY <2>1, <2>2
<1>13. Spares(s)
  <2>1. \A c \in Executing(s) : c \in LogKey
    BY SideFacts DEF Executing
  <2>2. \A c \in Executing(s) \ excused' : c # k
    BY <1>10, <2>1
  <2> QED
    BY <1>4, <1>9, <2>1, <2>2 DEF Spares
<1>14. script' = [script EXCEPT ![s] = p] /\ idem' = [idem EXCEPT ![s] = k]
  BY <1>1, <1>3, <1>6 DEF SideTypes
<1> QED
  BY <1>1, <1>5, <1>7, <1>11, <1>12, <1>13, <1>14, StoreFacts, OnceStep

\* The answer of a call is logged, which was not there.
LEMMA AnswerOnce ==
    ASSUME StoreInv, StoreTypes', SideTypes, OnceInv, NEW s \in Session, NEW q \in Seq(Statement), NEW k \in LogKey,
           NEW st, NEW e, NEW r, Executes(s, q, k, st, e, r), e.ok, Answers(st, k)
    PROVE  OnceInv'
<1>1. /\ q = script[s] /\ q # <<>> /\ q[1] = st /\ k = idem[s] /\ Proper(q, k) /\ st \in Statement
      /\ e = Effect(st) /\ Takes(s, r) /\ GoodJob(r) /\ r.at \in Inside /\ r.at # "restore" /\ Brings(r) /\ Detached'
      /\ UNCHANGED <<data, txn>> /\ mem' = e.mem /\ r.ops = e.ops /\ r.ops \in Seq(Op)
      /\ excused' = excused \cup (CellsOfAll(e.ops) \cap PendingBut(s)) /\ st.cell \in LogKey
  BY DEF Executes, Answers
<1>2. /\ script' = [script EXCEPT ![s] = Tail(q)] /\ idem' = [idem EXCEPT ![s] = 0] /\ executions' = executions
  BY <1>1 DEF Executes
<1>3. mem[LogTable] # 0
  <2>1. mem[LogTable] = 0 => e = Failed
    BY <1>1, StoreFacts, AnswerIs
  <2> QED
    BY <2>1 DEF Failed
<1>4. PICK v \in Val \ {0} : v = st.val /\ e.ops = <<[cell |-> k, val |-> v]>> /\ mem' = [mem EXCEPT ![k] = v]
  <2>1. /\ e.ops = <<[cell |-> k, val |-> st.val]>> /\ st.val \in Val \ {0}
        /\ e.mem = [mem EXCEPT ![k] = st.val]
    BY <1>1, <1>3, StoreFacts, AnswerIs
  <2> QED
    BY <1>1, <2>1
<1>5. PICK op \in Op : op = [cell |-> k, val |-> v]
  BY LogKeys, OpIs
<1>6. CellsOf(op) = {k} /\ r.ops = <<op>> /\ CellsOfAll(r.ops) = {k} /\ Gives(op, k) = v
  <2>1. CellsOf(op) = {k} /\ r.ops = <<op>>
    BY <1>1, <1>4, <1>5, OpIs
  <2> QED
    BY <1>5, <2>1, OneOp DEF Gives
<1>7. /\ mem'[k] = v /\ mem'[LogTable] = mem[LogTable] /\ \A c \in LogKey : c # k => mem'[c] = mem[c]
  <2>1. k # LogTable /\ LogTable \in Cell /\ LogKey \subseteq Cell /\ mem \in [Cell -> Val]
    BY LogKeys, KeysAre, StoreFacts DEF Table
  <2> QED
    BY <1>4, <2>1
<1>8. k \notin excused' => OnceAt(k, q, mem, executions) /\ executions[k] = 1 /\ mem[k] = 0 /\ k \notin Executing(s)
  BY <1>1, OthersOnce DEF OnceAt
<1>9. LogKept'
  <2>1. ASSUME NEW c \in LogKey \ excused' PROVE LogView(mem', data', txn', c, mem'[c]) /\ HasOnly(r.ops, c, mem'[c])
    <3>1. LogView(mem, data, txn, c, mem[c])
      BY <1>1, <2>1 DEF OnceInv, LogKept
    <3>2. CASE c # k
      <4>1. HasOnly(r.ops, c, mem'[c])
        BY <1>1, <1>6, <3>2, HasNone
      <4>2. LogView(mem', data, txn, c, mem'[c])
        BY <1>7, <3>1, <3>2, ViewStays
      <4> QED
        BY <1>1, <4>1, <4>2
    <3>3. CASE c = k
      <4>1. LogView(mem, data, txn, k, 0)
        BY <1>8, <2>1, <3>1, <3>3
      <4>2. data[k] = 0 /\ HasOnly(txn.log, k, 0) /\ (txn.open => txn.snapshot[k] = 0)
        BY <4>1 DEF LogView
      <4>3. HasOnly(txn.log, k, v)
        <5>1. txn.log \in Seq(Op)
          BY StoreFacts, NoTxnIs, CellsEmpty DEF GoodTxn
        <5> QED
          BY <4>2, <5>1, HasZero, HasNone
      <4>4. HasOnly(r.ops, k, v)
        BY <1>6, HasOne
      <4> QED
        BY <1>1, <1>7, <3>3, <4>2, <4>3, <4>4 DEF LogView
    <3> QED
      BY <3>2, <3>3
  <2>2. ASSUME NEW c \in LogKey \ excused', c \in PendingBut(s) PROVE LeftAlone(c)
    <3>1. c # k
      BY <1>1, <1>6, <2>2
    <3> QED
      BY <1>1, <1>7, <3>1 DEF LeftAlone
  <2>3. excused \subseteq excused'
    BY <1>1
  <2> QED
    BY <1>1, <2>1, <2>2, <2>3, StoreFacts, LogKeeps DEF OnceInv
<1>10. PICK n \in LogKey \cup {0} : n = 0
  OBVIOUS
<1>a. PICK p : p = Tail(q)
  OBVIOUS
<1>11. Proper(p, n) /\ p \in Seq(Statement) /\ LooksAt(p, mem', excused')
  BY <1>1, <1>10, <1>a, ProperAnswer DEF LooksAt
<1>12. ASSUME NEW c \in LogKey \ excused'
       PROVE  KeyAt(c, mem', executions') /\ (executions'[c] = 1 => mem'[c] # 0 \/ c = n \/ c \in Executing(s))
  <2>1. CASE c = k
    BY <1>2, <1>7, <1>8, <1>12, <2>1 DEF KeyAt
  <2>2. CASE c # k
    <3>1. KeyAt(c, mem, executions) /\ (executions[c] = 1 => mem[c] # 0 \/ c \in Executing(s))
      BY <1>1, <1>12, <2>2, OthersOnce
    <3> QED
      BY <1>2, <1>7, <2>2, <3>1 DEF KeyAt
  <2> QED
    BY <2>1, <2>2
<1>13. Spares(s)
  <2>1. \A c \in Executing(s) : c \in LogKey
    BY SideFacts DEF Executing
  <2>2. \A c \in Executing(s) \ excused' : c # k
    BY <1>8
  <2> QED
    BY <1>2, <1>3, <1>7, <2>1, <2>2 DEF Spares
<1>14. script' = [script EXCEPT ![s] = p] /\ idem' = [idem EXCEPT ![s] = n] /\ excused \subseteq excused'
  BY <1>1, <1>2, <1>10, <1>a
<1> QED
  BY <1>1, <1>9, <1>10, <1>11, <1>12, <1>13, <1>14, StoreFacts, OnceStep

LEMMA ExecuteOnce ==
    ASSUME StoreInv, StoreTypes', SideTypes, OnceInv, NEW s \in Session, Execute(s)
    PROVE  OnceInv'
<1>1. PICK q \in Seq(Statement) : \E k \in LogKey \cup {0} : \E st, e, r : Executes(s, q, k, st, e, r)
  BY ExecuteIs
<1>2. PICK k \in LogKey \cup {0} : \E st, e, r : Executes(s, q, k, st, e, r)
  BY <1>1
<1>3. PICK st, e, r : Executes(s, q, k, st, e, r)
  BY <1>2
<1>4. Proper(q, k) /\ q # <<>> /\ st = q[1] /\ st.do \in Effects
  BY <1>3 DEF Executes
<1>5. Effective(st) \/ (k \in LogKey /\ Answers(st, k))
  <2>1. OnLog(st) => k # 0 /\ Answers(st, k)
    BY <1>4, ProperHead
  <2> QED
    BY <1>4, <2>1 DEF Effective
<1>6. CASE ~e.ok
  BY <1>3, <1>6, FailsOnce
<1>7. CASE e.ok
  BY <1>3, <1>5, <1>7, EffectOnce, AnswerOnce
<1> QED
  BY <1>6, <1>7
-----------------------------------------------------------------------------
(***************************************************************************)
(* A crash, and the process as a whole.                                    *)
(***************************************************************************)
\* A call that the crash cuts short is excused; what was logged is back with what the store holds.
LEMMA CrashOnce ==
    ASSUME StoreInv, SideTypes, OnceInv, Crash
    PROVE  OnceInv'
<1>1. /\ txn' = NoTxn /\ job' = [s \in Session |-> Resting] /\ UNCHANGED <<data, attached>>
      /\ script' = [s \in Session |-> IF job[s] = Resting /\ ~Calling(s) THEN script[s] ELSE <<>>]
      /\ idem' = [s \in Session |-> 0]
      /\ executions' = [k \in LogKey |-> IF mem'[k] = mem[k] THEN executions[k] ELSE 0]
  BY DEF Crash, storeVars
<1>2. /\ \A s \in Session : idem[s] # 0 => idem[s] \in excused'
      /\ \A k \in LogKey : k \in excused => k \in excused'
  <2>1. PICK rest : excused' = ({idem[s] : s \in Session} \ {0})
                               \cup {c \in excused : c \in LogKey \/ mem'[c] # data[c] \/ c \in Corrupted} \cup rest
    <3>1. PICK cut, orphans, all :
             /\ cut = UNION {Pending(s) : s \in Session}
             /\ orphans = {k \in Key : data[k] # 0 /\ data[TableOf(k)] = 0}
             /\ all = IF \E k \in Corrupted : data[TableOf(k)] # 0 THEN Cell ELSE {}
      OBVIOUS
    <3>2. PICK calls, kept : /\ calls = {idem[s] : s \in Session} \ {0}
                             /\ kept = {c \in excused : c \in LogKey \/ mem'[c] # data[c] \/ c \in Corrupted}
      OBVIOUS
    <3>3. excused' = cut \cup calls \cup kept \cup orphans \cup all
      BY <3>1, <3>2 DEF Crash
    <3>4. excused' = calls \cup kept \cup (cut \cup orphans \cup all)
      BY <3>3
    <3> QED
      BY <3>2, <3>4
  <2> QED
    BY <2>1
<1>3. ASSUME NEW k \in LogKey \ excused' PROVE mem'[k] = data[k]
  <2>1. AllRest'
    BY CrashRests
  <2> QED
    BY <1>1, <2>1, KeysAre DEF AllRest
<1>4. ASSUME NEW k \in LogKey \ excused' PROVE LogView(mem, data, txn, k, mem[k]) /\ mem'[k] \in {0, mem[k]}
  <2>1. LogView(mem, data, txn, k, mem[k])
    BY <1>2, <1>4 DEF OnceInv, LogKept
  <2> QED
    BY <1>3, <1>4, <2>1 DEF LogView
<1>5. \A s \in Session : job'[s] = Resting /\ idem'[s] = 0
  BY <1>1
<1>6. ASSUME NEW s \in Session PROVE script'[s] = <<>> \/ (script'[s] = script[s] /\ ~Calling(s))
  BY <1>1
<1>7. CallsProper'
  <2> SUFFICES ASSUME NEW s \in Session PROVE Proper(script'[s], idem'[s]) /\ (job'[s].at \notin Inside => idem'[s] = 0)
    BY DEF CallsProper
  <2>1. ~Calling(s) => idem[s] = 0 /\ Proper(script[s], 0)
    BY DEF OnceInv, CallsProper, Calling
  <2>2. Proper(script'[s], 0)
    BY <1>6, <2>1, ProperEmpty
  <2> QED
    BY <1>5, <2>2
<1>8. LooksFit'
  <2> SUFFICES ASSUME NEW s \in Session, script'[s] # <<>>, script'[s][1].do = "lookup" PROVE FALSE
    BY DEF LooksFit, LooksAt
  <2>1. ~Calling(s) /\ script'[s] = script[s] /\ script[s] \in Seq(Statement)
    BY <1>6 DEF SideTypes
  <2>2. 1 \in DOMAIN script[s] /\ script[s][1].do = "lookup"
    BY <2>1
  <2> QED
    BY <2>1, <2>2 DEF Calling
<1>9. CallsOnce'
  BY <1>5 DEF CallsOnce
<1>10. KeysOnce'
  <2> SUFFICES ASSUME NEW k \in LogKey \ excused' PROVE KeyAt(k, mem', executions') /\ (executions'[k] = 1 => mem'[k] # 0)
    BY DEF KeysOnce
  <2>1. KeyAt(k, mem, executions) /\ (executions[k] = 1 => mem[k] # 0 \/ \E u \in Session : idem[u] = k)
    BY <1>2 DEF OnceInv, KeysOnce
  <2>2. \A u \in Session : idem[u] # k
    BY <1>2, LogKeys
  <2>3. executions'[k] = IF mem'[k] = mem[k] THEN executions[k] ELSE 0
    BY <1>1
  <2> QED
    BY <1>4, <2>1, <2>2, <2>3 DEF KeyAt
<1>11. LogKept'
  <2> SUFFICES ASSUME NEW k \in LogKey \ excused'
               PROVE  /\ LogView(mem', data', txn', k, mem'[k])
                      /\ \A s \in Session : /\ HasOnly(job'[s].ops, k, mem'[k])
                                            /\ job'[s].at = "restore" => LogView(mem', data', txn', k, job'[s].snapshot[k])
    BY DEF LogKept
  <2>1. HasOnly(txn'.log, k, mem'[k]) /\ ~txn'.open
    BY <1>1, NoTxnIs, HasEmpty
  <2>2. LogView(mem', data', txn', k, mem'[k])
    BY <1>1, <1>3, <2>1 DEF LogView
  <2> QED
    BY <1>5, <2>2, RestBrings
<1>12. Brought' /\ Detached'
  <2>1. Brought'
    <3> SUFFICES ASSUME NEW s \in Session PROVE Brings(job'[s])
      BY DEF Brought
    <3> QED
      BY <1>5, RestBrings
  <2>2. Resting.at \notin Writing
    BY RestBrings DEF Writing
  <2>3. Detached'
    BY <1>1, <1>5, <2>2 DEF OnceInv, Detached
  <2> QED
    BY <2>1, <2>3
<1> QED
  BY <1>7, <1>8, <1>9, <1>10, <1>11, <1>12 DEF OnceInv

LEMMA EngineOnce ==
    ASSUME StoreInv, StoreInv', SideTypes, SyncInv, OnceInv, NEW s \in Session, EngineStep(s)
    PROVE  OnceInv'
<1>1. StoreTypes'
  BY DEF StoreInv
<1>2. CASE Execute(s)
  BY <1>1, <1>2, ExecuteOnce
<1>3. CASE Mark(s) \/ RecordOrApply(s) \/ StoreWrite(s) \/ StoreError(s) \/ IngestError(s) \/ Install(s)
  BY <1>1, <1>3, MarkOnce, RecordOnce, StoreWriteOnce, StoreErrorOnce, IngestErrorOnce, InstallOnce
<1>4. CASE Begin(s) \/ CommitTxn(s) \/ ApplyLog(s) \/ CommitError(s) \/ Rollback(s) \/ Restore(s)
  BY <1>1, <1>4, BeginOnce, CommitTxnOnce, ApplyOnce, CommitErrorOnce, RollbackOnce, RestoreOnce
<1>5. CASE EnsureLog(s) \/ LookUp(s)
  BY <1>1, <1>5, EnsureOnce, LookUpOnce
<1>6. CASE CallVersion(s) \/ VersionCall(s) \/ Return(s)
  BY <1>1, <1>6, CallVersionOnce, VersionCallOnce, ReturnOnce
<1>7. CASE TakeDirty(s) \/ ExportDirty(s) \/ LoadCommit(s)
  BY <1>1, <1>7, ExportOnce, LoadOnce
<1> QED
  BY <1>2, <1>3, <1>4, <1>5, <1>6, <1>7 DEF EngineStep
-----------------------------------------------------------------------------
(***************************************************************************)
(* Backups, and the other parts of the database.                           *)
(***************************************************************************)
LEMMA HeadingOnce ==
    ASSUME StoreInv, StoreTypes', SideTypes, OnceInv, NEW s \in Session, NEW what \in {"backup", "restore"}, Heading(s, what),
           Advance(s), UNCHANGED <<mem, data, txn, job, executions, idem, attached, excused>>
    PROVE  OnceInv'
<1>1. PICK p : p = Tail(script[s])
  OBVIOUS
<1>2. script[s] # <<>> /\ Head(script[s]).do \notin Effects \cup {"ensure", "lookup"}
  BY DEF Heading, Effects
<1>3. idem[s] = 0 /\ p \in Seq(Statement) /\ Proper(p, 0) /\ \A m, x : LooksAt(p, m, x)
  BY <1>1, <1>2, Passes
<1>4. script' = [script EXCEPT ![s] = p] /\ excused \subseteq excused' /\ LooksAt(p, mem, excused')
  BY <1>1, <1>3 DEF Advance
<1> QED
  BY <1>3, <1>4, ScriptOnce

LEMMA BackupOnce ==
    ASSUME EngineInv, EngineInv', OnceInv, NEW s \in Session, BackupStep(s) \/ BackupFailure(s) \/ ReadStep(s)
    PROVE  OnceInv'
<1>1. StoreInv /\ StoreTypes' /\ SideTypes /\ BackupTypes
  BY DEF EngineInv, StoreInv
<1>2. CASE BackupStep(s) \/ BackupFailure(s)
  <2>1. /\ UNCHANGED <<mem, data, txn, job, executions, idem, attached>> /\ excused \subseteq excused'
        /\ UNCHANGED excused
    BY <1>2 DEF BackupStep, BackupFailure, engineHistory, storeVars
  <2>2. CASE StartSnapshot(s) \/ StartRestore(s)
    <3>1. PICK what \in {"backup", "restore"} : Heading(s, what) /\ Advance(s)
      BY <2>2 DEF StartSnapshot, StartRestore
    <3> QED
      BY <1>1, <2>1, <3>1, HeadingOnce
  <2>3. CASE UNCHANGED script
    BY <2>1, <2>3, SameOnce
  <2>4. StartSnapshot(s) \/ StartRestore(s) \/ UNCHANGED script
    <3>1. WriteFile(s) \/ HashFile(s) \/ WriteManifest(s) \/ Upload(s) \/ EndUpload(s) => UNCHANGED script
      BY Zenon DEF WriteFile, HashFile, WriteManifest, Upload, EndUpload
    <3>2. Download(s) \/ OpenManifest(s) \/ CheckFile(s) \/ NextFile(s) \/ EndRestore(s) => UNCHANGED script
      BY Zenon DEF Download, OpenManifest, CheckFile, NextFile, EndRestore, Fail
    <3>3. BackupError(s) => UNCHANGED script
      BY Zenon DEF BackupError, Fail
    <3> QED
      BY <1>2, <3>1, <3>2, <3>3 DEF BackupStep, BackupFailure
  <2> QED
    BY <2>2, <2>3, <2>4
<1>3. CASE ReadStep(s)
  <2>1. PICK t \in Table : \E image \in [KeysOf(t) -> Val] : IngestTable(s, t, image)
    BY <1>1, <1>3, ReadFileTyped DEF ReadStep
  <2>2. PICK image \in [KeysOf(t) -> Val] : IngestTable(s, t, image)
    BY <2>1
  <2> QED
    BY <1>1, <2>2, IngestOnce
<1> QED
  BY <1>2, <1>3

LEMMA OnceKeeps == DatabaseInv /\ EngineInv /\ EngineInv' /\ OnceInv /\ [Next]_vars => OnceInv'
<1> SUFFICES ASSUME DatabaseInv, EngineInv, EngineInv', OnceInv, [Next]_vars PROVE OnceInv'
  OBVIOUS
<1>0. StoreInv /\ StoreInv' /\ SideTypes /\ SyncInv
  BY DEF EngineInv, DatabaseInv
<1>1. ASSUME NEW s \in Session, SessionStep(s) PROVE OnceInv'
  BY <1>0, <1>1, EngineOnce DEF SessionStep
<1>2. ASSUME NEW s \in Session, SessionBackup(s) PROVE OnceInv'
  BY <1>2, BackupOnce DEF SessionBackup
<1>3. CASE UNCHANGED <<storeVars, attached, mem, txn, job, excused, script, idem, executions>>
  BY <1>3, SameOnce DEF storeVars
<1>4. CASE \E f \in Refresher : OlapQuery(f)
  <2>1. PICK f \in Refresher : OlapQuery(f)
    BY <1>4
  <2> QED
    BY <1>3, <2>1 DEF OlapQuery, OlapStep, engineHistory
<1>5. CASE Replicate
  BY <1>3, <1>5 DEF Replicate, ReplicaStep, engineVars, engineHistory
<1>6. CASE Configure
  BY <1>3, <1>6 DEF Configure, engineVars, engineHistory
<1>7. CASE Restart
  BY <1>0, <1>7, CrashOnce DEF Restart
<1>8. CASE UNCHANGED vars
  BY <1>3, <1>8 DEF vars, engineVars, engineHistory
<1> QED
  BY <1>1, <1>2, <1>4, <1>5, <1>6, <1>7, <1>8 DEF Next
-----------------------------------------------------------------------------
(***************************************************************************)
(* The start.                                                              *)
(***************************************************************************)
LEMMA OnceStart ==
    ASSUME NEW w, w.script \in [Session -> Seq(Statement)], \A s \in Session : OnlyCalls(w.script[s]), Start(w)
    PROVE  OnceInv
<1>1. /\ data = [c \in Cell |-> 0] /\ mem = [c \in Cell |-> 0] /\ txn = NoTxn
      /\ job = [s \in Session |-> Resting] /\ excused = {}
      /\ script = w.script /\ idem = [s \in Session |-> 0] /\ executions = [k \in LogKey |-> 0]
  BY DEF Start, EngineInit, RowStoreInit
<1>2. ASSUME NEW s \in Session
      PROVE  script[s] \in Seq(Statement) /\ OnlyCalls(script[s]) /\ idem[s] = 0 /\ job[s] = Resting
  BY <1>1
<1>3. CallsProper
  BY <1>2, ProperStarts, RestBrings DEF CallsProper, Inside
<1>4. ASSUME NEW s \in Session, script[s] # <<>> PROVE script[s][1].do # "lookup"
  <2>1. PICK q \in Seq(Statement) : q = script[s]
    BY <1>2
  <2>2. q # <<>> /\ OnlyCalls(q)
    BY <1>2, <1>4, <2>1
  <2>3. 1 \in 1 .. Len(q)
    BY <2>2
  <2> QED
    BY <2>1, <2>2, <2>3 DEF OnlyCalls
<1>5. LooksFit
  BY <1>4 DEF LooksFit, LooksAt
<1>6. CallsOnce
  BY <1>2 DEF CallsOnce
<1>7. ASSUME NEW k \in LogKey PROVE mem[k] = 0 /\ data[k] = 0 /\ executions[k] = 0
  <2>1. k \in Cell
    BY LogKeys
  <2> QED
    BY <1>1, <2>1
<1>8. KeysOnce
  BY <1>7 DEF KeysOnce, KeyAt
<1>9. LogKept
  <2>1. ASSUME NEW k \in LogKey PROVE LogView(mem, data, txn, k, mem[k])
    BY <1>1, <1>7, NoTxnIs, HasEmpty DEF LogView
  <2>2. ASSUME NEW k \in LogKey, NEW s \in Session PROVE HasOnly(job[s].ops, k, mem[k]) /\ job[s].at # "restore"
    BY <1>2, RestBrings
  <2> QED
    BY <2>1, <2>2 DEF LogKept
<1>10. Brought
  BY <1>2, RestBrings DEF Brought
<1>11. Detached
  BY <1>2, <1>7, RestBrings DEF Detached, Writing
<1> QED
  BY <1>3, <1>5, <1>6, <1>8, <1>9, <1>10, <1>11 DEF OnceInv

LEMMA OnceStarts == IdempotentCalls /\ Init => OnceInv
<1> SUFFICES ASSUME IdempotentCalls, Init PROVE OnceInv
  OBVIOUS
<1>1. CASE \E w \in Workloads : Start(w)
  <2>1. PICK w \in Workloads : Start(w)
    BY <1>1
  <2>2. w.script \in [Session -> Seq(Statement)] /\ \A s \in Session : OnlyCalls(w.script[s])
    BY DatabaseAssumption DEF IdempotentCalls
  <2> QED
    BY <2>1, <2>2, OnceStart
<1>2. CASE Start(Nothing)
  <2>1. PICK nothing : nothing = Nothing
    OBVIOUS
  <2>2. nothing.script = [s \in Session |-> <<>>]
    BY <2>1 DEF Nothing
  <2>3. nothing.script \in [Session -> Seq(Statement)]
    BY <2>2, NoScript
  <2>4. OnlyCalls(<<>>)
    BY DEF OnlyCalls
  <2>5. \A s \in Session : OnlyCalls(nothing.script[s])
    BY <2>2, <2>4
  <2> QED
    BY <1>2, <2>1, <2>3, <2>5, OnceStart
<1> QED
  BY <1>1, <1>2 DEF Init

LEMMA OnceMeans == OnceInv => ExecutedOnce
<1> SUFFICES ASSUME OnceInv, NEW k \in LogKey \ excused PROVE executions[k] <= 1 /\ (mem[k] # 0 => executions[k] = 1)
  BY DEF ExecutedOnce
<1>1. KeyAt(k, mem, executions)
  BY DEF OnceInv, KeysOnce
<1> QED
  BY <1>1 DEF KeyAt

\* An idempotent call takes effect once, however often clients send it and however its retries and
\* other sessions' statements come between its steps: a key that is logged has been executed once,
\* and none more often (execute_idempotent and ensure_idempotency_log of engine.rs:724-771).  Excepted
\* are the keys of calls that met each other, a BEGIN, a ROLLBACK, a checkout or a fault.  Each
\* call is assumed to be of one statement, and clients to write to the log table in such calls only.
THEOREM CallsTakeEffectOnce == IdempotentCalls /\ Spec => []ExecutedOnce
<1>1. OnceInv => ExecutedOnce
  BY OnceMeans
<1>2. CASE IdempotentCalls
  <2>1. Init => OnceInv
    BY <1>2, OnceStarts
  <2> QED
    BY <1>1, <2>1, OnceKeeps, EngineInvHolds, DatabaseInvHolds, PTL DEF Spec
<1> QED
  BY <1>2
-----------------------------------------------------------------------------
(***************************************************************************)
(* Rows of a cached table (OlapCache).                                     *)
(***************************************************************************)
\* Rows of a table as pairs, with one row of each key.
RowsOfTable(t, q) ==
    /\ q \in Seq(KeysOf(t) \X (Val \ {0}))
    /\ \A i, j \in 1 .. Len(q) : q[i][1] = q[j][1] => i = j

LEMMA PairsAre ==
    ASSUME NEW t, NEW q \in Seq(KeysOf(t) \X (Val \ {0}))
    PROVE  /\ DOMAIN q = 1 .. Len(q) /\ Len(q) \in Nat
           /\ \A i \in 1 .. Len(q) : q[i][1] \in KeysOf(t) /\ q[i][2] \in Val \ {0} /\ q[i] = <<q[i][1], q[i][2]>>
<1>1. DOMAIN q = 1 .. Len(q) /\ Len(q) \in Nat /\ \A i \in 1 .. Len(q) : q[i] \in KeysOf(t) \X (Val \ {0})
  OBVIOUS
<1> QED
  BY <1>1

LEMMA RowIs ==
    ASSUME NEW t, NEW q, RowsOfTable(t, q), NEW k
    PROVE  /\ (\A i \in 1 .. Len(q) : q[i][1] # k) => CopyRow(q, k) = 0
           /\ \A i \in 1 .. Len(q) : q[i][1] = k => CopyRow(q, k) = q[i][2]
<1>1. /\ DOMAIN q = 1 .. Len(q) /\ Len(q) \in Nat
      /\ \A i, j \in 1 .. Len(q) : q[i][1] = q[j][1] => i = j
  BY PairsAre DEF RowsOfTable
<1>2. PICK rows : rows = {i \in DOMAIN q : q[i][1] = k}
  OBVIOUS
<1>3. CopyRow(q, k) = IF rows = {} THEN 0 ELSE q[CHOOSE i \in rows : TRUE][2]
  BY <1>2 DEF CopyRow
<1>4. ASSUME NEW i \in 1 .. Len(q), q[i][1] = k PROVE CopyRow(q, k) = q[i][2]
  <2>1. i \in rows /\ \A j \in rows : j = i
    BY <1>1, <1>2, <1>4
  <2>2. (CHOOSE j \in rows : TRUE) = i
    BY <2>1
  <2> QED
    BY <1>3, <2>1, <2>2
<1>5. ASSUME \A i \in 1 .. Len(q) : q[i][1] # k PROVE CopyRow(q, k) = 0
  BY <1>1, <1>2, <1>3, <1>5
<1> QED
  BY <1>4, <1>5

\* A query reads the last row of a key.
LEMMA LastRowIs ==
    ASSUME NEW t, RowsOfTable(t, batch[t]), NEW k
    PROVE  BatchRow(t, k) = CopyRow(batch[t], k)
<1>1. PICK q : q = batch[t]
  OBVIOUS
<1>2. RowsOfTable(t, q)
  BY <1>1
<1>3. DOMAIN q = 1 .. Len(q) /\ Len(q) \in Nat
  BY <1>2, PairsAre DEF RowsOfTable
<1>4. PICK rows : rows = {i \in DOMAIN q : q[i][1] = k}
  OBVIOUS
<1>5. BatchRow(t, k) = IF rows = {} THEN 0 ELSE q[Max(rows)][2]
  BY <1>1, <1>4 DEF BatchRow
<1>6. CASE rows = {}
  <2>1. \A i \in 1 .. Len(q) : q[i][1] # k
    BY <1>3, <1>4, <1>6
  <2>2. CopyRow(q, k) = 0
    BY <1>2, <2>1, RowIs
  <2> QED
    BY <1>1, <1>5, <1>6, <2>2
<1>7. CASE rows # {}
  <2>1. rows \subseteq 1 .. Len(q)
    BY <1>3, <1>4
  <2>2. Max(rows) \in rows
    BY <1>3, <1>7, <2>1, GreatestOf
  <2>3. PICK i : i = Max(rows) /\ i \in 1 .. Len(q) /\ q[i][1] = k
    BY <1>3, <1>4, <2>2
  <2>4. CopyRow(q, k) = q[i][2]
    BY <1>2, <2>3, RowIs
  <2> QED
    BY <1>1, <1>5, <1>7, <2>3, <2>4
<1> QED
  BY <1>6, <1>7

\* A set in order names each element once.
LEMMA OrderIs ==
    ASSUME NEW S \in SUBSET Nat, IsFiniteSet(S), NEW h, h = Ordered(S)
    PROVE  /\ DOMAIN h = 1 .. Len(h) /\ Len(h) \in Nat
           /\ \A i \in 1 .. Len(h) : h[i] \in S
           /\ \A k \in S : \E i \in 1 .. Len(h) : h[i] = k
           /\ \A i, j \in 1 .. Len(h) : h[i] = h[j] => i = j
<1>1. /\ Len(h) \in Nat /\ h \in Seq(S) /\ DOMAIN h = 1 .. Len(h)
      /\ \A k \in S : \E i \in 1 .. Len(h) : h[i] = k
      /\ \A i, j \in 1 .. Len(h) : i < j => h[i] < h[j]
  BY OrderedIs
<1>2. \A i \in 1 .. Len(h) : h[i] \in S
  BY <1>1
<1>3. ASSUME NEW i \in 1 .. Len(h), NEW j \in 1 .. Len(h), h[i] = h[j] PROVE i = j
  <2> SUFFICES ASSUME i # j PROVE FALSE
    OBVIOUS
  <2>0. \A k \in S : k \in Nat
    OBVIOUS
  <2>1. h[i] \in Nat /\ h[j] \in Nat
    BY <1>2, <2>0
  <2>2. i < j \/ j < i
    BY <1>1
  <2>3. h[i] < h[j] \/ h[j] < h[i]
    BY <1>1, <2>2
  <2> QED
    BY <1>3, <2>1, <2>3
<1> QED
  BY <1>1, <1>2, <1>3

\* A copy has the rows that the table has.
LEMMA SnapshotIs ==
    ASSUME mem \in [Cell -> Val], NEW t \in Table, NEW q, q = SnapshotOf(t)
    PROVE  RowsOfTable(t, q) /\ \A k \in KeysOf(t) : CopyRow(q, k) = mem[k]
<1>1. PICK h : h = Hits(t, 0)
  OBVIOUS
<1>2. /\ DOMAIN h = 1 .. Len(h) /\ Len(h) \in Nat
      /\ \A i \in 1 .. Len(h) : h[i] \in RowsOf(t, 0)
      /\ \A k \in RowsOf(t, 0) : \E i \in 1 .. Len(h) : h[i] = k
      /\ \A i, j \in 1 .. Len(h) : i # j => h[i] # h[j]
  BY <1>1, HitsAre
<1>3. \A k : k \in RowsOf(t, 0) <=> k \in KeysOf(t) /\ mem[k] # 0
  BY DEF RowsOf, KeysOf
<1>4. \A k \in KeysOf(t) : mem[k] \in Val
  BY KeysAre
<1>5. PICK n \in Nat : n = Len(h)
  BY <1>2
<1>6. q = [i \in 1 .. n |-> <<h[i], mem[h[i]]>>]
  BY <1>1, <1>2, <1>5 DEF SnapshotOf
<1>7. q \in Seq(KeysOf(t) \X (Val \ {0})) /\ Len(q) = n
  <2>1. \A i \in 1 .. n : <<h[i], mem[h[i]]>> \in KeysOf(t) \X (Val \ {0})
    BY <1>2, <1>3, <1>4, <1>5
  <2>2. q \in [1 .. n -> KeysOf(t) \X (Val \ {0})]
    BY <1>6, <2>1
  <2> QED
    BY <2>2
<1>8. \A i \in 1 .. n : q[i][1] = h[i] /\ q[i][2] = mem[h[i]]
  BY <1>6
<1>9. RowsOfTable(t, q)
  BY <1>2, <1>5, <1>7, <1>8 DEF RowsOfTable
<1>10. ASSUME NEW k \in KeysOf(t) PROVE CopyRow(q, k) = mem[k]
  <2>1. CASE mem[k] # 0
    <3>1. PICK i \in 1 .. n : h[i] = k
      BY <1>2, <1>3, <1>5, <2>1
    <3>2. i \in 1 .. Len(q) /\ q[i][1] = k /\ q[i][2] = mem[k]
      BY <1>7, <1>8, <3>1
    <3> QED
      BY <1>9, <3>2, RowIs
  <2>2. CASE mem[k] = 0
    <3>1. \A i \in 1 .. Len(q) : q[i][1] # k
      BY <1>2, <1>3, <1>5, <1>7, <1>8, <2>2
    <3>2. CopyRow(q, k) = 0
      BY <1>9, <3>1, RowIs
    <3> QED
      BY <2>2, <3>2
  <2> QED
    BY <2>1, <2>2
<1> QED
  BY <1>9, <1>10
-----------------------------------------------------------------------------
\* A merge has the rows of the keys as the table has them, and the others as they were.
LEMMA MergedIs ==
    ASSUME mem \in [Cell -> Val], NEW t \in Table, RowsOfTable(t, batch[t]), NEW keys \in SUBSET KeysOf(t),
           NEW r, r = Merged(t, keys)
    PROVE  /\ RowsOfTable(t, r)
           /\ \A k \in KeysOf(t) : CopyRow(r, k) = IF k \in keys THEN mem[k] ELSE CopyRow(batch[t], k)
<1>1. PICK q : q = batch[t]
  OBVIOUS
<1>2. RowsOfTable(t, q)
  BY <1>1
<1>3. PICK T : T = KeysOf(t) \X (Val \ {0})
  OBVIOUS
<1>4. /\ q \in Seq(T) /\ DOMAIN q = 1 .. Len(q) /\ Len(q) \in Nat
      /\ \A i \in 1 .. Len(q) : q[i][1] \in KeysOf(t) /\ q[i] \in T
      /\ \A i, j \in 1 .. Len(q) : q[i][1] = q[j][1] => i = j
  BY <1>2, <1>3, PairsAre DEF RowsOfTable
<1>5. PICK P, S : P = {i \in DOMAIN q : q[i][1] \notin keys} /\ S = {k \in keys : mem[k] # 0}
  OBVIOUS
<1>6. P \in SUBSET Nat /\ IsFiniteSet(P) /\ P \subseteq 1 .. Len(q)
  <2>1. 1 \in Int /\ Len(q) \in Int
    BY <1>4
  <2>2. IsFiniteSet(1 .. Len(q))
    BY ONLY <2>1, FS_Interval
  <2>3. P \in SUBSET (1 .. Len(q)) /\ \A i \in 1 .. Len(q) : i \in Nat
    BY <1>4, <1>5
  <2>4. IsFiniteSet(P)
    BY <2>2, <2>3, FS_Subset
  <2> QED
    BY <2>3, <2>4
<1>7. S \in SUBSET Nat /\ IsFiniteSet(S) /\ S \subseteq KeysOf(t)
  <2>1. S \in SUBSET Key /\ S \subseteq KeysOf(t)
    BY <1>5, KeysAre
  <2> QED
    BY <2>1, KeysAre
<1>8. PICK o, h : o = Ordered(P) /\ h = Ordered(S)
  OBVIOUS
<1>9. /\ DOMAIN o = 1 .. Len(o) /\ Len(o) \in Nat
      /\ \A i \in 1 .. Len(o) : o[i] \in P
      /\ \A j \in P : \E i \in 1 .. Len(o) : o[i] = j
      /\ \A i, j \in 1 .. Len(o) : o[i] = o[j] => i = j
  BY <1>6, <1>8, OrderIs
<1>10. /\ DOMAIN h = 1 .. Len(h) /\ Len(h) \in Nat
       /\ \A i \in 1 .. Len(h) : h[i] \in S
       /\ \A k \in S : \E i \in 1 .. Len(h) : h[i] = k
       /\ \A i, j \in 1 .. Len(h) : h[i] = h[j] => i = j
  BY <1>7, <1>8, OrderIs
<1>11. PICK m \in Nat, n \in Nat : m = Len(o) /\ n = Len(h)
  BY <1>9, <1>10
<1>12. PICK a, b : a = [i \in 1 .. m |-> q[o[i]]] /\ b = [i \in 1 .. n |-> <<h[i], mem[h[i]]>>]
  OBVIOUS
<1>13. r = a \o b
  <2>1. a = AtPlaces(batch[t], {i \in DOMAIN batch[t] : batch[t][i][1] \notin keys})
    BY <1>1, <1>5, <1>8, <1>9, <1>11, <1>12 DEF AtPlaces
  <2>2. Ordered({k \in keys : mem[k] # 0}) = h
    BY <1>5, <1>8
  <2>3. b = [i \in DOMAIN h |-> <<h[i], mem[h[i]]>>]
    BY <1>10, <1>11, <1>12
  <2> QED
    BY <2>1, <2>2, <2>3 DEF Merged
<1>14. a \in Seq(T) /\ Len(a) = m /\ \A i \in 1 .. m : o[i] \in P /\ o[i] \in 1 .. Len(q) /\ a[i] = q[o[i]]
  <2>1. \A i \in 1 .. m : o[i] \in P /\ o[i] \in 1 .. Len(q) /\ q[o[i]] \in T
    BY <1>4, <1>6, <1>9, <1>11
  <2>2. a \in [1 .. m -> T]
    BY <1>12, <2>1
  <2> QED
    BY <1>12, <2>1, <2>2
<1>15. b \in Seq(T) /\ Len(b) = n /\ \A i \in 1 .. n : h[i] \in S /\ b[i][1] = h[i] /\ b[i][2] = mem[h[i]]
  <2>1. \A k \in S : k \in Cell /\ mem[k] \in Val \ {0} /\ k \in KeysOf(t)
    BY <1>5, <1>7, KeysAre
  <2>2. \A i \in 1 .. n : h[i] \in S /\ <<h[i], mem[h[i]]>> \in T
    BY <1>3, <1>10, <1>11, <2>1
  <2>3. b \in [1 .. n -> T]
    BY <1>12, <2>2
  <2> QED
    BY <1>12, <2>2, <2>3
<1>16. r \in Seq(T) /\ JoinOf(a, b, r)
  BY <1>13, <1>14, <1>15, JoinIs
<1>17. /\ Len(r) = m + n
       /\ \A i \in 1 .. m : i \in 1 .. Len(r) /\ r[i] = q[o[i]]
       /\ \A i \in 1 .. n : m + i \in 1 .. Len(r) /\ r[m + i][1] = h[i] /\ r[m + i][2] = mem[h[i]]
       /\ \A i \in 1 .. Len(r) : i \notin 1 .. m => i - m \in 1 .. n /\ r[i][1] = h[i - m] /\ r[i][2] = mem[h[i - m]]
  <2>1. Len(r) = Len(a) + Len(b) /\ Len(a) = m /\ Len(b) = n
    BY <1>14, <1>15, <1>16 DEF JoinOf
  <2>2. ASSUME NEW i \in 1 .. m PROVE i \in 1 .. Len(r) /\ r[i] = q[o[i]]
    BY <1>14, <1>16, <2>1 DEF JoinOf
  <2>3. ASSUME NEW i \in 1 .. n PROVE m + i \in 1 .. Len(r) /\ r[m + i] = b[i]
    BY <1>16, <2>1 DEF JoinOf
  <2>4. ASSUME NEW i \in 1 .. Len(r), i \notin 1 .. m PROVE i - m \in 1 .. n /\ r[i] = b[i - m]
    BY <1>16, <2>1, <2>4 DEF JoinOf
  <2> QED
    BY <1>15, <2>1, <2>2, <2>3, <2>4
<1>18. \A i \in 1 .. m : q[o[i]][1] \notin keys
  BY <1>5, <1>14
<1>19. \A i \in 1 .. n : h[i] \in keys
  BY <1>5, <1>15
<1>20. RowsOfTable(t, r)
  <2> SUFFICES ASSUME NEW i \in 1 .. Len(r), NEW j \in 1 .. Len(r), r[i][1] = r[j][1] PROVE i = j
    BY <1>3, <1>16 DEF RowsOfTable
  <2>1. i \in 1 .. m <=> j \in 1 .. m
    <3>1. i \in 1 .. m /\ j \notin 1 .. m => FALSE
      BY <1>17, <1>18, <1>19
    <3>2. j \in 1 .. m /\ i \notin 1 .. m => FALSE
      BY <1>17, <1>18, <1>19
    <3> QED
      BY <3>1, <3>2
  <2>2. CASE i \in 1 .. m /\ j \in 1 .. m
    <3>1. q[o[i]][1] = q[o[j]][1]
      BY <1>17, <2>2
    <3>2. o[i] = o[j]
      BY <1>4, <1>14, <2>2, <3>1
    <3> QED
      BY <1>9, <1>11, <2>2, <3>2
  <2>3. CASE i \notin 1 .. m /\ j \notin 1 .. m
    <3>1. i - m \in 1 .. n /\ j - m \in 1 .. n /\ h[i - m] = h[j - m]
      BY <1>17, <2>3
    <3>2. i - m = j - m
      BY <1>10, <1>11, <3>1
    <3> QED
      BY <3>2
  <2> QED
    BY <2>1, <2>2, <2>3
<1>21. ASSUME NEW k \in KeysOf(t), k \in keys PROVE CopyRow(r, k) = mem[k]
  <2>1. CASE mem[k] # 0
    <3>1. PICK i \in 1 .. n : h[i] = k
      BY <1>5, <1>10, <1>11, <1>21, <2>1
    <3>2. m + i \in 1 .. Len(r) /\ r[m + i][1] = k /\ r[m + i][2] = mem[k]
      BY <1>17, <3>1
    <3> QED
      BY <1>20, <3>2, RowIs
  <2>2. CASE mem[k] = 0
    <3>1. \A i \in 1 .. n : h[i] # k
      BY <1>5, <1>15, <2>2
    <3>2. \A i \in 1 .. Len(r) : r[i][1] # k
      BY <1>17, <1>18, <1>21, <3>1
    <3>3. CopyRow(r, k) = 0
      BY <1>20, <3>2, RowIs
    <3> QED
      BY <2>2, <3>3
  <2> QED
    BY <2>1, <2>2
<1>22. ASSUME NEW k \in KeysOf(t), k \notin keys PROVE CopyRow(r, k) = CopyRow(q, k)
  <2>1. CASE \E j \in 1 .. Len(q) : q[j][1] = k
    <3>1. PICK j \in 1 .. Len(q) : q[j][1] = k
      BY <2>1
    <3>2. j \in P
      BY <1>4, <1>5, <1>22, <3>1
    <3>3. PICK i \in 1 .. m : o[i] = j
      BY <1>9, <1>11, <3>2
    <3>4. i \in 1 .. Len(r) /\ r[i] = q[j]
      BY <1>17, <3>3
    <3>5. CopyRow(r, k) = r[i][2]
      BY <1>20, <3>1, <3>4, RowIs
    <3>6. CopyRow(q, k) = q[j][2]
      BY <1>2, <3>1, RowIs
    <3> QED
      BY <3>4, <3>5, <3>6
  <2>2. CASE \A j \in 1 .. Len(q) : q[j][1] # k
    <3>1. ASSUME NEW i \in 1 .. Len(r) PROVE r[i][1] # k
      <4>1. CASE i \in 1 .. m
        BY <1>14, <1>17, <2>2, <4>1
      <4>2. CASE i \notin 1 .. m
        BY <1>17, <1>19, <1>22, <4>2
      <4> QED
        BY <4>1, <4>2
    <3>2. CopyRow(r, k) = 0
      BY <1>20, <3>1, RowIs
    <3>3. CopyRow(q, k) = 0
      BY <1>2, <2>2, RowIs
    <3> QED
      BY <3>2, <3>3
  <2> QED
    BY <2>1, <2>2
<1> QED
  BY <1>1, <1>20, <1>21, <1>22
-----------------------------------------------------------------------------
(***************************************************************************)
(* Zone maps.                                                              *)
(***************************************************************************)
LEMMA SmallestOf ==
    ASSUME NEW T, T \subseteq Nat, T # {}
    PROVE  Min(T) \in T /\ \A y \in T : Min(T) <= y
<1>1. PICK x \in T : \A y \in T : x <= y
  BY LeastOf
<1> QED
  BY <1>1 DEF Min

\* A segment that a zone map disproves has no row that a query looks for.
LEMMA DisprovedHasNone ==
    ASSUME NEW segment, NEW row \in segment, \A r \in segment : r[2] \in Val \ {0}, NEW num \in Val,
           NEW op \in {">", ">=", "<", "<="}, ZoneMapDisproves(segment, op, num)
    PROVE  ~Satisfies(row[2], op, num)
<1>1. PICK T : T = RowValues(segment)
  OBVIOUS
<1>2. T \subseteq 1 .. MaxVal /\ T \subseteq Nat /\ row[2] \in T /\ MaxVal \in Nat
  <2>1. MaxVal \in Nat /\ \A v \in Val \ {0} : v \in 1 .. MaxVal
    BY RowStoreAssumption DEF Val
  <2> QED
    BY <1>1, <2>1 DEF RowValues
<1>3. Max(T) \in T /\ row[2] <= Max(T)
  BY <1>2, GreatestOf
<1>4. Min(T) \in T /\ Min(T) <= row[2]
  BY <1>2, SmallestOf
<1>5. PICK high \in Nat, low \in Nat, v \in Nat, n \in Nat :
         high = Max(T) /\ low = Min(T) /\ v = row[2] /\ n = num /\ low <= v /\ v <= high
  <2>1. num \in Nat
    BY DEF Val
  <2> QED
    BY <1>2, <1>3, <1>4, <2>1
<1>6. CASE op = ">"
  <2>1. high <= n
    BY <1>1, <1>5, <1>6 DEF ZoneMapDisproves
  <2> QED
    BY <1>5, <1>6, <2>1 DEF Satisfies
<1>7. CASE op = ">="
  <2>1. high < n
    BY <1>1, <1>5, <1>7 DEF ZoneMapDisproves
  <2> QED
    BY <1>5, <1>7, <2>1 DEF Satisfies
<1>8. CASE op = "<"
  <2>1. low >= n
    BY <1>1, <1>5, <1>8 DEF ZoneMapDisproves
  <2> QED
    BY <1>5, <1>8, <2>1 DEF Satisfies
<1>9. CASE op = "<="
  <2>1. low > n
    BY <1>1, <1>5, <1>9 DEF ZoneMapDisproves
  <2> QED
    BY <1>5, <1>9, <2>1 DEF Satisfies
<1> QED
  BY <1>6, <1>7, <1>8, <1>9

LEMMA QuotientIs ==
    ASSUME NEW a \in Nat, NEW b \in Nat \ {0}
    PROVE  a \div b \in Nat /\ (a \div b) * b <= a /\ a < ((a \div b) + 1) * b
<1>1. a \div b \in Int
  OBVIOUS
<1>2. PICK d \in Int : d = a \div b
  BY <1>1
<1>3. d * b <= a /\ a < (d + 1) * b
  BY <1>2
<1>4. d >= 0
  BY <1>2
<1> QED
  BY <1>2, <1>3, <1>4

\* Each row is in a segment, and segments have no other rows.
LEMMA SegmentsCover ==
    ASSUME NEW T, NEW q \in Seq(T)
    PROVE  /\ \A n \in DOMAIN Segments(q) : Segments(q)[n] \subseteq ToSet(q)
           /\ \A row \in ToSet(q) : \E n \in DOMAIN Segments(q) : row \in Segments(q)[n]
<1>1. PICK size \in Nat \ {0}, len \in Nat : size = SegmentRows /\ len = Len(q) /\ DOMAIN q = 1 .. len
  BY OlapAssumption
<1>2. PICK count : count = (len + size - 1) \div size
  OBVIOUS
<1>3. Segments(q) = [n \in 1 .. count |-> {q[i] : i \in {j \in 1 .. len : (j - 1) \div size = n - 1}}]
  BY <1>1, <1>2 DEF Segments
<1>4. DOMAIN Segments(q) = 1 .. count
  BY <1>3
<1>5. ToSet(q) = {q[i] : i \in 1 .. len}
  BY <1>1 DEF ToSet
<1>6. ASSUME NEW n \in 1 .. count PROVE Segments(q)[n] \subseteq ToSet(q)
  BY <1>3, <1>5, <1>6
<1>7. ASSUME NEW i \in 1 .. len PROVE \E n \in 1 .. count : (i - 1) \div size = n - 1
  <2>1. PICK a, b : a = i - 1 /\ b = len + size - 1 /\ a \in Nat /\ b \in Nat /\ a + size <= b
    BY <1>1
  <2>2. PICK d \in Nat, e \in Nat :
           d = a \div size /\ e = b \div size /\ d * size <= a /\ b < (e + 1) * size
    BY <1>1, <2>1, QuotientIs
  <2>3. d * size + size < (e + 1) * size
    BY <1>1, <2>1, <2>2
  <2>4. (d + 1) * size < (e + 1) * size
    BY <1>1, <2>2, <2>3
  <2>5. d + 1 < e + 1
    BY <1>1, <2>2, <2>4
  <2>6. d + 1 \in 1 .. count /\ (d + 1) - 1 = d
    BY <1>2, <2>1, <2>2, <2>5
  <2> QED
    BY <2>1, <2>2, <2>6
<1>8. ASSUME NEW row \in ToSet(q) PROVE \E n \in 1 .. count : row \in Segments(q)[n]
  <2>1. PICK i \in 1 .. len : row = q[i]
    BY <1>5
  <2>2. PICK n \in 1 .. count : (i - 1) \div size = n - 1
    BY <1>7
  <2> QED
    BY <1>3, <2>1, <2>2
<1> QED
  BY <1>4, <1>6, <1>8

\* Segments left out by their zone maps are missed by no query.
LEMMA QueriesMissNothing ==
    ASSUME NEW t, RowsOfTable(t, batch[t]), NEW op \in {">", ">=", "<", "<="}, NEW num \in Val
    PROVE  QueryRows(t, op, num) = {r \in ToSet(batch[t]) : Satisfies(r[2], op, num)}
<1>1. PICK q, parts, rows : q = batch[t] /\ parts = Segments(q) /\ rows = ToSet(q)
  OBVIOUS
<1>2. \A r \in rows : r[2] \in Val \ {0}
  <2>1. DOMAIN q = 1 .. Len(q) /\ \A i \in 1 .. Len(q) : q[i][2] \in Val \ {0}
    BY <1>1, PairsAre DEF RowsOfTable
  <2> QED
    BY <1>1, <2>1 DEF ToSet
<1>3. /\ \A n \in DOMAIN parts : parts[n] \subseteq rows
      /\ \A row \in rows : \E n \in DOMAIN parts : row \in parts[n]
  <2>1. q \in Seq(KeysOf(t) \X (Val \ {0}))
    BY <1>1 DEF RowsOfTable
  <2> QED
    BY <1>1, <2>1, SegmentsCover
<1>4. PICK left : left = {n \in DOMAIN parts : ~ZoneMapDisproves(parts[n], op, num)}
  OBVIOUS
<1>5. QueryRows(t, op, num) = {r \in UNION {parts[n] : n \in left} : Satisfies(r[2], op, num)}
  BY <1>1, <1>4 DEF QueryRows
<1>6. ASSUME NEW row \in rows, Satisfies(row[2], op, num) PROVE \E n \in left : row \in parts[n]
  <2>1. PICK n \in DOMAIN parts : row \in parts[n]
    BY <1>3
  <2>2. \A r \in parts[n] : r[2] \in Val \ {0}
    BY <1>2, <1>3
  <2>3. ~ZoneMapDisproves(parts[n], op, num)
    BY <1>6, <2>1, <2>2, DisprovedHasNone
  <2> QED
    BY <1>4, <2>1, <2>3
<1>7. \A row \in UNION {parts[n] : n \in left} : row \in rows
  BY <1>3, <1>4
<1>8. \A row : row \in rows /\ Satisfies(row[2], op, num) => row \in UNION {parts[n] : n \in left}
  BY <1>6
<1> QED
  BY <1>1, <1>5, <1>7, <1>8
-----------------------------------------------------------------------------
(***************************************************************************)
(* Marks of changes (QueryEngine).                                         *)
(***************************************************************************)
\* Cells of operations whose marks are still to come.
DueOf(j) ==
    IF j.at = "mark" THEN CellsOfAll(j.ops)
    ELSE IF j.at \in {"record", "write"} THEN CellsOfAll(Tail(j.ops)) ELSE {}

Concerns(cells, k) == k \in cells \/ TableOf(k) \in cells

\* A key that needs not be right in the cache: it is marked, or will be, or lost its mark.
Handled(k) ==
    \/ k \in unmarked \cup lost_marks \cup deltas
    \/ TableOf(k) \in schema_dirty
    \/ \E s \in Session : Concerns(DueOf(job[s]), k)

\* After its first operation a statement has rows alone: no table goes unmarked if it fails.
RowsNext(ops) == \A i \in 2 .. Len(ops) : ops[i].cell \in Key
BringsRows(j) == j.at \in {"mark", "record", "write"} => RowsNext(j.ops)
RowsFollow == \A s \in Session : BringsRows(job[s])

\* What a step of a session does not do: change a row, or take a mark from one, with no mark to come.
MarksFollow == \A k \in Key : Handled(k) \/ mem'[k] # mem[k] => Handled(k)'

LEMMA MarksMove ==
    ASSUME StoreTypes, RowsFollow, NEW s \in Session, NEW r, Takes(s, r), BringsRows(r),
           UNCHANGED lost_marks, unmarked \subseteq unmarked', schema_dirty \subseteq schema_dirty',
           \A k \in Key : k \in deltas => k \in deltas' \/ TableOf(k) \in schema_dirty',
           \A k \in Key : mem'[k] # mem[k] \/ Concerns(DueOf(job[s]), k) =>
              k \in unmarked' \cup deltas' \/ TableOf(k) \in schema_dirty' \/ Concerns(DueOf(r), k)
    PROVE  MarksFollow /\ RowsFollow'
<1>1. job \in [Session -> JobType] /\ job' = [job EXCEPT ![s] = r]
  BY DEF StoreTypes, Takes
<1>2. job'[s] = r /\ \A u \in Session \ {s} : job'[u] = job[u]
  BY <1>1
<1>3. RowsFollow'
  <2> SUFFICES ASSUME NEW u \in Session PROVE BringsRows(job'[u])
    BY DEF RowsFollow, BringsRows, RowsNext
  <2> QED
    BY <1>2 DEF RowsFollow
<1>4. ASSUME NEW k \in Key, Handled(k) \/ mem'[k] # mem[k] PROVE Handled(k)'
  <2>1. Handled(k)' <=> \/ k \in unmarked' \cup lost_marks' \cup deltas'
                        \/ TableOf(k) \in schema_dirty'
                        \/ \E u \in Session : Concerns(DueOf(job'[u]), k)
    BY DEF Handled, DueOf, Concerns, CellsOfAll
  <2>2. CASE k \in unmarked \cup lost_marks \cup deltas \/ TableOf(k) \in schema_dirty
    BY <2>1, <2>2
  <2>3. CASE mem'[k] # mem[k] \/ Concerns(DueOf(job[s]), k)
    BY <1>2, <2>1, <2>3
  <2>4. ASSUME NEW u \in Session \ {s}, Concerns(DueOf(job[u]), k) PROVE Handled(k)'
    BY <1>2, <2>1, <2>4
  <2> QED
    BY <1>4, <2>2, <2>3, <2>4 DEF Handled
<1> QED
  BY <1>3, <1>4 DEF MarksFollow

\* A session that has nothing to mark before or after.
LEMMA MarksWait ==
    ASSUME StoreTypes, RowsFollow, NEW s \in Session, NEW r, Takes(s, r),
           r.at \notin {"mark", "record", "write"}, job[s].at \notin {"mark", "record", "write"},
           UNCHANGED <<lost_marks, deltas, schema_dirty>>, unmarked \subseteq unmarked',
           \A k \in Key : mem'[k] # mem[k] => k \in unmarked'
    PROVE  MarksFollow /\ RowsFollow'
<1>1. DueOf(job[s]) = {} /\ BringsRows(r)
  BY DEF DueOf, BringsRows
<1>2. \A k : ~Concerns(DueOf(job[s]), k)
  BY <1>1 DEF Concerns
<1>3. UNCHANGED lost_marks /\ schema_dirty \subseteq schema_dirty' /\ \A k \in Key : k \in deltas => k \in deltas'
  OBVIOUS
<1>4. \A k \in Key : mem'[k] # mem[k] \/ Concerns(DueOf(job[s]), k) =>
         k \in unmarked' \cup deltas' \/ TableOf(k) \in schema_dirty' \/ Concerns(DueOf(r), k)
  BY <1>2
<1> QED
  BY <1>1, <1>3, <1>4, MarksMove

LEMMA MarksSame ==
    ASSUME RowsFollow, UNCHANGED <<job, mem, lost_marks, deltas, schema_dirty, unmarked>>
    PROVE  MarksFollow /\ RowsFollow'
<1>1. RowsFollow'
  BY DEF RowsFollow, BringsRows, RowsNext
<1>2. \A k : Handled(k)' <=> Handled(k)
  BY DEF Handled, DueOf, Concerns, CellsOfAll
<1> QED
  BY <1>1, <1>2 DEF MarksFollow

LEMMA RowsOfTail ==
    ASSUME NEW ops \in Seq(Op), ops # <<>>, RowsNext(ops)
    PROVE  RowsNext(Tail(ops)) /\ \A c \in CellsOfAll(Tail(ops)) : c \in Key
<1>1. /\ Tail(ops) \in Seq(Op) /\ Len(Tail(ops)) = Len(ops) - 1 /\ Len(ops) \in Nat \ {0}
      /\ \A i \in 1 .. Len(Tail(ops)) : i + 1 \in 1 .. Len(ops) /\ Tail(ops)[i] = ops[i + 1]
  BY TailOf
<1>2. ASSUME NEW i \in 1 .. Len(Tail(ops)) PROVE Tail(ops)[i].cell \in Key
  <2>1. i + 1 \in 2 .. Len(ops)
    BY <1>1
  <2> QED
    BY <1>1, <2>1 DEF RowsNext
<1>3. ASSUME NEW c \in CellsOfAll(Tail(ops)) PROVE c \in Key
  <2>1. PICK i \in 1 .. Len(Tail(ops)) : c \in CellsOf(Tail(ops)[i]) /\ Tail(ops)[i] \in Op
    BY <1>1, CellsAre
  <2> QED
    BY <1>2, <2>1, OpIs
<1>4. RowsNext(Tail(ops))
  <2>1. \A i \in 2 .. Len(Tail(ops)) : i \in 1 .. Len(Tail(ops))
    BY <1>1
  <2> QED
    BY <1>2, <2>1 DEF RowsNext
<1> QED
  BY <1>3, <1>4

\* The next operation's marks are due, or nothing is.
LEMMA PersistingDue ==
    ASSUME NEW s, job[s] \in JobType, NEW ops \in Seq(Op), RowsNext(ops), NEW r, r = Persisting(s, ops)
    PROVE  DueOf(r) = CellsOfAll(ops) /\ BringsRows(r)
<1>1. CASE ops # <<>>
  <2>1. r = [job[s] EXCEPT !.at = "mark", !.ops = ops, !.writes = <<>>]
    BY <1>1 DEF Persisting
  <2>2. r.at = "mark" /\ r.ops = ops
    BY <2>1 DEF JobType
  <2> QED
    BY <2>2 DEF DueOf, BringsRows
<1>2. CASE ops = <<>>
  <2>1. r = Resting \/ r = [job[s] EXCEPT !.at = "install", !.ops = <<>>, !.writes = <<>>]
    BY <1>2 DEF Persisting
  <2>2. r.at \in {"rest", "install"}
    <3>1. r = Resting => r.at = "rest"
      BY DEF Resting
    <3>2. r = [job[s] EXCEPT !.at = "install", !.ops = <<>>, !.writes = <<>>] => r.at = "install"
      BY DEF JobType
    <3> QED
      BY <2>1, <3>1, <3>2
  <2> QED
    BY <1>2, <2>2, CellsEmpty DEF DueOf, BringsRows
<1> QED
  BY <1>1, <1>2

LEMMA RowsOnly ==
    ASSUME NEW ops \in Seq(Op), CellsOfAll(ops) \subseteq Key \/ Len(ops) = 1
    PROVE  RowsNext(ops)
<1> SUFFICES ASSUME NEW i \in 2 .. Len(ops) PROVE ops[i].cell \in Key
  BY DEF RowsNext
<1>1. PICK n \in Nat : n = Len(ops) /\ i \in 2 .. n
  OBVIOUS
<1>2. i \in 1 .. Len(ops) /\ Len(ops) # 1
  <2>1. i \in 1 .. n /\ n # 1
    BY <1>1
  <2> QED
    BY <1>1, <2>1
<1>3. ops[i] \in Op /\ CellsOf(ops[i]) \subseteq CellsOfAll(ops)
  BY <1>2, CellsAre
<1> QED
  BY <1>2, <1>3, OpIs

\* What a statement brings after its first operation are rows.
LEMMA EffectRows ==
    ASSUME mem \in [Cell -> Val], NEW st \in Statement, NEW e, e = Effect(st),
           st.do \in {"create", "drop", "insert", "upsert", "upsert_nothing", "delete", "update", "move"}
    PROVE  RowsNext(e.ops)
<1>1. PICK t \in Table : t = TableFor(st)
  BY TableForIs
<1>2. PICK hits : hits = Hits(t, st.val)
  OBVIOUS
<1>3. hits \in Seq(Key) /\ ToSet(hits) \subseteq Key
  BY <1>2, HitsAre DEF RowsOf
<1>4. EffectFor(st, e, t, hits)
  BY <1>1, <1>2, EffectKinds
<1>5. CASE e = Unchanged \/ e = Failed
  <2>1. e.ops = <<>>
    BY <1>5 DEF Unchanged, Failed
  <2>2. e.ops \in Seq(Op) /\ CellsOfAll(e.ops) = {}
    BY <2>1, CellsEmpty
  <2> QED
    BY <2>2, RowsOnly
<1>6. ASSUME NEW op, e.ops = <<op>> PROVE RowsNext(e.ops)
  <2>1. Len(e.ops) = 1
    BY <1>6
  <2> QED
    BY <2>1 DEF RowsNext
<1>7. ASSUME NEW v \in Val, e.ops = Ops(hits, v) PROVE RowsNext(e.ops)
  <2>1. e.ops \in Seq(Op) /\ CellsOfAll(e.ops) = ToSet(hits)
    BY <1>3, <1>7, OpsAre
  <2> QED
    BY <1>3, <2>1, RowsOnly
<1>8. ASSUME st.do = "move", hits # <<>>, e.ops = Moved(hits, st.new) PROVE RowsNext(e.ops)
  <2>1. st.new \in Key
    BY <1>8, StatementIs
  <2>2. e.ops \in Seq(Op) /\ CellsOfAll(e.ops) = ToSet(hits) \cup {st.new}
    BY <1>3, <1>8, <2>1, MovedAre
  <2> QED
    BY <1>3, <2>1, <2>2, RowsOnly
<1>9. st.do = "update" => st.new \in Val
  BY StatementIs
<1>10. 0 \in Val
  BY KeysAre
<1>11. \/ e = Unchanged \/ e = Failed
       \/ \E op : e.ops = <<op>>
       \/ \E v \in Val : e.ops = Ops(hits, v)
       \/ st.do = "move" /\ hits # <<>> /\ e.ops = Moved(hits, st.new)
  <2>1. \A m, q : e = [ok |-> TRUE, mem |-> m, ops |-> q] => e.ops = q
    OBVIOUS
  <2> QED
    BY <1>4, <1>9, <1>10, <2>1, Zenon DEF EffectFor
<1> QED
  BY <1>5, <1>6, <1>7, <1>8, <1>11

LEMMA ExecuteMarks ==
    ASSUME StoreInv, SideTypes, RowsFollow, UNCHANGED lost_marks, NEW s \in Session, Execute(s)
    PROVE  MarksFollow /\ RowsFollow'
<1>a. PICK st \in Statement : st = Head(script[s])
  BY SideFacts DEF Execute
<1>b. PICK e, r : e = Effect(st) /\ r = Persisting(s, e.ops)
  OBVIOUS
<1>1. st = Head(script[s]) /\ e = Effect(st) /\ r = Persisting(s, e.ops)
  BY <1>a, <1>b
<1>2. /\ Is(s, "rest") /\ mem' = e.mem /\ job' = [job EXCEPT ![s] = r]
      /\ UNCHANGED <<unmarked, deltas, schema_dirty>>
      /\ st.do \in {"create", "drop", "insert", "upsert", "upsert_nothing", "delete", "update", "move"}
  BY <1>1 DEF Execute
<1>3. EffectFit(e) /\ RowsNext(e.ops)
  BY <1>1, <1>2, StoreFacts, EffectFits, EffectRows
<1>4. e.ops \in Seq(Op) /\ \A c \in Cell : c \notin CellsOfAll(e.ops) => e.mem[c] = mem[c]
  BY <1>3 DEF EffectFit
<1>5. DueOf(r) = CellsOfAll(e.ops) /\ BringsRows(r)
  BY <1>1, <1>3, <1>4, StoreFacts, PersistingDue
<1>6. DueOf(job[s]) = {}
  BY <1>2 DEF Is, DueOf
<1>7. \A k \in Key : mem'[k] # mem[k] => k \in DueOf(r)
  BY <1>2, <1>4, <1>5, KeysAre
<1>8. \A k \in Key : mem'[k] # mem[k] \/ Concerns(DueOf(job[s]), k) =>
         k \in unmarked' \cup deltas' \/ TableOf(k) \in schema_dirty' \/ Concerns(DueOf(r), k)
  BY <1>6, <1>7 DEF Concerns
<1>9. /\ unmarked \subseteq unmarked' /\ schema_dirty \subseteq schema_dirty'
      /\ \A k \in Key : k \in deltas => k \in deltas' \/ TableOf(k) \in schema_dirty'
  BY <1>2
<1> QED
  BY <1>2, <1>5, <1>8, <1>9, StoreFacts, MarksMove DEF Takes

LEMMA MarkMarks ==
    ASSUME StoreInv, RowsFollow, UNCHANGED lost_marks, NEW s \in Session, Mark(s)
    PROVE  MarksFollow /\ RowsFollow'
<1>1. PICK op, r, ops : op = Head(job[s].ops) /\ r = [job[s] EXCEPT !.at = "record"] /\ ops = Tail(job[s].ops)
  OBVIOUS
<1>2. /\ job' = [job EXCEPT ![s].at = "record"] /\ UNCHANGED <<mem, unmarked>> /\ job[s].at = "mark"
      /\ deltas' = IF op.cell \in Key THEN deltas \cup {op.cell} ELSE deltas \ CellsOf([op EXCEPT !.val = 0])
      /\ schema_dirty' = IF op.cell \in Table THEN schema_dirty \cup {op.cell} ELSE schema_dirty
  BY <1>1 DEF Mark, engineHistory, Is
<1>3. job' = [job EXCEPT ![s] = r]
  BY <1>1, <1>2
<1>4. job[s].ops # <<>> /\ job[s].ops \in Seq(Op) /\ job[s] \in JobType /\ StoreTypes
  BY <1>2, StoreFacts, JobParts DEF JobStage
<1>5. op \in Op /\ CellsOfAll(job[s].ops) = CellsOf(op) \cup CellsOfAll(ops)
  BY <1>1, <1>4, TailOf, CellsTail
<1>6. r.at = "record" /\ r.ops = job[s].ops
  BY <1>1, <1>4 DEF JobType
<1>7. DueOf(job[s]) = CellsOf(op) \cup DueOf(r)
  BY <1>1, <1>2, <1>5, <1>6 DEF DueOf
<1>8. BringsRows(r)
  BY <1>2, <1>6 DEF RowsFollow, BringsRows
<1>9. op.cell \in Cell /\ \A k \in Key : Concerns(CellsOf(op), k) => k = op.cell \/ TableOf(k) = op.cell
  <2>1. op.cell \in Cell
    BY <1>5, OpIs
  <2>2. CellsOf(op) \subseteq {op.cell} \cup KeysOf(op.cell)
    BY DEF CellsOf
  <2>3. \A k \in Key : TableOf(k) \notin KeysOf(op.cell) /\ (k \in KeysOf(op.cell) => TableOf(k) = op.cell)
    BY KeysAre
  <2> QED
    BY <2>1, <2>2, <2>3 DEF Concerns
<1>10. \A k \in Key : k \in deltas \/ Concerns(CellsOf(op), k) => k \in deltas' \/ TableOf(k) \in schema_dirty'
  <2> SUFFICES ASSUME NEW k \in Key, k \in deltas \/ Concerns(CellsOf(op), k) PROVE k \in deltas' \/ TableOf(k) \in schema_dirty'
    OBVIOUS
  <2>1. TableOf(k) \in Table /\ TableOf(k) \notin Key
    BY KeysAre
  <2>2. CASE op.cell \in Key
    BY <1>2, <1>9, <2>1, <2>2
  <2>3. CASE op.cell \notin Key
    <3>1. op.cell \in Table
      BY <1>9, <2>3, KeysAre
    <3>2. k \in CellsOf([op EXCEPT !.val = 0]) => TableOf(k) = op.cell
      <4>1. PICK o : o = [op EXCEPT !.val = 0]
        OBVIOUS
      <4>2. o.cell = op.cell
        BY <1>5, <4>1 DEF Op
      <4>3. CellsOf(o) \subseteq {op.cell} \cup KeysOf(op.cell)
        BY <4>2 DEF CellsOf
      <4> QED
        BY <2>3, <4>1, <4>3, KeysAre
    <3>3. deltas' = deltas \ CellsOf([op EXCEPT !.val = 0]) /\ schema_dirty' = schema_dirty \cup {op.cell}
      BY <1>2, <2>3, <3>1
    <3> QED
      BY <1>9, <2>3, <3>2, <3>3
  <2> QED
    BY <2>2, <2>3
<1>11. unmarked \subseteq unmarked' /\ schema_dirty \subseteq schema_dirty'
  BY <1>2
<1>12. \A k \in Key : k \in deltas => k \in deltas' \/ TableOf(k) \in schema_dirty'
  BY <1>10
<1>13. \A k \in Key : mem'[k] # mem[k] \/ Concerns(DueOf(job[s]), k) =>
         k \in unmarked' \cup deltas' \/ TableOf(k) \in schema_dirty' \/ Concerns(DueOf(r), k)
  <2>1. \A k : Concerns(DueOf(job[s]), k) => Concerns(CellsOf(op), k) \/ Concerns(DueOf(r), k)
    BY <1>7 DEF Concerns
  <2>2. mem' = mem
    BY <1>2
  <2> QED
    BY <1>10, <2>1, <2>2
<1> QED
  BY <1>3, <1>4, <1>8, <1>11, <1>12, <1>13, MarksMove DEF Takes

LEMMA RecordMarks ==
    ASSUME StoreInv, RowsFollow, UNCHANGED lost_marks, NEW s \in Session, RecordOrApply(s)
    PROVE  MarksFollow /\ RowsFollow'
<1>1. PICK op, ops : op = Head(job[s].ops) /\ ops = Tail(job[s].ops)
  OBVIOUS
<1>2. job[s].at = "record" /\ UNCHANGED <<mem, unmarked, deltas, schema_dirty>>
  BY DEF RecordOrApply, engineHistory, Is
<1>3. job[s].ops # <<>> /\ job[s].ops \in Seq(Op) /\ job[s] \in JobType /\ StoreTypes
  BY <1>2, StoreFacts, JobParts DEF JobStage
<1>4. ops \in Seq(Op) /\ RowsNext(job[s].ops) /\ RowsNext(ops)
  <2>1. RowsNext(job[s].ops)
    BY <1>2 DEF RowsFollow, BringsRows
  <2> QED
    BY <1>1, <1>3, <2>1, TailOf, RowsOfTail
<1>5. DueOf(job[s]) = CellsOfAll(ops)
  BY <1>1, <1>2 DEF DueOf
<1>6. ASSUME NEW r, Takes(s, r), DueOf(r) = CellsOfAll(ops), BringsRows(r) PROVE MarksFollow /\ RowsFollow'
  <2>1. \A k \in Key : mem'[k] # mem[k] \/ Concerns(DueOf(job[s]), k) =>
           k \in unmarked' \cup deltas' \/ TableOf(k) \in schema_dirty' \/ Concerns(DueOf(r), k)
    BY <1>2, <1>5, <1>6
  <2>2. /\ unmarked \subseteq unmarked' /\ schema_dirty \subseteq schema_dirty'
        /\ \A k \in Key : k \in deltas => k \in deltas' \/ TableOf(k) \in schema_dirty'
    BY <1>2
  <2> QED
    BY <1>3, <1>6, <2>1, <2>2, MarksMove
<1>7. CASE txn.open \/ ~attached
  <2>1. PICK r : r = Persisting(s, ops)
    OBVIOUS
  <2>2. Takes(s, r)
    BY <1>1, <1>7, <2>1 DEF RecordOrApply, Takes
  <2>3. DueOf(r) = CellsOfAll(ops) /\ BringsRows(r)
    BY <1>3, <1>4, <2>1, PersistingDue
  <2> QED
    BY <1>6, <2>2, <2>3
<1>8. CASE ~txn.open /\ attached
  <2>1. PICK r : r = [job[s] EXCEPT !.writes = Writes(op), !.at = "write"]
    OBVIOUS
  <2>2. Takes(s, r)
    BY <1>1, <1>8, <2>1 DEF RecordOrApply, Takes
  <2>3. r.at = "write" /\ r.ops = job[s].ops
    BY <1>3, <2>1 DEF JobType
  <2>4. DueOf(r) = CellsOfAll(ops) /\ BringsRows(r)
    BY <1>1, <1>4, <2>3 DEF DueOf, BringsRows
  <2> QED
    BY <1>6, <2>2, <2>4
<1> QED
  BY <1>7, <1>8

LEMMA WriteMarks ==
    ASSUME StoreInv, RowsFollow, UNCHANGED lost_marks, NEW s \in Session, StoreWrite(s)
    PROVE  MarksFollow /\ RowsFollow'
<1>1. PICK ops, w, left : /\ ops = Tail(job[s].ops) /\ w = Head(job[s].writes)
                          /\ left = (IF w.part = "rows" THEN Removals(w.cell) ELSE <<>>) \o Tail(job[s].writes)
  OBVIOUS
<1>2. /\ job[s].at \in {"write", "apply_write"} /\ UNCHANGED <<mem, unmarked, deltas, schema_dirty>>
      /\ job' = [job EXCEPT ![s] =
            IF left # <<>> THEN [@ EXCEPT !.writes = left]
            ELSE IF Is(s, "write") THEN Persisting(s, Tail(@.ops))
            ELSE [@ EXCEPT !.at = "apply", !.ops = Tail(job[s].ops), !.writes = <<>>]]
  BY <1>1 DEF StoreWrite, engineHistory
<1>3. job[s].ops # <<>> /\ job[s].ops \in Seq(Op) /\ job[s] \in JobType /\ StoreTypes
  BY <1>2, StoreFacts, JobParts DEF JobStage
<1>4. ASSUME NEW r, Takes(s, r), DueOf(r) = DueOf(job[s]), BringsRows(r) PROVE MarksFollow /\ RowsFollow'
  <2>1. \A k \in Key : mem'[k] # mem[k] \/ Concerns(DueOf(job[s]), k) =>
           k \in unmarked' \cup deltas' \/ TableOf(k) \in schema_dirty' \/ Concerns(DueOf(r), k)
    BY <1>2, <1>4
  <2>2. /\ unmarked \subseteq unmarked' /\ schema_dirty \subseteq schema_dirty'
        /\ \A k \in Key : k \in deltas => k \in deltas' \/ TableOf(k) \in schema_dirty'
    BY <1>2
  <2> QED
    BY <1>3, <1>4, <2>1, <2>2, MarksMove
<1>5. CASE left # <<>>
  <2>1. PICK r : r = [job[s] EXCEPT !.writes = left]
    OBVIOUS
  <2>2. Takes(s, r)
    BY <1>2, <1>5, <2>1 DEF Takes
  <2>3. r.at = job[s].at /\ r.ops = job[s].ops
    BY <1>3, <2>1 DEF JobType
  <2>4. DueOf(r) = DueOf(job[s]) /\ BringsRows(r)
    BY <2>3 DEF DueOf, BringsRows, RowsFollow
  <2> QED
    BY <1>4, <2>2, <2>4
<1>6. CASE left = <<>> /\ job[s].at = "write"
  <2>1. PICK r : r = Persisting(s, ops)
    OBVIOUS
  <2>2. Takes(s, r)
    BY <1>1, <1>2, <1>6, <2>1 DEF Takes, Is
  <2>3. ops \in Seq(Op) /\ RowsNext(ops)
    <3>1. RowsNext(job[s].ops)
      BY <1>6 DEF RowsFollow, BringsRows
    <3> QED
      BY <1>1, <1>3, <3>1, TailOf, RowsOfTail
  <2>4. DueOf(r) = CellsOfAll(ops) /\ BringsRows(r)
    BY <1>3, <2>1, <2>3, PersistingDue
  <2>5. DueOf(job[s]) = CellsOfAll(ops)
    BY <1>1, <1>6 DEF DueOf
  <2> QED
    BY <1>4, <2>2, <2>4, <2>5
<1>7. CASE left = <<>> /\ job[s].at = "apply_write"
  <2>1. PICK r : r = [job[s] EXCEPT !.at = "apply", !.ops = Tail(job[s].ops), !.writes = <<>>]
    OBVIOUS
  <2>2. Takes(s, r)
    BY <1>2, <1>7, <2>1 DEF Takes, Is
  <2>3. r.at = "apply"
    BY <1>3, <2>1 DEF JobType
  <2>4. DueOf(r) = DueOf(job[s]) /\ BringsRows(r)
    BY <1>7, <2>3 DEF DueOf, BringsRows
  <2> QED
    BY <1>4, <2>2, <2>4
<1> QED
  BY <1>2, <1>5, <1>6, <1>7

LEMMA ErrorMarks ==
    ASSUME StoreInv, RowsFollow, UNCHANGED lost_marks, NEW s \in Session, StoreError(s) \/ IngestError(s)
    PROVE  MarksFollow /\ RowsFollow'
<1>1. PICK ops : ops = Tail(job[s].ops)
  OBVIOUS
<1>2. job[s].at = "write" /\ UNCHANGED <<mem, deltas, schema_dirty>>
  BY DEF StoreError, IngestError, Is
<1>3. job[s].ops # <<>> /\ job[s].ops \in Seq(Op) /\ job[s] \in JobType /\ StoreTypes
  BY <1>2, StoreFacts, JobParts DEF JobStage
<1>4. ops \in Seq(Op) /\ RowsNext(ops) /\ \A c \in CellsOfAll(ops) : c \in Key
  <2>1. RowsNext(job[s].ops)
    BY <1>2 DEF RowsFollow, BringsRows
  <2> QED
    BY <1>1, <1>3, <2>1, TailOf, RowsOfTail
<1>5. DueOf(job[s]) = CellsOfAll(ops)
  BY <1>1, <1>2 DEF DueOf
<1>6. ASSUME NEW r, Takes(s, r), BringsRows(r), unmarked \subseteq unmarked',
             \A k \in Key : k \in CellsOfAll(ops) => k \in unmarked' \cup DueOf(r)
      PROVE  MarksFollow /\ RowsFollow'
  <2>1. \A k \in Key : Concerns(DueOf(job[s]), k) => k \in CellsOfAll(ops)
    <3>1. \A k \in Key : TableOf(k) \notin Key
      BY KeysAre
    <3> QED
      BY <1>4, <1>5, <3>1 DEF Concerns
  <2>2. \A k \in Key : mem'[k] # mem[k] \/ Concerns(DueOf(job[s]), k) =>
           k \in unmarked' \cup deltas' \/ TableOf(k) \in schema_dirty' \/ Concerns(DueOf(r), k)
    BY <1>2, <1>6, <2>1 DEF Concerns
  <2>3. schema_dirty \subseteq schema_dirty' /\ \A k \in Key : k \in deltas => k \in deltas' \/ TableOf(k) \in schema_dirty'
    BY <1>2
  <2> QED
    BY <1>3, <1>6, <2>2, <2>3, MarksMove
<1>7. CASE StoreError(s)
  <2>1. Takes(s, Resting) /\ unmarked' = unmarked \cup (CellsOfAll(ops) \cap Key)
    BY <1>1, <1>7 DEF StoreError, Takes
  <2>2. BringsRows(Resting)
    BY DEF BringsRows, Resting
  <2> QED
    BY <1>6, <2>1, <2>2
<1>8. CASE IngestError(s)
  <2>1. PICK r : r = Persisting(s, ops)
    OBVIOUS
  <2>2. Takes(s, r) /\ unmarked' = unmarked
    BY <1>1, <1>8, <2>1 DEF IngestError, Takes
  <2>3. DueOf(r) = CellsOfAll(ops) /\ BringsRows(r)
    BY <1>3, <1>4, <2>1, PersistingDue
  <2> QED
    BY <1>6, <2>2, <2>3
<1> QED
  BY <1>7, <1>8

\* Memory is replaced, with nothing to mark before or after.
LEMMA ReplaceMarks ==
    ASSUME StoreInv, RowsFollow, UNCHANGED lost_marks, NEW s \in Session, Install(s) \/ Restore(s) \/ LoadCommit(s)
    PROVE  MarksFollow /\ RowsFollow'
<1>1. /\ job[s].at \in {"install", "restore", "load"} /\ Takes(s, Resting) /\ UNCHANGED <<deltas, schema_dirty>>
      /\ unmarked' = unmarked \cup {k \in Key : mem'[k] # mem[k]}
  <2>1. Install(s) => job[s].at = "install"
    BY DEF Install, Is
  <2>2. Restore(s) => job[s].at = "restore"
    BY DEF Restore, Is
  <2>3. LoadCommit(s) => job[s].at = "load"
    BY DEF LoadCommit, Is
  <2>4. Takes(s, Resting) /\ UNCHANGED <<deltas, schema_dirty>> /\ unmarked' = unmarked \cup {k \in Key : mem'[k] # mem[k]}
    BY DEF Install, Restore, LoadCommit, Takes
  <2> QED
    BY <2>1, <2>2, <2>3, <2>4
<1>2. Resting.at = "rest"
  BY DEF Resting
<1> QED
  BY <1>1, <1>2, StoreFacts, MarksWait

LEMMA WaitMarks ==
    ASSUME StoreInv, RowsFollow, UNCHANGED lost_marks, NEW s \in Session, NEW r, Takes(s, r),
           r.at \notin {"mark", "record", "write"}, job[s].at \notin {"mark", "record", "write"},
           UNCHANGED <<mem, deltas, schema_dirty, unmarked>>
    PROVE  MarksFollow /\ RowsFollow'
BY StoreFacts, MarksWait

LEMMA TxnMarks ==
    ASSUME StoreInv, RowsFollow, UNCHANGED lost_marks, NEW s \in Session,
           Begin(s) \/ CommitTxn(s) \/ ApplyLog(s) \/ CommitError(s) \/ Rollback(s)
    PROVE  MarksFollow /\ RowsFollow'
<1>1. UNCHANGED <<mem, deltas, schema_dirty, unmarked>>
  BY DEF Begin, CommitTxn, ApplyLog, CommitError, Rollback, engineHistory
<1>2. UNCHANGED job => MarksFollow /\ RowsFollow'
  BY <1>1, MarksSame
<1>3. job[s] \in JobType
  BY StoreFacts
<1>4. CASE Begin(s)
  BY <1>2, <1>4 DEF Begin
<1>5. CASE CommitTxn(s)
  <2>1. PICK r : r = [Resting EXCEPT !.at = "apply", !.ops = txn.log, !.snapshot = txn.snapshot]
    OBVIOUS
  <2>2. job[s].at = "rest" /\ (UNCHANGED job \/ Takes(s, r))
    BY <1>5, <2>1 DEF CommitTxn, Heading, Is, Takes
  <2>3. r.at = "apply"
    BY <2>1 DEF Resting
  <2> QED
    BY <1>1, <1>2, <2>2, <2>3, WaitMarks
<1>6. CASE Rollback(s)
  <2>1. PICK r : r = [Resting EXCEPT !.at = "restore", !.snapshot = txn.snapshot]
    OBVIOUS
  <2>2. job[s].at = "rest" /\ (UNCHANGED job \/ Takes(s, r))
    BY <1>6, <2>1 DEF Rollback, Heading, Is, Takes
  <2>3. r.at = "restore"
    BY <2>1 DEF Resting
  <2> QED
    BY <1>1, <1>2, <2>2, <2>3, WaitMarks
<1>7. CASE ApplyLog(s)
  <2>1. PICK r : r = IF job[s].ops = <<>> THEN Resting ELSE [job[s] EXCEPT !.writes = Writes(Head(job[s].ops)), !.at = "apply_write"]
    OBVIOUS
  <2>2. job[s].at = "apply" /\ Takes(s, r)
    BY <1>7, <2>1 DEF ApplyLog, Is, Takes
  <2>3. r.at \in {"rest", "apply_write"}
    <3>1. CASE job[s].ops = <<>>
      BY <2>1, <3>1 DEF Resting
    <3>2. CASE job[s].ops # <<>>
      BY <1>3, <2>1, <3>2 DEF JobType
    <3> QED
      BY <3>1, <3>2
  <2> QED
    BY <1>1, <2>2, <2>3, WaitMarks
<1>8. CASE CommitError(s)
  <2>1. PICK r : r = [job[s] EXCEPT !.at = "restore", !.ops = <<>>, !.writes = <<>>]
    OBVIOUS
  <2>2. job' = [job EXCEPT ![s].at = "restore", ![s].ops = <<>>, ![s].writes = <<>>]
    BY <1>8 DEF CommitError
  <2>3. Takes(s, r)
    BY <2>1, <2>2, StoreFacts DEF Takes, StoreTypes
  <2>4. r.at = "restore" /\ job[s].at \in {"apply", "apply_write"}
    BY <1>3, <1>8, <2>1 DEF JobType, CommitError
  <2> QED
    BY <1>1, <2>3, <2>4, WaitMarks
<1> QED
  BY <1>4, <1>5, <1>6, <1>7, <1>8

LEMMA CallMarks ==
    ASSUME StoreInv, SyncInv, RowsFollow, UNCHANGED lost_marks, NEW s \in Session,
           EnsureLog(s) \/ LookUp(s) \/ CallVersion(s) \/ VersionCall(s) \/ Return(s) \/ TakeDirty(s) \/ ExportDirty(s)
    PROVE  MarksFollow /\ RowsFollow'
<1>1. UNCHANGED <<mem, deltas, schema_dirty, unmarked>>
  <2>1. EnsureLog(s) \/ LookUp(s) \/ CallVersion(s) \/ VersionCall(s) => UNCHANGED <<mem, deltas, schema_dirty, unmarked>>
    BY DEF EnsureLog, LookUp, CallVersion, VersionCall, engineVars, engineHistory
  <2>2. Return(s) \/ TakeDirty(s) \/ ExportDirty(s) => UNCHANGED <<mem, deltas, schema_dirty, unmarked>>
    BY DEF Return, TakeDirty, ExportDirty, engineHistory
  <2> QED
    BY <2>1, <2>2
<1>2. UNCHANGED job => MarksFollow /\ RowsFollow'
  BY <1>1, MarksSame
<1>3. job[s] \in JobType
  BY StoreFacts
<1>4. CASE EnsureLog(s) \/ LookUp(s) \/ VersionCall(s)
  BY <1>2, <1>4 DEF EnsureLog, LookUp, VersionCall, engineVars
<1>5. CASE CallVersion(s)
  <2>1. PICK r : r = [job[s] EXCEPT !.at = Head(script[s]).do]
    OBVIOUS
  <2>2. /\ Takes(s, r) /\ job[s].at = "rest"
        /\ Head(script[s]).do \in {"commit", "branch", "branch_from", "checkout", "merge", "log"}
    BY <1>5, <2>1 DEF CallVersion, Takes, Is
  <2>3. r.at = Head(script[s]).do
    BY <1>3, <2>1 DEF JobType
  <2> QED
    BY <1>1, <2>2, <2>3, WaitMarks
<1>6. CASE TakeDirty(s)
  <2>1. PICK r : r = [job[s] EXCEPT !.keys = dirty, !.at = "export"]
    OBVIOUS
  <2>2. Takes(s, r) /\ job[s].at = "take"
    BY <1>6, <2>1 DEF TakeDirty, Takes, Is
  <2>3. r.at = "export"
    BY <1>3, <2>1 DEF JobType
  <2> QED
    BY <1>1, <2>2, <2>3, WaitMarks
<1>7. CASE ExportDirty(s)
  <2>1. Takes(s, Resting) /\ job[s].at = "export" /\ Resting.at = "rest"
    BY <1>7 DEF ExportDirty, Takes, Is, Resting
  <2> QED
    BY <1>1, <2>1, WaitMarks
<1>8. CASE Return(s)
  <2>1. job[s].at \in VersionCalls
    BY <1>8 DEF Return, SyncInv, JobShape
  <2>2. job[s].at \notin {"mark", "record", "write"}
    BY <2>1 DEF VersionCalls
  <2>3. ASSUME NEW r, job' = [job EXCEPT ![s] = r], r.at \in {"rest", "take", "load"}
        PROVE  MarksFollow /\ RowsFollow'
    BY <1>1, <2>2, <2>3, WaitMarks DEF Takes
  <2>4. Resting.at = "rest"
    BY DEF Resting
  <2>5. CASE job' = [job EXCEPT ![s] = Resting]
    BY <2>3, <2>4, <2>5
  <2>6. CASE job' = [job EXCEPT ![s] = CASE Is(s, "commit") -> [@ EXCEPT !.at = "take"]
                        [] Is(s, "checkout") -> [@ EXCEPT !.at = "load", !.snapshot = commits[task[s].id].root]
                        [] OTHER -> Resting]
    <3>1. PICK r : r = CASE Is(s, "commit") -> [job[s] EXCEPT !.at = "take"]
                         [] Is(s, "checkout") -> [job[s] EXCEPT !.at = "load", !.snapshot = commits[task[s].id].root]
                         [] OTHER -> Resting
      OBVIOUS
    <3>2. job' = [job EXCEPT ![s] = r]
      BY <2>6, <3>1, Zenon
    <3>3. r = [job[s] EXCEPT !.at = "take"] \/ r = Resting
          \/ r = [job[s] EXCEPT !.at = "load", !.snapshot = commits[task[s].id].root]
      <4>1. CASE Is(s, "commit")
        <5>1. ~Is(s, "checkout")
          BY <4>1 DEF Is
        <5> QED
          BY <3>1, <4>1, <5>1
      <4>2. CASE Is(s, "checkout")
        <5>1. ~Is(s, "commit")
          BY <4>2 DEF Is
        <5> QED
          BY <3>1, <4>2, <5>1
      <4>3. CASE ~Is(s, "commit") /\ ~Is(s, "checkout")
        BY <3>1, <4>3
      <4> QED
        BY <4>1, <4>2, <4>3
    <3>4. PICK root : root = commits[task[s].id].root
      OBVIOUS
    <3>5. [job[s] EXCEPT !.at = "take"].at = "take" /\ [job[s] EXCEPT !.at = "load", !.snapshot = root].at = "load"
      BY <1>3 DEF JobType
    <3> QED
      BY <2>3, <2>4, <3>2, <3>3, <3>4, <3>5
  <2> QED
    BY <1>8, <2>5, <2>6 DEF Return
<1> QED
  BY <1>4, <1>5, <1>6, <1>7, <1>8

\* A table that is brought in is named first, then its rows.
LEMMA ImageRows ==
    ASSUME NEW t \in Table, NEW image \in [KeysOf(t) -> Val], NEW keys, keys = Ordered({k \in KeysOf(t) : image[k] # 0}),
           NEW ops, ops = <<[cell |-> t, val |-> 1]>> \o [i \in DOMAIN keys |-> [cell |-> keys[i], val |-> image[keys[i]]]]
    PROVE  RowsNext(ops)
<1>1. PICK S : S = {k \in KeysOf(t) : image[k] # 0}
  OBVIOUS
<1>2. S \in SUBSET Key /\ S \in SUBSET Nat /\ IsFiniteSet(S)
  BY <1>1, KeysAre
<1>3. keys = Ordered(S)
  BY <1>1
<1>4. /\ DOMAIN keys = 1 .. Len(keys) /\ Len(keys) \in Nat
      /\ \A i \in 1 .. Len(keys) : keys[i] \in S
  BY <1>2, <1>3, OrderIs
<1>5. PICK rows, first : /\ rows = [i \in 1 .. Len(keys) |-> [cell |-> keys[i], val |-> image[keys[i]]]]
                         /\ first = <<[cell |-> t, val |-> 1]>>
  OBVIOUS
<1>a. PICK n \in Nat : n = Len(keys)
  BY <1>4
<1>b. PICK T : T = {rows[i] : i \in 1 .. n} \cup {[cell |-> t, val |-> 1]}
  OBVIOUS
<1>6. T = {rows[i] : i \in 1 .. Len(keys)} \cup {[cell |-> t, val |-> 1]} /\ n = Len(keys)
  BY <1>a, <1>b
<1>7. rows \in Seq(T) /\ Len(rows) = n /\ first \in Seq(T) /\ Len(first) = 1
  <2>1. rows \in [1 .. n -> T]
    BY <1>5, <1>6
  <2>2. first \in Seq(T) /\ Len(first) = 1
    BY <1>5, <1>6
  <2> QED
    BY <2>1, <2>2
<1>8. ops = first \o rows
  BY <1>4, <1>5
<1>9. JoinOf(first, rows, ops)
  BY <1>7, <1>8, JoinIs
<1> SUFFICES ASSUME NEW i \in 2 .. Len(ops) PROVE ops[i].cell \in Key
  BY DEF RowsNext
<1>10. Len(ops) = 1 + n
  BY <1>7, <1>9 DEF JoinOf
<1>11. i \in 1 .. Len(ops) /\ i \notin 1 .. Len(first)
  BY <1>7, <1>10
<1>12. i - Len(first) \in 1 .. Len(rows) /\ ops[i] = rows[i - Len(first)]
  BY <1>9, <1>11 DEF JoinOf
<1>13. PICK j \in 1 .. Len(keys) : ops[i] = rows[j]
  BY <1>6, <1>7, <1>12
<1>14. rows[j] = [cell |-> keys[j], val |-> image[keys[j]]]
  BY <1>5
<1>15. ops[i].cell = keys[j] /\ keys[j] \in S
  BY <1>4, <1>13, <1>14
<1> QED
  BY <1>2, <1>15

LEMMA IngestMarks ==
    ASSUME StoreInv, RowsFollow, UNCHANGED lost_marks, NEW s \in Session, NEW t \in Table, NEW image \in [KeysOf(t) -> Val],
           IngestTable(s, t, image)
    PROVE  MarksFollow /\ RowsFollow'
<1>1. PICK keys : keys = Ordered({k \in KeysOf(t) : image[k] # 0})
  OBVIOUS
<1>2. PICK ops : ops = <<[cell |-> t, val |-> 1]>> \o [i \in DOMAIN keys |-> [cell |-> keys[i], val |-> image[keys[i]]]]
  OBVIOUS
<1>3. PICK snap : job' = [job EXCEPT ![s] = [Resting EXCEPT !.at = "mark", !.snapshot = snap, !.ops = ops]]
  BY <1>1, <1>2 DEF IngestTable
<1>4. Is(s, "rest") /\ UNCHANGED <<mem, deltas, schema_dirty, unmarked>>
  BY DEF IngestTable
<1>5. PICK r : r = [Resting EXCEPT !.at = "mark", !.snapshot = snap, !.ops = ops]
  OBVIOUS
<1>6. r.at = "mark" /\ r.ops = ops /\ Takes(s, r)
  BY <1>3, <1>5 DEF Resting, Takes
<1>7. BringsRows(r)
  BY <1>1, <1>2, <1>6, ImageRows DEF BringsRows
<1>8. DueOf(job[s]) = {}
  BY <1>4 DEF Is, DueOf
<1>9. \A k \in Key : mem'[k] # mem[k] \/ Concerns(DueOf(job[s]), k) =>
         k \in unmarked' \cup deltas' \/ TableOf(k) \in schema_dirty' \/ Concerns(DueOf(r), k)
  BY <1>4, <1>8 DEF Concerns
<1>10. /\ unmarked \subseteq unmarked' /\ schema_dirty \subseteq schema_dirty'
       /\ \A k \in Key : k \in deltas => k \in deltas' \/ TableOf(k) \in schema_dirty'
  BY <1>4
<1> QED
  BY <1>6, <1>7, <1>9, <1>10, StoreFacts, MarksMove

LEMMA SessionMarks ==
    ASSUME EngineInv, SyncInv, RowsFollow, NEW s \in Session, SessionStep(s) \/ SessionBackup(s)
    PROVE  MarksFollow /\ RowsFollow'
<1>1. StoreInv /\ SideTypes /\ BackupTypes
  BY DEF EngineInv
<1>2. UNCHANGED lost_marks
  BY DEF SessionStep, SessionBackup, olapVars
<1>3. CASE EngineStep(s)
  <2>1. CASE Execute(s)
    BY <1>1, <1>2, <2>1, ExecuteMarks
  <2>2. CASE Mark(s)
    BY <1>1, <1>2, <2>2, MarkMarks
  <2>3. CASE RecordOrApply(s)
    BY <1>1, <1>2, <2>3, RecordMarks
  <2>4. CASE StoreWrite(s)
    BY <1>1, <1>2, <2>4, WriteMarks
  <2>5. CASE StoreError(s) \/ IngestError(s)
    BY <1>1, <1>2, <2>5, ErrorMarks
  <2>6. CASE Install(s) \/ Restore(s) \/ LoadCommit(s)
    BY <1>1, <1>2, <2>6, ReplaceMarks
  <2>7. CASE Begin(s) \/ CommitTxn(s) \/ ApplyLog(s) \/ CommitError(s) \/ Rollback(s)
    BY <1>1, <1>2, <2>7, TxnMarks
  <2>8. CASE EnsureLog(s) \/ LookUp(s) \/ CallVersion(s) \/ VersionCall(s) \/ Return(s) \/ TakeDirty(s) \/ ExportDirty(s)
    BY <1>1, <1>2, <2>8, CallMarks
  <2> QED
    BY <1>3, <2>1, <2>2, <2>3, <2>4, <2>5, <2>6, <2>7, <2>8, Zenon DEF EngineStep
<1>4. CASE BackupStep(s) \/ BackupFailure(s)
  <2>1. UNCHANGED <<job, mem, deltas, schema_dirty, unmarked>>
    BY <1>4 DEF BackupStep, BackupFailure, engineHistory
  <2> QED
    BY <1>2, <2>1, MarksSame
<1>5. CASE ReadStep(s)
  <2>1. PICK t \in Table : \E image \in [KeysOf(t) -> Val] : IngestTable(s, t, image)
    BY <1>1, <1>5, ReadFileTyped DEF ReadStep
  <2>2. PICK image \in [KeysOf(t) -> Val] : IngestTable(s, t, image)
    BY <2>1
  <2> QED
    BY <1>1, <1>2, <2>2, IngestMarks
<1> QED
  BY <1>3, <1>4, <1>5 DEF SessionStep, SessionBackup
-----------------------------------------------------------------------------
(***************************************************************************)
(* The invariant of the cache.                                             *)
(***************************************************************************)
Copies == UNION {Seq(KeysOf(t) \X (Val \ {0})) : t \in Table}

RefreshType ==
    [at : {"rest", "check", "full", "copied", "cleared", "taken", "incremental", "merge"},
     todo : Seq(Table), keys : SUBSET Key, copy : Copies]

HoldsCopy(r) == r.at \in {"copied", "cleared", "taken"}

RefreshFits(r) ==
    /\ r \in RefreshType
    /\ IF r.at = "rest" THEN r = NoRefresh ELSE r.todo # <<>>
    /\ HoldsCopy(r) => RowsOfTable(Head(r.todo), r.copy)
    /\ r.at = "merge" => r.keys \subseteq KeysOf(Head(r.todo))

\* A refresh holds a copy in which the key's row is not v, and one that will bring v to the cache.
Old(r, k, v) == HoldsCopy(r) /\ TableOf(k) = Head(r.todo) /\ CopyRow(r.copy, k) # v

ReadBy(r, k, v) ==
    \/ r.at = "merge" /\ k \in r.keys
    \/ r.at \in {"cleared", "taken"} /\ TableOf(k) = Head(r.todo) /\ CopyRow(r.copy, k) = v

CacheShape ==
    /\ cached \subseteq Table
    /\ batch \in [Table -> Copies] /\ \A t \in Table : RowsOfTable(t, batch[t])
    /\ refresh \in [Refresher -> RefreshType] /\ \A f \in Refresher : RefreshFits(refresh[f])

CopiesFollow == \A f \in Refresher : \A k \in Key : Old(refresh[f], k, mem[k]) => Handled(k)

BatchesFollow ==
    \A k \in Key : TableOf(k) \in cached /\ CopyRow(batch[TableOf(k)], k) # mem[k] =>
        Handled(k) \/ \E f \in Refresher : ReadBy(refresh[f], k, mem[k])

CacheInv == CacheShape /\ RowsFollow /\ CopiesFollow /\ BatchesFollow

LEMMA CopiesAre == <<>> \in Copies /\ \A t \in Table : \A q : RowsOfTable(t, q) => q \in Copies
<1>1. LogTable \in Table
  BY DEF Table
<1>2. <<>> \in Seq(KeysOf(LogTable) \X (Val \ {0}))
  OBVIOUS
<1> QED
  BY <1>1, <1>2 DEF Copies, RowsOfTable

LEMMA NoRefreshFits ==
    /\ RefreshFits(NoRefresh) /\ NoRefresh.at = "rest"
    /\ \A t \in Table : RowsOfTable(t, <<>>)
<1>1. <<>> \in Seq(Table) /\ {} \in SUBSET Key /\ <<>> \in Copies
  BY CopiesAre
<1>2. NoRefresh \in RefreshType /\ NoRefresh.at = "rest"
  BY <1>1 DEF NoRefresh, RefreshType
<1>3. RefreshFits(NoRefresh)
  BY <1>2 DEF RefreshFits, HoldsCopy
<1>4. ASSUME NEW t \in Table PROVE RowsOfTable(t, <<>>)
  BY DEF RowsOfTable
<1> QED
  BY <1>2, <1>3, <1>4

\* The cache waits while a session takes its steps.
LEMMA SessionCaches ==
    ASSUME CacheInv, UNCHANGED olapVars, MarksFollow, RowsFollow'
    PROVE  CacheInv'
<1>1. UNCHANGED <<cached, batch, refresh>>
  BY DEF olapVars
<1>2. CacheShape'
  BY <1>1 DEF CacheInv, CacheShape
<1>3. CopiesFollow'
  <2> SUFFICES ASSUME NEW f \in Refresher, NEW k \in Key, Old(refresh[f], k, mem'[k]) PROVE Handled(k)'
    BY <1>1 DEF CopiesFollow
  <2>1. CASE mem'[k] = mem[k]
    BY <2>1 DEF CacheInv, CopiesFollow, MarksFollow
  <2>2. CASE mem'[k] # mem[k]
    BY <2>2 DEF MarksFollow
  <2> QED
    BY <2>1, <2>2
<1>4. BatchesFollow'
  <2> SUFFICES ASSUME NEW k \in Key, TableOf(k) \in cached, CopyRow(batch[TableOf(k)], k) # mem'[k],
                      ~(\E f \in Refresher : ReadBy(refresh[f], k, mem'[k]))
               PROVE  Handled(k)'
    BY <1>1 DEF BatchesFollow
  <2>1. CASE mem'[k] = mem[k]
    BY <2>1 DEF CacheInv, BatchesFollow, MarksFollow
  <2>2. CASE mem'[k] # mem[k]
    BY <2>2 DEF MarksFollow
  <2> QED
    BY <2>1, <2>2
<1> QED
  BY <1>2, <1>3, <1>4 DEF CacheInv
-----------------------------------------------------------------------------
(***************************************************************************)
(* Steps of a refresh.                                                     *)
(***************************************************************************)
\* It keeps the invariant if marks that are gone were of no change that a copy has not got, and what
\* the cache then has not got is marked or about to be read.
LEMMA RefreshKeeps ==
    ASSUME CacheInv, UNCHANGED <<mem, job>>, NEW f \in Refresher, NEW r, RefreshFits(r),
           refresh' = [refresh EXCEPT ![f] = r], cached' \subseteq Table, batch' \in [Table -> Copies],
           \A t \in Table : RowsOfTable(t, batch'[t]),
           \A g \in Refresher : \A k \in Key : Handled(k) /\ Old(refresh[g], k, mem[k]) => Handled(k)',
           \A k \in Key : Old(r, k, mem[k]) => Old(refresh[f], k, mem[k]),
           \A k \in Key : TableOf(k) \in cached' /\ CopyRow(batch'[TableOf(k)], k) # mem[k] =>
              \/ Handled(k)' \/ ReadBy(r, k, mem[k])
              \/ \E g \in Refresher \ {f} : ReadBy(refresh[g], k, mem[k])
    PROVE  CacheInv'
<1>1. refresh'[f] = r /\ \A g \in Refresher \ {f} : refresh'[g] = refresh[g]
  BY DEF CacheInv, CacheShape
<1>2. CacheShape'
  <2>1. r \in RefreshType
    BY DEF RefreshFits
  <2>2. refresh' \in [Refresher -> RefreshType]
    BY <2>1 DEF CacheInv, CacheShape
  <2>3. \A g \in Refresher : RefreshFits(refresh'[g])
    BY <1>1 DEF CacheInv, CacheShape
  <2> QED
    BY <2>2, <2>3 DEF CacheShape, RowsOfTable, RefreshFits, HoldsCopy, NoRefresh
<1>3. RowsFollow'
  BY DEF CacheInv, RowsFollow, BringsRows, RowsNext
<1>4. CopiesFollow'
  <2> SUFFICES ASSUME NEW g \in Refresher, NEW k \in Key, Old(refresh'[g], k, mem[k]) PROVE Handled(k)'
    BY DEF CopiesFollow
  <2>1. Old(refresh[g], k, mem[k])
    BY <1>1
  <2> QED
    BY <2>1 DEF CacheInv, CopiesFollow
<1>5. BatchesFollow'
  <2> SUFFICES ASSUME NEW k \in Key, TableOf(k) \in cached', CopyRow(batch'[TableOf(k)], k) # mem[k]
               PROVE  Handled(k)' \/ \E g \in Refresher : ReadBy(refresh'[g], k, mem[k])
    BY DEF BatchesFollow
  <2> QED
    BY <1>1
<1> QED
  BY <1>2, <1>3, <1>4, <1>5 DEF CacheInv

\* With the marks as they were there is less to show.
LEMMA RefreshWaits ==
    ASSUME CacheInv, UNCHANGED <<mem, job, unmarked, lost_marks, deltas, schema_dirty>>, NEW f \in Refresher, NEW r,
           RefreshFits(r), refresh' = [refresh EXCEPT ![f] = r], cached' \subseteq Table, batch' \in [Table -> Copies],
           \A t \in Table : RowsOfTable(t, batch'[t]),
           \A k \in Key : Old(r, k, mem[k]) => Old(refresh[f], k, mem[k]),
           \A k \in Key : TableOf(k) \in cached' /\ CopyRow(batch'[TableOf(k)], k) # mem[k] =>
              \/ Handled(k)
              \/ TableOf(k) \in cached /\ CopyRow(batch[TableOf(k)], k) # mem[k]
                 /\ (ReadBy(refresh[f], k, mem[k]) => ReadBy(r, k, mem[k]))
    PROVE  CacheInv'
<1>1. \A k : Handled(k)' <=> Handled(k)
  BY DEF Handled, DueOf, Concerns, CellsOfAll
<1>2. \A g \in Refresher : \A k \in Key : Handled(k) /\ Old(refresh[g], k, mem[k]) => Handled(k)'
  BY <1>1
<1>3. ASSUME NEW k \in Key, TableOf(k) \in cached', CopyRow(batch'[TableOf(k)], k) # mem[k]
      PROVE  Handled(k)' \/ ReadBy(r, k, mem[k]) \/ \E g \in Refresher \ {f} : ReadBy(refresh[g], k, mem[k])
  <2>1. CASE Handled(k)
    BY <1>1, <2>1
  <2>2. CASE ~Handled(k)
    <3>1. TableOf(k) \in cached /\ CopyRow(batch[TableOf(k)], k) # mem[k] /\ (ReadBy(refresh[f], k, mem[k]) => ReadBy(r, k, mem[k]))
      BY <1>3, <2>2
    <3>2. PICK g \in Refresher : ReadBy(refresh[g], k, mem[k])
      BY <2>2, <3>1 DEF CacheInv, BatchesFollow
    <3> QED
      BY <3>1, <3>2
  <2> QED
    BY <2>1, <2>2
<1> QED
  BY <1>2, <1>3, RefreshKeeps

\* Marks of a table are taken: those that some copy needs are lost, and the others are not missed.
LEMMA MarksTaken ==
    ASSUME UNCHANGED <<mem, job, unmarked>>, NEW keys \in SUBSET Key, lost_marks' = lost_marks \cup Forgotten(keys),
           \A k \in Key : k \in deltas => k \in deltas' \/ k \in keys,
           \A k \in Key : TableOf(k) \in schema_dirty => TableOf(k) \in schema_dirty' \/ k \in keys
    PROVE  \A k \in Key : Handled(k) =>
              Handled(k)' \/ (k \in keys /\ \A g \in Refresher : ~Old(refresh[g], k, mem[k]))
<1> SUFFICES ASSUME NEW k \in Key, Handled(k), k \notin keys \/ \E g \in Refresher : Old(refresh[g], k, mem[k])
             PROVE  Handled(k)'
  OBVIOUS
<1>1. Handled(k)' <=> \/ k \in unmarked' \cup lost_marks' \cup deltas'
                      \/ TableOf(k) \in schema_dirty'
                      \/ \E u \in Session : Concerns(DueOf(job'[u]), k)
  BY DEF Handled, DueOf, Concerns, CellsOfAll
<1>2. CASE k \in keys
  <2>1. PICK g \in Refresher : Old(refresh[g], k, mem[k])
    BY <1>2
  <2>2. k \in Forgotten(keys)
    BY <1>2, <2>1 DEF Forgotten, Old, HoldsCopy, On
  <2> QED
    BY <1>1, <2>2
<1>3. CASE k \notin keys
  BY <1>1, <1>3 DEF Handled
<1> QED
  BY <1>2, <1>3

LEMMA RefreshFacts ==
    ASSUME CacheInv, NEW f \in Refresher
    PROVE  /\ refresh \in [Refresher -> RefreshType] /\ refresh[f] \in RefreshType /\ RefreshFits(refresh[f])
           /\ refresh[f] = [at |-> refresh[f].at, todo |-> refresh[f].todo, keys |-> refresh[f].keys, copy |-> refresh[f].copy]
           /\ refresh[f].at # "rest" => refresh[f].todo # <<>> /\ On(f) \in Table
           /\ cached \subseteq Table /\ batch \in [Table -> Copies] /\ \A t \in Table : RowsOfTable(t, batch[t])
<1>1. refresh \in [Refresher -> RefreshType] /\ refresh[f] \in RefreshType /\ RefreshFits(refresh[f])
  BY DEF CacheInv, CacheShape
<1>2. refresh[f] = [at |-> refresh[f].at, todo |-> refresh[f].todo, keys |-> refresh[f].keys, copy |-> refresh[f].copy]
  BY <1>1 DEF RefreshType
<1>3. ASSUME refresh[f].at # "rest" PROVE refresh[f].todo # <<>> /\ On(f) \in Table
  <2>1. refresh[f].todo \in Seq(Table) /\ refresh[f].todo # <<>>
    BY <1>1, <1>3 DEF RefreshType, RefreshFits
  <2> QED
    BY <2>1, TailOf DEF On
<1> QED
  BY <1>1, <1>2, <1>3 DEF CacheInv, CacheShape

\* It goes on to the next table or is through.
LEMMA NextIs ==
    ASSUME CacheInv, NEW f \in Refresher, refresh[f].at # "rest", NextTable(f)
    PROVE  \E r : RefreshFits(r) /\ r.at \in {"rest", "check"} /\ refresh' = [refresh EXCEPT ![f] = r]
<1>1. PICK list : list = refresh[f].todo /\ list \in Seq(Table) /\ list # <<>>
  BY RefreshFacts DEF RefreshType
<1>2. PICK left : left = Tail(list) /\ left \in Seq(Table)
  BY <1>1, TailOf
<1>3. PICK r : r = IF left = <<>> THEN NoRefresh ELSE [NoRefresh EXCEPT !.at = "check", !.todo = left]
  OBVIOUS
<1>4. refresh' = [refresh EXCEPT ![f] = r]
  BY <1>1, <1>2, <1>3 DEF NextTable
<1>5. RefreshFits(r) /\ r.at \in {"rest", "check"}
  <2>1. CASE left = <<>>
    BY <1>3, <2>1, NoRefreshFits
  <2>2. CASE left # <<>>
    <3>1. r = [at |-> "check", todo |-> left, keys |-> {}, copy |-> <<>>]
      BY <1>3, <2>2 DEF NoRefresh
    <3> QED
      BY <1>2, <2>2, <3>1, CopiesAre DEF RefreshType, RefreshFits, HoldsCopy
  <2> QED
    BY <2>1, <2>2
<1> QED
  BY <1>4, <1>5

LEMMA StartCaches ==
    ASSUME CacheInv, UNCHANGED <<mem, job, unmarked>>, NEW f \in Refresher, StartRefresh(f) \/ CheckTable(f)
    PROVE  CacheInv'
<1>1. UNCHANGED <<deltas, schema_dirty, batch, lost_marks>> /\ cached' \subseteq cached
  BY DEF StartRefresh, CheckTable
<1>2. refresh[f].at \in {"rest", "check"}
  BY DEF StartRefresh, CheckTable
<1>3. ASSUME NEW r, refresh' = [refresh EXCEPT ![f] = r], RefreshFits(r), ~HoldsCopy(r) PROVE CacheInv'
  <2>1. /\ cached' \subseteq Table /\ batch' \in [Table -> Copies] /\ \A t \in Table : RowsOfTable(t, batch'[t])
    BY <1>1, RefreshFacts
  <2>2. \A k \in Key : ~Old(r, k, mem[k]) /\ ~ReadBy(refresh[f], k, mem[k])
    BY <1>2, <1>3 DEF Old, ReadBy
  <2>3. \A k \in Key : TableOf(k) \in cached' /\ CopyRow(batch'[TableOf(k)], k) # mem[k] =>
           TableOf(k) \in cached /\ CopyRow(batch[TableOf(k)], k) # mem[k]
    BY <1>1
  <2> QED
    BY <1>1, <1>3, <2>1, <2>2, <2>3, RefreshWaits
<1>4. CASE CheckTable(f)
  <2>1. PICK at \in {"full", "incremental"} : refresh' = [refresh EXCEPT ![f].at = at]
    BY <1>4 DEF CheckTable, Go
  <2>2. PICK r : r = [refresh[f] EXCEPT !.at = at]
    OBVIOUS
  <2>3. refresh' = [refresh EXCEPT ![f] = r]
    BY <2>1, <2>2
  <2>4. r = [at |-> at, todo |-> refresh[f].todo, keys |-> refresh[f].keys, copy |-> refresh[f].copy]
    BY <2>2, RefreshFacts DEF RefreshType
  <2>5. refresh[f] \in RefreshType /\ refresh[f].todo # <<>>
    BY <1>4, RefreshFacts DEF CheckTable
  <2>6. RefreshFits(r) /\ ~HoldsCopy(r)
    BY <2>4, <2>5 DEF RefreshType, RefreshFits, HoldsCopy
  <2> QED
    BY <1>3, <2>3, <2>6
<1>5. CASE StartRefresh(f)
  <2>1. ASSUME NEW list \in Seq(Table), list # <<>>, refresh' = [refresh EXCEPT ![f] = [NoRefresh EXCEPT !.at = "check", !.todo = list]]
        PROVE  CacheInv'
    <3>1. PICK r : r = [NoRefresh EXCEPT !.at = "check", !.todo = list]
      OBVIOUS
    <3>2. r = [at |-> "check", todo |-> list, keys |-> {}, copy |-> <<>>]
      BY <3>1 DEF NoRefresh
    <3>3. RefreshFits(r) /\ ~HoldsCopy(r)
      BY <2>1, <3>2, CopiesAre DEF RefreshType, RefreshFits, HoldsCopy
    <3> QED
      BY <1>3, <2>1, <3>1, <3>3
  <2>2. ASSUME NEW t \in Table, mem[t] # 0 PROVE TableNames \in Seq(Table) /\ TableNames # <<>>
    <3>1. /\ LogTable \in Table /\ UserTable \in Table /\ t \in {LogTable, UserTable}
      BY DEF Table
    <3>2. PICK a, b : /\ a = IF mem[LogTable] # 0 THEN <<LogTable>> ELSE <<>>
                      /\ b = IF mem[UserTable] # 0 THEN <<UserTable>> ELSE <<>>
      OBVIOUS
    <3>a. a \in Seq(Table) /\ b \in Seq(Table)
      <4>1. <<LogTable>> \in Seq(Table) /\ <<UserTable>> \in Seq(Table) /\ <<>> \in Seq(Table)
        BY <3>1
      <4> QED
        BY <3>2, <4>1
    <3>3. Len(a) + Len(b) # 0
      <4>1. Len(<<LogTable>>) = 1 /\ Len(<<UserTable>>) = 1 /\ Len(<<>>) = 0
        OBVIOUS
      <4> QED
        BY <2>2, <3>1, <3>2, <4>1
    <3>4. a \o b \in Seq(Table) /\ Len(a \o b) = Len(a) + Len(b)
      BY <3>a
    <3>5. a \o b # <<>>
      BY <3>3, <3>4
    <3> QED
      BY <3>2, <3>4, <3>5 DEF TableNames
  <2>3. ASSUME NEW t \in Table PROVE <<t>> \in Seq(Table) /\ <<t>> # <<>>
    OBVIOUS
  <2> QED
    BY <1>5, <2>1, <2>2, <2>3 DEF StartRefresh
<1> QED
  BY <1>4, <1>5

LEMMA SnapshotCaches ==
    ASSUME CacheInv, UNCHANGED <<mem, job, unmarked>>, mem \in [Cell -> Val], NEW f \in Refresher, SnapshotTable(f)
    PROVE  CacheInv'
<1>1. UNCHANGED <<deltas, schema_dirty, batch, lost_marks>> /\ cached' \subseteq cached /\ refresh[f].at = "full"
  BY DEF SnapshotTable
<1>2. ASSUME NEW r, refresh' = [refresh EXCEPT ![f] = r], RefreshFits(r), \A k \in Key : ~Old(r, k, mem[k]) PROVE CacheInv'
  <2>1. /\ cached' \subseteq Table /\ batch' \in [Table -> Copies] /\ \A t \in Table : RowsOfTable(t, batch'[t])
    BY <1>1, RefreshFacts
  <2>2. \A k \in Key : ~ReadBy(refresh[f], k, mem[k])
    BY <1>1 DEF ReadBy
  <2>3. \A k \in Key : TableOf(k) \in cached' /\ CopyRow(batch'[TableOf(k)], k) # mem[k] =>
           TableOf(k) \in cached /\ CopyRow(batch[TableOf(k)], k) # mem[k]
    BY <1>1
  <2> QED
    BY <1>1, <1>2, <2>1, <2>2, <2>3, RefreshWaits
<1>3. CASE mem[On(f)] = 0
  <2>1. PICK r : RefreshFits(r) /\ r.at \in {"rest", "check"} /\ refresh' = [refresh EXCEPT ![f] = r]
    BY <1>1, <1>3, NextIs DEF SnapshotTable
  <2>2. \A k \in Key : ~Old(r, k, mem[k])
    BY <2>1 DEF Old, HoldsCopy
  <2> QED
    BY <1>2, <2>1, <2>2
<1>4. CASE mem[On(f)] # 0
  <2>0. PICK t \in Table : t = On(f)
    BY <1>1, RefreshFacts
  <2>a. PICK q : q = SnapshotOf(t)
    OBVIOUS
  <2>1. t = On(f) /\ q = SnapshotOf(t)
    BY <2>0, <2>a
  <2>2. RowsOfTable(t, q) /\ \A k \in KeysOf(t) : CopyRow(q, k) = mem[k]
    BY <2>1, SnapshotIs
  <2>3. PICK r : r = [refresh[f] EXCEPT !.copy = q, !.at = "copied"]
    OBVIOUS
  <2>4. refresh' = [refresh EXCEPT ![f] = r]
    BY <1>4, <2>1, <2>3 DEF SnapshotTable
  <2>5. r = [at |-> "copied", todo |-> refresh[f].todo, keys |-> refresh[f].keys, copy |-> q]
    BY <2>3, RefreshFacts DEF RefreshType
  <2>6. refresh[f] \in RefreshType /\ refresh[f].todo # <<>> /\ Head(refresh[f].todo) = t /\ q \in Copies
    BY <1>1, <2>1, <2>2, RefreshFacts, CopiesAre DEF On
  <2>7. RefreshFits(r)
    BY <2>2, <2>5, <2>6 DEF RefreshType, RefreshFits, HoldsCopy
  <2>8. \A k \in Key : ~Old(r, k, mem[k])
    BY <2>2, <2>5, <2>6, KeysAre DEF Old
  <2> QED
    BY <1>2, <2>4, <2>7, <2>8
<1> QED
  BY <1>3, <1>4

\* Marks are cleared while the refresh holds its copy: it brings what the marks told of.
LEMMA ClearCaches ==
    ASSUME CacheInv, UNCHANGED <<mem, job, unmarked>>, NEW f \in Refresher, ClearSchemaDirty(f) \/ DropDeltas(f)
    PROVE  CacheInv'
<1>1. PICK t \in Table : t = On(f)
  BY RefreshFacts DEF ClearSchemaDirty, DropDeltas
<1>2. PICK at \in {"cleared", "taken"} : refresh' = [refresh EXCEPT ![f].at = at]
  BY DEF ClearSchemaDirty, DropDeltas, Go
<1>3. PICK r : r = [refresh[f] EXCEPT !.at = at]
  OBVIOUS
<1>4. /\ refresh' = [refresh EXCEPT ![f] = r] /\ refresh[f].at \in {"copied", "cleared"}
      /\ UNCHANGED <<cached, batch>>
  BY <1>2, <1>3 DEF ClearSchemaDirty, DropDeltas
<1>5. r = [at |-> at, todo |-> refresh[f].todo, keys |-> refresh[f].keys, copy |-> refresh[f].copy]
  BY <1>3, RefreshFacts DEF RefreshType
<1>6. refresh[f] \in RefreshType /\ RefreshFits(refresh[f]) /\ refresh[f].todo # <<>> /\ Head(refresh[f].todo) = t
  BY <1>1, <1>4, RefreshFacts DEF On
<1>7. RefreshFits(r)
  BY <1>4, <1>5, <1>6 DEF RefreshType, RefreshFits, HoldsCopy
<1>8. \A k \in Key : /\ Old(r, k, mem[k]) <=> Old(refresh[f], k, mem[k])
                     /\ ReadBy(refresh[f], k, mem[k]) => ReadBy(r, k, mem[k])
                     /\ k \in KeysOf(t) /\ ~Old(refresh[f], k, mem[k]) => ReadBy(r, k, mem[k])
  BY <1>4, <1>5, <1>6, KeysAre DEF Old, ReadBy, HoldsCopy
<1>9. PICK keys \in SUBSET KeysOf(t) :
         \A k \in Key : Handled(k) => Handled(k)' \/ (k \in keys /\ \A g \in Refresher : ~Old(refresh[g], k, mem[k]))
  <2>1. KeysOf(t) \subseteq Key /\ \A k \in Key : k \in KeysOf(t) <=> TableOf(k) = t
    BY KeysAre
  <2>2. CASE ClearSchemaDirty(f) /\ t \in schema_dirty
    <3>1. PICK keys : keys = KeysOf(t)
      OBVIOUS
    <3>2. /\ keys \in SUBSET Key /\ lost_marks' = lost_marks \cup Forgotten(keys)
          /\ \A k \in Key : k \in deltas => k \in deltas' \/ k \in keys
          /\ \A k \in Key : TableOf(k) \in schema_dirty => TableOf(k) \in schema_dirty' \/ k \in keys
      BY <1>1, <2>1, <2>2, <3>1 DEF ClearSchemaDirty
    <3> QED
      BY <3>1, <3>2, MarksTaken
  <2>3. CASE ClearSchemaDirty(f) /\ t \notin schema_dirty
    <3>1. /\ {} \in SUBSET Key /\ lost_marks' = lost_marks \cup Forgotten({})
          /\ \A k \in Key : k \in deltas => k \in deltas' \/ k \in {}
          /\ \A k \in Key : TableOf(k) \in schema_dirty => TableOf(k) \in schema_dirty' \/ k \in {}
      BY <1>1, <2>3 DEF ClearSchemaDirty, Forgotten
    <3>2. \A k \in Key : Handled(k) => Handled(k)' \/ (k \in {} /\ \A g \in Refresher : ~Old(refresh[g], k, mem[k]))
      BY <3>1, MarksTaken
    <3> QED
      BY <3>2
  <2>4. CASE DropDeltas(f)
    <3>1. PICK keys : keys = deltas \cap KeysOf(t)
      OBVIOUS
    <3>2. /\ keys \in SUBSET Key /\ lost_marks' = lost_marks \cup Forgotten(keys)
          /\ \A k \in Key : k \in deltas => k \in deltas' \/ k \in keys
          /\ \A k \in Key : TableOf(k) \in schema_dirty => TableOf(k) \in schema_dirty' \/ k \in keys
      BY <1>1, <2>1, <2>4, <3>1 DEF DropDeltas
    <3> QED
      BY <3>1, <3>2, MarksTaken
  <2> QED
    BY <2>2, <2>3, <2>4
<1>10. \A g \in Refresher : \A k \in Key : Handled(k) /\ Old(refresh[g], k, mem[k]) => Handled(k)'
  BY <1>9
<1>11. ASSUME NEW k \in Key, TableOf(k) \in cached, CopyRow(batch[TableOf(k)], k) # mem[k]
       PROVE  Handled(k)' \/ ReadBy(r, k, mem[k]) \/ \E g \in Refresher \ {f} : ReadBy(refresh[g], k, mem[k])
  <2>1. CASE Handled(k)
    BY <1>8, <1>9, <2>1
  <2>2. CASE ~Handled(k)
    BY <1>8, <1>11, <2>2 DEF CacheInv, BatchesFollow
  <2> QED
    BY <2>1, <2>2
<1>12. cached' \subseteq Table /\ batch' \in [Table -> Copies] /\ \A u \in Table : RowsOfTable(u, batch'[u])
  BY <1>4, RefreshFacts
<1>13. \A k \in Key : TableOf(k) \in cached' /\ CopyRow(batch'[TableOf(k)], k) # mem[k] =>
          \/ Handled(k)' \/ ReadBy(r, k, mem[k])
          \/ \E g \in Refresher \ {f} : ReadBy(refresh[g], k, mem[k])
  BY <1>4, <1>11
<1> QED
  BY <1>4, <1>7, <1>8, <1>10, <1>12, <1>13, RefreshKeeps

LEMMA InsertCaches ==
    ASSUME CacheInv, UNCHANGED <<mem, job, unmarked>>, NEW f \in Refresher, InsertCopy(f)
    PROVE  CacheInv'
<1>1. PICK t \in Table : t = On(f)
  BY RefreshFacts DEF InsertCopy
<1>2. PICK q : q = refresh[f].copy
  OBVIOUS
<1>3. /\ refresh[f].at = "taken" /\ UNCHANGED <<deltas, schema_dirty, lost_marks>> /\ NextTable(f)
      /\ cached' = cached \cup {t} /\ batch' = [batch EXCEPT ![t] = q]
  BY <1>1, <1>2 DEF InsertCopy
<1>4. PICK r : RefreshFits(r) /\ r.at \in {"rest", "check"} /\ refresh' = [refresh EXCEPT ![f] = r]
  BY <1>3, NextIs
<1>5. RowsOfTable(t, q) /\ Head(refresh[f].todo) = t
  BY <1>1, <1>2, <1>3, RefreshFacts DEF RefreshFits, HoldsCopy, On
<1>6. batch'[t] = q /\ \A u \in Table \ {t} : batch'[u] = batch[u]
  BY <1>3, RefreshFacts
<1>7. /\ cached' \subseteq Table /\ batch' \in [Table -> Copies] /\ \A u \in Table : RowsOfTable(u, batch'[u])
  <2>1. batch \in [Table -> Copies] /\ \A u \in Table : RowsOfTable(u, batch[u])
    BY RefreshFacts
  <2>2. batch' \in [Table -> Copies]
    BY <1>3, <1>5, <2>1, CopiesAre
  <2> QED
    BY <1>3, <1>5, <1>6, <2>1, <2>2, RefreshFacts
<1>8. \A k \in Key : ~Old(r, k, mem[k])
  BY <1>4 DEF Old, HoldsCopy
<1>9. ASSUME NEW k \in Key, TableOf(k) \in cached', CopyRow(batch'[TableOf(k)], k) # mem[k]
      PROVE  \/ Handled(k)
             \/ TableOf(k) \in cached /\ CopyRow(batch[TableOf(k)], k) # mem[k]
                /\ (ReadBy(refresh[f], k, mem[k]) => ReadBy(r, k, mem[k]))
  <2>1. CASE TableOf(k) = t
    <3>1. Old(refresh[f], k, mem[k])
      BY <1>2, <1>3, <1>5, <1>6, <1>9, <2>1 DEF Old, HoldsCopy
    <3> QED
      BY <3>1 DEF CacheInv, CopiesFollow
  <2>2. CASE TableOf(k) # t
    <3>1. TableOf(k) \in Table
      BY KeysAre
    <3>2. ~ReadBy(refresh[f], k, mem[k])
      BY <1>3, <1>5, <2>2 DEF ReadBy
    <3> QED
      BY <1>3, <1>6, <1>9, <2>2, <3>1, <3>2
  <2> QED
    BY <2>1, <2>2
<1>10. UNCHANGED <<mem, job, unmarked, lost_marks, deltas, schema_dirty>>
  BY <1>3
<1>11. \A k \in Key : Old(r, k, mem[k]) => Old(refresh[f], k, mem[k])
  BY <1>8
<1> QED
  BY <1>4, <1>7, <1>9, <1>10, <1>11, RefreshWaits

LEMMA MergeCaches ==
    ASSUME CacheInv, UNCHANGED <<mem, job, unmarked>>, mem \in [Cell -> Val], NEW f \in Refresher, MergeDeltas(f)
    PROVE  CacheInv'
<1>1. PICK t \in Table : t = On(f)
  BY RefreshFacts DEF MergeDeltas
<1>2. PICK keys : keys = refresh[f].keys
  OBVIOUS
<1>3. PICK q : q = IF t \in cached THEN Merged(t, keys) ELSE batch[t]
  OBVIOUS
<1>4. /\ refresh[f].at = "merge" /\ UNCHANGED <<deltas, schema_dirty, lost_marks, cached>> /\ NextTable(f)
  BY DEF MergeDeltas
<1>5. PICK r : RefreshFits(r) /\ r.at \in {"rest", "check"} /\ refresh' = [refresh EXCEPT ![f] = r]
  BY <1>4, NextIs
<1>6. keys \in SUBSET KeysOf(t) /\ batch \in [Table -> Copies] /\ \A u \in Table : RowsOfTable(u, batch[u])
  BY <1>1, <1>2, <1>4, RefreshFacts DEF RefreshFits, On
<1>7. batch' = [batch EXCEPT ![t] = q]
  <2>1. CASE t \in cached
    BY <1>1, <1>2, <1>3, <2>1 DEF MergeDeltas
  <2>2. CASE t \notin cached
    <3>1. batch' = batch /\ q = batch[t]
      BY <1>1, <1>3, <2>2 DEF MergeDeltas
    <3> QED
      BY <1>6, <3>1
  <2> QED
    BY <2>1, <2>2
<1>8. /\ RowsOfTable(t, q)
      /\ t \in cached => \A k \in KeysOf(t) : CopyRow(q, k) = IF k \in keys THEN mem[k] ELSE CopyRow(batch[t], k)
  <2>1. CASE t \in cached
    <3>1. q = Merged(t, keys) /\ RowsOfTable(t, batch[t])
      BY <1>3, <1>6, <2>1
    <3> QED
      BY <1>6, <3>1, MergedIs
  <2>2. CASE t \notin cached
    BY <1>3, <1>6, <2>2
  <2> QED
    BY <2>1, <2>2
<1>9. batch'[t] = q /\ \A u \in Table \ {t} : batch'[u] = batch[u]
  BY <1>6, <1>7
<1>10. cached' \subseteq Table /\ batch' \in [Table -> Copies] /\ \A u \in Table : RowsOfTable(u, batch'[u])
  <2>1. batch' \in [Table -> Copies]
    BY <1>6, <1>7, <1>8, CopiesAre
  <2> QED
    BY <1>4, <1>6, <1>8, <1>9, <2>1, RefreshFacts
<1>11. ASSUME NEW k \in Key, TableOf(k) \in cached', CopyRow(batch'[TableOf(k)], k) # mem[k]
       PROVE  \/ Handled(k)
              \/ TableOf(k) \in cached /\ CopyRow(batch[TableOf(k)], k) # mem[k]
                 /\ (ReadBy(refresh[f], k, mem[k]) => ReadBy(r, k, mem[k]))
  <2>1. TableOf(k) \in Table /\ TableOf(k) \in cached /\ (k \in KeysOf(t) <=> TableOf(k) = t)
    BY <1>4, <1>11, KeysAre
  <2>2. k \notin keys
    <3> SUFFICES ASSUME k \in keys PROVE FALSE
      OBVIOUS
    <3>1. k \in KeysOf(t) /\ TableOf(k) = t /\ t \in cached
      BY <1>6, <2>1
    <3>2. CopyRow(q, k) = mem[k]
      BY <1>8, <3>1
    <3> QED
      BY <1>9, <1>11, <3>1, <3>2
  <2>3. ~ReadBy(refresh[f], k, mem[k])
    BY <1>2, <1>4, <2>2 DEF ReadBy
  <2>4. CopyRow(batch[TableOf(k)], k) # mem[k]
    <3>1. CASE TableOf(k) = t
      BY <1>8, <1>9, <1>11, <2>1, <2>2, <3>1
    <3>2. CASE TableOf(k) # t
      BY <1>9, <1>11, <2>1, <3>2
    <3> QED
      BY <3>1, <3>2
  <2> QED
    BY <2>1, <2>3, <2>4
<1>12. UNCHANGED <<mem, job, unmarked, lost_marks, deltas, schema_dirty>>
  BY <1>4
<1>13. \A k \in Key : Old(r, k, mem[k]) => Old(refresh[f], k, mem[k])
  BY <1>5 DEF Old, HoldsCopy
<1> QED
  BY <1>5, <1>10, <1>11, <1>12, <1>13, RefreshWaits

LEMMA TakeCaches ==
    ASSUME CacheInv, UNCHANGED <<mem, job, unmarked>>, NEW f \in Refresher, TakeDeltas(f)
    PROVE  CacheInv'
<1>1. PICK t \in Table : t = On(f)
  BY RefreshFacts DEF TakeDeltas
<1>2. PICK keys : keys = deltas \cap KeysOf(t)
  OBVIOUS
<1>3. /\ refresh[f].at = "incremental" /\ UNCHANGED <<schema_dirty, cached, batch>>
      /\ deltas' = deltas \ KeysOf(t) /\ lost_marks' = lost_marks \cup Forgotten(keys)
  BY <1>1, <1>2 DEF TakeDeltas
<1>4. keys \in SUBSET Key /\ keys \subseteq KeysOf(t)
  BY <1>2, KeysAre
<1>5. \A k \in Key : Handled(k) => Handled(k)' \/ (k \in keys /\ \A g \in Refresher : ~Old(refresh[g], k, mem[k]))
  <2>1. /\ \A k \in Key : k \in deltas => k \in deltas' \/ k \in keys
        /\ \A k \in Key : TableOf(k) \in schema_dirty => TableOf(k) \in schema_dirty' \/ k \in keys
    BY <1>2, <1>3
  <2> QED
    BY <1>3, <1>4, <2>1, MarksTaken
<1>6. PICK r : /\ RefreshFits(r) /\ refresh' = [refresh EXCEPT ![f] = r] /\ ~HoldsCopy(r)
               /\ \A k \in keys : \A v : ReadBy(r, k, v)
  <2>1. CASE keys = {}
    <3>1. PICK r : RefreshFits(r) /\ r.at \in {"rest", "check"} /\ refresh' = [refresh EXCEPT ![f] = r]
      BY <1>1, <1>2, <1>3, <2>1, NextIs DEF TakeDeltas
    <3>2. ~HoldsCopy(r)
      BY <3>1 DEF HoldsCopy
    <3> QED
      BY <2>1, <3>1, <3>2
  <2>2. CASE keys # {}
    <3>1. PICK r : r = [refresh[f] EXCEPT !.keys = keys, !.at = "merge"]
      OBVIOUS
    <3>2. refresh' = [refresh EXCEPT ![f] = r]
      BY <1>1, <1>2, <2>2, <3>1 DEF TakeDeltas
    <3>3. r = [at |-> "merge", todo |-> refresh[f].todo, keys |-> keys, copy |-> refresh[f].copy]
      BY <3>1, RefreshFacts DEF RefreshType
    <3>4. refresh[f] \in RefreshType /\ refresh[f].todo # <<>> /\ Head(refresh[f].todo) = t
      BY <1>1, <1>3, RefreshFacts DEF On
    <3>5. RefreshFits(r) /\ ~HoldsCopy(r)
      BY <1>4, <3>3, <3>4 DEF RefreshType, RefreshFits, HoldsCopy
    <3>6. \A k \in keys : \A v : ReadBy(r, k, v)
      BY <3>3 DEF ReadBy
    <3> QED
      BY <3>2, <3>5, <3>6
  <2> QED
    BY <2>1, <2>2
<1>7. \A g \in Refresher : \A k \in Key : Handled(k) /\ Old(refresh[g], k, mem[k]) => Handled(k)'
  BY <1>5
<1>8. \A k \in Key : Old(r, k, mem[k]) => Old(refresh[f], k, mem[k])
  BY <1>6 DEF Old
<1>9. ASSUME NEW k \in Key, TableOf(k) \in cached, CopyRow(batch[TableOf(k)], k) # mem[k]
      PROVE  Handled(k)' \/ ReadBy(r, k, mem[k]) \/ \E g \in Refresher \ {f} : ReadBy(refresh[g], k, mem[k])
  <2>1. CASE Handled(k)
    BY <1>5, <1>6, <2>1
  <2>2. CASE ~Handled(k)
    <3>1. PICK g \in Refresher : ReadBy(refresh[g], k, mem[k])
      BY <1>9, <2>2 DEF CacheInv, BatchesFollow
    <3>2. ~ReadBy(refresh[f], k, mem[k])
      BY <1>3 DEF ReadBy
    <3> QED
      BY <3>1, <3>2
  <2> QED
    BY <2>1, <2>2
<1>10. cached' \subseteq Table /\ batch' \in [Table -> Copies] /\ \A u \in Table : RowsOfTable(u, batch'[u])
  BY <1>3, RefreshFacts
<1>11. \A k \in Key : TableOf(k) \in cached' /\ CopyRow(batch'[TableOf(k)], k) # mem[k] =>
          \/ Handled(k)' \/ ReadBy(r, k, mem[k])
          \/ \E g \in Refresher \ {f} : ReadBy(refresh[g], k, mem[k])
  BY <1>3, <1>9
<1> QED
  BY <1>6, <1>7, <1>8, <1>10, <1>11, RefreshKeeps

LEMMA RefreshCaches ==
    ASSUME EngineInv, CacheInv, NEW f \in Refresher, OlapStep(f)
    PROVE  CacheInv'
<1>1. UNCHANGED <<mem, job, unmarked>> /\ mem \in [Cell -> Val]
  BY DEF OlapStep, engineHistory, EngineInv, StoreInv, StoreTypes
<1>2. CASE StartRefresh(f) \/ CheckTable(f)
  BY <1>1, <1>2, StartCaches
<1>3. CASE SnapshotTable(f)
  BY <1>1, <1>3, SnapshotCaches
<1>4. CASE ClearSchemaDirty(f) \/ DropDeltas(f)
  BY <1>1, <1>4, ClearCaches
<1>5. CASE InsertCopy(f)
  BY <1>1, <1>5, InsertCaches
<1>6. CASE TakeDeltas(f)
  BY <1>1, <1>6, TakeCaches
<1>7. CASE MergeDeltas(f)
  BY <1>1, <1>7, MergeCaches
<1> QED
  BY <1>2, <1>3, <1>4, <1>5, <1>6, <1>7 DEF OlapStep
-----------------------------------------------------------------------------
\* Nothing is cached when the process starts.
LEMMA EmptyCaches ==
    ASSUME cached = {}, batch = [t \in Table |-> <<>>], refresh = [f \in Refresher |-> NoRefresh],
           job = [s \in Session |-> Resting]
    PROVE  CacheInv
<1>1. CacheShape
  <2>1. NoRefresh \in RefreshType
    BY NoRefreshFits DEF RefreshFits
  <2>2. batch \in [Table -> Copies] /\ refresh \in [Refresher -> RefreshType]
    BY <2>1, CopiesAre
  <2> QED
    BY <2>2, NoRefreshFits DEF CacheShape
<1>2. RowsFollow
  BY DEF RowsFollow, BringsRows, Resting
<1>3. CopiesFollow
  BY NoRefreshFits DEF CopiesFollow, Old, HoldsCopy
<1>4. BatchesFollow
  BY DEF BatchesFollow
<1> QED
  BY <1>1, <1>2, <1>3, <1>4 DEF CacheInv

\* Nor is anything when it starts again.
LEMMA CachesEmptied ==
    ASSUME cached' = {}, batch' = [t \in Table |-> <<>>], refresh' = [f \in Refresher |-> NoRefresh],
           job' = [s \in Session |-> Resting]
    PROVE  CacheInv'
<1>1. CacheShape'
  <2>1. NoRefresh \in RefreshType
    BY NoRefreshFits DEF RefreshFits
  <2>2. batch' \in [Table -> Copies] /\ refresh' \in [Refresher -> RefreshType]
    BY <2>1, CopiesAre
  <2> QED
    BY <2>2, NoRefreshFits DEF CacheShape
<1>2. RowsFollow'
  BY DEF RowsFollow, BringsRows, Resting
<1>3. CopiesFollow'
  BY NoRefreshFits DEF CopiesFollow, Old, HoldsCopy
<1>4. BatchesFollow'
  BY DEF BatchesFollow
<1> QED
  BY <1>1, <1>2, <1>3, <1>4 DEF CacheInv

LEMMA CacheStarts == Init => CacheInv
<1> SUFFICES ASSUME Init PROVE CacheInv
  OBVIOUS
<1>1. PICK w : Start(w)
  BY DEF Init
<1>2. /\ cached = {} /\ batch = [t \in Table |-> <<>>] /\ refresh = [f \in Refresher |-> NoRefresh]
      /\ job = [s \in Session |-> Resting]
  BY <1>1 DEF Start, OlapInit, EngineInit
<1> QED
  BY <1>2, EmptyCaches

LEMMA CacheKeeps == EngineInv /\ SyncInv /\ CacheInv /\ [Next]_vars => CacheInv'
<1> SUFFICES ASSUME EngineInv, SyncInv, CacheInv, [Next]_vars PROVE CacheInv'
  OBVIOUS
<1>1. RowsFollow
  BY DEF CacheInv
<1>2. ASSUME NEW s \in Session, SessionStep(s) \/ SessionBackup(s) PROVE CacheInv'
  <2>1. MarksFollow /\ RowsFollow'
    BY <1>1, <1>2, SessionMarks
  <2>2. UNCHANGED olapVars
    BY <1>2 DEF SessionStep, SessionBackup
  <2> QED
    BY <2>1, <2>2, SessionCaches
<1>3. CASE UNCHANGED <<job, mem, deltas, schema_dirty, unmarked>> /\ UNCHANGED olapVars
  <2>1. UNCHANGED lost_marks
    BY <1>3 DEF olapVars
  <2>2. MarksFollow /\ RowsFollow'
    BY <1>1, <1>3, <2>1, MarksSame
  <2> QED
    BY <1>3, <2>2, SessionCaches
<1>4. CASE \E f \in Refresher : OlapQuery(f)
  BY <1>4, RefreshCaches DEF OlapQuery
<1>5. CASE Replicate
  BY <1>3, <1>5 DEF Replicate, ReplicaStep, engineVars, engineHistory
<1>6. CASE Configure
  BY <1>3, <1>6 DEF Configure, engineVars, engineHistory
<1>7. CASE Restart
  <2>1. /\ cached' = {} /\ batch' = [t \in Table |-> <<>>] /\ refresh' = [f \in Refresher |-> NoRefresh]
        /\ job' = [s \in Session |-> Resting]
    BY <1>7 DEF Restart, Crash
  <2> QED
    BY <2>1, CachesEmptied
<1>8. CASE UNCHANGED vars
  BY <1>3, <1>8 DEF vars, engineVars, engineHistory, olapVars
<1> QED
  BY <1>2, <1>4, <1>5, <1>6, <1>7, <1>8 DEF Next

\* What OlapCatchesUp says of a row, with Marking for what is due.
LEMMA CacheMeans == EngineInv /\ CacheInv => OlapCatchesUp
<1> SUFFICES ASSUME EngineInv, CacheInv, NEW t \in cached
             PROVE  /\ mem[t] # 0 /\ t \notin schema_dirty =>
                          \A k \in KeysOf(t) \ (unmarked \cup lost_marks) : BatchRow(t, k) # mem[k] =>
                              \/ k \in deltas
                              \/ \E s \in Session : k \in Marking(s) \/ t \in Marking(s)
                              \/ \E f \in Refresher :
                                    \/ refresh[f].at = "merge" /\ k \in refresh[f].keys
                                    \/ refresh[f].at \in {"cleared", "taken"} /\ On(f) = t /\ CopyRow(refresh[f].copy, k) = mem[k]
                    /\ \A op \in {">", ">=", "<", "<="}, num \in Val :
                          QueryRows(t, op, num) = {r \in ToSet(batch[t]) : Satisfies(r[2], op, num)}
  BY Zenon DEF OlapCatchesUp
<1>1. StoreInv /\ t \in Table /\ RowsOfTable(t, batch[t])
  BY DEF EngineInv, CacheInv, CacheShape
<1>2. ASSUME NEW op \in {">", ">=", "<", "<="}, NEW num \in Val
      PROVE  QueryRows(t, op, num) = {r \in ToSet(batch[t]) : Satisfies(r[2], op, num)}
  BY <1>1, QueriesMissNothing
<1>3. ASSUME NEW s \in Session PROVE DueOf(job[s]) \subseteq Marking(s)
  <2>1. CASE job[s].at = "mark"
    BY <2>1 DEF DueOf, Marking
  <2>2. CASE job[s].at \in {"record", "write"}
    <3>1. job[s].ops # <<>> /\ job[s].ops \in Seq(Op)
      BY <1>1, <2>2, StoreFacts, JobParts DEF JobStage
    <3>2. CellsOfAll(Tail(job[s].ops)) \subseteq CellsOfAll(job[s].ops)
      BY <3>1, CellsTail
    <3> QED
      BY <2>2, <3>2 DEF DueOf, Marking
  <2>3. CASE job[s].at \notin {"mark", "record", "write"}
    BY <2>3 DEF DueOf
  <2> QED
    BY <2>1, <2>2, <2>3
<1>4. ASSUME t \notin schema_dirty, NEW k \in KeysOf(t) \ (unmarked \cup lost_marks), BatchRow(t, k) # mem[k]
      PROVE  \/ k \in deltas
             \/ \E s \in Session : k \in Marking(s) \/ t \in Marking(s)
             \/ \E f \in Refresher :
                   \/ refresh[f].at = "merge" /\ k \in refresh[f].keys
                   \/ refresh[f].at \in {"cleared", "taken"} /\ On(f) = t /\ CopyRow(refresh[f].copy, k) = mem[k]
  <2>1. k \in Key /\ TableOf(k) = t
    BY <1>4, KeysAre
  <2>2. CopyRow(batch[t], k) # mem[k]
    BY <1>1, <1>4, LastRowIs
  <2>3. Handled(k) \/ \E f \in Refresher : ReadBy(refresh[f], k, mem[k])
    BY <2>1, <2>2 DEF CacheInv, BatchesFollow
  <2>4. CASE Handled(k)
    <3>1. k \in deltas \/ \E s \in Session : Concerns(DueOf(job[s]), k)
      BY <1>4, <2>1, <2>4 DEF Handled
    <3>2. ASSUME NEW s \in Session, Concerns(DueOf(job[s]), k) PROVE k \in Marking(s) \/ t \in Marking(s)
      BY <1>3, <2>1, <3>2 DEF Concerns
    <3> QED
      BY <3>1, <3>2
  <2>5. ASSUME NEW f \in Refresher, ReadBy(refresh[f], k, mem[k])
        PROVE  \/ refresh[f].at = "merge" /\ k \in refresh[f].keys
               \/ refresh[f].at \in {"cleared", "taken"} /\ On(f) = t /\ CopyRow(refresh[f].copy, k) = mem[k]
    BY <2>1, <2>5 DEF ReadBy, On
  <2> QED
    BY <2>3, <2>4, <2>5
<1> QED
  BY <1>2, <1>4

\* The OLAP cache loses no change of a row: what it has not got is marked, will be marked by a
\* statement under way, or is about to be read by a refresh (query and subscribe of olap.rs against
\* the marks of engine.rs); and the segments that a query skips by their zone maps have no row it
\* looks for.  Excepted are rows changed without a mark, and marks that a full rebuild sweeps away.
THEOREM CacheLosesNoChange == Spec => []OlapCatchesUp
<1>1. DatabaseInv => SyncInv
  BY DEF DatabaseInv
<1> QED
  BY <1>1, CacheStarts, CacheKeeps, CacheMeans, EngineInvHolds, DatabaseInvHolds, PTL DEF Spec
=============================================================================
