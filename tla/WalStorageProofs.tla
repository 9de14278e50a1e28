-------------------------- MODULE WalStorageProofs --------------------------
(***************************************************************************)
(* Type correctness and durability of the WAL service, and the pages of    *)
(* the pageserver as replays of the WAL, for any number of safekeepers and *)
(* of concurrent requests and for any bounds.                              *)
(***************************************************************************)
EXTENDS WalStorage, Integers, FiniteSetTheorems, SequenceTheorems, WellFoundedInduction, TLAPS

-----------------------------------------------------------------------------
(***************************************************************************)
(* Extremes of sets of naturals.                                           *)
(***************************************************************************)

\* A non-empty set of naturals has a least element.
LEMMA LeastExists ==
    ASSUME NEW S, S \subseteq Nat, S # {}
    PROVE  \E x \in S : \A y \in S : x <= y
<1> DEFINE R == OpToRel(<, Nat)
<1>1. IsWellFoundedOn(R, Nat)
  BY NatLessThanWellFounded
<1>2. \E x \in S : \A y \in S : ~(<<y, x>> \in R)
  <2> HIDE DEF R
  <2> QED
    BY <1>1, WFMin
<1>3. \A x, y \in Nat : y < x => <<y, x>> \in R
  BY DEF OpToRel
<1> HIDE DEF R
<1>4. \A x, y \in Nat : ~(y < x) => x <= y
  OBVIOUS
<1> QED
  BY <1>2, <1>3, <1>4

\* A non-empty set of naturals with an upper bound has a greatest element.
LEMMA GreatestExists ==
    ASSUME NEW S, S \subseteq Nat, S # {}, NEW b \in Nat, \A y \in S : y <= b
    PROVE  \E x \in S : \A y \in S : y <= x
<1> DEFINE T == {b - y : y \in S}
<1>1. \A y \in S : b - y \in Nat
  OBVIOUS
<1>2. T \subseteq Nat /\ T # {}
  BY <1>1
<1>3. PICK t \in T : \A u \in T : t <= u
  BY <1>2, LeastExists
<1>4. PICK x \in S : t = b - x
  OBVIOUS
<1>5. \A y \in S : b - x <= b - y
  BY <1>3, <1>4
<1> QED
  BY <1>5

-----------------------------------------------------------------------------
(***************************************************************************)
(* What the helpers return.                                                *)
(***************************************************************************)

\* The last LSN of a set of records is the LSN of one of them and above the others.
LEMMA LastLsnFacts ==
    ASSUME NEW S, S \subseteq Record
    PROVE  /\ LastLsn(S) \in Nat
           /\ LastLsn(S) <= MaxLsn + MaxBatch
           /\ \A r \in S : r.lsn <= LastLsn(S)
           /\ LastLsn(S) # 0 => \E r \in S : r.lsn = LastLsn(S)
<1> USE BoundAssumption
<1>1. LsnsOf(S) \subseteq Nat /\ \A l \in LsnsOf(S) : l <= MaxLsn + MaxBatch
  BY DEF LsnsOf, Record, Lsn
<1>2. CASE S = {}
  BY <1>2 DEF LastLsn
<1>3. CASE S # {}
  <2>1. LsnsOf(S) # {}
    BY <1>3 DEF LsnsOf
  <2>2. \E l \in LsnsOf(S) : \A m \in LsnsOf(S) : m <= l
    BY <1>1, <2>1, GreatestExists
  <2>3. LastLsn(S) \in LsnsOf(S) /\ \A m \in LsnsOf(S) : m <= LastLsn(S)
    BY <1>3, <2>2 DEF LastLsn
  <2> QED
    BY <1>1, <2>3 DEF LsnsOf
<1> QED
  BY <1>2, <1>3

\* More records never have a smaller last LSN.
LEMMA LastLsnGrows ==
    ASSUME NEW S, NEW T, S \subseteq T, T \subseteq Record
    PROVE  LastLsn(S) <= LastLsn(T)
<1>1. /\ LastLsn(S) \in Nat /\ LastLsn(T) \in Nat
      /\ LastLsn(S) # 0 => \E r \in S : r.lsn = LastLsn(S)
      /\ \A r \in T : r.lsn <= LastLsn(T)
  BY LastLsnFacts
<1> QED
  BY <1>1

\* A batch above everything in a WAL replaces nothing there.
LEMMA InsertedAbove ==
    ASSUME NEW S, NEW new, S \subseteq Record, new \subseteq Record, Monotonic(new, S)
    PROVE  Inserted(S, new) = S \cup new
<1>1. \A r \in S : r.lsn \notin LsnsOf(new)
  BY BoundAssumption DEF LsnsOf, Monotonic, Record, Lsn
<1> QED
  BY <1>1 DEF Inserted

\* Inserting and streaming records yields records.
LEMMA RecordsStay ==
    ASSUME NEW S, NEW new, S \subseteq Record, new \subseteq Record, NEW low, NEW high
    PROVE  Inserted(S, new) \subseteq Record /\ Streamed(S, low, high) \subseteq Record
BY DEF Inserted, Streamed

\* A request's batch consists of records of its own.
LEMMA BatchFacts ==
    ASSUME NEW w \in Writer, NEW first \in 1 .. MaxLsn, NEW size \in 0 .. MaxBatch
    PROVE  Batch(w, first, size) \subseteq Record /\ \A r \in Batch(w, first, size) : r.by = w
<1>1. first .. first + size - 1 \subseteq Lsn
  BY BoundAssumption DEF Lsn
<1> QED
  BY <1>1 DEF Batch, Record

\* There are N safekeepers, and a quorum is at least one and at most all of them.
LEMMA QuorumFacts ==
    /\ IsFiniteSet(Safekeeper) /\ Cardinality(Safekeeper) = N /\ Safekeeper # {}
    /\ Quorum \in Nat /\ 1 <= Quorum /\ Quorum <= N
<1>1. IsFiniteSet(Safekeeper) /\ Cardinality(Safekeeper) = N
  BY NAssumption, FS_Interval DEF Safekeeper
<1>2. 1 \in Safekeeper
  BY NAssumption DEF Safekeeper
<1>3. Quorum \in Nat /\ 1 <= Quorum /\ Quorum <= N
  BY NAssumption DEF Quorum
<1> QED
  BY <1>1, <1>2, <1>3

\* Two quorums share a safekeeper.
LEMMA QuorumsMeet ==
    ASSUME NEW S, NEW T, S \subseteq Safekeeper, T \subseteq Safekeeper,
           Cardinality(S) >= Quorum, Cardinality(T) >= Quorum
    PROVE  S \cap T # {}
<1>1. IsFiniteSet(Safekeeper) /\ Cardinality(Safekeeper) = N
  BY QuorumFacts
<1>2. Cardinality(S) \in Nat /\ Cardinality(T) \in Nat
  BY <1>1, FS_Subset, FS_CardinalityType
<1>3. Cardinality(S) + Cardinality(T) > N
  BY <1>2, NAssumption DEF Quorum
<1> QED
  BY <1>1, <1>3, FS_MajoritiesIntersect

\* A larger set of safekeepers is a quorum if the smaller is.
LEMMA QuorumGrows ==
    ASSUME NEW S, NEW T, S \subseteq T, T \subseteq Safekeeper, Cardinality(S) >= Quorum
    PROVE  Cardinality(T) >= Quorum
<1>1. IsFiniteSet(T)
  BY QuorumFacts, FS_Subset
<1>2. IsFiniteSet(S) /\ Cardinality(S) <= Cardinality(T)
  BY <1>1, FS_Subset
<1>3. Cardinality(S) \in Nat /\ Cardinality(T) \in Nat /\ Quorum \in Nat
  BY <1>1, <1>2, QuorumFacts, FS_CardinalityType
<1> QED
  BY <1>2, <1>3

\* The quorum-th value in descending order exists, a quorum reaches it, and no
\* quorum goes beyond it.
LEMMA CandidateFacts ==
    ASSUME NEW f, f \in [Safekeeper -> Nat], NEW b \in Nat, \A s \in Safekeeper : f[s] <= b
    PROVE  /\ Candidate(f) \in Nat
           /\ HasAtLeast(f, Candidate(f)) >= Quorum
           /\ HasAtLeast(f, Candidate(f) + 1) < Quorum
<1> DEFINE V == {f[s] : s \in Safekeeper}
           G == {l \in V : HasAtLeast(f, l) >= Quorum}
<1>1. /\ IsFiniteSet(Safekeeper) /\ Cardinality(Safekeeper) = N
      /\ Quorum \in Nat /\ 1 <= Quorum /\ Quorum <= N
      /\ V \subseteq Nat /\ V # {} /\ DOMAIN f = Safekeeper
  BY QuorumFacts
<1>2. \A l : HasAtLeast(f, l) \in Nat
  <2> SUFFICES ASSUME NEW l PROVE HasAtLeast(f, l) \in Nat
    OBVIOUS
  <2>1. {s \in DOMAIN f : f[s] >= l} \in SUBSET Safekeeper
    BY <1>1
  <2> QED
    BY <1>1, <2>1, FS_Subset, FS_CardinalityType DEF HasAtLeast
<1>3. G # {}
  <2>1. PICK l \in V : \A v \in V : l <= v
    BY <1>1, LeastExists
  <2>2. {s \in DOMAIN f : f[s] >= l} = Safekeeper
    BY <1>1, <2>1
  <2> QED
    BY <1>1, <2>2 DEF HasAtLeast
<1>4. PICK g \in G : \A l \in G : l <= g
  <2>1. G \subseteq Nat /\ \A l \in G : l <= b
    BY <1>1
  <2> QED
    BY <1>3, <2>1, GreatestExists
<1>5. HasAtLeast(f, g + 1) < Quorum
  <2> DEFINE A == {s \in DOMAIN f : f[s] >= g + 1}
             B == {f[s] : s \in A}
  <2> SUFFICES ASSUME HasAtLeast(f, g + 1) >= Quorum PROVE FALSE
    BY <1>1, <1>2
  <2>1. A # {}
    BY <1>1, FS_EmptySet DEF HasAtLeast
  <2>2. B \subseteq Nat /\ B # {}
    BY <1>1, <2>1
  <2>3. PICK m \in B : \A v \in B : m <= v
    BY <2>2, LeastExists
  <2>4. g \in Nat /\ m \in Nat /\ m >= g + 1
    BY <1>1, <2>2
  <2>5. {s \in DOMAIN f : f[s] >= m} = A
    BY <1>1, <2>3, <2>4
  <2>6. m \in G
    BY <1>1, <2>5 DEF HasAtLeast
  <2> QED
    BY <1>4, <2>4, <2>6
<1>6. Candidate(f) \in V /\ HasAtLeast(f, Candidate(f)) >= Quorum
      /\ HasAtLeast(f, Candidate(f) + 1) < Quorum
  <2> HIDE DEF HasAtLeast
  <2>1. g \in {f[s] : s \in DOMAIN f} /\ HasAtLeast(f, g) >= Quorum
    BY <1>1
  <2> QED
    BY <1>1, <1>5, <2>1 DEF Candidate
<1> QED
  BY <1>1, <1>6

-----------------------------------------------------------------------------
(***************************************************************************)
(* Type correctness.  It needs what the loops know: how many flush_lsns    *)
(* have been read, and that none was above what is flushed now.            *)
(***************************************************************************)
TermsBelow == \A s \in Safekeeper : accepted_term[s] <= term

FlushLoop ==
    \A w \in Writer :
        Len(flushed[w]) =
            IF pc[w] \in {"idle", "lag", "fence", "insert", "error"} THEN 0
            ELSE IF pc[w] = "flush" THEN at[w] - 1
            ELSE N

FlushedIsOld ==
    \A w \in Writer : \A s \in 1 .. Len(flushed[w]) : flushed[w][s] <= FlushLsn(s)

TypeInv == TypeOK /\ TermsBelow /\ FlushLoop /\ FlushedIsOld

\* A new term is above every term that a safekeeper has accepted.
LEMMA NewTermFacts ==
    ASSUME TypeOK, TermsBelow
    PROVE  NewTerm \in Nat /\ term < NewTerm
<1> DEFINE T == {accepted_term[s] : s \in Safekeeper}
<1>1. T \subseteq Nat /\ T # {} /\ term \in Nat /\ \A t \in T : t <= term
  BY QuorumFacts DEF TypeOK, TermsBelow
<1>2. PICK h \in T : \A t \in T : t <= h
  BY <1>1, GreatestExists
<1>3. \E h1 \in T : \A s \in Safekeeper : accepted_term[s] <= h1
  BY <1>2
<1>4. NewTerm = GreaterOf(CHOOSE t \in T : \A s \in Safekeeper : accepted_term[s] <= t, term) + 1
  BY DEF NewTerm
<1>5. PICK h2 \in T : NewTerm = GreaterOf(h2, term) + 1
  BY <1>3, <1>4
<1>6. h2 \in Nat
  BY <1>1
<1> HIDE DEF T
<1> QED
  BY <1>1, <1>5, <1>6 DEF GreaterOf

\* What is read of a WAL's end is an LSN or 0.
LEMMA FlushLsnFacts ==
    ASSUME TypeOK, NEW s \in Safekeeper
    PROVE  FlushLsn(s) \in Nat /\ FlushLsn(s) <= MaxLsn + MaxBatch
<1>1. wal[s] \subseteq Record
  BY DEF TypeOK
<1> QED
  BY <1>1, LastLsnFacts DEF FlushLsn

\* Once every flush_lsn is read, the list is a function on the safekeepers.
LEMMA FlushedFacts ==
    ASSUME TypeInv, NEW w \in Writer, pc[w] = "commit"
    PROVE  /\ flushed[w] \in [Safekeeper -> Nat]
           /\ Candidate(flushed[w]) \in Nat
           /\ HasAtLeast(flushed[w], Candidate(flushed[w])) >= Quorum
           /\ HasAtLeast(flushed[w], Candidate(flushed[w]) + 1) < Quorum
<1>1. flushed[w] \in Seq(Nat) /\ Len(flushed[w]) = N
  BY DEF TypeInv, TypeOK, FlushLoop
<1>2. flushed[w] \in [Safekeeper -> Nat]
  <2>1. flushed[w] \in [1 .. Len(flushed[w]) -> Nat]
    BY <1>1, LenProperties
  <2> QED
    BY <1>1, <2>1 DEF Safekeeper
<1>3. \A s \in Safekeeper : flushed[w][s] <= MaxLsn + MaxBatch
  <2> TAKE s \in Safekeeper
  <2>1. flushed[w][s] <= FlushLsn(s)
    BY <1>1 DEF TypeInv, FlushedIsOld, Safekeeper
  <2> QED
    BY <1>2, <2>1, FlushLsnFacts, BoundAssumption DEF TypeInv
<1>4. MaxLsn + MaxBatch \in Nat
  BY BoundAssumption
<1> QED
  BY <1>2, <1>3, <1>4, CandidateFacts

\* The first state has the types.
LEMMA TypeInit == Init => TypeInv
<1> SUFFICES ASSUME Init PROVE TypeInv
  OBVIOUS
<1>1. 1 \in Safekeeper /\ 0 \in 0 .. N
  BY NAssumption DEF Safekeeper
<1>2. << >> \in Seq(Nat) /\ Len(<< >>) = 0
  BY EmptySeq
<1>3. TypeOK
  BY <1>1, <1>2 DEF Init, TypeOK, Image, Label
<1>4. TermsBelow /\ FlushLoop /\ FlushedIsOld
  BY <1>2 DEF Init, TermsBelow, FlushLoop, FlushedIsOld
<1> QED
  BY <1>3, <1>4 DEF TypeInv

\* A WAL only grows, and so does what is flushed.
WalsGrow == \A s \in Safekeeper : wal[s] \subseteq wal'[s]

\* Flush_lsns that were read stay below what is flushed when WALs grow.
LEMMA FlushedStaysOld ==
    ASSUME TypeInv, TypeOK', WalsGrow, flushed' = flushed
    PROVE  FlushedIsOld'
<1> SUFFICES ASSUME NEW w \in Writer, NEW s \in 1 .. Len(flushed[w])
             PROVE  flushed[w][s] <= FlushLsn(s)'
  BY DEF FlushedIsOld
<1>1. flushed[w] \in Seq(Nat) /\ Len(flushed[w]) \in 0 .. N
  <2>1. flushed[w] \in Seq(Nat) /\ at[w] \in 1 .. N
    BY DEF TypeInv, TypeOK, Safekeeper
  <2> QED
    BY <2>1, NAssumption DEF TypeInv, FlushLoop
<1>2. s \in Safekeeper /\ flushed[w][s] \in Nat
  BY <1>1, NAssumption, ElementOfSeq DEF Safekeeper
<1>3. FlushLsn(s) <= FlushLsn(s)'
  <2>1. wal[s] \subseteq wal'[s] /\ wal'[s] \subseteq Record
    BY <1>2 DEF WalsGrow, TypeOK
  <2> QED
    BY <2>1, LastLsnGrows DEF FlushLsn
<1>4. FlushLsn(s) \in Nat /\ FlushLsn(s)' \in Nat
  <2>1. wal[s] \subseteq Record /\ wal'[s] \subseteq Record
    BY <1>2 DEF TypeInv, TypeOK
  <2> QED
    BY <2>1, LastLsnFacts DEF FlushLsn
<1> QED
  BY <1>2, <1>3, <1>4 DEF TypeInv, FlushedIsOld
\* One step keeps the types.
LEMMA TypeStep ==
    ASSUME TypeInv, [Next]_vars
    PROVE  TypeInv' /\ WalsGrow
<1> USE DEF TypeInv
<1>1. ASSUME Restart
      PROVE  TypeInv' /\ WalsGrow
  <2> USE DEF safekeeperVars, pageVars, appendVars, ingestVars
  <2>1. CASE StartProposer
    <3>1. term' \in Nat /\ term < term'
      BY <2>1, NewTermFacts DEF StartProposer
    <3>2. TypeOK' /\ WalsGrow
      BY <2>1, <3>1, NAssumption DEF StartProposer, TypeOK, WalsGrow
    <3>3. TermsBelow' /\ FlushLoop'
      BY <2>1, <3>1 DEF StartProposer, TermsBelow, FlushLoop, TypeOK
    <3> QED
      BY <2>1, <3>2, <3>3, FlushedStaysOld DEF StartProposer
  <2>2. CASE Greet
    <3>1. greeting \in Safekeeper
      BY <2>2 DEF Greet, TypeOK, Safekeeper
    <3>2. TypeOK' /\ WalsGrow
      <4>1. accepted_term' \in [Safekeeper -> Nat]
        BY <2>2, <3>1 DEF Greet, TypeOK
      <4>2. greeting' \in 0 .. N /\ started' \subseteq Nat
        <5>1. greeting # N => greeting + 1 \in 0 .. N
          BY <3>1, NAssumption DEF Safekeeper
        <5>2. 0 \in 0 .. N
          BY NAssumption
        <5> QED
          BY <2>2, <5>1, <5>2 DEF Greet, TypeOK
      <4> QED
        BY <2>2, <4>1, <4>2 DEF Greet, TypeOK, WalsGrow
    <3>3. TermsBelow' /\ FlushLoop'
      BY <2>2, <3>1 DEF Greet, TermsBelow, FlushLoop, TypeOK
    <3> QED
      BY <2>2, <3>2, <3>3, FlushedStaysOld DEF Greet
  <2>3. CASE StoreTerm
    <3>1. TypeOK' /\ WalsGrow
      BY <2>3 DEF StoreTerm, TypeOK, WalsGrow
    <3>2. TermsBelow' /\ FlushLoop'
      BY <2>3 DEF StoreTerm, TermsBelow, FlushLoop
    <3> QED
      BY <2>3, <3>1, <3>2, FlushedStaysOld DEF StoreTerm
  <2> QED
    BY <1>1, <2>1, <2>2, <2>3 DEF Restart
<1>2. ASSUME NEW w \in Writer, WriterStep(w)
      PROVE  TypeInv' /\ WalsGrow
  <2> USE DEF proposerVars, safekeeperVars, pageVars, appendVars, ingestVars
  <2>0. at[w] \in 1 .. N /\ pc \in [Writer -> Label]
    BY DEF TypeOK, Safekeeper
  <2>1. CASE Write(w)
    <3>1. PICK first \in 1 .. MaxLsn, size \in 0 .. MaxBatch :
             batch' = [batch EXCEPT ![w] = Batch(w, first, size)]
      BY <2>1 DEF Write
    <3>2. TypeOK' /\ WalsGrow
      <4>1. pc' \in [Writer -> Label]
        BY <2>0, <2>1 DEF Write, Goto, Label
      <4>2. batch' \in [Writer -> SUBSET Record] /\ up_to' \in [Writer -> Nat]
        BY <2>1, <3>1, BatchFacts DEF Write, TypeOK
      <4> QED
        BY <2>1, <4>1, <4>2 DEF Write, TypeOK, WalsGrow
    <3>3. TermsBelow' /\ FlushLoop'
      BY <2>0, <2>1 DEF Write, Goto, TermsBelow, FlushLoop
    <3> QED
      BY <2>1, <3>2, <3>3, FlushedStaysOld DEF Write
  <2>2. CASE CheckLag(w)
    <3>1. TypeOK' /\ WalsGrow
      <4>1. pc' \in [Writer -> Label]
        BY <2>0, <2>2 DEF CheckLag, Goto, Label
      <4>2. my_term' \in [Writer -> Nat]
        BY <2>2 DEF CheckLag, TypeOK
      <4> QED
        BY <2>2, <4>1, <4>2 DEF CheckLag, TypeOK, WalsGrow
    <3>2. TermsBelow' /\ FlushLoop'
      BY <2>0, <2>2 DEF CheckLag, Goto, TermsBelow, FlushLoop
    <3> QED
      BY <2>2, <3>1, <3>2, FlushedStaysOld DEF CheckLag
  <2>3. ASSUME NEW a, NextSafekeeper(w, a), pc[w] \in {"fence", "insert"}
        PROVE  /\ at' \in [Writer -> Safekeeper]
               /\ pc' \in [Writer -> Label]
               /\ flushed' = flushed => FlushLoop'
    <3>1. \/ pc' = [pc EXCEPT ![w] = "fence"] /\ at' = [at EXCEPT ![w] = @ + 1] /\ at[w] < N
          \/ pc' = [pc EXCEPT ![w] = "flush"] /\ at' = [at EXCEPT ![w] = 1]
          \/ pc' = [pc EXCEPT ![w] = "error"] /\ at' = [at EXCEPT ![w] = 1]
      BY <2>3 DEF NextSafekeeper, Goto
    <3>2. at' \in [Writer -> Safekeeper]
      <4>1. 1 \in Safekeeper /\ (at[w] < N => at[w] + 1 \in Safekeeper)
        BY <2>0, NAssumption DEF Safekeeper
      <4> QED
        BY <3>1, <4>1 DEF TypeOK
    <3>3. flushed' = flushed => FlushLoop'
      <4> SUFFICES ASSUME flushed' = flushed, NEW v \in Writer
                   PROVE  Len(flushed[v]) =
                            IF pc'[v] \in {"idle", "lag", "fence", "insert", "error"} THEN 0
                            ELSE IF pc'[v] = "flush" THEN at'[v] - 1
                            ELSE N
        BY DEF FlushLoop
      <4>1. CASE v = w
        <5>1. Len(flushed[w]) = 0
          BY <2>3 DEF FlushLoop
        <5>2. \/ pc'[w] \in {"fence", "error"}
              \/ pc'[w] = "flush" /\ at'[w] = 1
          BY <2>0, <3>1 DEF TypeOK
        <5> QED
          BY <4>1, <5>1, <5>2
      <4>2. CASE v # w
        <5>1. pc'[v] = pc[v] /\ at'[v] = at[v]
          BY <2>0, <3>1, <4>2 DEF TypeOK
        <5> QED
          BY <5>1 DEF FlushLoop
      <4> QED
        BY <4>1, <4>2
    <3> QED
      BY <2>0, <3>1, <3>2, <3>3 DEF Label
  <2>4. CASE CheckTerm(w)
    <3>1. TypeOK' /\ WalsGrow
      <4>1. pc' \in [Writer -> Label] /\ at' \in [Writer -> Safekeeper]
        <5>1. CASE NextSafekeeper(w, acked[w])
          BY <2>3, <2>4, <5>1 DEF CheckTerm
        <5>2. CASE Goto(w, "insert") /\ UNCHANGED at
          BY <2>0, <5>2 DEF Goto, TypeOK, Label
        <5> QED
          BY <2>4, <5>1, <5>2 DEF CheckTerm
      <4> QED
        BY <2>4, <4>1 DEF CheckTerm, TypeOK, WalsGrow
    <3>2. TermsBelow' /\ FlushLoop'
      BY <2>0, <2>3, <2>4 DEF CheckTerm, Goto, TermsBelow, FlushLoop
    <3> QED
      BY <2>4, <3>1, <3>2, FlushedStaysOld DEF CheckTerm
  <2>5. CASE Insert(w)
    <3>1. at[w] \in Safekeeper /\ batch[w] \subseteq Record /\ wal[at[w]] \subseteq Record
      BY DEF TypeOK
    <3>2. WalsGrow /\ wal' \in [Safekeeper -> SUBSET Record]
      <4>1. \/ wal' = wal
            \/ wal' = [wal EXCEPT ![at[w]] = wal[at[w]] \cup batch[w]]
        BY <2>5, <3>1, InsertedAbove DEF Insert
      <4>2. wal \in [Safekeeper -> SUBSET Record]
        BY DEF TypeOK
      <4> QED
        BY <3>1, <4>1, <4>2 DEF WalsGrow
    <3>3. acked' \in [Writer -> SUBSET Safekeeper]
      <4>1. acked' = acked \/ acked' = [acked EXCEPT ![w] = acked[w] \cup {at[w]}]
        BY <2>5 DEF Insert
      <4>2. acked \in [Writer -> SUBSET Safekeeper]
        BY DEF TypeOK
      <4> QED
        BY <3>1, <4>1, <4>2
    <3>4. /\ at' \in [Writer -> Safekeeper]
          /\ pc' \in [Writer -> Label]
          /\ FlushLoop'
      BY <2>3, <2>5 DEF Insert
    <3>5. TypeOK' /\ TermsBelow'
      BY <2>5, <3>2, <3>3, <3>4 DEF Insert, TypeOK, TermsBelow
    <3> QED
      BY <2>5, <3>2, <3>4, <3>5, FlushedStaysOld DEF Insert
  <2>6. CASE ReadFlush(w)
    <3>1. flushed[w] \in Seq(Nat) /\ Len(flushed[w]) = at[w] - 1 /\ FlushLsn(at[w]) \in Nat
      BY <2>6, FlushLsnFacts DEF ReadFlush, FlushLoop, TypeOK
    <3> DEFINE f == Append(flushed[w], FlushLsn(at[w]))
    <3>2. /\ f \in Seq(Nat) /\ Len(f) = at[w]
          /\ f[at[w]] = FlushLsn(at[w])
          /\ \A s \in 1 .. at[w] - 1 : f[s] = flushed[w][s]
      BY <2>0, <3>1, AppendProperties
    <3>3. flushed' = [flushed EXCEPT ![w] = f] /\ wal' = wal
      BY <2>6 DEF ReadFlush
    <3> HIDE DEF f
    <3>4. TypeOK' /\ WalsGrow
      <4>1. flushed' \in [Writer -> Seq(Nat)]
        BY <3>2, <3>3 DEF TypeOK
      <4>2. /\ at' \in [Writer -> Safekeeper]
            /\ pc' \in [Writer -> Label]
        <5>1. 1 \in Safekeeper /\ (at[w] < N => at[w] + 1 \in Safekeeper)
          BY <2>0, NAssumption DEF Safekeeper
        <5> QED
          BY <2>0, <2>6, <5>1 DEF ReadFlush, Goto, TypeOK, Label
      <4> QED
        BY <2>6, <4>1, <4>2 DEF ReadFlush, TypeOK, WalsGrow
    <3>5. FlushLoop'
      <4>1. \/ at[w] < N /\ at' = [at EXCEPT ![w] = @ + 1] /\ pc' = pc /\ pc[w] = "flush"
            \/ at[w] = N /\ at' = [at EXCEPT ![w] = 1] /\ pc' = [pc EXCEPT ![w] = "commit"]
        BY <2>0, <2>6, NAssumption DEF ReadFlush, Goto
      <4>2. Len(flushed'[w]) = at[w] /\ at[w] \in Nat
        BY <2>0, <3>2, <3>3 DEF TypeOK
      <4>3. at'[w] - 1 = at[w] \/ (at[w] = N /\ pc'[w] = "commit")
        BY <2>0, <4>1 DEF TypeOK
      <4>4. Len(flushed'[w]) = IF pc'[w] = "flush" THEN at'[w] - 1 ELSE N
        BY <2>0, <4>1, <4>2, <4>3 DEF TypeOK
      <4>5. pc'[w] \in {"flush", "commit"}
        BY <2>0, <4>1
      <4>6. \A v \in Writer \ {w} : flushed'[v] = flushed[v] /\ at'[v] = at[v] /\ pc'[v] = pc[v]
        BY <2>0, <3>3, <4>1 DEF TypeOK
      <4> QED
        BY <4>4, <4>5, <4>6 DEF FlushLoop
    <3>6. FlushedIsOld'
      <4> SUFFICES ASSUME NEW v \in Writer, NEW s \in 1 .. Len(flushed'[v])
                   PROVE  flushed'[v][s] <= FlushLsn(s)
        BY <3>3 DEF FlushedIsOld, FlushLsn
      <4>1. CASE v # w
        <5>1. flushed'[v] = flushed[v]
          BY <3>3, <4>1 DEF TypeOK
        <5> QED
          BY <5>1 DEF FlushedIsOld
      <4>2. CASE v = w
        <5>1. flushed'[w] = f /\ s \in 1 .. at[w]
          BY <3>2, <3>3, <4>2 DEF TypeOK
        <5>2. CASE s = at[w]
          BY <3>1, <3>2, <4>2, <5>1, <5>2
        <5>3. CASE s # at[w]
          <6>1. s \in 1 .. at[w] - 1
            BY <2>0, <5>1, <5>3
          <6>2. f[s] = flushed[w][s] /\ flushed[w][s] <= FlushLsn(s)
            BY <3>1, <3>2, <6>1 DEF FlushedIsOld
          <6> QED
            BY <4>2, <5>1, <6>2
        <5> QED
          BY <5>2, <5>3
      <4> QED
        BY <4>1, <4>2
    <3>7. TermsBelow'
      BY <2>6 DEF ReadFlush, TermsBelow
    <3> QED
      BY <3>4, <3>5, <3>6, <3>7
  <2>7. CASE Commit(w)
    <3>1. Candidate(flushed[w]) \in Nat
      BY <2>7, FlushedFacts DEF Commit
    <3>2. TypeOK' /\ WalsGrow
      <4>1. pc' \in [Writer -> Label]
        BY <2>0, <2>7 DEF Commit, Goto, Label
      <4>2. commit_lsn' \in Nat
        BY <2>7, <3>1 DEF Commit, TypeOK, GreaterOf
      <4> QED
        BY <2>7, <4>1, <4>2 DEF Commit, TypeOK, WalsGrow
    <3>3. TermsBelow' /\ FlushLoop'
      BY <2>0, <2>7 DEF Commit, Goto, TermsBelow, FlushLoop
    <3> QED
      BY <2>7, <3>2, <3>3, FlushedStaysOld DEF Commit
  <2>8. CASE ReadLastRecord(w) \/ ReadCommit(w)
    <3>1. TypeOK' /\ WalsGrow
      <4>1. pc' \in [Writer -> Label]
        BY <2>0, <2>8 DEF ReadLastRecord, ReadCommit, Goto, Label
      <4>2. after' \in [Writer -> Nat] /\ up_to' \in [Writer -> Nat]
        <5>1. CASE ReadLastRecord(w)
          BY <5>1 DEF ReadLastRecord, TypeOK
        <5>2. CASE ReadCommit(w)
          BY <5>2 DEF ReadCommit, TypeOK
        <5> QED
          BY <2>8, <5>1, <5>2
      <4> QED
        BY <2>8, <4>1, <4>2 DEF ReadLastRecord, ReadCommit, TypeOK, WalsGrow
    <3>2. TermsBelow' /\ FlushLoop'
      BY <2>0, <2>8 DEF ReadLastRecord, ReadCommit, Goto, TermsBelow, FlushLoop
    <3> QED
      BY <2>8, <3>1, <3>2, FlushedStaysOld DEF ReadLastRecord, ReadCommit
  <2>9. CASE Stream(w)
    <3>1. Streamed(wal[at[w]], after[w], up_to[w]) \subseteq Record
      BY DEF TypeOK, Streamed
    <3>2. at' \in [Writer -> Safekeeper]
      BY <2>0, <2>9, NAssumption, SMTT(30) DEF Stream, TypeOK, Safekeeper
    <3>3. pc[w] = "stream" /\ (pc' = pc \/ \E l \in {"ingest", "ok"} : pc' = [pc EXCEPT ![w] = l])
      BY <2>9 DEF Stream, Goto
    <3>4. TypeOK' /\ WalsGrow
      <4>1. received' \in [Writer -> SUBSET Record]
        BY <2>9, <3>1 DEF Stream, TypeOK
      <4> QED
        <5>1. pc' \in [Writer -> Label]
          BY <2>0, <3>3 DEF Label
        <5> QED
          BY <2>9, <3>2, <4>1, <5>1 DEF Stream, TypeOK, WalsGrow
    <3>5. FlushLoop'
      <4>1. \A v \in Writer : /\ pc'[v] = pc[v] \/ (pc[v] = "stream" /\ pc'[v] \in {"ingest", "ok"})
                              /\ v # w => at'[v] = at[v]
        BY <2>0, <2>9, <3>3 DEF Stream, TypeOK
      <4> QED
        BY <2>9, <3>3, <4>1 DEF Stream, FlushLoop
    <3>6. TermsBelow'
      BY <2>9 DEF Stream, TermsBelow
    <3> QED
      BY <2>9, <3>4, <3>5, <3>6, FlushedStaysOld DEF Stream
  <2>10. CASE Ingest(w)
    <3>1. received[w] \subseteq Record /\ LastLsn(received[w]) \in Nat
      BY LastLsnFacts DEF TypeOK
    <3>2. TypeOK' /\ WalsGrow
      <4>1. pc' \in [Writer -> Label]
        BY <2>0, <2>10 DEF Ingest, Goto, Label
      <4>2. deltas' \subseteq Record /\ last_record_lsn' \in Nat
        BY <2>10, <3>1, RecordsStay DEF Ingest, TypeOK, GreaterOf
      <4> QED
        BY <2>10, <4>1, <4>2 DEF Ingest, TypeOK, WalsGrow
    <3>3. TermsBelow' /\ FlushLoop'
      BY <2>0, <2>10 DEF Ingest, Goto, TermsBelow, FlushLoop
    <3> QED
      BY <2>10, <3>2, <3>3, FlushedStaysOld DEF Ingest
  <2> QED
    BY <1>2, <2>1, <2>2, <2>4, <2>5, <2>6, <2>7, <2>8, <2>9, <2>10 DEF WriterStep
<1>3. ASSUME NEW c \in Compactor, Materialize(c) \/ StoreImage(c)
      PROVE  TypeInv' /\ WalsGrow
  <2> USE DEF proposerVars, safekeeperVars, pageVars, appendVars, ingestVars
  <2>1. \A l \in Nat : PageAt(l) \subseteq Record
    BY DEF PageAt, Streamed, TypeOK
  <2>2. TypeOK' /\ WalsGrow
    <3>1. CASE Materialize(c)
      <4>1. PICK l \in 1 .. last_record_lsn : draft' = [draft EXCEPT ![c] = Image(l, PageAt(l))]
        BY <3>1 DEF Materialize
      <4>2. l \in Nat
        BY DEF TypeOK
      <4>3. Image(l, PageAt(l)) \in [lsn : Nat, recs : SUBSET Record]
        BY <2>1, <4>2 DEF Image
      <4> QED
        BY <3>1, <4>1, <4>3 DEF Materialize, TypeOK, WalsGrow
    <3>2. CASE StoreImage(c)
      BY <3>2 DEF StoreImage, DeltasAbove, Image, TypeOK, WalsGrow
    <3> QED
      BY <1>3, <3>1, <3>2
  <2>3. TermsBelow' /\ FlushLoop'
    BY <1>3 DEF Materialize, StoreImage, TermsBelow, FlushLoop
  <2> QED
    BY <1>3, <2>2, <2>3, FlushedStaysOld DEF Materialize, StoreImage
<1>4. ASSUME UNCHANGED vars
      PROVE  TypeInv' /\ WalsGrow
  <2> USE DEF vars, proposerVars, safekeeperVars, pageVars, appendVars, ingestVars
  <2>1. TypeOK' /\ WalsGrow
    BY <1>4 DEF TypeOK, WalsGrow
  <2>2. TermsBelow' /\ FlushLoop'
    BY <1>4 DEF TermsBelow, FlushLoop
  <2> QED
    BY <1>4, <2>1, <2>2, FlushedStaysOld
<1> QED
  BY <1>1, <1>2, <1>3, <1>4 DEF Next

\* Every state of every behaviour has the types of the declarations.
THEOREM TypeCorrect == Spec => []TypeOK
<1>1. Init => TypeInv
  BY TypeInit
<1>2. TypeInv /\ [Next]_vars => TypeInv'
  BY TypeStep
<1>3. TypeInv => TypeOK
  BY DEF TypeInv
<1> QED
  BY <1>1, <1>2, <1>3, PTL DEF Spec
-----------------------------------------------------------------------------
(***************************************************************************)
(* One history.  An acknowledged batch stays in the WALs that acknowledged *)
(* it, and a WAL holds one record per LSN; two quorums share a WAL.        *)
(***************************************************************************)
BatchOwned == \A w \in Writer : \A r \in batch[w] : r.by = w

OneRecordPerLsn == \A s \in Safekeeper : \A r, q \in wal[s] : r.lsn = q.lsn => r = q

AckedHeld == \A w \in Writer : \A s \in acked[w] : batch[w] \subseteq wal[s]

NothingAcked == \A w \in Writer : pc[w] = "idle" => acked[w] = {}

OnQuorum(w) == Cardinality(acked[w]) >= Quorum

DurableOnQuorum == \A w \in Writer : Durable(w) => OnQuorum(w)

HistoryInv == BatchOwned /\ OneRecordPerLsn /\ AckedHeld /\ NothingAcked /\ DurableOnQuorum

\* A step that touches no WAL, batch or acknowledgement only has to count them.
LEMMA HistoryFrame ==
    ASSUME HistoryInv, UNCHANGED <<wal, batch, acked>>,
           \A v \in Writer : /\ Durable(v)' => Durable(v) \/ OnQuorum(v)
                             /\ pc'[v] = "idle" => pc[v] = "idle"
    PROVE  HistoryInv'
BY DEF HistoryInv, BatchOwned, OneRecordPerLsn, AckedHeld, NothingAcked, DurableOnQuorum,
       OnQuorum

\* Where a writer stands after the loop of append: durable only on a quorum.
LEMMA NextSafekeeperCounts ==
    ASSUME TypeOK, NEW w \in Writer, NEW a, NextSafekeeper(w, a)
    PROVE  /\ \A v \in Writer \ {w} : pc'[v] = pc[v]
           /\ pc'[w] \in {"fence", "flush", "error"}
           /\ pc'[w] = "flush" => Cardinality(a) >= Quorum
<1>1. pc \in [Writer -> Label]
  BY DEF TypeOK
<1> QED
  BY <1>1 DEF NextSafekeeper, Goto

\* What a writer's step does to its label when it neither writes nor appends.
LEMMA LabelsMove ==
    ASSUME TypeOK, NEW w \in Writer,
           \/ ReadFlush(w) \/ Commit(w) \/ ReadLastRecord(w) \/ ReadCommit(w)
           \/ Stream(w) \/ Ingest(w)
    PROVE  /\ UNCHANGED <<wal, batch, acked>>
           /\ \A v \in Writer : (Durable(v)' <=> Durable(v)) /\ (pc'[v] = "idle" => pc[v] = "idle")
<1> USE DEF safekeeperVars, appendVars
<1>1. pc \in [Writer -> Label]
  BY DEF TypeOK
<1>2. UNCHANGED <<wal, batch, acked>>
  BY DEF ReadFlush, Commit, ReadLastRecord, ReadCommit, Stream, Ingest
<1>3. /\ pc[w] \in {"flush", "commit", "after", "up_to", "stream", "ingest"}
      /\ \/ pc' = pc
         \/ \E l \in {"commit", "after", "up_to", "stream", "ingest", "ok"} :
                pc' = [pc EXCEPT ![w] = l]
  BY DEF ReadFlush, Commit, ReadLastRecord, ReadCommit, Stream, Ingest, Goto
<1>4. \A v \in Writer :
         \/ pc'[v] = pc[v]
         \/ /\ pc[v] \in {"flush", "commit", "after", "up_to", "stream", "ingest"}
            /\ pc'[v] \in {"commit", "after", "up_to", "stream", "ingest", "ok"}
  BY <1>1, <1>3
<1> QED
  BY <1>2, <1>4 DEF Durable

\* The first state has no history.
LEMMA HistoryInit == Init => HistoryInv
BY DEF Init, HistoryInv, BatchOwned, OneRecordPerLsn, AckedHeld, NothingAcked, DurableOnQuorum,
       Durable

\* One step keeps one history.
LEMMA HistoryStep ==
    ASSUME TypeInv, HistoryInv, [Next]_vars
    PROVE  HistoryInv'
<1> USE DEF proposerVars, safekeeperVars, pageVars, appendVars, ingestVars
<1>0. TypeOK
  BY DEF TypeInv
<1>1. ASSUME UNCHANGED <<wal, batch, acked, pc>> PROVE HistoryInv'
  BY <1>1, HistoryFrame DEF Durable
<1>2. ASSUME Restart PROVE HistoryInv'
  BY <1>1, <1>2 DEF Restart, StartProposer, Greet, StoreTerm
<1>3. ASSUME NEW c \in Compactor, Materialize(c) \/ StoreImage(c) PROVE HistoryInv'
  BY <1>1, <1>3 DEF Materialize, StoreImage
<1>4. ASSUME UNCHANGED vars PROVE HistoryInv'
  BY <1>1, <1>4 DEF vars
<1>5. ASSUME NEW w \in Writer, Write(w) PROVE HistoryInv'
  <2>1. PICK first \in 1 .. MaxLsn, size \in 0 .. MaxBatch :
           batch' = [batch EXCEPT ![w] = Batch(w, first, size)]
    BY <1>5 DEF Write
  <2>2. pc[w] = "idle" /\ pc' = [pc EXCEPT ![w] = "lag"] /\ UNCHANGED <<wal, acked>>
    BY <1>5 DEF Write, Goto
  <2>3. BatchOwned'
    BY <1>0, <2>1, BatchFacts DEF HistoryInv, BatchOwned, TypeOK
  <2>4. AckedHeld'
    BY <1>0, <2>1, <2>2 DEF HistoryInv, AckedHeld, NothingAcked, TypeOK
  <2>5. NothingAcked' /\ DurableOnQuorum'
    BY <1>0, <2>2 DEF HistoryInv, NothingAcked, DurableOnQuorum, Durable, OnQuorum, TypeOK
  <2> QED
    BY <2>2, <2>3, <2>4, <2>5 DEF HistoryInv, OneRecordPerLsn
<1>6. ASSUME NEW w \in Writer, CheckLag(w) PROVE HistoryInv'
  <2>1. \A v \in Writer : pc'[v] = pc[v] \/ pc'[v] \in {"error", "fence"}
    BY <1>0, <1>6 DEF CheckLag, Goto, TypeOK
  <2> QED
    BY <1>6, <2>1, HistoryFrame DEF CheckLag, Durable
<1>7. ASSUME NEW w \in Writer, CheckTerm(w) PROVE HistoryInv'
  <2>1. CASE NextSafekeeper(w, acked[w])
    <3>1. \A v \in Writer : /\ Durable(v)' => Durable(v) \/ OnQuorum(v)
                            /\ pc'[v] = "idle" => pc[v] = "idle"
      BY <1>0, <2>1, NextSafekeeperCounts DEF Durable, OnQuorum
    <3> QED
      BY <1>7, <3>1, HistoryFrame DEF CheckTerm
  <2>2. CASE Goto(w, "insert")
    <3>1. \A v \in Writer : pc'[v] = pc[v] \/ pc'[v] = "insert"
      BY <1>0, <2>2 DEF Goto, TypeOK
    <3> QED
      BY <1>7, <3>1, HistoryFrame DEF CheckTerm, Durable
  <2> QED
    BY <1>7, <2>1, <2>2 DEF CheckTerm
<1>8. ASSUME NEW w \in Writer, Insert(w) PROVE HistoryInv'
  <2> DEFINE s == at[w]
  <2>0. /\ pc[w] = "insert" /\ batch' = batch
        /\ s \in Safekeeper /\ batch[w] \subseteq Record /\ wal[s] \subseteq Record
    BY <1>0, <1>8 DEF Insert, TypeOK
  <2>1. CASE ~Monotonic(batch[w], wal[s])
    <3>1. NextSafekeeper(w, acked[w]) /\ UNCHANGED <<wal, acked>>
      BY <1>8, <2>1 DEF Insert
    <3>2. \A v \in Writer : /\ Durable(v)' => Durable(v) \/ OnQuorum(v)
                            /\ pc'[v] = "idle" => pc[v] = "idle"
      BY <1>0, <3>1, NextSafekeeperCounts DEF Durable, OnQuorum
    <3> QED
      BY <2>0, <3>1, <3>2, HistoryFrame
  <2>2. CASE Monotonic(batch[w], wal[s])
    <3>1. /\ wal' = [wal EXCEPT ![s] = wal[s] \cup batch[w]]
          /\ acked' = [acked EXCEPT ![w] = acked[w] \cup {s}]
          /\ NextSafekeeper(w, acked[w] \cup {s})
      BY <1>8, <2>0, <2>2, InsertedAbove DEF Insert
    <3>2. wal \in [Safekeeper -> SUBSET Record] /\ acked \in [Writer -> SUBSET Safekeeper]
      BY <1>0 DEF TypeOK
    <3>3. OneRecordPerLsn'
      <4>1. \A r \in wal[s], n \in batch[w] : r.lsn < n.lsn /\ r.lsn \in Nat /\ n.lsn \in Nat
        BY <2>0, <2>2, BoundAssumption DEF Monotonic, Record, Lsn
      <4>2. \A n, m \in batch[w] : n.lsn = m.lsn => n = m
        BY <2>0 DEF HistoryInv, BatchOwned, Record
      <4>3. \A r, q \in wal[s] \cup batch[w] : r.lsn = q.lsn => r = q
        BY <2>0, <4>1, <4>2 DEF HistoryInv, OneRecordPerLsn
      <4> QED
        BY <2>0, <3>1, <3>2, <4>3 DEF HistoryInv, OneRecordPerLsn
    <3>4. AckedHeld'
      <4> SUFFICES ASSUME NEW v \in Writer, NEW t \in acked'[v] PROVE batch[v] \subseteq wal'[t]
        BY <2>0 DEF AckedHeld
      <4>1. t \in acked[v] \/ (v = w /\ t = s)
        BY <3>1, <3>2
      <4>2. t \in Safekeeper
        BY <2>0, <3>2, <4>1
      <4>3. wal[t] \subseteq wal'[t] /\ batch[w] \subseteq wal'[s]
        BY <2>0, <3>1, <3>2, <4>2
      <4> QED
        BY <4>1, <4>3 DEF HistoryInv, AckedHeld
    <3>5. NothingAcked' /\ DurableOnQuorum'
      <4>1. \A v \in Writer \ {w} : acked'[v] = acked[v] /\ pc'[v] = pc[v]
        BY <1>0, <3>1, <3>2, NextSafekeeperCounts
      <4>2. /\ acked'[w] = acked[w] \cup {s} /\ pc'[w] \in {"fence", "flush", "error"}
            /\ pc'[w] = "flush" => Cardinality(acked[w] \cup {s}) >= Quorum
        BY <1>0, <3>1, <3>2, NextSafekeeperCounts
      <4> QED
        BY <4>1, <4>2 DEF HistoryInv, NothingAcked, DurableOnQuorum, Durable, OnQuorum
    <3>6. BatchOwned'
      BY <2>0 DEF HistoryInv, BatchOwned
    <3> QED
      BY <3>3, <3>4, <3>5, <3>6 DEF HistoryInv
  <2> QED
    BY <2>1, <2>2
<1>9. ASSUME NEW w \in Writer,
             \/ ReadFlush(w) \/ Commit(w) \/ ReadLastRecord(w) \/ ReadCommit(w)
             \/ Stream(w) \/ Ingest(w)
      PROVE  HistoryInv'
  BY <1>0, <1>9, LabelsMove, HistoryFrame
<1> QED
  BY <1>2, <1>3, <1>4, <1>5, <1>6, <1>7, <1>8, <1>9 DEF Next, WriterStep

\* What the invariant says of two appends.
LEMMA HistoryIsOne == TypeOK /\ HistoryInv => OneHistory
<1> SUFFICES ASSUME TypeOK, HistoryInv, NEW v \in Writer, NEW w \in Writer, v # w,
                    Durable(v), Durable(w), NEW r \in batch[v], NEW q \in batch[w], r.lsn = q.lsn
             PROVE  FALSE
  BY DEF OneHistory, LsnsOf
<1>1. acked[v] \subseteq Safekeeper /\ acked[w] \subseteq Safekeeper
  BY DEF TypeOK
<1>2. PICK s \in Safekeeper : s \in acked[v] /\ s \in acked[w]
  BY <1>1, QuorumsMeet DEF HistoryInv, DurableOnQuorum, OnQuorum
<1>3. r \in wal[s] /\ q \in wal[s]
  BY <1>2 DEF HistoryInv, AckedHeld
<1>4. r = q
  BY <1>3 DEF HistoryInv, OneRecordPerLsn
<1> QED
  BY <1>4 DEF HistoryInv, BatchOwned

\* Two appends that reached a quorum share no LSN, whatever interleaves with them.
THEOREM HistoryIsOneAlways == Spec => []OneHistory
<1>1. Init => TypeInv /\ HistoryInv
  BY TypeInit, HistoryInit
<1>2. TypeInv /\ HistoryInv /\ [Next]_vars => TypeInv' /\ HistoryInv'
  BY TypeStep, HistoryStep
<1>3. TypeInv /\ HistoryInv => OneHistory
  BY HistoryIsOne DEF TypeInv
<1> QED
  BY <1>1, <1>2, <1>3, PTL DEF Spec
-----------------------------------------------------------------------------
(***************************************************************************)
(* The commit LSN.  From below it is what a quorum has flushed; from above *)
(* it covers a batch that a quorum holds, because the flush_lsns of those  *)
(* safekeepers are read after they have acknowledged.                      *)
(***************************************************************************)
FlushedReaches ==
    \A w \in Writer : \A s \in acked[w] :
        s \in 1 .. Len(flushed[w]) => LastLsn(batch[w]) <= flushed[w][s]

Committed(w) == pc[w] \in {"after", "up_to", "stream", "ingest", "ok"}

CommitCovers == \A w \in Writer : Committed(w) => LastLsn(batch[w]) <= commit_lsn

CommitInv == CommitOnQuorum /\ FlushedReaches /\ CommitCovers

\* What a quorum had flushed it still has, when WALs grow.
LEMMA QuorumStays ==
    ASSUME TypeOK, TypeOK', WalsGrow, NEW c \in Nat,
           Cardinality({s \in Safekeeper : FlushLsn(s) >= c}) >= Quorum
    PROVE  Cardinality({s \in Safekeeper : FlushLsn(s)' >= c}) >= Quorum
<1> DEFINE S == {s \in Safekeeper : FlushLsn(s) >= c}
           T == {s \in Safekeeper : FlushLsn(s)' >= c}
<1>1. ASSUME NEW s \in Safekeeper, FlushLsn(s) >= c PROVE FlushLsn(s)' >= c
  <2>1. wal[s] \subseteq wal'[s] /\ wal[s] \subseteq Record /\ wal'[s] \subseteq Record
    BY DEF WalsGrow, TypeOK
  <2>2. /\ LastLsn(wal[s]) <= LastLsn(wal'[s])
        /\ LastLsn(wal[s]) \in Nat /\ LastLsn(wal'[s]) \in Nat
    BY <2>1, LastLsnGrows, LastLsnFacts
  <2> QED
    BY <1>1, <2>2 DEF FlushLsn
<1>2. S \subseteq T /\ T \subseteq Safekeeper
  BY <1>1
<1> HIDE DEF S, T
<1>3. Cardinality(T) >= Quorum
  <2>1. Cardinality(S) >= Quorum
    BY DEF S
  <2> QED
    BY <1>2, <2>1, QuorumGrows
<1> QED
  BY <1>3 DEF T

\* The commit LSN that recompute_commit_lsn finds is flushed on a quorum.
LEMMA CandidateOnQuorum ==
    ASSUME TypeInv, NEW w \in Writer, pc[w] = "commit"
    PROVE  Cardinality({s \in Safekeeper : FlushLsn(s) >= Candidate(flushed[w])}) >= Quorum
<1> DEFINE f == flushed[w]
           c == Candidate(f)
           S == {s \in DOMAIN f : f[s] >= c}
           T == {s \in Safekeeper : FlushLsn(s) >= c}
<1>1. f \in [Safekeeper -> Nat] /\ c \in Nat /\ Cardinality(S) >= Quorum
  BY FlushedFacts DEF HasAtLeast
<1>2. \A s \in Safekeeper : f[s] <= FlushLsn(s) /\ FlushLsn(s) \in Nat
  BY FlushLsnFacts DEF TypeInv, FlushLoop, FlushedIsOld, Safekeeper
<1> HIDE DEF c
<1>3. S \subseteq T /\ T \subseteq Safekeeper
  BY <1>1, <1>2
<1> HIDE DEF S, T
<1>4. Cardinality(T) >= Quorum
  BY <1>1, <1>3, QuorumGrows
<1> QED
  BY <1>4 DEF T, c

\* It is not below the last LSN of a batch that a quorum acknowledged.
LEMMA CandidateCovers ==
    ASSUME TypeInv, HistoryInv, FlushedReaches, NEW w \in Writer, pc[w] = "commit"
    PROVE  LastLsn(batch[w]) <= Candidate(flushed[w])
<1> DEFINE f == flushed[w]
           c == Candidate(f)
           S == {s \in DOMAIN f : f[s] >= c + 1}
<1>1. f \in [Safekeeper -> Nat] /\ c \in Nat /\ Cardinality(S) < Quorum /\ Len(f) = N
  BY FlushedFacts DEF HasAtLeast, TypeInv, FlushLoop
<1>2. LastLsn(batch[w]) \in Nat
  BY LastLsnFacts DEF TypeInv, TypeOK
<1>3. acked[w] \subseteq Safekeeper /\ Cardinality(acked[w]) >= Quorum
  BY DEF TypeInv, TypeOK, HistoryInv, DurableOnQuorum, Durable, OnQuorum
<1>4. \A s \in acked[w] : LastLsn(batch[w]) <= f[s]
  BY <1>1, <1>3 DEF FlushedReaches, Safekeeper
<1> HIDE DEF c, f
<1>5. ASSUME LastLsn(batch[w]) > c PROVE FALSE
  <2>1. acked[w] \subseteq S /\ S \subseteq Safekeeper
    BY <1>1, <1>2, <1>3, <1>4, <1>5
  <2> HIDE DEF S
  <2>2. Cardinality(S) >= Quorum
    BY <1>3, <2>1, QuorumGrows
  <2>3. Cardinality(S) \in Nat /\ Quorum \in Nat
    BY <2>1, QuorumFacts, FS_Subset, FS_CardinalityType
  <2> QED
    BY <1>1, <2>2, <2>3
<1> QED
  BY <1>1, <1>2, <1>5 DEF c, f

\* A step that appends nothing and commits nothing.
LEMMA CommitFrame ==
    ASSUME TypeOK, TypeOK', WalsGrow, CommitInv, UNCHANGED <<commit_lsn, batch>>,
           \A v \in Writer : Committed(v)' => Committed(v),
           FlushedReaches'
    PROVE  CommitInv'
<1>1. CommitOnQuorum'
  BY QuorumStays DEF CommitInv, CommitOnQuorum, TypeOK
<1>2. CommitCovers'
  BY DEF CommitInv, CommitCovers
<1> QED
  BY <1>1, <1>2 DEF CommitInv

\* Nothing is committed at first.
LEMMA CommitInit == Init => CommitInv
<1> SUFFICES ASSUME Init PROVE CommitInv
  OBVIOUS
<1>1. \A s \in Safekeeper : FlushLsn(s) = 0
  BY DEF Init, FlushLsn, LastLsn
<1>2. {s \in Safekeeper : FlushLsn(s) >= commit_lsn} = Safekeeper
  BY <1>1 DEF Init
<1>3. CommitOnQuorum
  BY <1>2, QuorumFacts DEF CommitOnQuorum
<1>4. FlushedReaches /\ CommitCovers
  BY DEF Init, FlushedReaches, CommitCovers, Committed
<1> QED
  BY <1>3, <1>4 DEF CommitInv

\* One step keeps the commit LSN between the two.
LEMMA CommitStep ==
    ASSUME TypeInv, HistoryInv, CommitInv, [Next]_vars
    PROVE  CommitInv'
<1> USE DEF proposerVars, safekeeperVars, pageVars, appendVars, ingestVars
<1>0. TypeOK /\ TypeOK' /\ WalsGrow /\ FlushedReaches
  BY TypeStep DEF TypeInv, CommitInv
<1>1. ASSUME UNCHANGED <<commit_lsn, batch, acked, flushed, pc>> PROVE CommitInv'
  BY <1>0, <1>1, CommitFrame DEF Committed, FlushedReaches
<1>2. ASSUME Restart PROVE CommitInv'
  BY <1>1, <1>2 DEF Restart, StartProposer, Greet, StoreTerm
<1>3. ASSUME NEW c \in Compactor, Materialize(c) \/ StoreImage(c) PROVE CommitInv'
  BY <1>1, <1>3 DEF Materialize, StoreImage
<1>4. ASSUME UNCHANGED vars PROVE CommitInv'
  BY <1>1, <1>4 DEF vars
<1>5. ASSUME NEW w \in Writer, Write(w) PROVE CommitInv'
  <2>1. /\ pc[w] = "idle" /\ pc' = [pc EXCEPT ![w] = "lag"]
        /\ UNCHANGED <<wal, acked, flushed, commit_lsn>>
        /\ \A v \in Writer \ {w} : batch'[v] = batch[v]
    BY <1>0, <1>5 DEF Write, Goto, TypeOK
  <2>2. Len(flushed[w]) = 0
    BY <2>1 DEF TypeInv, FlushLoop
  <2>3. FlushedReaches'
    <3> SUFFICES ASSUME NEW v \in Writer, NEW s \in acked[v], s \in 1 .. Len(flushed[v])
                 PROVE  LastLsn(batch'[v]) <= flushed[v][s]
      BY <2>1 DEF FlushedReaches
    <3>1. v # w
      BY <2>2
    <3> QED
      BY <1>0, <2>1, <3>1 DEF FlushedReaches
  <2>4. CommitCovers'
    <3> SUFFICES ASSUME NEW v \in Writer, Committed(v)' PROVE LastLsn(batch'[v]) <= commit_lsn'
      BY DEF CommitCovers
    <3>1. v # w /\ pc'[v] = pc[v]
      BY <1>0, <2>1 DEF Committed, TypeOK
    <3> QED
      BY <2>1, <3>1 DEF CommitInv, CommitCovers, Committed
  <2>5. CommitOnQuorum'
    BY <2>1 DEF CommitInv, CommitOnQuorum, FlushLsn
  <2> QED
    BY <2>3, <2>4, <2>5 DEF CommitInv
<1>6. ASSUME NEW w \in Writer, CheckLag(w) \/ CheckTerm(w) PROVE CommitInv'
  <2>1. UNCHANGED <<commit_lsn, batch, acked, flushed>>
    BY <1>6 DEF CheckLag, CheckTerm
  <2>2. \A v \in Writer : pc'[v] = pc[v] \/ pc'[v] \in {"error", "fence", "insert", "flush"}
    BY <1>0, <1>6, NextSafekeeperCounts DEF CheckLag, CheckTerm, Goto, TypeOK
  <2>3. FlushedReaches'
    BY <1>0, <2>1 DEF FlushedReaches
  <2> QED
    BY <1>0, <2>1, <2>2, <2>3, CommitFrame DEF Committed
<1>7. ASSUME NEW w \in Writer, Insert(w) PROVE CommitInv'
  <2>1. /\ UNCHANGED <<commit_lsn, batch, flushed>> /\ pc[w] = "insert"
        /\ \A v \in Writer \ {w} : acked'[v] = acked[v]
    BY <1>0, <1>7 DEF Insert, TypeOK
  <2>2. \A v \in Writer : pc'[v] = pc[v] \/ pc'[v] \in {"error", "fence", "flush"}
    <3>1. NextSafekeeper(w, acked[w]) \/ NextSafekeeper(w, acked[w] \cup {at[w]})
      BY <1>7 DEF Insert
    <3> QED
      BY <1>0, <3>1, NextSafekeeperCounts
  <2>3. Len(flushed[w]) = 0
    BY <2>1 DEF TypeInv, FlushLoop
  <2>4. FlushedReaches'
    BY <1>0, <2>1, <2>3 DEF FlushedReaches
  <2> QED
    BY <1>0, <2>1, <2>2, <2>4, CommitFrame DEF Committed
<1>8. ASSUME NEW w \in Writer, ReadFlush(w) PROVE CommitInv'
  <2>1. /\ UNCHANGED <<commit_lsn, batch, acked, wal>>
        /\ flushed' = [flushed EXCEPT ![w] = Append(flushed[w], FlushLsn(at[w]))]
    BY <1>8 DEF ReadFlush
  <2>2. \A v \in Writer : pc'[v] = pc[v] \/ pc'[v] = "commit"
    BY <1>0, <1>8 DEF ReadFlush, Goto, TypeOK
  <2>3. /\ flushed[w] \in Seq(Nat) /\ Len(flushed[w]) = at[w] - 1 /\ at[w] \in Safekeeper
        /\ FlushLsn(at[w]) \in Nat
    BY <1>0, <1>8, FlushLsnFacts DEF ReadFlush, TypeInv, FlushLoop, TypeOK
  <2>4. /\ Len(flushed'[w]) = at[w] /\ flushed'[w][at[w]] = FlushLsn(at[w])
        /\ \A s \in 1 .. at[w] - 1 : flushed'[w][s] = flushed[w][s]
    <3> DEFINE f == Append(flushed[w], FlushLsn(at[w]))
    <3>1. /\ Len(f) = at[w] /\ f[at[w]] = FlushLsn(at[w])
          /\ \A s \in 1 .. at[w] - 1 : f[s] = flushed[w][s]
      BY <2>3, AppendProperties DEF Safekeeper
    <3>2. flushed'[w] = f
      BY <1>0, <2>1 DEF TypeOK
    <3> HIDE DEF f
    <3> QED
      BY <3>1, <3>2
  <2>5. FlushedReaches'
    <3> SUFFICES ASSUME NEW v \in Writer, NEW s \in acked[v], s \in 1 .. Len(flushed'[v])
                 PROVE  LastLsn(batch[v]) <= flushed'[v][s]
      BY <2>1 DEF FlushedReaches
    <3>1. CASE v # w
      <4>1. flushed'[v] = flushed[v]
        BY <1>0, <2>1, <3>1 DEF TypeOK
      <4> QED
        BY <1>0, <4>1 DEF FlushedReaches
    <3>2. CASE v = w /\ s = at[w]
      <4>1. batch[w] \subseteq wal[s] /\ wal[s] \subseteq Record
        BY <1>0, <2>3, <3>2 DEF HistoryInv, AckedHeld, TypeOK
      <4> QED
        BY <2>4, <3>2, <4>1, LastLsnGrows DEF FlushLsn
    <3>3. CASE v = w /\ s # at[w]
      <4>1. s \in 1 .. at[w] - 1
        BY <2>3, <2>4, <3>3 DEF Safekeeper
      <4> QED
        BY <1>0, <2>3, <2>4, <3>3, <4>1 DEF FlushedReaches
    <3> QED
      BY <3>1, <3>2, <3>3
  <2> QED
    BY <1>0, <2>1, <2>2, <2>5, CommitFrame DEF Committed
<1>9. ASSUME NEW w \in Writer, Commit(w) PROVE CommitInv'
  <2> DEFINE c == Candidate(flushed[w])
  <2>1. /\ pc[w] = "commit" /\ pc' = [pc EXCEPT ![w] = "after"]
        /\ UNCHANGED <<wal, batch, acked, flushed>>
        /\ commit_lsn' = GreaterOf(c, commit_lsn)
    BY <1>9 DEF Commit, Goto
  <2>2. c \in Nat /\ commit_lsn \in Nat /\ \A v \in Writer : LastLsn(batch[v]) \in Nat
    BY <1>0, <2>1, FlushedFacts, LastLsnFacts DEF TypeOK
  <2>3. CommitOnQuorum'
    <3>1. commit_lsn' = c \/ commit_lsn' = commit_lsn
      BY <2>1 DEF GreaterOf
    <3>2. Cardinality({s \in Safekeeper : FlushLsn(s) >= c}) >= Quorum
      BY <2>1, CandidateOnQuorum
    <3> HIDE DEF c
    <3> QED
      BY <2>1, <3>1, <3>2 DEF CommitInv, CommitOnQuorum, FlushLsn
  <2>4. CommitCovers'
    <3>1. LastLsn(batch[w]) <= c
      BY <1>0, <2>1, CandidateCovers
    <3> HIDE DEF c
    <3>2. c <= commit_lsn' /\ commit_lsn <= commit_lsn' /\ commit_lsn' \in Nat
      BY <2>1, <2>2 DEF GreaterOf
    <3>3. \A v \in Writer \ {w} : Committed(v)' => Committed(v)
      BY <1>0, <2>1 DEF Committed, TypeOK
    <3> QED
      BY <2>1, <2>2, <3>1, <3>2, <3>3 DEF CommitInv, CommitCovers
  <2>5. FlushedReaches'
    BY <1>0, <2>1 DEF FlushedReaches
  <2> QED
    BY <2>3, <2>4, <2>5 DEF CommitInv
<1>10. ASSUME NEW w \in Writer, ReadLastRecord(w) \/ ReadCommit(w) \/ Stream(w) \/ Ingest(w)
       PROVE  CommitInv'
  <2>1. UNCHANGED <<commit_lsn, batch, acked, flushed>>
    BY <1>10 DEF ReadLastRecord, ReadCommit, Stream, Ingest
  <2>2. \A v \in Writer : Committed(v)' => Committed(v)
    <3>1. /\ pc[w] \in {"after", "up_to", "stream", "ingest"}
          /\ \A v \in Writer \ {w} : pc'[v] = pc[v]
      BY <1>0, <1>10 DEF ReadLastRecord, ReadCommit, Stream, Ingest, Goto, TypeOK
    <3> QED
      BY <3>1 DEF Committed
  <2>3. FlushedReaches'
    BY <1>0, <2>1 DEF FlushedReaches
  <2> QED
    BY <1>0, <2>1, <2>2, <2>3, CommitFrame
<1> QED
  BY <1>2, <1>3, <1>4, <1>5, <1>6, <1>7, <1>8, <1>9, <1>10 DEF Next, WriterStep

\* Types, histories and commits hold together in every state.
LEMMA CommitInvariant == Spec => [](TypeInv /\ HistoryInv /\ CommitInv)
<1>1. Init => TypeInv /\ HistoryInv /\ CommitInv
  BY TypeInit, HistoryInit, CommitInit
<1>2. TypeInv /\ HistoryInv /\ CommitInv /\ [Next]_vars
         => TypeInv' /\ HistoryInv' /\ CommitInv'
  BY TypeStep, HistoryStep, CommitStep
<1> QED BY <1>1, <1>2, PTL DEF Spec

\* The commit LSN is always flushed on a quorum of the safekeepers.
THEOREM CommitIsOnQuorum == Spec => []CommitOnQuorum
<1>1. CommitInv => CommitOnQuorum
  BY DEF CommitInv, CommitCovers, Committed
<1> QED BY <1>1, CommitInvariant, PTL

\* A write is answered with success only when the commit LSN has passed its last record.
THEOREM AnswersAreCommitted == Spec => []AnswerCoversBatch
<1>1. CommitInv => AnswerCoversBatch
  BY DEF CommitInv, CommitCovers, Committed, AnswerCoversBatch
<1> QED BY <1>1, CommitInvariant, PTL

-----------------------------------------------------------------------------
(***************************************************************************)
(* Pages.  What follows holds while the safekeepers are in step, and once  *)
(* out of step they never get back into it.                                *)
(***************************************************************************)

\* Every record that any safekeeper holds.
Everything == UNION {wal[s] : s \in Safekeeper}

Replay(l) == Streamed(Everything, 0, l)

\* Some safekeeper has flushed up to l: records still to come are above l.
Reached(l) == \E s \in Safekeeper : l <= FlushLsn(s)

\* Whatever lies above the image layer and at most at l has been ingested.
Complete(l) == Reached(l) /\ \A r \in Everything : image.lsn < r.lsn /\ r.lsn <= l => r \in deltas

LayersReplay ==
    /\ deltas \subseteq Everything
    /\ Complete(last_record_lsn)
    /\ Reached(image.lsn) /\ image.recs = Replay(image.lsn)

\* A draft is the replay up to its LSN, at or above the image layer it was made from.
DraftsReplay ==
    \A c \in Compactor : draft[c].lsn # 0 =>
        /\ Reached(draft[c].lsn) /\ draft[c].recs = Replay(draft[c].lsn)
        /\ image.lsn <= draft[c].lsn

\* An ingest may be late, but it misses nothing from the LSN it read on.
IngestsReplay ==
    \A w \in Writer :
        /\ pc[w] \in {"up_to", "stream", "ingest"} => Complete(after[w])
        /\ pc[w] = "ingest" =>
             /\ FlushLsn(at[w]) >= up_to[w]
             /\ received[w] = Streamed(Everything, after[w], up_to[w])

PageInv == InStep => LayersReplay /\ DraftsReplay /\ IngestsReplay

\* accept lets in only records above what is flushed.
NewAbove == \A s \in Safekeeper : \A r \in wal'[s] \ wal[s] : FlushLsn(s) < r.lsn

\* The WALs of a step: they grow, at their end.
LEMMA WalsStep ==
    ASSUME TypeInv, [Next]_vars
    PROVE  WalsGrow /\ NewAbove
<1>1. WalsGrow
  BY TypeStep
<1>2. ASSUME UNCHANGED wal PROVE NewAbove
  BY <1>2 DEF NewAbove
<1>3. ASSUME NEW w \in Writer, Insert(w) PROVE NewAbove
  <2>1. CASE UNCHANGED wal
    BY <1>2, <2>1
  <2>2. CASE /\ Monotonic(batch[w], wal[at[w]])
             /\ wal' = [wal EXCEPT ![at[w]] = Inserted(@, batch[w])]
    <3>1. /\ at[w] \in Safekeeper /\ wal \in [Safekeeper -> SUBSET Record]
          /\ batch[w] \subseteq Record
      BY DEF TypeInv, TypeOK
    <3>2. ASSUME NEW s \in Safekeeper, NEW r \in wal'[s] \ wal[s] PROVE FlushLsn(s) < r.lsn
      <4>1. s = at[w] /\ r \in batch[w] /\ r \in Record
        BY <2>2, <3>1, <3>2 DEF Inserted
      <4>2. \A q \in wal[s] : q.lsn < r.lsn
        BY <2>2, <4>1 DEF Monotonic
      <4>3. /\ LastLsn(wal[s]) \in Nat
            /\ LastLsn(wal[s]) # 0 => \E q \in wal[s] : q.lsn = LastLsn(wal[s])
        BY <3>1, LastLsnFacts
      <4>4. r.lsn \in Nat /\ r.lsn > 0
        BY <4>1, BoundAssumption DEF Record, Lsn
      <4> QED
        BY <4>2, <4>3, <4>4 DEF FlushLsn
    <3> QED
      BY <3>2 DEF NewAbove
  <2> QED
    BY <1>3, <2>1, <2>2 DEF Insert
<1>4. UNCHANGED wal \/ \E w \in Writer : Insert(w)
  BY DEF Next, Restart, StartProposer, Greet, StoreTerm, WriterStep, Write, CheckLag, CheckTerm,
         ReadFlush, Commit, ReadLastRecord, ReadCommit, Stream, Ingest, Materialize, StoreImage,
         vars, safekeeperVars
<1> QED
  BY <1>1, <1>2, <1>3, <1>4

\* Flush_lsns grow with the WALs.
LEMMA FlushGrows ==
    ASSUME TypeOK, TypeOK', WalsGrow, NEW s \in Safekeeper
    PROVE  /\ FlushLsn(s) \in Nat /\ FlushLsn(s)' \in Nat /\ FlushLsn(s) <= FlushLsn(s)'
           /\ \A r \in wal[s] : r.lsn \in Nat \ {0} /\ r.lsn <= FlushLsn(s)
<1>1. wal[s] \subseteq Record /\ wal'[s] \subseteq Record /\ wal[s] \subseteq wal'[s]
  BY DEF TypeOK, WalsGrow
<1>2. LastLsn(wal[s]) <= LastLsn(wal'[s])
  BY <1>1, LastLsnGrows
<1>3. LastLsn(wal[s]) \in Nat /\ LastLsn(wal'[s]) \in Nat /\ \A r \in wal[s] : r.lsn <= LastLsn(wal[s])
  BY <1>1, LastLsnFacts
<1>4. \A r \in wal[s] : r.lsn \in Nat \ {0}
  BY <1>1, BoundAssumption DEF Record, Lsn
<1> QED
  BY <1>2, <1>3, <1>4 DEF FlushLsn

\* A safekeeper that lacks a record below its flush_lsn lacks it for good.
LEMMA InStepBefore ==
    ASSUME TypeOK, TypeOK', WalsGrow, NewAbove, InStep'
    PROVE  InStep
<1> SUFFICES ASSUME NEW s \in Safekeeper, NEW t \in Safekeeper, NEW r \in wal[s],
                    r.lsn <= FlushLsn(t)
             PROVE  r \in wal[t]
  BY DEF InStep
<1>1. r \in wal'[s] /\ r.lsn \in Nat
  BY FlushGrows DEF WalsGrow
<1>2. r.lsn <= FlushLsn(t)' /\ FlushLsn(t) \in Nat
  BY <1>1, FlushGrows
<1>3. r \in wal'[t]
  BY <1>1, <1>2 DEF InStep
<1>4. ~(FlushLsn(t) < r.lsn)
  BY <1>1, <1>2
<1> QED
  BY <1>3, <1>4 DEF NewAbove

\* While the safekeepers stay in step, a record new to all of them is above all that is flushed.
LEMMA NewIsAbove ==
    ASSUME TypeOK, TypeOK', WalsGrow, NewAbove, InStep', NEW l \in Nat, Reached(l),
           NEW r \in Everything', r \notin Everything
    PROVE  l < r.lsn
<1>1. PICK s \in Safekeeper : r \in wal'[s]
  BY DEF Everything
<1>2. PICK t \in Safekeeper : l <= FlushLsn(t)
  BY DEF Reached
<1>3. r \notin wal[s] /\ r \notin wal[t]
  BY DEF Everything
<1>4. r.lsn \in Nat /\ FlushLsn(t) \in Nat /\ FlushLsn(t)' \in Nat /\ FlushLsn(t) <= FlushLsn(t)'
  <2>1. r \in Record
    BY <1>1 DEF TypeOK
  <2> QED
    BY <2>1, FlushGrows, BoundAssumption DEF Record, Lsn
<1>5. FlushLsn(t) < r.lsn
  <2>1. CASE r \in wal'[t]
    BY <1>3, <2>1 DEF NewAbove
  <2>2. CASE r \notin wal'[t]
    <3>1. ~(r.lsn <= FlushLsn(t)')
      BY <1>1, <2>2 DEF InStep
    <3> QED
      BY <1>4, <3>1
  <2> QED
    BY <2>1, <2>2
<1> QED
  BY <1>2, <1>4, <1>5

\* So the replay up to an LSN that was reached is settled, and so is what has been ingested of it.
LEMMA ReplayStays ==
    ASSUME TypeOK, TypeOK', WalsGrow, NewAbove, InStep', NEW l \in Nat, Reached(l)
    PROVE  /\ Reached(l)'
           /\ Everything \subseteq Everything'
           /\ \A r \in Everything' : r.lsn <= l => r \in Everything
           /\ \A low : Streamed(Everything, low, l)' = Streamed(Everything, low, l)
<1>1. Reached(l)'
  <2>1. PICK t \in Safekeeper : l <= FlushLsn(t)
    BY DEF Reached
  <2>2. l <= FlushLsn(t)'
    BY <2>1, FlushGrows
  <2> QED
    BY <2>2 DEF Reached
<1>2. Everything \subseteq Everything'
  BY DEF Everything, WalsGrow
<1>3. ASSUME NEW r \in Everything', r.lsn <= l PROVE r \in Everything
  <2>1. r.lsn \in Nat
    BY BoundAssumption DEF Everything, TypeOK, Record, Lsn
  <2>2. ~(l < r.lsn)
    BY <1>3, <2>1
  <2> QED
    BY <2>2, NewIsAbove
<1>4. ASSUME NEW low PROVE Streamed(Everything', low, l) = Streamed(Everything, low, l)
  BY <1>2, <1>3 DEF Streamed
<1>5. \A low : Streamed(Everything, low, l)' = Streamed(Everything, low, l)
  BY <1>4 DEF Streamed
<1> QED
  BY <1>1, <1>2, <1>3, <1>5

\* What is complete stays so while the image layer moves up and keeps the deltas above it.
LEMMA CompleteStays ==
    ASSUME TypeOK, TypeOK', WalsGrow, NewAbove, InStep', image.lsn <= image'.lsn,
           \A r \in deltas : image'.lsn < r.lsn => r \in deltas',
           NEW l \in Nat, Complete(l)
    PROVE  Complete(l)'
<1>1. Reached(l)
  BY DEF Complete
<1>2. Reached(l)' /\ \A r \in Everything' : r.lsn <= l => r \in Everything
  BY <1>1, ReplayStays
<1>3. ASSUME NEW r \in Everything', image'.lsn < r.lsn, r.lsn <= l PROVE r \in deltas'
  <2>1. r \in Everything
    BY <1>2, <1>3
  <2>2. r.lsn \in Nat /\ image.lsn \in Nat /\ image'.lsn \in Nat
    BY BoundAssumption DEF Everything, TypeOK, Record, Lsn
  <2>3. image.lsn < r.lsn
    BY <1>3, <2>2
  <2>4. r \in deltas
    BY <1>3, <2>1, <2>3 DEF Complete
  <2> QED
    BY <1>3, <2>4
<1> QED
  BY <1>2, <1>3 DEF Complete

\* A step that leaves layers and drafts alone, and every ingest where it was or done.
LEMMA PagesStand ==
    ASSUME TypeOK, TypeOK', WalsGrow, NewAbove, PageInv, UNCHANGED <<pageVars, draft>>,
           \A w \in Writer :
             /\ pc'[w] \in {"up_to", "stream", "ingest"} =>
                  /\ after'[w] \in Nat
                  /\ Complete(after'[w])
             /\ pc'[w] = "ingest" =>
                  /\ FlushLsn(at'[w]) >= up_to'[w]
                  /\ received'[w] = Streamed(Everything, after'[w], up_to'[w])
    PROVE  PageInv'
<1> SUFFICES ASSUME InStep' PROVE LayersReplay' /\ DraftsReplay' /\ IngestsReplay'
  BY DEF PageInv
<1>1. LayersReplay /\ DraftsReplay
  BY InStepBefore DEF PageInv
<1>2. /\ UNCHANGED <<last_record_lsn, image, deltas, draft>>
      /\ last_record_lsn \in Nat /\ image.lsn \in Nat
      /\ \A c \in Compactor : draft[c].lsn \in Nat
  BY DEF pageVars, TypeOK
<1>3. ASSUME NEW l \in Nat, Complete(l) PROVE Complete(l)'
  BY <1>2, <1>3, CompleteStays
<1>4. ASSUME NEW l \in Nat, Reached(l)
      PROVE  Reached(l)' /\ Everything \subseteq Everything' /\ Replay(l)' = Replay(l)
  BY <1>4, ReplayStays DEF Replay
<1>5. LayersReplay'
  <2>1. Complete(last_record_lsn)'
    BY <1>1, <1>2, <1>3 DEF LayersReplay
  <2>2. /\ Reached(image.lsn)' /\ Replay(image.lsn)' = Replay(image.lsn)
        /\ Everything \subseteq Everything'
    <3>1. Reached(image.lsn)
      BY <1>1 DEF LayersReplay
    <3>2. PICK i \in Nat : i = image.lsn
      BY <1>2
    <3>3. Reached(i)' /\ Everything \subseteq Everything' /\ Replay(i)' = Replay(i)
      BY <1>4, <3>1, <3>2
    <3> QED
      BY <1>2, <3>2, <3>3 DEF Reached, Replay, Streamed
  <2> QED
    BY <1>1, <1>2, <2>1, <2>2 DEF LayersReplay
<1>6. DraftsReplay'
  <2> SUFFICES ASSUME NEW c \in Compactor, draft[c].lsn # 0
               PROVE  /\ Reached(draft[c].lsn)' /\ draft[c].recs = Replay(draft[c].lsn)'
                      /\ image.lsn <= draft[c].lsn
    BY <1>2 DEF DraftsReplay
  <2>1. /\ Reached(draft[c].lsn) /\ draft[c].recs = Replay(draft[c].lsn)
        /\ image.lsn <= draft[c].lsn
    BY <1>1 DEF DraftsReplay
  <2>2. PICK i \in Nat : i = draft[c].lsn
    BY <1>2
  <2>3. Reached(i)' /\ Replay(i)' = Replay(i)
    BY <1>4, <2>1, <2>2
  <2> QED
    BY <1>2, <2>1, <2>2, <2>3 DEF Reached, Replay, Streamed
<1>7. IngestsReplay'
  <2> SUFFICES ASSUME NEW w \in Writer
               PROVE  /\ pc'[w] \in {"up_to", "stream", "ingest"} => Complete(after[w])'
                      /\ pc'[w] = "ingest" =>
                           /\ FlushLsn(at[w])' >= up_to'[w]
                           /\ received'[w] = Streamed(Everything, after[w], up_to[w])'
    BY DEF IngestsReplay
  <2>1. ASSUME pc'[w] \in {"up_to", "stream", "ingest"} PROVE Complete(after[w])'
    <3>1. PICK i \in Nat : i = after'[w]
      BY <2>1
    <3>2. Complete(i)'
      BY <1>3, <2>1, <3>1
    <3> QED
      BY <3>1, <3>2 DEF Complete, Reached
  <2>2. ASSUME pc'[w] = "ingest"
        PROVE  /\ FlushLsn(at[w])' >= up_to'[w]
               /\ received'[w] = Streamed(Everything, after[w], up_to[w])'
    <3>1. PICK u \in Nat, s \in Safekeeper, low \in Nat : u = up_to'[w] /\ s = at'[w] /\ low = after'[w]
      BY DEF TypeOK
    <3>2. u <= FlushLsn(s) /\ Reached(u)
      <4>1. FlushLsn(s) \in Nat
        BY FlushGrows
      <4>2. FlushLsn(s) >= u
        BY <2>2, <3>1
      <4> QED
        BY <4>1, <4>2 DEF Reached
    <3>3. FlushLsn(s)' >= u
      BY <3>2, FlushGrows
    <3>4. Streamed(Everything, low, u)' = Streamed(Everything, low, u)
      BY <3>2, ReplayStays
    <3>5. received'[w] = Streamed(Everything, low, u)
      BY <2>2, <3>1
    <3> QED
      BY <3>1, <3>3, <3>4, <3>5 DEF FlushLsn, Streamed
  <2> QED
    BY <2>1, <2>2
<1> QED
  BY <1>5, <1>6, <1>7

\* A step that reads and answers for nobody in the middle of an ingest.
LEMMA IngestsStand ==
    ASSUME TypeOK, TypeOK', WalsGrow, NewAbove, PageInv, UNCHANGED <<pageVars, draft>>,
           \A w \in Writer : pc'[w] \in {"up_to", "stream", "ingest"} =>
               /\ pc[w] \in {"up_to", "stream", "ingest"} /\ after'[w] = after[w]
               /\ pc'[w] = "ingest" => /\ pc[w] = "ingest" /\ at'[w] = at[w]
                                       /\ up_to'[w] = up_to[w] /\ received'[w] = received[w]
    PROVE  PageInv'
<1> SUFFICES ASSUME InStep' PROVE PageInv'
  BY DEF PageInv
<1>1. IngestsReplay
  BY InStepBefore DEF PageInv
<1>2. ASSUME NEW w \in Writer
      PROVE  /\ pc'[w] \in {"up_to", "stream", "ingest"} =>
                  after'[w] \in Nat /\ Complete(after'[w])
             /\ pc'[w] = "ingest" =>
                  /\ FlushLsn(at'[w]) >= up_to'[w]
                  /\ received'[w] = Streamed(Everything, after'[w], up_to'[w])
  <2>1. after'[w] \in Nat
    BY DEF TypeOK
  <2>2. pc'[w] \in {"up_to", "stream", "ingest"} => Complete(after'[w])
    BY <1>1 DEF IngestsReplay
  <2>3. pc'[w] = "ingest" =>
          /\ FlushLsn(at'[w]) >= up_to'[w]
          /\ received'[w] = Streamed(Everything, after'[w], up_to'[w])
    BY <1>1 DEF IngestsReplay
  <2> QED
    BY <2>1, <2>2, <2>3
<1> QED
  BY <1>2, PagesStand

\* WALs that are in step hold one record per LSN between them.
LEMMA EverythingIsOne ==
    ASSUME TypeInv, HistoryInv, InStep
    PROVE  \A r, q \in Everything : r.lsn = q.lsn => r = q
<1> SUFFICES ASSUME NEW s \in Safekeeper, NEW t \in Safekeeper, NEW r \in wal[s], NEW q \in wal[t],
                    r.lsn = q.lsn
             PROVE  r = q
  BY DEF Everything
<1>1. wal[t] \subseteq Record
  BY DEF TypeInv, TypeOK
<1>2. q.lsn <= FlushLsn(t)
  BY <1>1, LastLsnFacts DEF FlushLsn
<1>3. r \in wal[t]
  BY <1>2 DEF InStep
<1> QED
  BY <1>3 DEF HistoryInv, OneRecordPerLsn

\* So whatever is ingested again replaces itself.
LEMMA IngestedIsAdded ==
    ASSUME NEW S, NEW new, \A r, q \in S \cup new : r.lsn = q.lsn => r = q
    PROVE  Inserted(S, new) = S \cup new
BY DEF Inserted, LsnsOf

\* A late ingest: what it sets last_record_lsn to may be lower than before, but
\* everything up to there is ingested.
LEMMA IngestPages ==
    ASSUME TypeInv, TypeInv', HistoryInv, PageInv, NEW w \in Writer, Ingest(w)
    PROVE  PageInv'
<1> SUFFICES ASSUME InStep' PROVE LayersReplay' /\ DraftsReplay' /\ IngestsReplay'
  BY DEF PageInv
<1>1. /\ pc[w] = "ingest" /\ pc' = [pc EXCEPT ![w] = "ok"]
      /\ deltas' = Inserted(deltas, received[w])
      /\ last_record_lsn' = GreaterOf(after[w], LastLsn(received[w]))
      /\ UNCHANGED <<wal, image, draft, at, after, up_to, received>>
  BY DEF Ingest, Goto, safekeeperVars, appendVars, ingestVars
<1>2. /\ InStep /\ Everything' = Everything
      /\ \A s \in Safekeeper : FlushLsn(s)' = FlushLsn(s)
  BY <1>1 DEF InStep, FlushLsn, Everything
<1>3. LayersReplay /\ DraftsReplay /\ IngestsReplay
  BY <1>2 DEF PageInv
<1>4. /\ at[w] \in Safekeeper /\ after[w] \in Nat /\ up_to[w] \in Nat /\ image.lsn \in Nat
      /\ received[w] \subseteq Record /\ FlushLsn(at[w]) \in Nat
      /\ pc \in [Writer -> Label] /\ LastLsn(received[w]) \in Nat
  BY FlushLsnFacts, LastLsnFacts DEF TypeInv, TypeOK
<1>5. /\ Complete(after[w]) /\ FlushLsn(at[w]) >= up_to[w]
      /\ received[w] = Streamed(Everything, after[w], up_to[w])
  BY <1>1, <1>3 DEF IngestsReplay
<1>6. deltas' = deltas \cup received[w] /\ deltas' \subseteq Everything
  <2>1. received[w] \subseteq Everything /\ deltas \subseteq Everything
    BY <1>3, <1>5 DEF Streamed, LayersReplay
  <2>2. \A r, q \in deltas \cup received[w] : r.lsn = q.lsn => r = q
    BY <1>2, <2>1, EverythingIsOne
  <2> QED
    BY <1>1, <2>1, <2>2, IngestedIsAdded
<1>7. ASSUME NEW l \in Nat, Complete(l) PROVE Complete(l)'
  BY <1>1, <1>2, <1>6, <1>7 DEF Complete, Reached
<1>8. PICK u \in Nat : u = last_record_lsn'
  BY DEF TypeInv, TypeOK
<1>9. Complete(u)'
  <2>1. CASE LastLsn(received[w]) <= after[w]
    <3>1. u = after[w]
      BY <1>1, <1>4, <1>8, <2>1 DEF GreaterOf
    <3> QED
      BY <1>5, <1>7, <3>1
  <2>2. CASE ~(LastLsn(received[w]) <= after[w])
    <3>1. u = LastLsn(received[w]) /\ after[w] < u
      BY <1>1, <1>4, <1>8, <2>2 DEF GreaterOf
    <3>2. PICK q \in received[w] : q.lsn = u
      BY <1>4, <3>1, LastLsnFacts
    <3>3. u <= up_to[w] /\ u <= FlushLsn(at[w])
      BY <1>4, <1>5, <3>2 DEF Streamed
    <3>4. ASSUME NEW r \in Everything, image.lsn < r.lsn, r.lsn <= u PROVE r \in deltas'
      <4>1. r.lsn \in Nat
        <5>1. r \in Record
          BY DEF Everything, TypeInv, TypeOK
        <5> QED
          BY <5>1, BoundAssumption DEF Record, Lsn
      <4>2. CASE r.lsn <= after[w]
        BY <1>5, <1>6, <3>4, <4>2 DEF Complete
      <4>3. CASE ~(r.lsn <= after[w])
        <5>1. after[w] < r.lsn /\ r.lsn <= up_to[w]
          BY <1>4, <3>3, <3>4, <4>1, <4>3
        <5> QED
          BY <1>5, <1>6, <5>1 DEF Streamed
      <4> QED
        BY <4>2, <4>3
    <3>5. Reached(u)'
      BY <1>2, <1>4, <3>3 DEF Reached
    <3> QED
      BY <1>1, <1>2, <3>4, <3>5 DEF Complete
  <2> QED
    BY <2>1, <2>2
<1>10. LayersReplay'
  <2>1. Complete(last_record_lsn)'
    BY <1>8, <1>9 DEF Complete, Reached
  <2>2. Reached(image.lsn)' /\ Replay(image.lsn)' = Replay(image.lsn)
    BY <1>1, <1>2, <1>3 DEF LayersReplay, Reached, Replay, Streamed
  <2> QED
    BY <1>1, <1>2, <1>3, <1>6, <2>1, <2>2 DEF LayersReplay
<1>11. DraftsReplay'
  BY <1>1, <1>2, <1>3 DEF DraftsReplay, Reached, Replay, Streamed
<1>12. IngestsReplay'
  <2> SUFFICES ASSUME NEW v \in Writer
               PROVE  /\ pc'[v] \in {"up_to", "stream", "ingest"} => Complete(after[v])'
                      /\ pc'[v] = "ingest" =>
                           /\ FlushLsn(at[v])' >= up_to'[v]
                           /\ received'[v] = Streamed(Everything, after[v], up_to[v])'
    BY DEF IngestsReplay
  <2>1. v = w => pc'[v] = "ok"
    BY <1>1, <1>4
  <2>2. v # w => pc'[v] = pc[v]
    BY <1>1, <1>4
  <2>3. PICK i \in Nat : i = after[v]
    BY DEF TypeInv, TypeOK
  <2>4. pc'[v] \in {"up_to", "stream", "ingest"} => Complete(i)'
    BY <1>3, <1>7, <2>1, <2>2, <2>3 DEF IngestsReplay
  <2>5. Complete(i)' => Complete(after[v])'
    BY <1>1, <2>3 DEF Complete, Reached
  <2>6. pc'[v] = "ingest" =>
           /\ FlushLsn(at[v])' >= up_to'[v]
           /\ received'[v] = Streamed(Everything, after[v], up_to[v])'
    BY <1>1, <1>2, <1>3, <2>1, <2>2 DEF IngestsReplay, FlushLsn, Streamed
  <2> QED
    BY <2>4, <2>5, <2>6
<1> QED
  BY <1>10, <1>11, <1>12

\* The last LSN that is read to ingest from: all up to there is ingested.
LEMMA ReadLastRecordPages ==
    ASSUME TypeInv, TypeInv', WalsGrow, NewAbove, PageInv, NEW w \in Writer, ReadLastRecord(w), InStep'
    PROVE  PageInv'
<1>1. /\ pc' = [pc EXCEPT ![w] = "up_to"]
      /\ after' = [after EXCEPT ![w] = last_record_lsn]
      /\ UNCHANGED <<wal, pageVars, draft, at, up_to, received>>
  BY DEF ReadLastRecord, Goto, safekeeperVars, appendVars
<1>2. /\ pc \in [Writer -> Label] /\ after \in [Writer -> Nat] /\ after' \in [Writer -> Nat]
      /\ TypeOK /\ TypeOK'
  BY DEF TypeInv, TypeOK
<1>3. LayersReplay /\ IngestsReplay
  BY <1>2, InStepBefore DEF PageInv
<1>4. ASSUME NEW v \in Writer
      PROVE  /\ pc'[v] \in {"up_to", "stream", "ingest"} => after'[v] \in Nat /\ Complete(after'[v])
             /\ pc'[v] = "ingest" =>
                  /\ FlushLsn(at'[v]) >= up_to'[v]
                  /\ received'[v] = Streamed(Everything, after'[v], up_to'[v])
  <2>1. CASE v = w
    BY <1>1, <1>2, <1>3, <2>1 DEF LayersReplay
  <2>2. CASE v # w
    BY <1>1, <1>2, <1>3, <2>2 DEF IngestsReplay
  <2> QED
    BY <2>1, <2>2
<1>5. UNCHANGED <<pageVars, draft>>
  BY <1>1
<1> QED
  BY <1>2, <1>4, <1>5, PagesStand

\* A safekeeper that has reached up_to serves all there is up to there.
LEMMA StreamPages ==
    ASSUME TypeInv, TypeInv', WalsGrow, NewAbove, PageInv, NEW w \in Writer, Stream(w), InStep'
    PROVE  PageInv'
<1> DEFINE s == at[w]
           found == Streamed(wal[s], after[w], up_to[w])
<1>1. /\ pc[w] = "stream" /\ UNCHANGED <<wal, pageVars, draft, after, up_to>>
      /\ \/ /\ FlushLsn(s) >= up_to[w]
            /\ received' = [received EXCEPT ![w] = found]
            /\ pc' = [pc EXCEPT ![w] = "ingest"]
            /\ UNCHANGED at
         \/ /\ at' = [at EXCEPT ![w] = s + 1]
            /\ UNCHANGED <<pc, received>>
         \/ /\ pc' = [pc EXCEPT ![w] = "ok"]
            /\ UNCHANGED <<at, received>>
  BY DEF Stream, Goto, safekeeperVars
<1>2. /\ pc \in [Writer -> Label] /\ after \in [Writer -> Nat] /\ up_to \in [Writer -> Nat]
      /\ at \in [Writer -> Safekeeper] /\ received \in [Writer -> SUBSET Record]
      /\ s \in Safekeeper
      /\ TypeOK /\ TypeOK'
  BY DEF TypeInv, TypeOK
<1>3. IngestsReplay /\ InStep
  BY <1>2, InStepBefore DEF PageInv
<1>4. UNCHANGED <<pageVars, draft>>
  BY <1>1
<1>5. FlushLsn(s) >= up_to[w] => found = Streamed(Everything, after[w], up_to[w])
  <2> SUFFICES ASSUME FlushLsn(s) >= up_to[w], NEW r
               PROVE  r \in found <=> r \in Streamed(Everything, after[w], up_to[w])
    OBVIOUS
  <2>1. r \in found => r \in Streamed(Everything, after[w], up_to[w])
    BY <1>2 DEF Streamed, Everything
  <2>2. ASSUME r \in Streamed(Everything, after[w], up_to[w]) PROVE r \in found
    <3>1. PICK t \in Safekeeper : r \in wal[t]
      BY <2>2 DEF Streamed, Everything
    <3>2. /\ r.lsn \in Nat /\ after[w] < r.lsn /\ r.lsn <= up_to[w]
          /\ FlushLsn(s) \in Nat /\ up_to[w] \in Nat
      <4>1. r.lsn \in Nat
        BY <1>2, <3>1, FlushGrows
      <4>2. FlushLsn(s) \in Nat /\ up_to[w] \in Nat
        BY <1>2, FlushGrows
      <4> QED
        BY <2>2, <4>1, <4>2 DEF Streamed
    <3>3. r.lsn <= FlushLsn(s)
      BY <3>2
    <3>4. r \in wal[s]
      BY <1>2, <1>3, <3>1, <3>3 DEF InStep
    <3> QED
      BY <3>2, <3>4 DEF Streamed
  <2> QED
    BY <2>1, <2>2
<1> HIDE DEF found
<1>6. ASSUME NEW v \in Writer
      PROVE  /\ pc'[v] \in {"up_to", "stream", "ingest"} => after'[v] \in Nat /\ Complete(after'[v])
             /\ pc'[v] = "ingest" =>
                  /\ FlushLsn(at'[v]) >= up_to'[v]
                  /\ received'[v] = Streamed(Everything, after'[v], up_to'[v])
  <2>1. CASE v = w
    <3>1. pc'[v] \in {"up_to", "stream", "ingest"} => after'[v] \in Nat /\ Complete(after'[v])
      BY <1>1, <1>2, <1>3, <2>1 DEF IngestsReplay
    <3>2. ASSUME pc'[v] = "ingest"
          PROVE  /\ FlushLsn(at'[v]) >= up_to'[v]
                 /\ received'[v] = Streamed(Everything, after'[v], up_to'[v])
      BY <1>1, <1>2, <1>5, <2>1, <3>2
    <3> QED
      BY <3>1, <3>2
  <2>2. CASE v # w
    <3>1. pc'[v] = pc[v] /\ at'[v] = at[v] /\ received'[v] = received[v] /\ after'[v] = after[v]
          /\ up_to'[v] = up_to[v]
      BY <1>1, <1>2, <2>2
    <3> QED
      BY <1>2, <1>3, <3>1 DEF IngestsReplay
  <2> QED
    BY <2>1, <2>2
<1> QED
  BY <1>2, <1>4, <1>6, PagesStand

\* The writers' other steps do not touch what an ingest relies on.
LEMMA OtherStepPages ==
    ASSUME TypeInv, TypeInv', WalsGrow, NewAbove, PageInv, NEW w \in Writer,
           \/ Write(w) \/ CheckLag(w) \/ CheckTerm(w) \/ Insert(w)
           \/ ReadFlush(w) \/ Commit(w) \/ ReadCommit(w)
    PROVE  PageInv'
<1>1. TypeOK /\ TypeOK' /\ pc \in [Writer -> Label]
  BY DEF TypeInv, TypeOK
<1>2. UNCHANGED <<pageVars, draft, after, received>>
  BY DEF Write, CheckLag, CheckTerm, Insert, ReadFlush, Commit, ReadCommit, ingestVars
<1>3. \A v \in Writer : v # w =>
        pc'[v] = pc[v] /\ at'[v] = at[v] /\ up_to'[v] = up_to[v]
  BY DEF TypeInv, TypeOK, Write, CheckLag, CheckTerm, Insert, ReadFlush, Commit, ReadCommit,
         NextSafekeeper, Goto, ingestVars, appendVars
<1>4. \/ pc'[w] \notin {"up_to", "stream", "ingest"}
      \/ pc[w] = "up_to" /\ pc'[w] = "stream"
  BY <1>1 DEF Write, CheckLag, CheckTerm, Insert, ReadFlush, Commit, ReadCommit,
              NextSafekeeper, Goto
<1>5. \A v \in Writer : pc'[v] \in {"up_to", "stream", "ingest"} =>
         /\ pc[v] \in {"up_to", "stream", "ingest"} /\ after'[v] = after[v]
         /\ pc'[v] = "ingest" => /\ pc[v] = "ingest" /\ at'[v] = at[v]
                                 /\ up_to'[v] = up_to[v] /\ received'[v] = received[v]
  BY <1>2, <1>3, <1>4
<1>6. UNCHANGED <<pageVars, draft>>
  BY <1>2
<1> QED
  BY <1>1, <1>5, <1>6, IngestsStand

\* A page from the layers is the replay.
LEMMA PageReplays ==
    ASSUME TypeInv, LayersReplay, NEW l \in Nat, image.lsn <= l, l <= last_record_lsn
    PROVE  PageAt(l) = Replay(l)
<1>1. /\ image.lsn \in Nat /\ last_record_lsn \in Nat
      /\ \A r \in Everything : r.lsn \in Nat \ {0}
  <2>1. Everything \subseteq Record
    BY DEF Everything, TypeInv, TypeOK
  <2> QED
    BY <2>1, BoundAssumption DEF Record, Lsn, TypeInv, TypeOK
<1>2. /\ deltas \subseteq Everything /\ image.recs = Replay(image.lsn)
      /\ \A r \in Everything : image.lsn < r.lsn /\ r.lsn <= last_record_lsn => r \in deltas
  BY DEF LayersReplay, Complete
<1>3. ASSUME NEW r PROVE r \in PageAt(l) <=> r \in Replay(l)
  <2>1. r \in PageAt(l) <=> \/ r \in Everything /\ 0 < r.lsn /\ r.lsn <= image.lsn
                            \/ r \in deltas /\ image.lsn < r.lsn /\ r.lsn <= l
    BY <1>2 DEF PageAt, Replay, Streamed
  <2>2. r \in Replay(l) <=> r \in Everything /\ 0 < r.lsn /\ r.lsn <= l
    BY DEF Replay, Streamed
  <2>3. ASSUME r \in Everything
        PROVE  \/ r.lsn <= image.lsn
               \/ image.lsn < r.lsn
    BY <1>1, <2>3
  <2>4. r \in PageAt(l) => r \in Replay(l)
    BY <1>1, <1>2, <2>1, <2>2
  <2>5. r \in Replay(l) => r \in PageAt(l)
    <3> SUFFICES ASSUME r \in Replay(l) PROVE r \in PageAt(l)
      OBVIOUS
    <3>1. r \in Everything /\ 0 < r.lsn /\ r.lsn <= l /\ r.lsn \in Nat
      BY <1>1, <2>2
    <3>2. r.lsn <= last_record_lsn
      BY <1>1, <3>1
    <3> QED
      BY <1>2, <2>1, <2>3, <3>1, <3>2
  <2> QED
    BY <2>4, <2>5
<1> QED
  BY <1>3 DEF PageAt

\* What a compactor materializes is the replay.
LEMMA MaterializePages ==
    ASSUME TypeInv, TypeInv', WalsGrow, NewAbove, PageInv,
           NEW c \in Compactor, draft[c].lsn = 0, Materialize(c), InStep'
    PROVE  PageInv'
<1>1. PICK l \in 1 .. last_record_lsn :
          image.lsn <= l /\ draft' = [draft EXCEPT ![c] = Image(l, PageAt(l))]
  BY DEF Materialize
<1>2. UNCHANGED <<wal, pageVars, last_record_lsn, image, deltas, pc, at, after, up_to, received>>
  BY DEF Materialize, safekeeperVars, appendVars, ingestVars, pageVars
<1>3. /\ TypeOK /\ TypeOK' /\ InStep
      /\ last_record_lsn \in Nat /\ l \in Nat /\ l <= last_record_lsn
  BY <1>2 DEF TypeInv, TypeOK, InStep, FlushLsn
<1>4. LayersReplay /\ DraftsReplay /\ IngestsReplay
  BY <1>3 DEF PageInv
<1>5. Everything' = Everything /\ \A s \in Safekeeper : FlushLsn(s)' = FlushLsn(s)
  BY <1>2 DEF Everything, FlushLsn
<1>6. PageAt(l) = Replay(l)
  BY <1>1, <1>3, <1>4, PageReplays
<1>7. Reached(l)
  <2>1. PICK s \in Safekeeper : last_record_lsn <= FlushLsn(s)
    BY <1>4 DEF LayersReplay, Complete, Reached
  <2>2. FlushLsn(s) \in Nat
    BY <1>3, FlushGrows
  <2>3. l <= FlushLsn(s)
    BY <1>3, <2>1, <2>2
  <2> QED
    BY <2>3 DEF Reached
<1>8. DraftsReplay'
  <2> SUFFICES ASSUME NEW d \in Compactor, draft'[d].lsn # 0
               PROVE  /\ Reached(draft[d].lsn)' /\ draft'[d].recs = Replay(draft[d].lsn)'
                      /\ image'.lsn <= draft'[d].lsn
    BY DEF DraftsReplay
  <2>1. CASE d = c
    <3>1. draft'[d].lsn = l /\ draft'[d].recs = Replay(l)
      BY <1>1, <1>3, <1>6, <2>1 DEF TypeOK, Image
    <3> QED
      BY <1>1, <1>2, <1>5, <1>7, <3>1 DEF Reached, Replay, Streamed
  <2>2. CASE d # c
    <3>1. draft'[d] = draft[d]
      BY <1>1, <1>3, <2>2 DEF TypeOK
    <3> QED
      BY <1>2, <1>4, <1>5, <3>1 DEF DraftsReplay, Reached, Replay, Streamed
  <2> QED
    BY <2>1, <2>2
<1>9. LayersReplay'
  BY <1>2, <1>4, <1>5 DEF LayersReplay, Complete, Reached, Replay, Streamed
<1>10. IngestsReplay'
  BY <1>2, <1>4, <1>5 DEF IngestsReplay, Complete, Reached, FlushLsn, Streamed
<1> QED
  BY <1>8, <1>9, <1>10 DEF PageInv

\* The image layer of the one compactor at work replaces the deltas it stands for.
LEMMA StoreImagePages ==
    ASSUME TypeInv, TypeInv', WalsGrow, NewAbove, PageInv, \A c, d \in Compactor : c = d,
           NEW c \in Compactor, StoreImage(c), InStep'
    PROVE  PageInv'
<1>1. /\ draft[c].lsn # 0 /\ image' = draft[c] /\ deltas' = DeltasAbove(draft[c].lsn)
      /\ draft' = [draft EXCEPT ![c] = Image(0, {})]
      /\ UNCHANGED <<wal, last_record_lsn, pc, at, after, up_to, received>>
  BY DEF StoreImage, safekeeperVars, appendVars, ingestVars
<1>2. /\ TypeOK /\ TypeOK' /\ InStep
      /\ last_record_lsn \in Nat /\ \A w \in Writer : after[w] \in Nat
  BY <1>1 DEF TypeInv, TypeOK, InStep, FlushLsn
<1>3. LayersReplay /\ DraftsReplay /\ IngestsReplay
  BY <1>2 DEF PageInv
<1>4. Everything' = Everything /\ \A s \in Safekeeper : FlushLsn(s)' = FlushLsn(s)
  BY <1>1 DEF Everything, FlushLsn
<1>5. /\ Reached(image'.lsn) /\ image'.recs = Replay(image'.lsn) /\ image.lsn <= image'.lsn
  BY <1>1, <1>3 DEF DraftsReplay
<1>6. ASSUME NEW l \in Nat, Complete(l) PROVE Complete(l)'
  BY <1>1, <1>2, <1>5, <1>6, CompleteStays DEF DeltasAbove
<1>7. LayersReplay'
  <2>1. deltas' \subseteq Everything'
    BY <1>1, <1>3, <1>4 DEF DeltasAbove, LayersReplay
  <2>2. Complete(last_record_lsn)'
    <3>1. PICK i \in Nat : i = last_record_lsn
      BY <1>2
    <3>2. Complete(i)'
      BY <1>3, <1>6, <3>1 DEF LayersReplay
    <3> QED
      BY <1>1, <3>1, <3>2 DEF Complete, Reached
  <2>3. Reached(image.lsn)' /\ image'.recs = Replay(image.lsn)'
    BY <1>4, <1>5 DEF Reached, Replay, Streamed
  <2> QED
    BY <2>1, <2>2, <2>3 DEF LayersReplay
<1>8. DraftsReplay'
  <2>1. \A d \in Compactor : draft'[d].lsn = 0
    BY <1>1, <1>2 DEF TypeOK, Image
  <2> QED
    BY <2>1 DEF DraftsReplay
<1>9. IngestsReplay'
  <2> SUFFICES ASSUME NEW w \in Writer
               PROVE  /\ pc'[w] \in {"up_to", "stream", "ingest"} => Complete(after[w])'
                      /\ pc'[w] = "ingest" =>
                           /\ FlushLsn(at[w])' >= up_to'[w]
                           /\ received'[w] = Streamed(Everything, after[w], up_to[w])'
    BY DEF IngestsReplay
  <2>1. PICK i \in Nat : i = after[w]
    BY <1>2
  <2>2. pc'[w] \in {"up_to", "stream", "ingest"} => Complete(i)'
    BY <1>1, <1>3, <1>6, <2>1 DEF IngestsReplay
  <2>3. Complete(i)' => Complete(after[w])'
    BY <1>1, <2>1 DEF Complete, Reached
  <2>4. pc'[w] = "ingest" =>
           /\ FlushLsn(at[w])' >= up_to'[w]
           /\ received'[w] = Streamed(Everything, after[w], up_to[w])'
    BY <1>1, <1>3, <1>4 DEF IngestsReplay, FlushLsn, Streamed
  <2> QED
    BY <2>2, <2>3, <2>4
<1> QED
  BY <1>7, <1>8, <1>9 DEF PageInv

\* Nothing is written, nothing to replay.
LEMMA PageInit == Init => PageInv
<1> SUFFICES ASSUME Init PROVE LayersReplay /\ DraftsReplay /\ IngestsReplay
  BY DEF PageInv
<1>1. /\ \A s \in Safekeeper : wal[s] = {}
      /\ last_record_lsn = 0 /\ image.lsn = 0 /\ image.recs = {} /\ deltas = {}
      /\ \A c \in Compactor : draft[c].lsn = 0
      /\ \A w \in Writer : pc[w] = "idle"
  BY DEF Init, Image
<1>2. Everything = {}
  BY <1>1 DEF Everything
<1>3. Reached(0)
  <2>1. 1 \in Safekeeper
    BY NAssumption DEF Safekeeper
  <2>2. LastLsn({}) = 0
    BY DEF LastLsn
  <2> QED
    BY <1>1, <2>1, <2>2 DEF Reached, FlushLsn
<1>4. LayersReplay
  BY <1>1, <1>2, <1>3 DEF LayersReplay, Complete, Replay, Streamed
<1>5. DraftsReplay /\ IngestsReplay
  BY <1>1 DEF DraftsReplay, IngestsReplay
<1> QED
  BY <1>4, <1>5

\* Every step keeps the pages, with one compactor.
LEMMA PageStep ==
    ASSUME TypeInv, TypeInv', HistoryInv, PageInv, \A c, d \in Compactor : c = d, [Next]_vars
    PROVE  PageInv'
<1> SUFFICES ASSUME InStep' PROVE PageInv'
  BY DEF PageInv
<1>1. WalsGrow /\ NewAbove
  BY WalsStep
<1>2. CASE Restart \/ UNCHANGED vars
  <2>1. UNCHANGED <<wal, pageVars, draft, pc, at, after, up_to, received>>
    BY <1>2 DEF Restart, StartProposer, Greet, StoreTerm, vars, safekeeperVars, appendVars,
                ingestVars
  <2>2. TypeOK /\ TypeOK'
    BY DEF TypeInv
  <2> QED
    BY <1>1, <2>1, <2>2, IngestsStand
<1>3. ASSUME NEW w \in Writer, WriterStep(w) PROVE PageInv'
  <2>1. CASE \/ Write(w) \/ CheckLag(w) \/ CheckTerm(w) \/ Insert(w)
             \/ ReadFlush(w) \/ Commit(w) \/ ReadCommit(w)
    BY <1>1, <2>1, OtherStepPages
  <2>2. CASE ReadLastRecord(w)
    BY <1>1, <2>2, ReadLastRecordPages
  <2>3. CASE Stream(w)
    BY <1>1, <2>3, StreamPages
  <2>4. CASE Ingest(w)
    BY <2>4, IngestPages
  <2> QED
    BY <1>3, <2>1, <2>2, <2>3, <2>4 DEF WriterStep
<1>4. ASSUME NEW c \in Compactor, draft[c].lsn = 0, Materialize(c) PROVE PageInv'
  BY <1>1, <1>4, MaterializePages
<1>5. ASSUME NEW c \in Compactor, StoreImage(c) PROVE PageInv'
  BY <1>1, <1>5, StoreImagePages
<1> QED
  BY <1>2, <1>3, <1>4, <1>5 DEF Next

\* What the layers hold is what a page shows.
LEMMA PagesFollow == TypeInv /\ PageInv => PageIsReplay
<1> SUFFICES ASSUME TypeInv, PageInv, InStep, NEW l \in image.lsn .. last_record_lsn
             PROVE  PageAt(l) = Replay(l)
  BY DEF PageIsReplay, Replay, Everything
<1>1. l \in Nat /\ image.lsn <= l /\ l <= last_record_lsn
  BY DEF TypeInv, TypeOK
<1> QED
  BY <1>1, PageReplays DEF PageInv

\* A page is the replay of the safekeepers' WAL at every LSN from the image layer on, however
\* late or often its records are ingested, as long as create_image_layer does not run twice at
\* once (wal_service.rs:408-410): two of them may store the older image last.
THEOREM PagesReplay ==
    ASSUME \A c, d \in Compactor : c = d
    PROVE  Spec => []PageIsReplay
<1>1. Init => PageInv
  BY PageInit
<1>2. PageInv /\ TypeInv /\ TypeInv' /\ HistoryInv /\ [Next]_vars => PageInv'
  BY PageStep
<1>3. TypeInv /\ PageInv => PageIsReplay
  BY PagesFollow
<1> QED
  BY <1>1, <1>2, <1>3, CommitInvariant, PTL DEF Spec
=============================================================================
