------------------------------- MODULE MCRaft -------------------------------
(***************************************************************************)
(* Finite instances of Raft from its own initial states, where the voters  *)
(* are interchangeable, of its StableSpec, and searches from ElectedInit   *)
(* in which one other voter, Second, takes over from First.  Each bounds   *)
(* who campaigns and proposes: every behaviour is one of Raft's.           *)
(***************************************************************************)
EXTENDS Raft, TLC

CONSTANTS
    Second,  \* the voter that takes over
    Opening  \* the command that opens a log of two

NodeSymmetry == Permutations(Voter) \cup Permutations(Learner)

CommandSymmetry == Permutations(Command)

\* Locals of a loop are dead once the loop is left, and match_index is cleared
\* before the next leader reads it.
View ==
    <<nodeVars, logVars, phase, todo, net, issued, failures,
      [n \in Node |-> IF phase[n] # "idle" THEN ballot[n] ELSE 0],
      [n \in Node |-> IF phase[n] = "elect" THEN <<position[n], votes[n]>> ELSE <<>>],
      [n \in Node |-> IF phase[n] = "replicate" \/ role[n] = "Leader"
                      THEN match_index[n] ELSE <<>>]>>

Campaigns(n) == role'[n] = "Candidate" /\ current_term'[n] > current_term[n]

\* All the voters know one leader, and nothing else is under way.
Settled ==
    /\ net = {} /\ failures = 0
    /\ \A n \in Voter : phase[n] = "idle"
    /\ \E n \in Voter : role[n] = "Leader" /\ \A p \in Voter : current_term[p] = current_term[n]

\* Voters campaign and propose as they like.  A second command is proposed only
\* where Opening was the first, at rest, and from then on one voter takes over.
OneOrOpened ==
    /\ Opening \in issued' \ issued => issued = {} /\ Settled
    /\ Opening \notin issued' => Cardinality(issued') <= 1
    /\ \A n \in Voter : Opening \in issued /\ Campaigns(n) => \A p \in Voter : current_term[p] = 1

\* Only Second campaigns.
RivalNext == Next /\ \A n \in Node : Campaigns(n) => n = Second

RivalSpec == ElectedInit /\ [][RivalNext]_vars

\* Moreover calls fail in First's term only, and Second waits for them.
DirectedNext ==
    /\ RivalNext
    /\ failures' # failures => \A n \in Voter : current_term[n] = 1
    /\ Campaigns(Second) => failures = MaxFailure

DirectedSpec == ElectedInit /\ [][DirectedNext]_vars
=============================================================================
