-------------------------- MODULE ReplicatedWrites ---------------------------
(***************************************************************************)
(* Writes through RaftWriter on one node of a cluster of several           *)
(* (raft/writer.rs, raft/node.rs, admin.rs): a task proposes a command,    *)
(* lock by lock, and polls for the result at the index it was given, until *)
(* a timeout, when the command goes to a mailbox.  The other nodes are the *)
(* environment: they acknowledge entries, depose this node and send it      *)
(* entries of their own, and keep what is committed (Raft has them).       *)
(* RaftApply has the single-node mode and the steps of apply_committed.    *)
(***************************************************************************)
EXTENDS Naturals, Sequences, FiniteSets

CONSTANTS Proposer,      \* tasks that write, each its own command
          Invalid,       \* those whose command the engine refuses
          Theirs,        \* a command another leader proposed
          MaxRaftTerm,   \* bound on terms, for TLC
          MaxLog         \* bound on the length of the log, for TLC

Mailbox == "mailbox"
NoMailbox == "none"

VARIABLES
    role, term,
    log_entries,      \* the log: sequence of [term, cmd]
    commit_to,    \* commit_index of the node
    applied_to,   \* last_applied
    results,      \* pending_results: [index -> cmd applied], for those not yet taken
    task,         \* [Proposer -> where it is, the term it read, its index, its answer]
    deposed,      \* history: tasks whose node lost the leadership after they read its role
    kept,         \* AdminState's mailbox
    used,         \* RaftWriter's mailbox
    setter,       \* the mailbox that a set_disaster_email_backup still has to inject
    mails         \* tasks whose command is on its way to the mailbox

writeVars == <<role, term, log_entries, commit_to, applied_to, results, task, deposed, kept, used, setter, mails>>
nodeVars == <<role, term, log_entries, commit_to, applied_to>>
mailVars == <<kept, used, setter, mails>>

WritesInit ==
    /\ role = "Leader" /\ term = 1
    /\ log_entries = <<>> /\ commit_to = 0 /\ applied_to = 0
    /\ results = [i \in {} |-> Theirs]
    /\ task = [p \in Proposer |-> [at |-> "start", term |-> 0, index |-> 0, answer |-> "none"]]
    /\ deposed = {}
    /\ kept = NoMailbox /\ used = NoMailbox /\ setter = NoMailbox /\ mails = {}

LastIndex == Len(log_entries)
Waiting(p) == task[p].at = "wait"
Answered(p, a) == [task EXCEPT ![p].at = "done", ![p].answer = a]
-----------------------------------------------------------------------------
\* propose: the role, under the state's lock ...
ReadRole(p) ==
    /\ task[p].at = "start"
    /\ deposed' = deposed \ {p}
    /\ IF role = "Leader"
       THEN task' = [task EXCEPT ![p].at = "term"]
       ELSE task' = Answered(p, "not leader")
    /\ UNCHANGED <<nodeVars, results, mailVars>>

\* ... the term, under the same lock taken again ...
ReadTerm(p) ==
    /\ task[p].at = "term"
    /\ task' = [task EXCEPT ![p].at = "append", ![p].term = term]
    /\ UNCHANGED <<nodeVars, results, deposed, mailVars>>

\* ... and the log, under its own: nothing keeps the role and the term until then.
AppendWith(p, index) ==
    /\ task[p].at = "append" /\ LastIndex < MaxLog
    /\ log_entries' = Append(log_entries, [term |-> task[p].term, cmd |-> p])
    /\ task' = [task EXCEPT ![p].at = "wait", ![p].index = index]
    /\ UNCHANGED <<role, term, commit_to, applied_to, results, deposed, mailVars>>

\* Variant: the index of the entry before it.
AppendAfter(p) == AppendWith(p, LastIndex)
AppendCommand(p) == AppendWith(p, LastIndex + 1)

\* wait_for_commit: the result at its index is taken, whoever's it is ...
TakeCommitted(p) ==
    /\ Waiting(p) /\ task[p].index \in DOMAIN results
    /\ task' = Answered(p, IF results[task[p].index] \in Invalid THEN "refused" ELSE "ok")
    /\ results' = [i \in DOMAIN results \ {task[p].index} |-> results[i]]
    /\ UNCHANGED <<nodeVars, deposed, mailVars>>

\* ... or there is none when the time is up: trigger_disaster_backup_if_configured.
TimeOut(p) ==
    /\ Waiting(p) /\ task[p].index \notin DOMAIN results
    /\ task' = Answered(p, "timeout")
    /\ mails' = IF used = NoMailbox THEN mails ELSE mails \cup {p}
    /\ UNCHANGED <<nodeVars, results, deposed, kept, used, setter>>
-----------------------------------------------------------------------------
\* maybe_commit of the driver, when a majority has the entries up to an index of this term.
MaybeCommit ==
    /\ role = "Leader"
    /\ \E i \in commit_to + 1 .. LastIndex :
          /\ log_entries[i].term = term
          /\ commit_to' = i
    /\ UNCHANGED <<role, term, log_entries, applied_to, results, task, deposed, mailVars>>

\* apply_committed: EngineApplier's answer is put at the entry's index, on every node.
ApplyNext ==
    /\ applied_to < commit_to
    /\ applied_to' = applied_to + 1
    /\ results' = [i \in DOMAIN results \cup {applied_to + 1} |->
                     IF i = applied_to + 1 THEN log_entries[i].cmd ELSE results[i]]
    /\ UNCHANGED <<role, term, log_entries, commit_to, task, deposed, mailVars>>

\* The node loses the leadership, with every task that has no answer yet.
Deposes ==
    deposed' = deposed \cup {p \in Proposer : role = "Leader" /\ task[p].at # "done"}

\* append_entries from another leader, whose log agrees with this one up to prev at least and goes
\* on with its own entries; what comes after prev here is cut off, unless it has none to send.
AppendEntries ==
    \E t \in term .. MaxRaftTerm, n \in 0 .. 1 : \E prev \in commit_to .. LastIndex : \E c \in commit_to .. prev + n :
       /\ role = "Leader" => t > term
       /\ prev + n <= MaxLog
       /\ term' = t /\ role' = "Follower"
       /\ log_entries' = IF n = 0 THEN log_entries
                     ELSE SubSeq(log_entries, 1, prev) \o [i \in 1 .. n |-> [term |-> t, cmd |-> Theirs]]
       /\ commit_to' = c
       /\ Deposes
       /\ UNCHANGED <<applied_to, results, task, mailVars>>

\* The same handler when prev does not agree: the role is given up, the log stays.
RejectEntries ==
    \E t \in term .. MaxRaftTerm :
       /\ role = "Leader" => t > term
       /\ term' = t /\ role' = "Follower"
       /\ Deposes
       /\ UNCHANGED <<log_entries, commit_to, applied_to, results, task, mailVars>>

\* become_candidate, and become_leader once a majority voted.
WinElection ==
    /\ role = "Follower" /\ term < MaxRaftTerm
    /\ term' = term + 1 /\ role' = "Leader"
    /\ UNCHANGED <<log_entries, commit_to, applied_to, results, task, deposed, mailVars>>
-----------------------------------------------------------------------------
\* AdminState::set_disaster_email_backup keeps the mailbox, for TLC once ...
SetMailbox ==
    /\ kept = NoMailbox
    /\ kept' = Mailbox /\ setter' = Mailbox
    /\ UNCHANGED <<nodeVars, results, task, deposed, used, mails>>

\* ... and gives it to the RaftWriter that serves the wire protocol.
InjectMailbox ==
    /\ setter # NoMailbox
    /\ used' = setter /\ setter' = NoMailbox
    /\ UNCHANGED <<nodeVars, results, task, deposed, kept, mails>>

WriteStep ==
    \/ \E p \in Proposer :
          ReadRole(p) \/ ReadTerm(p) \/ AppendCommand(p) \/ TakeCommitted(p) \/ TimeOut(p)
    \/ MaybeCommit \/ ApplyNext \/ AppendEntries \/ RejectEntries \/ WinElection
    \/ SetMailbox \/ InjectMailbox
-----------------------------------------------------------------------------
WritesOK ==
    /\ role \in {"Leader", "Follower"} /\ term \in 1 .. MaxRaftTerm
    /\ Len(log_entries) <= MaxLog
    /\ mails \subseteq {p \in Proposer : task[p].answer = "timeout"} /\ (used # kept => setter = kept)
    /\ applied_to <= commit_to /\ commit_to <= LastIndex
    /\ DOMAIN results \subseteq 1 .. applied_to

\* A client that gets an answer gets that of its own command, which is in the log where it was put,
\* committed, unless the node lost the leadership while it waited: the result is looked up by the
\* index alone, and another leader's command may have come to stand there.
AnswersAreOwn ==
    \A p \in Proposer : task[p].answer \in {"ok", "refused"} /\ p \notin deposed =>
        /\ task[p].index \in 1 .. commit_to
        /\ log_entries[task[p].index].cmd = p
        /\ task[p].answer = "refused" <=> p \in Invalid
=============================================================================
