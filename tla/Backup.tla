------------------------------- MODULE Backup -------------------------------
(***************************************************************************)
(* BackupEngine (aruaru-backup/src/lib.rs), for one backup id: snapshot    *)
(* dumps the tables into files of a directory, a manifest with their       *)
(* checksums last, and, for a remote destination, uploads the files from   *)
(* there in any order; restore downloads them, reads the manifest, and     *)
(* brings in the tables whose files have the checksums it lists.  A file   *)
(* that a task has written survives a crash.  A checksum stands for the    *)
(* rows it was computed from.                                              *)
(***************************************************************************)
EXTENDS QueryEngine

CONSTANT Manifest \* the file MANIFEST.json

ASSUME BackupAssumption == Manifest \notin Table

File == Table \cup {Manifest}

VARIABLES
    destination, \* "local" or "remote"
    staged,      \* files in the local directory
    remote,      \* and at the remote destination
    backup,      \* each session's snapshot or restore
    cuts,        \* history: what the tables held when a snapshot was taken
    restored     \* history: what a restore that succeeded brought in

backupVars == <<destination, staged, remote, backup, cuts, restored>>
-----------------------------------------------------------------------------
NoFiles == <<>>
NoBackup == [at |-> "rest", cut |-> <<>>, sums |-> <<>>, todo |-> {}]

BackupInit(w) ==
    /\ destination = w.destination
    /\ staged = NoFiles /\ remote = NoFiles
    /\ backup = [s \in Session |-> NoBackup]
    /\ cuts = {} /\ restored = {}

Doing(s, at) == backup[s].at = at
With(files, f, content) == [g \in DOMAIN files \cup {f} |-> IF g = f THEN content ELSE files[g]]
ImageOf(t) == [k \in KeysOf(t) |-> mem[k]]
First(tables) == IF LogTable \in tables THEN LogTable ELSE UserTable
Onward(s, todo, at, after) == [backup[s] EXCEPT !.todo = todo, !.at = IF todo = {} THEN after ELSE at]

\* write_snapshot: after the head of the branch, the tables are copied under their lock.
StartSnapshot(s) ==
    /\ Heading(s, "backup") /\ Doing(s, "rest")
    /\ LET there == {t \in Table : mem[t] # 0}
           cut == [t \in there |-> ImageOf(t)]
       IN /\ backup' = [backup EXCEPT ![s] = [Onward(s, there, "dump", "manifest") EXCEPT !.cut = cut, !.sums = <<>>]]
          /\ cuts' = cuts \cup {cut}
    /\ Advance(s)
    /\ UNCHANGED <<staged, remote, restored>>

\* write_table_parquet of a table ...
WriteFile(s) ==
    LET t == First(backup[s].todo) IN
    /\ Doing(s, "dump")
    /\ staged' = With(staged, t, backup[s].cut[t])
    /\ backup' = [backup EXCEPT ![s].at = "hash"]
    /\ UNCHANGED <<remote, cuts, restored, script>>

\* ... and the checksum of the file.
HashFile(s) ==
    LET t == First(backup[s].todo) IN
    /\ Doing(s, "hash") /\ t \in DOMAIN staged
    /\ backup' = [backup EXCEPT ![s] =
          [Onward(s, @.todo \ {t}, "dump", "manifest") EXCEPT !.sums = With(backup[s].sums, t, staged[t])]]
    /\ UNCHANGED <<staged, remote, cuts, restored, script>>

\* The manifest; a local backup is then done.
WriteManifest(s) ==
    /\ Doing(s, "manifest")
    /\ staged' = With(staged, Manifest, backup[s].sums)
    /\ backup' = [backup EXCEPT ![s] = IF destination = "local" THEN NoBackup
                                       ELSE [NoBackup EXCEPT !.at = "upload", !.todo = DOMAIN staged']]
    /\ UNCHANGED <<remote, cuts, restored, script>>

\* upload_staged_backup: the files of the directory as read_dir lists them; then it is removed.
Upload(s) ==
    /\ Doing(s, "upload")
    /\ \E f \in backup[s].todo \cap DOMAIN staged :
          /\ remote' = With(remote, f, staged[f])
          /\ backup' = [backup EXCEPT ![s].todo = @ \ {f}]
    /\ UNCHANGED <<staged, cuts, restored, script>>

EndUpload(s) ==
    /\ Doing(s, "upload") /\ backup[s].todo = {}
    /\ staged' = NoFiles
    /\ backup' = [backup EXCEPT ![s] = NoBackup]
    /\ UNCHANGED <<remote, cuts, restored, script>>

\* restore: without a file at the remote destination an error, else download_staged_backup.
StartRestore(s) ==
    /\ Heading(s, "restore") /\ Doing(s, "rest")
    /\ IF destination = "remote" /\ remote = NoFiles
       THEN UNCHANGED backup
       ELSE backup' = [backup EXCEPT ![s] = IF destination = "local" THEN [NoBackup EXCEPT !.at = "open"]
                                            ELSE [NoBackup EXCEPT !.at = "download", !.todo = DOMAIN remote]]
    /\ Advance(s)
    /\ UNCHANGED <<staged, remote, cuts, restored>>

Download(s) ==
    /\ Doing(s, "download")
    /\ \E f \in backup[s].todo :
          /\ staged' = With(staged, f, remote[f])
          /\ backup' = [backup EXCEPT ![s] = Onward(s, @.todo \ {f}, "download", "open")]
    /\ UNCHANGED <<remote, cuts, restored, script>>

\* The call fails; the client goes on.
Fail(s) == backup' = [backup EXCEPT ![s] = NoBackup] /\ UNCHANGED script

\* The manifest is read; without one an error.
OpenManifest(s) ==
    /\ Doing(s, "open")
    /\ IF Manifest \notin DOMAIN staged THEN Fail(s)
       ELSE /\ backup' = [backup EXCEPT ![s] =
                  [Onward(s, DOMAIN staged[Manifest], "check", "end") EXCEPT !.sums = staged[Manifest]]]
            /\ UNCHANGED script
    /\ UNCHANGED <<staged, remote, cuts, restored>>

\* Variant: a file is taken as it is.
CheckNothing(s) ==
    LET t == First(backup[s].todo) IN
    /\ Doing(s, "check")
    /\ IF t \notin DOMAIN staged THEN Fail(s)
       ELSE backup' = [backup EXCEPT ![s].at = "read"] /\ UNCHANGED script
    /\ UNCHANGED <<staged, remote, cuts, restored>>

\* The file of a table must have the checksum the manifest lists ...
CheckFile(s) ==
    LET t == First(backup[s].todo) IN
    /\ Doing(s, "check")
    /\ IF t \notin DOMAIN staged \/ staged[t] # backup[s].sums[t] THEN Fail(s)
       ELSE backup' = [backup EXCEPT ![s].at = "read"] /\ UNCHANGED script
    /\ UNCHANGED <<staged, remote, cuts, restored>>

\* ... and is read, and ingested.
ReadFile(s) ==
    LET t == First(backup[s].todo) IN
    /\ Doing(s, "read") /\ t \in DOMAIN staged
    /\ IngestTable(s, t, staged[t])
    /\ backup' = [backup EXCEPT ![s].at = "ingest", ![s].cut = With(@, t, staged[t])]
    /\ UNCHANGED <<staged, remote, cuts, restored>>

\* With the table in memory, the next file.
NextFile(s) ==
    /\ Doing(s, "ingest") /\ Is(s, "rest")
    /\ backup' = [backup EXCEPT ![s] = Onward(s, @.todo \ {First(@.todo)}, "check", "end")]
    /\ UNCHANGED <<staged, remote, cuts, restored, script>>

\* The restore has succeeded; what was downloaded is removed.
EndRestore(s) ==
    /\ Doing(s, "end")
    /\ restored' = restored \cup {backup[s].cut}
    /\ staged' = IF destination = "remote" THEN NoFiles ELSE staged
    /\ backup' = [backup EXCEPT ![s] = NoBackup]
    /\ UNCHANGED <<remote, cuts, script>>

\* The file that is wanted next is gone: another session's call has cleared the directory.
Missing(s) ==
    \/ backup[s].at \in {"hash", "read"} /\ First(backup[s].todo) \notin DOMAIN staged
    \/ Doing(s, "upload") /\ ~(backup[s].todo \subseteq DOMAIN staged)

\* Any access to a file may fail; what was written stays.
BackupError(s) ==
    /\ "error" \in faults \/ Missing(s)
    /\ backup[s].at \notin {"rest", "ingest"}
    /\ faults' = IF Missing(s) THEN faults ELSE faults \ {"error"}
    /\ Fail(s)
    /\ UNCHANGED <<staged, remote, cuts, restored>>

BackupStep(s) ==
    /\ \/ StartSnapshot(s) \/ WriteFile(s) \/ HashFile(s) \/ WriteManifest(s) \/ Upload(s) \/ EndUpload(s)
       \/ StartRestore(s) \/ Download(s) \/ OpenManifest(s) \/ CheckFile(s) \/ NextFile(s) \/ EndRestore(s)
    /\ UNCHANGED <<storeVars, versionVars, mem, txn, dirty, deltas, schema_dirty, job, faults, attached, mirror,
                   engineHistory, destination>>

BackupFailure(s) ==
    /\ BackupError(s)
    /\ UNCHANGED <<storeVars, versionVars, mem, txn, dirty, deltas, schema_dirty, job, attached, mirror,
                   engineHistory, destination>>

ReadStep(s) == ReadFile(s) /\ UNCHANGED destination
-----------------------------------------------------------------------------
BackupOK ==
    /\ DOMAIN staged \subseteq File /\ DOMAIN remote \subseteq File
    /\ \A s \in Session :
          /\ backup[s].at \in {"rest", "dump", "hash", "manifest", "upload", "download", "open", "check",
                               "read", "ingest", "end"}
          /\ backup[s].todo \subseteq File

\* A restore that succeeds brings in all the tables as they were together when one snapshot was
\* taken, whatever sessions did meanwhile, and although earlier snapshots of the same id, uploads
\* that failed on the way and crashes have left files of their own.
RestoreIsSnapshot == restored \subseteq cuts
=============================================================================
