---------------------------- MODULE RemoteBackups ----------------------------
(***************************************************************************)
(* The destinations of backups (s3.rs, sftp.rs, BackupEngine in            *)
(* aruaru-backup/src/lib.rs), for backups of different ids, each a file of *)
(* rows and a manifest: full backups are written or uploaded file by file, *)
(* meanwhile somebody lists the backups or fetches one to restore it, and  *)
(* a table keeps its metadata in the same bucket.  A PUT to S3 is there at *)
(* once or not at all, a file on disk or over SFTP is there while it is    *)
(* written.  A path is a sequence of names, below the prefix or directory  *)
(* that is configured.                                                     *)
(***************************************************************************)
EXTENDS Naturals, Sequences, FiniteSets

CONSTANTS
    BackupIds,    \* how many full backups; their ids are in the order of time (uuid v7)
    Page,         \* how many keys S3 answers to one ListObjectsV2
    MaxReads,     \* bound on lists and restores
    MaxTroubles   \* bound on calls that fail

ASSUME RemoteAssumption == Page \in Nat /\ BackupIds \in Nat

BackupId == 1..BackupIds
RowsFile == "t.parquet"
ManifestFile == "MANIFEST.json"
StorePath == {<<"db", "_ss", "id">>}

VARIABLES
    place,     \* "local", "s3" or "sftp"
    root,      \* prefix or remote_dir
    objects,   \* path -> "torn" or "whole"
    fulls,     \* the runs of run_full
    reader,    \* a list_backups or a restore
    reads, troubles,
    stored     \* history: paths that the table's metadata was put to

remoteVars == <<place, root, objects, fulls, reader, reads, troubles, stored>>
-----------------------------------------------------------------------------
NoFull == [at |-> "rest", todo |-> {}, file |-> RowsFile]
NoReader == [at |-> "rest", for |-> 0, dirs |-> {}, keys |-> {}, got |-> {}, since |-> {},
             disturbed |-> FALSE]

RemoteInit ==
    /\ \/ place = "local" /\ root = <<>>
       \/ place \in {"s3", "sftp"} /\ root \in {<<>>, <<"p">>}
    /\ objects = <<>>
    /\ fulls = [i \in BackupId |-> NoFull]
    /\ reader = NoReader
    /\ reads = 0 /\ troubles = 0
    /\ stored = {}

\* S3Client::full_key, SftpClient::full_path.
FullKey(key) == root \o key

Written(path, content) == [p \in DOMAIN objects \cup {path} |-> IF p = path THEN content ELSE objects[p]]

\* run_full: a fresh id.
StartFull(i) ==
    /\ fulls[i].at = "rest" /\ \A j \in 1..(i - 1) : fulls[j].at # "rest"
    /\ fulls' = [fulls EXCEPT ![i].at = "put", ![i].todo = {RowsFile, ManifestFile}]
    /\ UNCHANGED <<objects, reader, reads, troubles, stored>>

AfterFile(i, f) == [fulls[i] EXCEPT !.todo = @ \ {f}, !.at = IF fulls[i].todo = {f} THEN "done" ELSE "put"]

\* upload_staged_backup puts the files in the order of the directory ...
S3Put(i) ==
    /\ place = "s3" /\ fulls[i].at = "put"
    /\ \E f \in fulls[i].todo :
          /\ objects' = Written(FullKey(<<i, f>>), "whole")
          /\ fulls' = [fulls EXCEPT ![i] = AfterFile(i, f)]
    /\ UNCHANGED <<reader, reads, troubles, stored>>

\* ... over SFTP into directories it makes, whether or not they are there; on disk the manifest last.
SftpPut(i) ==
    /\ place # "s3" /\ fulls[i].at = "put"
    /\ \E f \in fulls[i].todo :
          /\ place = "local" /\ f = ManifestFile => fulls[i].todo = {f}
          /\ objects' = Written(FullKey(<<i, f>>), "torn")
          /\ fulls' = [fulls EXCEPT ![i].at = "write", ![i].file = f]
    /\ UNCHANGED <<reader, reads, troubles, stored>>

SftpWritten(i) ==
    /\ fulls[i].at = "write"
    /\ objects' = Written(FullKey(<<i, fulls[i].file>>), "whole")
    /\ fulls' = [fulls EXCEPT ![i] = AfterFile(i, fulls[i].file)]
    /\ UNCHANGED <<reader, reads, troubles, stored>>

\* Variant: a file that could not be uploaded is only logged.
PutFailsQuietly(i) ==
    /\ fulls[i].at \in {"put", "write"} /\ troubles < MaxTroubles
    /\ \E f \in fulls[i].todo :
          /\ fulls[i].at = "write" => f = fulls[i].file
          /\ fulls' = [fulls EXCEPT ![i] = AfterFile(i, f)]
    /\ troubles' = troubles + 1
    /\ UNCHANGED <<objects, reader, reads, stored>>

\* A call that fails ends the backup; S3 may have the object all the same.
PutFails(i) ==
    /\ fulls[i].at \in {"put", "write"} /\ troubles < MaxTroubles
    /\ fulls' = [fulls EXCEPT ![i].at = "failed"]
    /\ troubles' = troubles + 1
    /\ \/ UNCHANGED objects
       \/ place = "s3" /\ \E f \in fulls[i].todo : objects' = Written(FullKey(<<i, f>>), "whole")
    /\ UNCHANGED <<reader, reads, stored>>

\* ObjectStore::put of S3Client: what goes wrong the caller is not told.
StorePut(path) ==
    /\ place = "s3" /\ path \notin stored
    /\ stored' = stored \cup {path}
    /\ \/ objects' = Written(FullKey(path), "whole") /\ UNCHANGED troubles
       \/ troubles < MaxTroubles /\ troubles' = troubles + 1 /\ UNCHANGED objects
    /\ UNCHANGED <<fulls, reader, reads>>
-----------------------------------------------------------------------------
Below == {p \in DOMAIN objects : SubSeq(p, 1, Len(root)) = root}
Relative(p) == SubSeq(p, Len(root) + 1, Len(p))
IsBackupKey(k) == Len(k) = 2

\* Keys as S3 sorts them: ids, which begin with a digit, by time, and a manifest before the rows.
SortPlace(p) == LET k == Relative(p) IN
    IF IsBackupKey(k) THEN 2 * k[1] + (IF k[2] = RowsFile THEN 1 ELSE 0) ELSE 2 * BackupIds + 2

\* list_objects of S3: one page, and the keys as they are in the bucket.
S3List == {p \in Below : Cardinality({q \in Below : SortPlace(q) < SortPlace(p)}) < Page}

\* A list (for no id) or a restore begins; on disk and over SFTP with the directories there are.
StartReading(id) ==
    /\ reader.at = "rest" /\ reads < MaxReads
    /\ reads' = reads + 1
    /\ reader' = [NoReader EXCEPT
          !.at = IF place = "s3" THEN "fetch" ELSE "dirs",
          !.for = id,
          !.dirs = IF place = "s3" THEN {} ELSE {Relative(p)[1] : p \in Below},
          !.keys = IF place = "s3" THEN S3List ELSE {},
          !.since = {i \in BackupId : fulls[i].at = "done"},
          !.disturbed = place = "s3" /\ (root # <<>> \/ S3List # Below)]
    /\ UNCHANGED <<objects, fulls, troubles, stored>>

\* The files of one directory after the other, as keys below the root ...
ReadDir ==
    /\ reader.at = "dirs"
    /\ \/ \E d \in reader.dirs :
             reader' = [reader EXCEPT
                 !.dirs = @ \ {d}, !.at = IF reader.dirs = {d} THEN "fetch" ELSE @,
                 !.keys = @ \cup {Relative(p) : p \in {q \in Below : Relative(q)[1] = d}}]
       \/ reader.dirs = {} /\ reader' = [reader EXCEPT !.at = "fetch"]
    /\ UNCHANGED <<objects, fulls, reads, troubles, stored>>

\* ... and SFTP skips one that it cannot read.
SkipDir ==
    /\ place = "sftp" /\ reader.at = "dirs" /\ troubles < MaxTroubles
    /\ \E d \in reader.dirs :
          reader' = [reader EXCEPT !.dirs = @ \ {d}, !.at = IF reader.dirs = {d} THEN "fetch" ELSE @,
                                   !.disturbed = TRUE]
    /\ troubles' = troubles + 1
    /\ UNCHANGED <<objects, fulls, reads, stored>>

\* The keys that are fetched: all manifests, or the files of the backup to restore.
Wanted == {k \in reader.keys : IF reader.for = 0 THEN k[Len(k)] = ManifestFile
                               ELSE IsBackupKey(k) /\ k[1] = reader.for}

\* get_object joins the root and the key; what is not there, or cannot be read, a list skips and a
\* restore does not get over.
Fetch ==
    /\ reader.at = "fetch"
    /\ \E k \in Wanted :
          LET there == FullKey(k) \in DOMAIN objects IN
          /\ reader' = [reader EXCEPT
                !.keys = @ \ {k},
                !.got = IF there THEN @ \cup {<<k, objects[FullKey(k)]>>} ELSE @,
                !.at = IF there \/ reader.for = 0 THEN @ ELSE "failed"]
    /\ UNCHANGED <<objects, fulls, reads, troubles, stored>>

FetchBreaks ==
    /\ reader.at = "fetch" /\ troubles < MaxTroubles
    /\ \E k \in Wanted :
          reader' = [reader EXCEPT !.keys = @ \ {k}, !.disturbed = TRUE,
                                   !.at = IF reader.for = 0 THEN @ ELSE "failed"]
    /\ troubles' = troubles + 1
    /\ UNCHANGED <<objects, fulls, reads, stored>>

\* With all of it here a list shows the manifests that can be parsed, and a restore checks its
\* files against its manifest.
Fetched ==
    /\ reader.at = "fetch" /\ Wanted = {}
    /\ reader' = [reader EXCEPT !.at =
          IF reader.for = 0 \/ \A f \in {RowsFile, ManifestFile} : <<<<reader.for, f>>, "whole">> \in reader.got
          THEN "answered" ELSE "failed"]
    /\ UNCHANGED <<objects, fulls, reads, troubles, stored>>

EndReading ==
    /\ reader.at \in {"answered", "failed"}
    /\ reader' = NoReader
    /\ UNCHANGED <<objects, fulls, reads, troubles, stored>>

RemoteStep ==
    /\ \/ \E i \in BackupId : StartFull(i) \/ S3Put(i) \/ SftpPut(i) \/ SftpWritten(i) \/ PutFails(i)
       \/ \E path \in StorePath : StorePut(path)
       \/ \E id \in BackupId \cup {0} : StartReading(id)
       \/ ReadDir \/ SkipDir \/ Fetch \/ FetchBreaks \/ Fetched \/ EndReading
    /\ UNCHANGED <<place, root>>
-----------------------------------------------------------------------------
\* ObjectStore::list of S3Client: the paths of put again.
StoreList(prefix) == {k \in {Relative(p) : p \in S3List} : SubSeq(k, 1, Len(prefix)) = prefix}

RemoteOK ==
    /\ \A p \in DOMAIN objects : objects[p] \in {"torn", "whole"}
    /\ \A i \in BackupId : fulls[i].at \in {"rest", "put", "write", "done", "failed"}
    /\ reader.at \in {"rest", "dirs", "fetch", "answered", "failed"}
    /\ reader.since \subseteq BackupId
    /\ reads \in 0..MaxReads /\ troubles \in 0..MaxTroubles
    /\ stored \subseteq StorePath

\* Whatever goes on at the destination, a list shows every backup that was done when it began, and
\* such a backup can be fetched, with each file as it was written.  Excepted are readings disturbed
\* by a call that failed, and two limits of the S3 client: with a prefix the keys it lists are not
\* those it fetches, and keys after the first page, the latest backups, are not listed.  The keys
\* that a table's metadata is listed under are those it was put under, or a backup's.
BackupsComeBack ==
    /\ reader.for = 0 /\ reader.at = "answered" /\ ~reader.disturbed =>
          \A i \in reader.since : <<<<i, ManifestFile>>, "whole">> \in reader.got
    /\ reader.for \in reader.since /\ ~reader.disturbed => reader.at # "failed"
    /\ place = "s3" => StoreList(<<>>) \subseteq stored \cup (BackupId \X {RowsFile, ManifestFile})
=============================================================================
