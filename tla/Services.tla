------------------------------ MODULE Services -------------------------------
(***************************************************************************)
(* The single-node write path and the services around it that have no      *)
(* state in common with each other.  A behaviour is one of a single        *)
(* service, chosen at the start; the others rest in their initial states.  *)
(***************************************************************************)
EXTENDS SnapshotPairing, EncryptedStream, ShardedStore, DualMirror, KeyGuardian, Registry,
        WireSession, DataImport, ReplicatedWrites, Placement,
        RemoteBackups, SelfUpdate, EphemeralPod, LearnerReads

VARIABLE service

Service == {"writers", "stream", "shards", "mirror", "keys", "registry",
            "wire", "import", "cluster", "placement", "remote", "update", "pods", "learner"}

allVars == <<service, hookedVars, streamVars, shardVars, mirrorVars, keyVars, registryVars,
             wireVars, importVars, writeVars, placementVars, remoteVars, updateVars, podVars, learnerVars>>

Serving(s) == service = s

\* The others do nothing.
OthersRest(s) ==
    /\ UNCHANGED service
    /\ s # "writers" => UNCHANGED hookedVars
    /\ s # "stream" => UNCHANGED streamVars
    /\ s # "shards" => UNCHANGED shardVars
    /\ s # "mirror" => UNCHANGED mirrorVars
    /\ s # "keys" => UNCHANGED keyVars
    /\ s # "registry" => UNCHANGED registryVars
    /\ s # "wire" => UNCHANGED wireVars
    /\ s # "import" => UNCHANGED importVars
    /\ s # "cluster" => UNCHANGED writeVars
    /\ s # "placement" => UNCHANGED placementVars
    /\ s # "remote" => UNCHANGED remoteVars
    /\ s # "update" => UNCHANGED updateVars
    /\ s # "pods" => UNCHANGED podVars
    /\ s # "learner" => UNCHANGED learnerVars

TaskStep(t) == Serving("writers") /\ HookedStep(t) /\ OthersRest("writers")
StreamService == Serving("stream") /\ StreamStep /\ OthersRest("stream")
ShardService == Serving("shards") /\ ShardStep /\ OthersRest("shards")
MirrorService == Serving("mirror") /\ MirrorStep /\ OthersRest("mirror")
KeyService == Serving("keys") /\ KeyStep /\ OthersRest("keys")
RegistryService == Serving("registry") /\ RegistryStep /\ OthersRest("registry")
WireService == Serving("wire") /\ WireStep /\ OthersRest("wire")
ImportService == Serving("import") /\ ImportStep /\ OthersRest("import")
ClusterService == Serving("cluster") /\ WriteStep /\ OthersRest("cluster")
PlacementService == Serving("placement") /\ PlacementStep /\ OthersRest("placement")
RemoteService == Serving("remote") /\ RemoteStep /\ OthersRest("remote")
UpdateService == Serving("update") /\ UpdateStep /\ OthersRest("update")
PodService == Serving("pods") /\ PodStep /\ OthersRest("pods")
LearnerService == Serving("learner") /\ LearnerStep /\ OthersRest("learner")

\* What is chosen at the start of one service has one value in the others.
ServicesInit ==
    /\ service \in Service
    /\ Init /\ PairingInit /\ StreamInit /\ ShardInit /\ MirrorInit /\ KeyInit /\ RegistryInit
    /\ WireInit /\ ImportInit /\ WritesInit /\ PlacementInit
    /\ RemoteInit /\ UpdateInit /\ PodInit /\ LearnerInit
    /\ service # "stream" => same_key
    /\ service # "keys" => token_set
    /\ service # "import" => source = (CHOOSE s \in Sources : s.wire = "csv") /\ by = "tool"
    /\ service # "remote" => place = "local"
    /\ service # "update" => healthy = {}
    /\ service # "pods" => server_tables = [t \in PodTable |-> 0]
    /\ service # "learner" => learned = (CHOOSE l \in LearnerLog : TRUE)

ServicesNext ==
    \/ \E t \in Task : TaskStep(t)
    \/ StreamService \/ ShardService \/ MirrorService \/ KeyService \/ RegistryService
    \/ WireService \/ ImportService \/ ClusterService \/ PlacementService
    \/ RemoteService \/ UpdateService \/ PodService \/ LearnerService

\* The tasks of the runtime and the processes are scheduled in the end, the node's driver excepted,
\* which no write has to wait for; and a reader polls as long as there is something to read.
ServicesFairness ==
    /\ WF_hookedVars(\E w \in Writer : TaskStep(w))
    /\ WF_streamVars(StreamService /\ StreamRead)
    /\ WF_mirrorVars(MirrorService /\ MirrorTask)
    /\ WF_podVars(PodService /\ \E a \in Asker : PodWork(a))

ServicesSpec == ServicesInit /\ [][ServicesNext]_allVars /\ ServicesFairness
-----------------------------------------------------------------------------
\* The types of the variables of the service that runs; all of them hold at the start.
ServicesOK ==
    /\ service \in Service
    /\ Serving("writers") => TypeOK /\ PairingOK
    /\ Serving("stream") => StreamOK
    /\ Serving("shards") => ShardOK
    /\ Serving("mirror") => MirrorOK
    /\ Serving("keys") => KeysOK
    /\ Serving("registry") => RegistryOK
    /\ Serving("wire") => WireOK
    /\ Serving("import") => ImportOK
    /\ Serving("cluster") => WritesOK
    /\ Serving("placement") => PlacementOK
    /\ Serving("remote") => RemoteOK
    /\ Serving("update") => UpdateOK
    /\ Serving("pods") => PodOK
    /\ Serving("learner") => LearnerOK

\* What is handed to a task or to a stream arrives in its order: see StreamIsFaithful,
\* LatestIsNewest, SnapshotsCover and RanksAreNewest.
ArrivesInOrder ==
    /\ Serving("stream") => StreamIsFaithful
    /\ Serving("mirror") => LatestIsNewest
    /\ Serving("writers") => SnapshotsCover
    /\ Serving("registry") => RanksAreNewest

\* In the end every write to the node is answered, what was flushed has arrived (FlushedArrived)
\* and every row of a commit is in the mirror (Mirrored), for good;
\* and a call to an ephemeral pod has ended (PodsEnd).
EverythingArrives ==
    <>[]/\ Serving("writers") => \A w \in Writer : pc[w] = "done"
        /\ Serving("stream") => FlushedArrived
        /\ Serving("mirror") => Mirrored
        /\ Serving("pods") => PodsEnd

\* What is asked of the server is what is done and what is said of it: a statement is read as it was
\* meant (StatementsReadBack), Describe tells the columns of the answer (DescribeAgrees), both for plain values; an import
\* reports what is there (ImportsAreWhole), a pod answers from the server's tables (PodAnswers), a
\* learner serves no older state than it was asked for (ReadsAreFresh), and backups are listed and
\* fetched as they were uploaded (BackupsComeBack).
SaidIsDone ==
    /\ Serving("wire") => StatementsReadBack /\ DescribeAgrees
    /\ Serving("import") => ImportsAreWhole
    /\ Serving("pods") => PodAnswers
    /\ Serving("learner") => ReadsAreFresh
    /\ Serving("remote") => BackupsComeBack

\* What operators rely on while others work: keys decide who is let in (KeysDecide), a range has
\* its leader and as many replicas as there are nodes for (EveryRangePlaced), and an update that fails
\* is undone (UpdatesFallBack).
OperatorsDecide ==
    /\ Serving("keys") => KeysDecide
    /\ Serving("placement") => EveryRangePlaced
    /\ Serving("update") => UpdatesFallBack
=============================================================================
