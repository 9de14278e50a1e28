----------------------------- MODULE SelfUpdate ------------------------------
(***************************************************************************)
(* The automatic update of a server (self_update.rs): once after it has    *)
(* started a server asks for the latest release, fetches and unpacks a     *)
(* newer one, leaves a script behind and ends.  The script saves the       *)
(* binary, installs the new one and starts it, and after a while asks      *)
(* whether a server answers; when none does it kills what runs of the      *)
(* binary and goes back to the saved one.  A release is a number; which    *)
(* ones ever come to answer is not known.  Two scripts share their file:   *)
(* what a shell makes of one that is overwritten is not modelled.          *)
(***************************************************************************)
EXTENDS Naturals, Sequences

CONSTANTS
    Releases,  \* how many releases there will be
    MaxStarts  \* bound on the starts of a server

ASSUME UpdateAssumption == Releases \in Nat \ {0}

VARIABLES
    healthy,    \* releases that come to answer
    published,  \* the latest release ...
    asset,      \* ... and its archive: "whole", "broken" or "none" for this system
    exe, bak,   \* releases in the installed binary and in the saved one, 0 for no file
    unpacked,   \* release in the directory it was extracted to
    servers,    \* every server process: its release, where it is, where its check is
    scripts,    \* every script: its next step
    proven,     \* history: the release installed at first, and those that answered
    scripts_overlapped  \* history: a script was started while another one ran

updateVars == <<healthy, published, asset, exe, bak, unpacked, servers, scripts, proven, scripts_overlapped>>
-----------------------------------------------------------------------------
NewServer(release) == [release |-> release, at |-> "boot", check |-> "ask"]

UpdateInit ==
    /\ healthy \in SUBSET (2..Releases)
    /\ published = 1 /\ asset = "whole"
    /\ exe = 1 /\ bak = 0 /\ unpacked = 0
    /\ servers = <<NewServer(1)>>
    /\ scripts = <<>>
    /\ proven = {1}
    /\ scripts_overlapped = FALSE

Up(p) == servers[p].at # "gone"
Checks(p, at) == Up(p) /\ servers[p].check = at
Running(k) == scripts[k] # "end"
AnyRuns == \E k \in DOMAIN scripts : Running(k)

Publish ==
    /\ published < Releases
    /\ published' = published + 1
    /\ asset' \in {"whole", "broken", "none"}
    /\ UNCHANGED <<exe, bak, unpacked, servers, scripts, proven, scripts_overlapped>>

\* The server answers /healthz when nobody else has the port.
ServeHealth(p) ==
    /\ servers[p].at = "boot" /\ servers[p].release \in healthy \cup {1}
    /\ \A q \in DOMAIN servers : servers[q].at # "serving"
    /\ servers' = [servers EXCEPT ![p].at = "serving"]
    /\ proven' = proven \cup {servers[p].release}
    /\ UNCHANGED <<published, asset, exe, bak, unpacked, scripts, scripts_overlapped>>

Checked(p, at) == servers' = [servers EXCEPT ![p].check = at]

\* check_and_apply_update: the latest release, when it is newer and has an archive; a call that
\* fails leaves things as they are.
AskLatest(p) ==
    /\ Checks(p, "ask")
    /\ \/ published > servers[p].release /\ asset # "none" /\ Checked(p, "fetch")
       \/ Checked(p, "none")
    /\ UNCHANGED <<published, asset, exe, bak, unpacked, scripts, proven, scripts_overlapped>>

\* download_to and extract_binary: an archive that is none, the page of an error perhaps, is not
\* extracted, but the directory is empty then.
FetchRelease(p) ==
    /\ Checks(p, "fetch")
    /\ \/ asset = "whole" /\ unpacked' = published /\ Checked(p, "apply")
       \/ unpacked' \in {0, unpacked} /\ Checked(p, "none")
    /\ UNCHANGED <<published, asset, exe, bak, scripts, proven, scripts_overlapped>>

\* apply_update starts the script and ends the server.
Apply(p) ==
    /\ Checks(p, "apply") /\ Len(servers) < MaxStarts
    /\ \/ /\ scripts' = Append(scripts, "save")
          /\ scripts_overlapped' = (scripts_overlapped \/ AnyRuns)
          /\ servers' = [servers EXCEPT ![p].at = "gone"]
       \/ Checked(p, "none") /\ UNCHANGED <<scripts, scripts_overlapped>>
    /\ UNCHANGED <<published, asset, exe, bak, unpacked, proven>>

Then(k, step) == scripts' = [scripts EXCEPT ![k] = step]

\* Variant: the new binary is saved.
SaveNew(k) ==
    /\ scripts[k] = "save"
    /\ bak' = unpacked
    /\ Then(k, "install")
    /\ UNCHANGED <<published, asset, exe, unpacked, servers, proven, scripts_overlapped>>

\* The script: cp of the binary to its .bak, and of the new one to its place ...
SaveBinary(k) ==
    /\ scripts[k] = "save"
    /\ bak' = exe
    /\ Then(k, "install")
    /\ UNCHANGED <<published, asset, exe, unpacked, servers, proven, scripts_overlapped>>

Install(k) ==
    /\ scripts[k] = "install"
    /\ exe' = IF unpacked = 0 THEN exe ELSE unpacked
    /\ Then(k, "start")
    /\ UNCHANGED <<published, asset, bak, unpacked, servers, proven, scripts_overlapped>>

\* ... a start, the first time or after going back ...
StartServer(k) ==
    /\ scripts[k] \in {"start", "restart"}
    /\ servers' = Append(servers, NewServer(exe))
    /\ Then(k, IF scripts[k] = "start" THEN "health" ELSE "end")
    /\ UNCHANGED <<published, asset, exe, bak, unpacked, proven, scripts_overlapped>>

\* ... and, when nobody answers in time, pkill and the saved binary.
CheckHealth(k) ==
    /\ scripts[k] = "health"
    /\ IF \E p \in DOMAIN servers : servers[p].at = "serving"
       THEN Then(k, "end") /\ UNCHANGED servers
       ELSE /\ Then(k, "restore")
            /\ servers' = [p \in DOMAIN servers |-> [servers[p] EXCEPT !.at = "gone"]]
    /\ UNCHANGED <<published, asset, exe, bak, unpacked, proven, scripts_overlapped>>

RestoreBinary(k) ==
    /\ scripts[k] = "restore"
    /\ exe' = bak
    /\ Then(k, "restart")
    /\ UNCHANGED <<published, asset, bak, unpacked, servers, proven, scripts_overlapped>>

UpdateStep ==
    /\ \/ Publish
       \/ \E p \in DOMAIN servers : ServeHealth(p) \/ AskLatest(p) \/ FetchRelease(p) \/ Apply(p)
       \/ \E k \in DOMAIN scripts : SaveBinary(k) \/ Install(k) \/ StartServer(k) \/ CheckHealth(k) \/ RestoreBinary(k)
    /\ UNCHANGED healthy
-----------------------------------------------------------------------------
UpdateOK ==
    /\ published \in 1..Releases /\ asset \in {"whole", "broken", "none"}
    /\ {exe, bak, unpacked} \subseteq 0..Releases
    /\ \A p \in DOMAIN servers : /\ servers[p].release \in 0..Releases
                                 /\ servers[p].at \in {"boot", "serving", "gone"}
                                 /\ servers[p].check \in {"ask", "fetch", "apply", "none"}
    /\ \A k \in DOMAIN scripts :
          scripts[k] \in {"save", "install", "start", "health", "restore", "restart", "end"}
    /\ proven \subseteq 1..Releases

\* However releases and updates follow each other, the binary that a script goes back to has worked,
\* and when no script runs the installed binary is one that has, and a server of it is there.  That
\* holds as long as a server that a script has just started does not start another script before the
\* first one has asked for its health.
UpdatesFallBack ==
    ~scripts_overlapped =>
        /\ \A k \in DOMAIN scripts : scripts[k] \in {"restore", "restart"} => bak \in proven
        /\ ~AnyRuns => exe \in proven /\ \E p \in DOMAIN servers : Up(p) /\ servers[p].release = exe
=============================================================================
