---------------------------- MODULE AdminConfig -----------------------------
(***************************************************************************)
(* The control plane: aruaru.yaml, the task that watches it (config/       *)
(* watch.rs), the reconciler that brings its dynamic sections into force   *)
(* (config/reconcile.rs), and operators who change the same state through  *)
(* REST and GraphQL (admin.rs, admin_resolvers.rs).  Each section has a    *)
(* lock of its own.  Static sections only cause a warning and are left     *)
(* out, like the section of the optional disaster_email_backup feature.    *)
(***************************************************************************)
EXTENDS Naturals, Sequences, SequencesExt

CONSTANTS
    Source,  \* names of federated sources
    Setting, \* values of a plain setting, or of a cron expression
    Default, \* the one a setting starts with
    MaxEdit, \* bound on the edits of the file
    Broken,  \* the content of a file that does not parse
    NoConfig,\* `previous` of the first reconcile
    Unset    \* a schedule of None

ASSUME AdminConfigAssumption == Default \in Setting /\ MaxEdit \in Nat

VARIABLES
    contents,   \* what the file may be edited to
    file,       \* its content and its modification time
    watcher,    \* what main and then the watcher do next
    seen,       \* last_mtime
    current_config, \* the configuration that was reconciled last
    loaded,     \* the one that is being reconciled, with the file's time when it was read
    todo,       \* its sections still to come
    in_force,   \* AdminState
    overridden, \* history: sections an operator has changed since they were reconciled
    missed      \* history: whether `seen` is the time of an edit that was not read

configVars == <<contents, file, watcher, seen, current_config, loaded, todo, in_force, overridden, missed>>
-----------------------------------------------------------------------------
Schedule == [enabled : BOOLEAN, cron : Setting]

\* In the order of reconcile; target_lag and max_offset are set under locks of their own.
Sections == <<"parallel", "target_lag", "max_offset", "schedule", "sources">>

Defaults == [parallel |-> Default, target_lag |-> Default, max_offset |-> Default,
             schedule |-> Unset, sources |-> <<>>]

ConfigInit(possible) ==
    /\ contents = possible
    /\ \E content \in IF possible = {} THEN {Broken} ELSE possible : file = [content |-> content, mtime |-> 0]
    /\ watcher = IF possible = {} THEN "off" ELSE "start"
    /\ seen = 0
    /\ current_config = NoConfig
    /\ loaded = [config |-> NoConfig, mtime |-> 0, then |-> "off"]
    /\ todo = <<>>
    /\ in_force = Defaults
    /\ overridden = {} /\ missed = FALSE

\* Somebody writes the file.
Edit(content) ==
    /\ watcher # "off" /\ file.mtime < MaxEdit
    /\ file' = [content |-> content, mtime |-> file.mtime + 1]
    /\ UNCHANGED <<contents, watcher, seen, current_config, loaded, todo, in_force, overridden, missed>>

\* AruaruConfig::load; the configuration stays as it is when the file does not parse.
Load(then, failed) ==
    /\ loaded' = [config |-> file.content, mtime |-> file.mtime, then |-> then]
    /\ IF file.content = Broken
       THEN watcher' = failed /\ UNCHANGED todo
       ELSE watcher' = "reconcile" /\ todo' = Sections
    /\ UNCHANGED <<contents, file, seen, current_config, overridden>>

\* main reads the file once, and spawns the watcher if it could.
LoadAtStart ==
    /\ watcher = "start"
    /\ Load("delay", "off")
    /\ UNCHANGED <<in_force, missed>>

\* After its startup_delay the watcher takes the file's time, whatever main has read.
StartWatching ==
    /\ watcher = "delay"
    /\ seen' = file.mtime
    /\ missed' = (file.mtime # loaded.mtime)
    /\ watcher' = "poll"
    /\ UNCHANGED <<contents, file, current_config, loaded, todo, in_force, overridden>>

\* A tick: the time is taken first and the file read after.
Tick ==
    /\ watcher = "poll" /\ file.mtime # seen
    /\ seen' = file.mtime
    /\ watcher' = "load"
    /\ UNCHANGED <<contents, file, current_config, loaded, todo, in_force, overridden, missed>>

Reload ==
    /\ watcher = "load"
    /\ Load("poll", "poll")
    /\ missed' = FALSE
    /\ UNCHANGED in_force

\* SIGHUP: the file is read first ...
Sighup ==
    /\ watcher = "poll"
    /\ Load("record", "record")
    /\ missed' = FALSE
    /\ UNCHANGED in_force

\* ... and the time taken after.
RecordTime ==
    /\ watcher = "record"
    /\ seen' = file.mtime
    /\ missed' = (file.mtime # loaded.mtime)
    /\ watcher' = "poll"
    /\ UNCHANGED <<contents, file, current_config, loaded, todo, in_force, overridden>>
-----------------------------------------------------------------------------
\* A schedule that was never enabled by a file is None.
Desired(section) ==
    IF section = "schedule" /\ ~loaded.config.schedule.enabled
          /\ (current_config = NoConfig \/ ~current_config.schedule.enabled)
    THEN Unset ELSE loaded.config[section]

\* Variant: schedule_eq compares the cron expression alone.
SameCron(section, desired) ==
    \/ in_force[section] = desired
    \/ /\ section = "schedule" /\ Unset \notin {desired, in_force.schedule}
       /\ in_force.schedule.cron = desired.cron

\* schedule_eq and federation_eq, and != for the others.
Same(section, desired) == in_force[section] = desired

\* reconcile of one section, which puts the file's value over an operator's.
Reconcile ==
    LET section == Head(todo) IN
    /\ watcher = "reconcile" /\ todo # <<>>
    /\ in_force' = IF Same(section, Desired(section)) THEN in_force
                   ELSE [in_force EXCEPT ![section] = Desired(section)]
    /\ overridden' = overridden \ {section}
    /\ todo' = Tail(todo)
    /\ UNCHANGED <<contents, file, watcher, seen, current_config, loaded, missed>>

EndReconcile ==
    /\ watcher = "reconcile" /\ todo = <<>>
    /\ current_config' = loaded.config
    /\ watcher' = loaded.then
    /\ UNCHANGED <<contents, file, seen, loaded, todo, in_force, overridden, missed>>
-----------------------------------------------------------------------------
\* The admin interfaces are served once main has reconciled.
Serving == current_config # NoConfig

Operate(section, value) ==
    /\ Serving
    /\ in_force' = [in_force EXCEPT ![section] = value]
    /\ overridden' = overridden \cup {section}
    /\ UNCHANGED <<contents, file, watcher, seen, current_config, loaded, todo, missed>>

\* set_schedule and set_backup_schedule.
SetSchedule(schedule) == Operate("schedule", schedule)

\* register_federation and register_federated_source: one entry of a name.
RegisterSource(name) ==
    /\ Serving /\ name \notin ToSet(in_force.sources)
    /\ Operate("sources", Append(in_force.sources, name))

\* The sources but those of a name, in order.
Retained(sources, name) ==
    LET left == {i \in DOMAIN sources : sources[i] # name}
    IN [n \in 1..Cardinality(left) |-> sources[CHOOSE i \in left : Cardinality({j \in left : j < i}) = n - 1]]

\* drop_federation and drop_federated_source.
DropSource(name) ==
    /\ Serving /\ name \in ToSet(in_force.sources)
    /\ Operate("sources", Retained(in_force.sources, name))

\* A restart reads the file again.
ConfigRestart ==
    /\ watcher' = IF contents = {} THEN "off" ELSE "start"
    /\ seen' = 0 /\ current_config' = NoConfig /\ todo' = <<>> /\ in_force' = Defaults
    /\ loaded' = [config |-> NoConfig, mtime |-> 0, then |-> "off"]
    /\ overridden' = {} /\ missed' = FALSE
    /\ UNCHANGED <<contents, file>>

ConfigStep ==
    \/ \E content \in contents : Edit(content)
    \/ LoadAtStart \/ StartWatching \/ Tick \/ Reload \/ Sighup \/ RecordTime
    \/ Reconcile \/ EndReconcile
    \/ \E schedule \in Schedule : SetSchedule(schedule)
    \/ \E name \in Source : RegisterSource(name) \/ DropSource(name)
-----------------------------------------------------------------------------
IsConfig(c) ==
    /\ c.parallel \in Setting /\ c.target_lag \in Setting /\ c.max_offset \in Setting
    /\ c.schedule \in Schedule \cup {Unset}
    /\ c.sources \in Seq(Source)

ConfigOK ==
    /\ file.mtime \in 0..MaxEdit /\ seen \in 0..MaxEdit
    /\ watcher \in {"off", "start", "delay", "poll", "load", "record", "reconcile"}
    /\ IsConfig(in_force) /\ todo \in Seq(ToSet(Sections))
    /\ overridden \subseteq {"schedule", "sources"} /\ missed \in BOOLEAN

\* What the file asks for: the last content that could be read.
Asked == IF file.content = Broken THEN current_config ELSE file.content

\* As long as the watcher sees nothing new, the file is in force, in every section that no operator
\* has changed since: after edits at any moment of a reload, after files that did not parse, and
\* after SIGHUP.  Excepted is an edit between the reading of the file and the taking of its time,
\* which the start of the watcher and SIGHUP do in this order.
FileInForce ==
    watcher = "poll" /\ seen = file.mtime /\ ~missed =>
        /\ \A section \in {"parallel", "target_lag", "max_offset", "sources"} \ overridden :
              in_force[section] = Asked[section]
        /\ "schedule" \notin overridden =>
              IF Asked.schedule.enabled THEN in_force.schedule = Asked.schedule
              ELSE in_force.schedule = Unset \/ ~in_force.schedule.enabled
=============================================================================
