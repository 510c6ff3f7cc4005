--------------------------- MODULE PluginRuntime ---------------------------
(***************************************************************************)
(* The plugin supervisor of the desktop application (plugin_runtime.rs),   *)
(* the configuration file it reads and the API handlers that change it     *)
(* (handlers/plugins.rs, plugin/*.rs, store/config_files.rs).              *)
(*                                                                         *)
(* One manager thread reconciles the child processes with the manifests    *)
(* on disk and the switches in config.json.  It wakes on a configuration   *)
(* event of the bus, or when the bus was silent for 30 s.  A plugin that   *)
(* provides sessions has two more threads per process: one fetches the     *)
(* first snapshot, one reads the process's stdout.  They share the         *)
(* ownership table and the session registry with the manager.              *)
(*                                                                         *)
(* An instance is the guard of one process.  Its number is reused once no  *)
(* thread and no table refers to it.                                       *)
(***************************************************************************)
EXTENDS Integers, FiniteSets

CONSTANTS
    Plugins,     \* plugins with a long-running process
    Providers,   \* those that provide a session list (one per tool)
    External,    \* those in the user's plugin directory; others are built in
    Versions,    \* contents a manifest may have
    Handlers,    \* API requests that may run at the same time
    Instances,   \* numbers of session provider instances
    MaxOps,      \* bound: requests that change plugins or configuration
    MaxCrashes,  \* bound: failures of processes and of spawning
    MaxOthers    \* bound: snapshots announced

NoInstance == 0
Absent == "absent"

ASSUME PluginAssumption ==
    /\ Providers \subseteq Plugins /\ External \subseteq Plugins
    /\ IsFiniteSet(Instances) /\ Instances \subseteq Nat \ {NoInstance}
    /\ Absent \notin Versions /\ Versions # {}
    /\ MaxOps \in Nat /\ MaxCrashes \in Nat /\ MaxOthers \in Nat

VARIABLES
    manifests,       \* plugin directory: the manifest of each plugin
    file,            \* config.json: whether it parses, and the switches in it
    handlers,        \* the requests being served
    manager,         \* the manager thread
    entries,         \* its table of managed plugins
    runtime_states,  \* the state shown in the plugin list
    owner,           \* SessionProviderOwnership: plugin -> instance
    active,          \* the active flag of each guard
    registry,        \* ToolSessionRegistry: who wrote the snapshot, who answers details
    bootstraps,      \* the bootstrap thread of each instance and its channel
    readers,         \* the stdout thread of each instance
    bus,             \* what waits in the manager's receiver
    budget           \* what is left of the bounds

vars == <<manifests, file, handlers, manager, entries, runtime_states, owner,
          active, registry, bootstraps, readers, bus, budget>>
threads == <<bootstraps, readers>>
tables == <<owner, active, registry>>
config == <<manifests, file, handlers>>

RuntimeStatuses == {"none", "stopped", "starting", "running", "stopping", "failed"}
NoEntry == [managed |-> FALSE, manifest |-> Absent, child |-> "none",
            backoff |-> FALSE, provider |-> NoInstance]
NoBootstrap == [pc |-> "none", plugin |-> "none", result |-> "empty"]
NoReader == [pc |-> "none", plugin |-> "none"]
Resting == [pc |-> "idle", op |-> "none", plugin |-> "none", copy |-> <<>>]

(***************************************************************************)
(* Instances.                                                              *)
(***************************************************************************)
\* No thread, table or registry refers to the number any more.
Unreferenced(i) ==
    /\ bootstraps[i].pc = "none" /\ readers[i].pc = "none"
    /\ \A p \in Providers : /\ entries[p].provider # i /\ owner[p] # i
                            /\ registry[p].snapshot # i /\ registry[p].detail # i

\* The numbers carry no meaning: the smallest free one is as good as any.
IsNext(i) == Unreferenced(i) /\ \A j \in Instances : Unreferenced(j) => i <= j

owns(i, p) == active[i] /\ owner[p] = i

release_if_current(i, p) ==
    IF owner[p] = i THEN [owner EXCEPT ![p] = NoInstance] ELSE owner

Publish(event) == bus' = [bus EXCEPT ![event] = TRUE]

(***************************************************************************)
(* API handlers.  Every save of config.json reads the whole file, changes  *)
(* its own section and writes the whole file back: open with truncation,   *)
(* then write.  In between, a reader finds a file that does not parse.     *)
(***************************************************************************)
\* import_external_plugin_dir: the old directory goes first.
import_plugin(h, p) ==
    /\ handlers[h].pc = "idle" /\ budget.ops > 0 /\ p \in External
    /\ budget' = [budget EXCEPT !.ops = @ - 1]
    /\ manifests' = [manifests EXCEPT ![p] = Absent]
    /\ handlers' = [handlers EXCEPT ![h] =
           [pc |-> "copy", op |-> "enable", plugin |-> p, copy |-> <<>>]]
    /\ UNCHANGED <<file, manager, entries, runtime_states, tables, threads, bus>>

copy_dir_recursive(h) ==
    /\ handlers[h].pc = "copy"
    /\ \E v \in Versions : manifests' = [manifests EXCEPT ![handlers[h].plugin] = v]
    /\ handlers' = [handlers EXCEPT ![h].pc = "read"]
    /\ UNCHANGED <<file, manager, entries, runtime_states, tables, threads, bus, budget>>

set_plugin_enabled(h, p, op) ==
    /\ handlers[h].pc = "idle" /\ budget.ops > 0 /\ manifests[p] # Absent
    /\ budget' = [budget EXCEPT !.ops = @ - 1]
    /\ handlers' = [handlers EXCEPT ![h] =
           [pc |-> "read", op |-> op, plugin |-> p, copy |-> <<>>]]
    /\ UNCHANGED <<manifests, file, manager, entries, runtime_states, tables, threads, bus>>

\* The other sections of the file (language, remote access) have writers too.
save_language_preference(h) ==
    /\ handlers[h].pc = "idle" /\ budget.ops > 0
    /\ budget' = [budget EXCEPT !.ops = @ - 1]
    /\ handlers' = [handlers EXCEPT ![h] = [Resting EXCEPT !.pc = "read", !.op = "language"]]
    /\ UNCHANGED <<manifests, file, manager, entries, runtime_states, tables, threads, bus>>

\* Reading a file that does not parse ends the request with an error.
read_app_config(h) ==
    /\ handlers[h].pc = "read"
    /\ LET op == handlers[h].op
           p == handlers[h].plugin
       IN handlers' = [handlers EXCEPT ![h] =
              IF file.parses
              THEN [@ EXCEPT !.pc = "truncate",
                             !.copy = IF op = "language" THEN file.enabled
                                      ELSE [file.enabled EXCEPT ![p] = op = "enable"]]
              ELSE Resting]
    /\ UNCHANGED <<manifests, file, manager, entries, runtime_states, tables, threads,
                   bus, budget>>

truncate_app_config(h) ==
    /\ handlers[h].pc = "truncate"
    /\ file' = [file EXCEPT !.parses = FALSE]
    /\ handlers' = [handlers EXCEPT ![h].pc = "write"]
    /\ UNCHANGED <<manifests, manager, entries, runtime_states, tables, threads, bus, budget>>

write_app_config(h) ==
    /\ handlers[h].pc = "write"
    /\ file' = [parses |-> TRUE, enabled |-> handlers[h].copy]
    /\ IF handlers[h].op = "language"
       THEN handlers' = [handlers EXCEPT ![h] = Resting]
       ELSE handlers' = [handlers EXCEPT ![h].pc = "publish"]
    /\ UNCHANGED <<manifests, manager, entries, runtime_states, tables, threads, bus, budget>>

publish_config_changed(h) ==
    /\ handlers[h].pc = "publish"
    /\ Publish("signal")
    /\ handlers' = [handlers EXCEPT ![h] = Resting]
    /\ UNCHANGED <<manifests, file, manager, entries, runtime_states, tables, threads, budget>>

\* The runtime state is forgotten, then the directory is removed.
remove_plugin(h, p) ==
    /\ handlers[h].pc = "idle" /\ budget.ops > 0
    /\ p \in External /\ manifests[p] # Absent
    /\ budget' = [budget EXCEPT !.ops = @ - 1]
    /\ runtime_states' = [runtime_states EXCEPT ![p] = "none"]
    /\ handlers' = [handlers EXCEPT ![h] =
           [pc |-> "unlink", op |-> "remove", plugin |-> p, copy |-> <<>>]]
    /\ UNCHANGED <<manifests, file, manager, entries, tables, threads, bus>>

\* remove_external_plugin looks the plugin up again and fails when it is gone.
remove_external_plugin(h) ==
    /\ handlers[h].pc = "unlink"
    /\ LET p == handlers[h].plugin
       IN /\ manifests' = [manifests EXCEPT ![p] = Absent]
          /\ handlers' = [handlers EXCEPT ![h] =
                 IF manifests[p] = Absent THEN Resting ELSE [@ EXCEPT !.pc = "publish"]]
    /\ UNCHANGED <<file, manager, entries, runtime_states, tables, threads, bus, budget>>

(***************************************************************************)
(* The manager.                                                            *)
(***************************************************************************)
Idle == [pc |-> "wait", found |-> [p \in Plugins |-> Absent], todo |-> {},
         plugin |-> "none", owned |-> FALSE, why |-> "none"]

Current == manager.plugin
Entry == entries[Current]
Goto(pc) == manager' = [manager EXCEPT !.pc = pc]
NextPlugin ==
    manager' = IF manager.todo = {} THEN Idle
               ELSE [Idle EXCEPT !.pc = "next", !.found = manager.found, !.todo = manager.todo]

\* current_plugin_registry reads the manifests once for the whole pass.
reconcile_managed_plugins ==
    LET todo == {p \in Plugins : manifests[p] # Absent \/ entries[p].managed}
    IN manager' = IF todo = {} THEN Idle
                  ELSE [Idle EXCEPT !.pc = "next", !.found = manifests, !.todo = todo]

FirstPass ==
    /\ manager.pc = "start"
    /\ reconcile_managed_plugins
    /\ UNCHANGED <<config, entries, runtime_states, tables, threads, bus, budget>>

\* The timeout starts again with every event received, whatever it is.
wait_for_plugin_reconcile_signal ==
    /\ manager.pc = "wait"
    /\ \/ /\ bus.signal
          /\ reconcile_managed_plugins /\ bus' = [bus EXCEPT !.signal = FALSE]
       \/ /\ bus.other
          /\ bus' = [bus EXCEPT !.other = FALSE] /\ UNCHANGED manager
    /\ UNCHANGED <<config, entries, runtime_states, tables, threads, budget>>

FallbackTimeout ==
    /\ manager.pc = "wait" /\ ~bus.signal /\ ~bus.other
    /\ reconcile_managed_plugins
    /\ UNCHANGED <<config, entries, runtime_states, tables, threads, bus, budget>>

\* The first half of clear_session_provider_runtime: give up the ownership
\* and invalidate the guard.
Release(state, why) ==
    LET p == state.plugin
        i == entries[p].provider
    IN /\ manager' = [state EXCEPT !.pc = "clear", !.why = why,
                                   !.owned = i # NoInstance /\ owner[p] = i]
       /\ IF i = NoInstance THEN UNCHANGED <<owner, active>>
          ELSE /\ owner' = release_if_current(i, p)
               /\ active' = [active EXCEPT ![i] = FALSE]
       /\ UNCHANGED registry

\* Removed plugins first, then the manifests in the order of the registry:
\* built-in plugins, then those of the plugin directory.
NextOf(todo) ==
    LET removed == {p \in todo : manager.found[p] = Absent}
    IN CASE removed # {} -> removed
         [] removed = {} /\ todo \ External # {} -> todo \ External
         [] OTHER -> todo

\* A plugin that is gone, or whose manifest changed, is stopped.
reconcile_managed_plugin_manifest ==
    /\ manager.pc = "next"
    /\ \E p \in NextOf(manager.todo) :
          LET found == manager.found[p]
              taken == [manager EXCEPT !.plugin = p, !.todo = @ \ {p}]
          IN CASE found = Absent -> Release(taken, "removed") /\ UNCHANGED entries
               [] found # Absent /\ entries[p].managed /\ entries[p].manifest # found ->
                    Release(taken, "manifest") /\ UNCHANGED entries
               [] OTHER ->
                    /\ manager' = [taken EXCEPT !.pc = "tick"]
                    /\ entries' = [entries EXCEPT ![p].managed = TRUE, ![p].manifest = found]
                    /\ UNCHANGED tables
    /\ UNCHANGED <<config, runtime_states, threads, bus, budget>>

\* A configuration that cannot be read counts as switched off.
plugin_runtime_enabled(p) == file.parses /\ file.enabled[p]

\* Mutant: a failed bootstrap leaves the process as it is.
bootstrap_failure_ignored ==
    IF Entry.provider = NoInstance \/ bootstraps[Entry.provider].result = "Failed" THEN "empty"
    ELSE bootstraps[Entry.provider].result

\* What the channel of the bootstrap thread holds; a closed one is a failure.
handle_session_provider_bootstrap_result ==
    IF Entry.provider = NoInstance THEN "empty" ELSE bootstraps[Entry.provider].result

Shows(state) == runtime_states' = [runtime_states EXCEPT ![Current] = state]

\* Mutant: every plugin is shown as running once its process is started.
spawn_shows_running ==
    IF Current \in Providers
    THEN \E i \in Instances :
           /\ IsNext(i)
           /\ entries' = [entries EXCEPT ![Current].child = "alive", ![Current].provider = i]
           /\ owner' = [owner EXCEPT ![Current] = i]
           /\ active' = [active EXCEPT ![i] = TRUE]
           /\ registry' = [registry EXCEPT ![Current].detail = i]
           /\ bootstraps' = [bootstraps EXCEPT ![i] =
                  [pc |-> "fetch", plugin |-> Current, result |-> "empty"]]
           /\ readers' = [readers EXCEPT ![i] = [pc |-> "idle", plugin |-> Current]]
           /\ Shows("running")
    ELSE /\ entries' = [entries EXCEPT ![Current].child = "alive"]
         /\ Shows("running")
         /\ UNCHANGED <<tables, threads>>

\* bootstrap_session_provider registers the new guard as the owner, starts
\* the reader, registers the detail client and starts the bootstrap thread.
spawn_plugin_process ==
    IF Current \in Providers
    THEN \E i \in Instances :
           /\ IsNext(i)
           /\ entries' = [entries EXCEPT ![Current].child = "alive", ![Current].provider = i]
           /\ owner' = [owner EXCEPT ![Current] = i]
           /\ active' = [active EXCEPT ![i] = TRUE]
           /\ registry' = [registry EXCEPT ![Current].detail = i]
           /\ bootstraps' = [bootstraps EXCEPT ![i] =
                  [pc |-> "fetch", plugin |-> Current, result |-> "empty"]]
           /\ readers' = [readers EXCEPT ![i] = [pc |-> "idle", plugin |-> Current]]
           /\ Shows("starting")
    ELSE /\ entries' = [entries EXCEPT ![Current].child = "alive"]
         /\ Shows("running")
         /\ UNCHANGED <<tables, threads>>

\* The process is started when the last failure is long enough ago.
StartProcess ==
    /\ ~Entry.backoff
    /\ spawn_plugin_process
    /\ UNCHANGED budget

\* The files could not be written or the process could not be started.
StartFails ==
    /\ ~Entry.backoff /\ budget.crashes > 0
    /\ budget' = [budget EXCEPT !.crashes = @ - 1]
    /\ entries' = [entries EXCEPT ![Current].backoff = TRUE]
    /\ Shows("failed")
    /\ UNCHANGED <<tables, threads>>

\* tick_managed_plugin.  Launch files that cannot be written only matter to
\* a plugin without a process.
tick_managed_plugin ==
    LET result == handle_session_provider_bootstrap_result
    IN /\ manager.pc = "tick"
       /\ CASE ~plugin_runtime_enabled(Current) ->
                 Release(manager, "disabled")
                 /\ UNCHANGED <<runtime_states, entries, threads, budget>>
            [] plugin_runtime_enabled(Current) /\ result \in {"Failed", "closed"} ->
                 Release(manager, "bootstrap")
                 /\ UNCHANGED <<runtime_states, entries, threads, budget>>
            [] plugin_runtime_enabled(Current) /\ result \notin {"Failed", "closed"} ->
                 \/ /\ Entry.child = "exited"
                    /\ Release(manager, "exited")
                    /\ UNCHANGED <<runtime_states, entries, threads, budget>>
                 \/ /\ Entry.child = "alive"
                    /\ IF result = "Ready"
                       THEN bootstraps' = [bootstraps EXCEPT ![Entry.provider].result = "taken"]
                       ELSE UNCHANGED bootstraps
                    /\ IF Current \in Providers /\ result # "Ready"
                       THEN UNCHANGED runtime_states ELSE Shows("running")
                    /\ NextPlugin /\ UNCHANGED <<tables, readers, entries, budget>>
                 \/ /\ Entry.child = "none"
                    /\ \/ StartProcess
                       \/ StartFails
                       \/ Entry.backoff /\ UNCHANGED <<entries, runtime_states, tables,
                                                        threads, budget>>
                    /\ NextPlugin
       /\ UNCHANGED <<config, bus>>

\* An instance that gave up its ownership early is still cleaned up after,
\* unless a newer one owns the tool.
MayClear(owned, p) == owned \/ owner[p] = NoInstance

\* The second half of clear_session_provider_runtime, then what the caller
\* does with the process, the entry and the state shown.
clear_session_provider_runtime ==
    /\ manager.pc = "clear"
    /\ LET p == Current
       IN /\ registry' = IF Entry.provider # NoInstance /\ MayClear(manager.owned, p)
                         THEN [registry EXCEPT ![p] =
                                  [snapshot |-> NoInstance, detail |-> NoInstance]]
                         ELSE registry
          /\ bootstraps' = [i \in Instances |->
                 IF i = Entry.provider /\ bootstraps[i].pc = "none" THEN NoBootstrap
                 ELSE bootstraps[i]]
          /\ entries' = [entries EXCEPT ![p] =
                 CASE manager.why = "removed" -> NoEntry
                   [] manager.why = "manifest" ->
                        [NoEntry EXCEPT !.managed = TRUE, !.manifest = manager.found[p]]
                   [] OTHER ->
                        [@ EXCEPT !.child = "none", !.provider = NoInstance,
                                  !.backoff = manager.why # "disabled"]]
          /\ runtime_states' = [runtime_states EXCEPT ![p] =
                 CASE manager.why \in {"removed", "disabled"} -> "stopped"
                   [] manager.why = "manifest" ->
                        IF Entry.child = "none" THEN @ ELSE "stopping"
                   [] OTHER -> "failed"]
          /\ IF manager.why = "manifest" THEN Goto("tick") ELSE NextPlugin
    /\ UNCHANGED <<config, owner, active, readers, bus, budget>>

(***************************************************************************)
(* The threads of a session provider.  replace_session_provider_snapshot   *)
(* checks the guard and the ownership, and writes the snapshot later.      *)
(***************************************************************************)
Runs(i, p) == entries[p].provider = i /\ entries[p].child = "alive"

\* The result reaches the manager only while its entry keeps the receiver.
Keeps(i) == \E p \in Providers : entries[p].provider = i

Ended(i, result) ==
    IF Keeps(i) THEN [bootstraps[i] EXCEPT !.pc = "none", !.result = result] ELSE NoBootstrap

\* Mutant: a failed bootstrap releases the tool, whoever owns it now.
fetch_snapshot_releases_tool(i) ==
    /\ bootstraps[i].pc = "fetch"
    /\ LET p == bootstraps[i].plugin
       IN \/ /\ bootstraps' = [bootstraps EXCEPT ![i] =
                    IF owns(i, p) THEN [@ EXCEPT !.pc = "checked"] ELSE Ended(i, "closed")]
             /\ UNCHANGED <<owner, active, budget>>
          \/ /\ budget.crashes > 0 \/ ~Runs(i, p)
             /\ budget' = IF Runs(i, p) THEN [budget EXCEPT !.crashes = @ - 1] ELSE budget
             /\ owner' = [owner EXCEPT ![p] = NoInstance]
             /\ active' = [active EXCEPT ![i] = FALSE]
             /\ bootstraps' = [bootstraps EXCEPT ![i].pc = "failing"]
    /\ UNCHANGED <<config, manager, entries, runtime_states, registry, readers, bus>>

\* The answer to session_snapshot: a list, or an error (an error answer, a
\* timeout after 20 s, the wrong tool, a process that is gone).
fetch_snapshot(i) ==
    /\ bootstraps[i].pc = "fetch"
    /\ LET p == bootstraps[i].plugin
       IN \/ /\ bootstraps' = [bootstraps EXCEPT ![i] =
                    IF owns(i, p) THEN [@ EXCEPT !.pc = "checked"]
                                  ELSE Ended(i, "closed")]
             /\ UNCHANGED <<owner, active, budget>>
          \/ /\ budget.crashes > 0 \/ ~Runs(i, p)
             /\ budget' = IF Runs(i, p) THEN [budget EXCEPT !.crashes = @ - 1] ELSE budget
             /\ IF active[i]
                THEN /\ owner' = release_if_current(i, p)
                     /\ active' = [active EXCEPT ![i] = FALSE]
                     /\ bootstraps' = [bootstraps EXCEPT ![i].pc = "failing"]
                ELSE /\ bootstraps' = [bootstraps EXCEPT ![i] = Ended(i, "closed")]
                     /\ UNCHANGED <<owner, active>>
    /\ UNCHANGED <<config, manager, entries, runtime_states, registry, readers, bus>>

SendResult(i, result) ==
    /\ bootstraps' = [bootstraps EXCEPT ![i] = Ended(i, result)]
    /\ IF Keeps(i) THEN Publish("signal") ELSE UNCHANGED bus

write_first_snapshot(i) ==
    /\ bootstraps[i].pc = "checked"
    /\ registry' = [registry EXCEPT ![bootstraps[i].plugin].snapshot = i]
    /\ SendResult(i, "Ready")
    /\ UNCHANGED <<config, manager, entries, runtime_states, owner, active, readers, budget>>

fail_session_provider_bootstrap(i) ==
    /\ bootstraps[i].pc = "failing"
    /\ SendResult(i, "Failed")
    /\ UNCHANGED <<config, manager, entries, runtime_states, tables, readers, budget>>

\* A "session_snapshot_updated" line; some output may be left when the
\* process is gone.
handle_provider_notification(i) ==
    /\ readers[i].pc = "idle" /\ owns(i, readers[i].plugin)
    /\ budget.others > 0
    /\ budget' = [budget EXCEPT !.others = @ - 1]
    /\ readers' = [readers EXCEPT ![i].pc = "checked"]
    /\ UNCHANGED <<config, manager, entries, runtime_states, tables, bootstraps, bus>>

\* The snapshot is announced on the bus.  The events of sessions, approvals
\* and dismissals are to the manager what this one is: nothing to act on.
replace_snapshot(i) ==
    /\ readers[i].pc = "checked"
    /\ registry' = [registry EXCEPT ![readers[i].plugin].snapshot = i]
    /\ readers' = [readers EXCEPT ![i].pc = "idle"]
    /\ Publish("other")
    /\ UNCHANGED <<config, manager, entries, runtime_states, owner, active, bootstraps, budget>>

\* End of the output: the process is gone.
ReaderEnds(i) ==
    /\ readers[i].pc = "idle"
    /\ ~Runs(i, readers[i].plugin)
    /\ readers' = [readers EXCEPT ![i] = NoReader]
    /\ UNCHANGED <<config, manager, entries, runtime_states, tables, bootstraps, bus, budget>>

(***************************************************************************)
(* The environment.                                                        *)
(***************************************************************************)
ProcessExits(p) ==
    /\ entries[p].child = "alive" /\ budget.crashes > 0
    /\ budget' = [budget EXCEPT !.crashes = @ - 1]
    /\ entries' = [entries EXCEPT ![p].child = "exited"]
    /\ UNCHANGED <<config, manager, runtime_states, tables, threads, bus>>

\* Instant::now() reaches next_start (5 or 10 s later).
BackoffOver(p) ==
    /\ entries[p].backoff
    /\ entries' = [entries EXCEPT ![p].backoff = FALSE]
    /\ UNCHANGED <<config, manager, runtime_states, tables, threads, bus, budget>>

(***************************************************************************)
(* The specification.                                                      *)
(***************************************************************************)
Init ==
    /\ manifests \in {f \in [Plugins -> {CHOOSE v \in Versions : TRUE, Absent}] :
                         \A p \in Plugins : f[p] = Absent => p \in External}
    /\ file = [parses |-> TRUE, enabled |-> [p \in Plugins |-> manifests[p] # Absent]]
    /\ handlers = [h \in Handlers |-> Resting]
    /\ manager = [Idle EXCEPT !.pc = "start"]
    /\ entries = [p \in Plugins |-> NoEntry]
    /\ runtime_states = [p \in Plugins |-> "none"]
    /\ owner = [p \in Providers |-> NoInstance]
    /\ active = [i \in Instances |-> FALSE]
    /\ registry = [p \in Providers |-> [snapshot |-> NoInstance, detail |-> NoInstance]]
    /\ bootstraps = [i \in Instances |-> NoBootstrap]
    /\ readers = [i \in Instances |-> NoReader]
    /\ bus = [signal |-> FALSE, other |-> FALSE]
    /\ budget = [ops |-> MaxOps, crashes |-> MaxCrashes, others |-> MaxOthers]

HandlerStep(h) ==
    \/ copy_dir_recursive(h) \/ read_app_config(h) \/ truncate_app_config(h)
    \/ write_app_config(h) \/ publish_config_changed(h) \/ remove_external_plugin(h)

Request(h) ==
    \/ save_language_preference(h)
    \/ \E p \in Plugins : \/ import_plugin(h, p) \/ remove_plugin(h, p)
                          \/ \E op \in {"enable", "disable"} : set_plugin_enabled(h, p, op)

ManagerStep ==
    \/ FirstPass \/ reconcile_managed_plugin_manifest
    \/ tick_managed_plugin \/ clear_session_provider_runtime
    \/ wait_for_plugin_reconcile_signal

BootstrapStep(i) ==
    \/ fetch_snapshot(i) \/ write_first_snapshot(i) \/ fail_session_provider_bootstrap(i)

ReaderStep(i) == replace_snapshot(i) \/ ReaderEnds(i)

Next ==
    \/ \E h \in Handlers : HandlerStep(h) \/ Request(h)
    \/ ManagerStep \/ FallbackTimeout
    \/ \E i \in Instances : 
          BootstrapStep(i) \/ ReaderStep(i) \/ handle_provider_notification(i)
    \/ \E p \in Plugins : ProcessExits(p) \/ BackoffOver(p)

Spec == Init /\ [][Next]_vars

\* Threads run, timers fire.  The 30 s of silence need a silent bus: weak
\* fairness lets FallbackTimeout wait for ever behind other events.
Fairness ==
    /\ WF_vars(ManagerStep) /\ WF_vars(FallbackTimeout)
    /\ \A h \in Handlers : WF_vars(HandlerStep(h))
    /\ \A i \in Instances : WF_vars(BootstrapStep(i)) /\ WF_vars(ReaderStep(i))
    /\ \A p \in Plugins : WF_vars(BackoffOver(p))

FairSpec == Spec /\ Fairness

-----------------------------------------------------------------------------
\* A session provider shown as running has a session list in the registry,
\* and details are asked of its own process: tick_managed_plugin shows
\* "running" only when the bootstrap thread has written and reported, and
\* clears the registry before it shows anything else.  Late threads of older
\* processes must not undo that.
RunningIsServed ==
    \A p \in Providers :
        runtime_states[p] = "running" =>
            /\ registry[p].snapshot # NoInstance
            /\ registry[p].detail = entries[p].provider
            /\ entries[p].provider # NoInstance

\* The ownership of a tool is only taken away from an instance that is
\* invalidated: the failing bootstrap of an old process, or the clean-up
\* after it, never releases the process that replaced it
\* (release_if_current).
OwnershipSurvivesOldThreads ==
    [][\A p \in Providers :
          (owner[p] # NoInstance /\ owner'[p] # owner[p])
              => ~active'[owner[p]]]_vars

Wanted(p) == manifests[p] # Absent /\ plugin_runtime_enabled(p)

RunsCurrent(p) == /\ runtime_states[p] = "running" /\ entries[p].child = "alive"
                  /\ entries[p].manifest = manifests[p]
Stopped(p) == /\ entries[p].child = "none"
              /\ p \in Providers => owner[p] = NoInstance /\ registry[p].detail = NoInstance

\* A plugin that stays installed and enabled ends up running its current
\* manifest, and one that stays switched off or removed ends up without a
\* process, an owner or a detail client, whatever happened before: crashes,
\* failed starts, configuration files read half-written, reimports during a
\* pass of the manager (reconcile, tick_managed_plugin).
SwitchesTakeEffect ==
    \A p \in Plugins : /\ <>[]Wanted(p) => <>[]RunsCurrent(p)
                       /\ <>[]~Wanted(p) => <>[]Stopped(p)
=============================================================================
