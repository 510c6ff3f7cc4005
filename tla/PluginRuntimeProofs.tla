-------------------------- MODULE PluginRuntimeProofs --------------------------
(***************************************************************************)
(* For any number of plugins, requests and instances: a session provider   *)
(* that is shown as running is served by its own process, and the late     *)
(* threads of an old process take the tool from nobody.                    *)
(*                                                                         *)
(* Both need more than they say.  The manager takes the owner away before  *)
(* it clears the rest, so a tool's owner is the instance of its entry or   *)
(* nobody (Owned).  What the registry holds was written by the spawn and   *)
(* by the threads of instances whose numbers no other entry uses (Served), *)
(* and a result is taken once, after its thread has ended (Reported).      *)
(***************************************************************************)
EXTENDS PluginRuntime, TLAPS

Numbers == Instances \cup {NoInstance}

EntryType == [managed : BOOLEAN, manifest : Versions \cup {Absent},
              child : {"none", "alive", "exited"}, backoff : BOOLEAN, provider : Numbers]

BootstrapType == [pc : {"none", "fetch", "checked", "failing"}, plugin : Plugins \cup {"none"},
                  result : {"empty", "Ready", "taken", "Failed", "closed"}]

Reasons == {"none", "removed", "manifest", "disabled", "bootstrap", "exited"}

ManagerType ==
    [pc : {"start", "wait", "next", "tick", "clear"}, found : [Plugins -> Versions \cup {Absent}],
     todo : SUBSET Plugins, plugin : Plugins \cup {"none"}, owned : BOOLEAN, why : Reasons]

ManagerTyped ==
    /\ manager \in ManagerType
    /\ manager.pc \in {"tick", "clear"} => manager.plugin \in Plugins
    /\ manifests \in [Plugins -> Versions \cup {Absent}]

TablesTyped ==
    /\ entries \in [Plugins -> EntryType]
    /\ runtime_states \in [Plugins -> RuntimeStatuses]
    /\ owner \in [Providers -> Numbers] /\ active \in [Instances -> BOOLEAN]
    /\ registry \in [Providers -> [snapshot : Numbers, detail : Numbers]]

ThreadsTyped ==
    /\ bootstraps \in [Instances -> BootstrapType]
    /\ readers \in [Instances -> [pc : {"none", "idle", "checked"}, plugin : Plugins \cup {"none"}]]
    /\ \A i \in Instances : /\ bootstraps[i].pc # "none" => bootstraps[i].plugin \in Providers
                            /\ readers[i].pc # "none" => readers[i].plugin \in Providers

Typed == ManagerTyped /\ TablesTyped /\ ThreadsTyped

Owned ==
    /\ \A p \in Providers : owner[p] \in {NoInstance, entries[p].provider}
    /\ manager.pc = "clear" /\ Current \in Providers => owner[Current] = NoInstance

(* An instance belongs to one entry, which has a process.                  *)
Entered ==
    /\ \A p \in Plugins : entries[p].provider # NoInstance => p \in Providers /\ entries[p].child # "none"
    /\ \A p, q \in Plugins : entries[p].provider = entries[q].provider /\ p # q
                                 => entries[p].provider = NoInstance

Reported ==
    \A i \in Instances : bootstraps[i].pc # "none" =>
        /\ bootstraps[i].result = "empty"
        /\ \A p \in Plugins : entries[p].provider = i => bootstraps[i].plugin = p

Served ==
    \A p \in Providers : entries[p].provider # NoInstance =>
        /\ registry[p].detail = entries[p].provider
        /\ bootstraps[entries[p].provider].result \in {"Ready", "taken"}
               => registry[p].snapshot # NoInstance

Shown ==
    \A p \in Providers : runtime_states[p] = "running" =>
        /\ entries[p].provider # NoInstance
        /\ bootstraps[entries[p].provider].result = "taken"

IInv == Typed /\ Owned /\ Entered /\ Reported /\ Served /\ Shown

(* A tool changes hands only when its old owner is invalidated.            *)
Handover ==
    \A p \in Providers : owner[p] # NoInstance /\ owner'[p] # owner[p] => ~active'[owner[p]]

LEMMA Implied == IInv => RunningIsServed
BY PluginAssumption DEF IInv, Served, Shown, RunningIsServed

(* The manager between two plugins and between two passes.                 *)
LEMMA IdleTyped ==
    ASSUME NEW found \in [Plugins -> Versions \cup {Absent}], NEW todo \in SUBSET Plugins
    PROVE  /\ Idle \in ManagerType /\ Idle.pc = "wait"
           /\ [Idle EXCEPT !.pc = "next", !.found = found, !.todo = todo] \in ManagerType
           /\ [Idle EXCEPT !.pc = "next", !.found = found, !.todo = todo].pc = "next"
<1>1. Idle \in ManagerType /\ Idle.pc = "wait"
  BY DEF Idle, ManagerType, Reasons
<1> QED BY <1>1 DEF ManagerType

LEMMA InitEstablishes == Init => IInv
<1> SUFFICES ASSUME Init PROVE IInv
  OBVIOUS
<1> USE PluginAssumption DEF Init
<1>1. (CHOOSE v \in Versions : TRUE) \in Versions
  OBVIOUS
<1>2. ManagerTyped
  <2>1. manifests \in [Plugins -> Versions \cup {Absent}]
    BY <1>1
  <2> QED BY <2>1 DEF ManagerTyped, ManagerType, Reasons, Idle
<1>3. TablesTyped
  BY DEF TablesTyped, NoEntry, EntryType, Numbers, RuntimeStatuses
<1>4. ThreadsTyped
  BY DEF ThreadsTyped, NoBootstrap, NoReader, BootstrapType
<1>5. Owned /\ Entered /\ Reported /\ Served /\ Shown
  BY DEF Owned, Entered, Reported, Served, Shown, NoEntry, NoBootstrap, Idle
<1> QED BY <1>2, <1>3, <1>4, <1>5 DEF IInv, Typed
-----------------------------------------------------------------------------
(* Requests touch the files, and forget what a removed plugin showed.      *)
LEMMA RequestsKeep ==
    ASSUME IInv, NEW h \in Handlers, HandlerStep(h) \/ Request(h)
    PROVE  IInv' /\ Handover
<1> USE DEF IInv, Typed, Current
<1>1. UNCHANGED <<manager, entries, tables, threads>>
  BY DEF HandlerStep, Request, copy_dir_recursive, read_app_config, truncate_app_config,
         write_app_config, publish_config_changed, remove_external_plugin, save_language_preference,
         import_plugin, remove_plugin, set_plugin_enabled
<1>2. \/ UNCHANGED runtime_states
      \/ \E p \in Plugins : runtime_states' = [runtime_states EXCEPT ![p] = "none"]
  BY DEF HandlerStep, Request, copy_dir_recursive, read_app_config, truncate_app_config,
         write_app_config, publish_config_changed, remove_external_plugin, save_language_preference,
         import_plugin, remove_plugin, set_plugin_enabled
<1>3. \/ UNCHANGED manifests
      \/ \E p, v : v \in Versions \cup {Absent} /\ manifests' = [manifests EXCEPT ![p] = v]
  BY DEF HandlerStep, Request, copy_dir_recursive, read_app_config, truncate_app_config,
         write_app_config, publish_config_changed, remove_external_plugin, save_language_preference,
         import_plugin, remove_plugin, set_plugin_enabled
<1>4. ManagerTyped' /\ TablesTyped' /\ ThreadsTyped'
  <2>1. runtime_states' \in [Plugins -> RuntimeStatuses]
        /\ \A p \in Plugins : runtime_states'[p] = "running" => runtime_states[p] = "running"
    BY <1>2 DEF TablesTyped, RuntimeStatuses
  <2>2. manifests' \in [Plugins -> Versions \cup {Absent}]
    BY <1>3 DEF ManagerTyped
  <2> QED BY <1>1, <2>1, <2>2 DEF ManagerTyped, TablesTyped, ThreadsTyped, tables, threads
<1>5. Owned' /\ Entered' /\ Reported' /\ Served'
  BY <1>1 DEF Owned, Entered, Reported, Served, tables, threads
<1>6. Shown'
  BY <1>1, <1>2, PluginAssumption DEF Shown, TablesTyped, threads
<1>7. Handover
  BY <1>1 DEF Handover, tables
<1> QED BY <1>4, <1>5, <1>6, <1>7

(* A pass begins.                                                          *)
LEMMA PassKeeps ==
    ASSUME IInv, FirstPass \/ wait_for_plugin_reconcile_signal \/ FallbackTimeout
    PROVE  IInv' /\ Handover
<1> USE DEF IInv, Typed, Current
<1>1. UNCHANGED <<manifests, entries, runtime_states, tables, threads>>
      /\ (reconcile_managed_plugins \/ UNCHANGED manager)
  BY DEF FirstPass, wait_for_plugin_reconcile_signal, FallbackTimeout, config
<1>2. ManagerTyped' /\ (manager' = manager \/ manager'.pc # "clear")
  <2> DEFINE todo == {p \in Plugins : manifests[p] # Absent \/ entries[p].managed}
  <2>1. manager' \in {manager, Idle, [Idle EXCEPT !.pc = "next", !.found = manifests, !.todo = todo]}
    BY <1>1 DEF reconcile_managed_plugins
  <2>2. todo \in SUBSET Plugins
    OBVIOUS
  <2> HIDE DEF todo
  <2>3. UNCHANGED manifests /\ manifests \in [Plugins -> Versions \cup {Absent}]
    BY <1>1 DEF ManagerTyped
  <2> QED BY <2>1, <2>2, <2>3, IdleTyped DEF ManagerTyped
<1>3. TablesTyped' /\ ThreadsTyped' /\ Owned' /\ Entered' /\ Reported' /\ Served' /\ Shown'
  BY <1>1, <1>2 DEF TablesTyped, ThreadsTyped, Owned, Entered, Reported, Served, Shown, tables, threads
<1>4. Handover
  BY <1>1 DEF Handover, tables
<1> QED BY <1>2, <1>3, <1>4

(* A process exits, or its back-off is over: the instance stays entered.   *)
LEMMA EntryKeeps ==
    ASSUME IInv, NEW p \in Plugins, ProcessExits(p) \/ BackoffOver(p)
    PROVE  IInv' /\ Handover
<1> USE DEF IInv, Typed, Current
<1>1. UNCHANGED <<manifests, manager, runtime_states, tables, threads>>
  BY DEF ProcessExits, BackoffOver, config
<1>2. \/ entries' = [entries EXCEPT ![p].child = "exited"]
      \/ entries' = [entries EXCEPT ![p].backoff = FALSE]
  BY DEF ProcessExits, BackoffOver
<1>3. entries' \in [Plugins -> EntryType]
      /\ \A q \in Plugins : /\ entries'[q].provider = entries[q].provider
                            /\ entries'[q].child = "none" => entries[q].child = "none"
  <2>1. entries \in [Plugins -> EntryType]
    BY DEF TablesTyped
  <2>2. /\ [entries[p] EXCEPT !.child = "exited"] \in EntryType
        /\ [entries[p] EXCEPT !.backoff = FALSE] \in EntryType
    BY <2>1 DEF EntryType
  <2>3. PICK e \in {[entries[p] EXCEPT !.child = "exited"], [entries[p] EXCEPT !.backoff = FALSE]} :
           entries' = [entries EXCEPT ![p] = e]
    BY <1>2
  <2>4. e \in EntryType /\ e.provider = entries[p].provider
        /\ (e.child = "none" => entries[p].child = "none")
    BY <2>1, <2>2, <2>3 DEF EntryType
  <2> QED BY <2>1, <2>3, <2>4
<1>4. ManagerTyped' /\ TablesTyped' /\ ThreadsTyped'
  BY <1>1, <1>3 DEF ManagerTyped, TablesTyped, ThreadsTyped, tables, threads
<1>5. Owned' /\ Entered' /\ Reported' /\ Served' /\ Shown'
  BY <1>1, <1>3, PluginAssumption DEF Owned, Entered, Reported, Served, Shown, tables, threads
<1>6. Handover
  BY <1>1 DEF Handover, tables
<1> QED BY <1>4, <1>5, <1>6
-----------------------------------------------------------------------------
(* The manager releases the tool: its entry's instance owns it no longer   *)
(* and is invalidated.                                                     *)
LEMMA ReleaseKeeps ==
    ASSUME IInv, NEW state \in ManagerType, state.plugin \in Plugins, NEW why \in Reasons,
           Release(state, why), UNCHANGED <<manifests, entries, runtime_states, threads>>
    PROVE  IInv' /\ Handover
<1> USE DEF IInv, Typed
<1> DEFINE p == state.plugin
           i == entries[p].provider
           owned == i # NoInstance /\ owner[p] = i
<1>1. /\ manager' = [state EXCEPT !.pc = "clear", !.why = why, !.owned = owned]
      /\ IF i = NoInstance THEN UNCHANGED <<owner, active>>
         ELSE /\ owner' = release_if_current(i, p)
              /\ active' = [active EXCEPT ![i] = FALSE]
      /\ UNCHANGED registry
  BY DEF Release
<1>2. p \in Plugins /\ i \in Numbers /\ owned \in BOOLEAN
  BY DEF TablesTyped, EntryType
<1>3. manager' \in ManagerType /\ manager'.pc = "clear" /\ manager'.plugin = p
  BY <1>1, <1>2 DEF ManagerType
<1>4. i # NoInstance => p \in Providers /\ i \in Instances
  BY <1>2 DEF Entered, Numbers
<1>5. /\ owner' \in [Providers -> Numbers] /\ active' \in [Instances -> BOOLEAN]
      /\ \A q \in Providers : owner'[q] = owner[q] \/ (q = p /\ owner'[q] = NoInstance)
      /\ p \in Providers => owner'[p] = NoInstance
      /\ \A q \in Providers : owner'[q] # owner[q] => owner[q] = i /\ ~active'[i]
  <2>1. CASE i = NoInstance
    BY <1>1, <2>1 DEF TablesTyped, Owned
  <2>2. CASE i # NoInstance
    <3>1. owner[p] \in {NoInstance, i}
      BY <1>4, <2>2 DEF Owned
    <3>2. active' = [active EXCEPT ![i] = FALSE]
          /\ owner' \in {owner, [owner EXCEPT ![p] = NoInstance]}
          /\ (owner[p] = i => owner' = [owner EXCEPT ![p] = NoInstance])
          /\ (owner[p] # i => owner' = owner)
      BY <1>1, <2>2 DEF release_if_current
    <3> QED BY <1>4, <2>2, <3>1, <3>2 DEF TablesTyped, Numbers
  <2> QED BY <2>1, <2>2
<1>6. ManagerTyped' /\ TablesTyped' /\ ThreadsTyped'
  BY <1>1, <1>3, <1>5 DEF ManagerTyped, TablesTyped, ThreadsTyped, threads
<1>7. Owned'
  BY <1>3, <1>5 DEF Owned, Current
<1>8. Entered' /\ Reported' /\ Served' /\ Shown'
  BY <1>1 DEF Entered, Reported, Served, Shown, threads
<1>9. Handover
  BY <1>5 DEF Handover
<1> QED BY <1>6, <1>7, <1>8, <1>9

(* A plugin is taken up: stopped if it is gone or changed, entered if not. *)
LEMMA ManifestKeeps ==
    ASSUME IInv, reconcile_managed_plugin_manifest
    PROVE  IInv' /\ Handover
<1> USE DEF IInv, Typed
<1>1. UNCHANGED <<manifests, runtime_states, threads>> /\ manager.pc = "next"
  BY DEF reconcile_managed_plugin_manifest, config
<1>2. PICK p \in NextOf(manager.todo) :
         LET found == manager.found[p]
             taken == [manager EXCEPT !.plugin = p, !.todo = @ \ {p}]
         IN \/ Release(taken, "removed") /\ UNCHANGED entries
            \/ Release(taken, "manifest") /\ UNCHANGED entries
            \/ /\ manager' = [taken EXCEPT !.pc = "tick"]
               /\ entries' = [entries EXCEPT ![p].managed = TRUE, ![p].manifest = found]
               /\ UNCHANGED tables
  BY DEF reconcile_managed_plugin_manifest
<1> DEFINE found == manager.found[p]
           taken == [manager EXCEPT !.plugin = p, !.todo = @ \ {p}]
<1>3. manager \in ManagerType /\ p \in Plugins
  BY DEF NextOf, ManagerTyped, ManagerType
<1>4. /\ taken \in ManagerType /\ taken.plugin = p /\ found \in Versions \cup {Absent}
      /\ [taken EXCEPT !.pc = "tick"] \in ManagerType /\ [taken EXCEPT !.pc = "tick"].pc = "tick"
      /\ [taken EXCEPT !.pc = "tick"].plugin = p
  BY <1>3 DEF ManagerType
<1> HIDE DEF taken, found
<1>5. CASE (Release(taken, "removed") \/ Release(taken, "manifest")) /\ UNCHANGED entries
  BY <1>1, <1>3, <1>4, <1>5, ReleaseKeeps DEF Reasons
<1>6. CASE /\ manager' = [taken EXCEPT !.pc = "tick"]
           /\ entries' = [entries EXCEPT ![p].managed = TRUE, ![p].manifest = found]
           /\ UNCHANGED tables
  <2> DEFINE e == [entries[p] EXCEPT !.managed = TRUE, !.manifest = found]
  <2>1. entries \in [Plugins -> EntryType]
    BY DEF TablesTyped
  <2>2. e \in EntryType /\ e.provider = entries[p].provider /\ e.child = entries[p].child
    BY <1>3, <1>4, <2>1 DEF EntryType
  <2>3. entries' = [entries EXCEPT ![p] = e]
    BY <1>3, <1>6, <2>1
  <2> HIDE DEF e
  <2>4. entries' \in [Plugins -> EntryType]
        /\ \A q \in Plugins : /\ entries'[q].provider = entries[q].provider
                              /\ entries'[q].child = entries[q].child
    BY <1>3, <2>1, <2>2, <2>3
  <2>5. ManagerTyped' /\ TablesTyped' /\ ThreadsTyped'
    BY <1>1, <1>3, <1>4, <1>6, <2>4 DEF ManagerTyped, TablesTyped, ThreadsTyped, tables, threads
  <2>6. Owned' /\ Entered' /\ Reported' /\ Served' /\ Shown'
    BY <1>1, <1>4, <1>6, <2>4, PluginAssumption
       DEF Owned, Entered, Reported, Served, Shown, tables, threads, Current
  <2>7. Handover
    BY <1>6 DEF Handover, tables
  <2> QED BY <2>5, <2>6, <2>7
<1> QED BY <1>2, <1>5, <1>6 DEF taken, found
-----------------------------------------------------------------------------
LEMMA NextTyped ==
    ASSUME ManagerTyped, NextPlugin
    PROVE  manager' \in ManagerType /\ manager'.pc \in {"wait", "next"}
<1>1. manager.found \in [Plugins -> Versions \cup {Absent}] /\ manager.todo \in SUBSET Plugins
  BY DEF ManagerTyped, ManagerType
<1> QED BY <1>1, IdleTyped DEF NextPlugin

(* A new process: its instance is nobody's yet, and neither is the tool.   *)
LEMMA SpawnKeeps ==
    ASSUME IInv, manager.pc = "tick", Entry.child = "none", spawn_plugin_process, NextPlugin,
           UNCHANGED manifests
    PROVE  IInv' /\ Handover
<1> USE DEF IInv, Typed
<1> DEFINE p == manager.plugin
<1>1. p \in Plugins /\ entries[p].child = "none" /\ entries[p].provider = NoInstance
  BY DEF ManagerTyped, Entry, Current, Entered
<1>2. manager' \in ManagerType /\ manager'.pc \in {"wait", "next"}
  BY NextTyped
<1>3. ManagerTyped'
  BY <1>2 DEF ManagerTyped
<1>4. entries \in [Plugins -> EntryType] /\ runtime_states \in [Plugins -> RuntimeStatuses]
  BY DEF TablesTyped
<1>5. CASE p \in Providers
  <2>1. PICK i \in Instances :
           /\ Unreferenced(i)
           /\ entries' = [entries EXCEPT ![p].child = "alive", ![p].provider = i]
           /\ owner' = [owner EXCEPT ![p] = i]
           /\ active' = [active EXCEPT ![i] = TRUE]
           /\ registry' = [registry EXCEPT ![p].detail = i]
           /\ bootstraps' = [bootstraps EXCEPT ![i] =
                  [pc |-> "fetch", plugin |-> p, result |-> "empty"]]
           /\ readers' = [readers EXCEPT ![i] = [pc |-> "idle", plugin |-> p]]
           /\ runtime_states' = [runtime_states EXCEPT ![p] = "starting"]
    BY <1>5 DEF spawn_plugin_process, IsNext, Shows, Current
  <2> DEFINE e == [entries[p] EXCEPT !.child = "alive", !.provider = i]
             b == [pc |-> "fetch", plugin |-> p, result |-> "empty"]
             rd == [pc |-> "idle", plugin |-> p]
             g == [registry[p] EXCEPT !.detail = i]
  <2>2. i \in Numbers /\ i # NoInstance
    BY PluginAssumption DEF Numbers
  <2>3. e \in EntryType /\ e.provider = i /\ e.child = "alive"
    BY <1>1, <1>4, <2>2 DEF EntryType
  <2>4. entries' = [entries EXCEPT ![p] = e] /\ registry' = [registry EXCEPT ![p] = g]
    BY <2>1, <1>1, <1>4, <1>5 DEF TablesTyped
  <2>5. g \in [snapshot : Numbers, detail : Numbers] /\ g.detail = i
    BY <1>5, <2>2 DEF TablesTyped
  <2>6. b \in BootstrapType /\ rd \in [pc : {"none", "idle", "checked"}, plugin : Plugins \cup {"none"}]
    BY <1>1 DEF BootstrapType
  <2>7. b.plugin = p /\ b.result = "empty" /\ rd.plugin = p
    OBVIOUS
  <2> HIDE DEF e, b, rd, g
  <2>8. /\ entries'[p] = e /\ \A q \in Plugins \ {p} : entries'[q] = entries[q]
        /\ entries' \in [Plugins -> EntryType]
    BY <1>1, <1>4, <2>3, <2>4
  <2>9. /\ bootstraps'[i] = b /\ \A j \in Instances \ {i} : bootstraps'[j] = bootstraps[j]
        /\ bootstraps' \in [Instances -> BootstrapType]
    BY <2>1, <2>6 DEF ThreadsTyped, b
  <2>10. /\ registry'[p] = g /\ \A q \in Providers \ {p} : registry'[q] = registry[q]
         /\ registry' \in [Providers -> [snapshot : Numbers, detail : Numbers]]
    BY <1>5, <2>4, <2>5 DEF TablesTyped
  <2>11. /\ owner'[p] = i /\ \A q \in Providers \ {p} : owner'[q] = owner[q]
         /\ owner' \in [Providers -> Numbers]
    BY <1>5, <2>1, <2>2 DEF TablesTyped
  <2>12. /\ runtime_states' \in [Plugins -> RuntimeStatuses]
         /\ runtime_states'[p] = "starting"
         /\ \A q \in Plugins \ {p} : runtime_states'[q] = runtime_states[q]
    BY <1>1, <1>4, <2>1 DEF RuntimeStatuses
  <2>13. TablesTyped'
    BY <2>1, <2>8, <2>10, <2>11, <2>12 DEF TablesTyped
  <2>14. ThreadsTyped'
    <3>1. readers'[i] = rd /\ \A j \in Instances \ {i} : readers'[j] = readers[j]
      BY <2>1 DEF ThreadsTyped, rd
    <3>2. readers' \in [Instances -> [pc : {"none", "idle", "checked"}, plugin : Plugins \cup {"none"}]]
      BY <2>1, <2>6 DEF ThreadsTyped, rd
    <3> QED BY <1>5, <2>7, <2>9, <3>1, <3>2 DEF ThreadsTyped
  <2>15. Owned'
    BY <1>2, <2>3, <2>8, <2>11, PluginAssumption DEF Owned, Current
  <2>16. \A q \in Plugins \ {p} : entries'[q].provider = entries[q].provider /\ entries[q].provider # i
    <3>1. \A q \in Providers : entries[q].provider # i
      BY <2>1 DEF Unreferenced
    <3>2. \A q \in Plugins \ Providers : entries[q].provider # i
      BY <2>2 DEF Entered
    <3> QED BY <2>8, <3>1, <3>2, PluginAssumption
  <2>17. Entered'
    BY <1>5, <2>3, <2>8, <2>16 DEF Entered
  <2>18. Reported'
    BY <2>3, <2>7, <2>8, <2>9, <2>16 DEF Reported
  <2>19. Served'
    <3> SUFFICES ASSUME NEW q \in Providers, entries'[q].provider # NoInstance
                 PROVE  /\ registry'[q].detail = entries'[q].provider
                        /\ bootstraps'[entries'[q].provider].result \in {"Ready", "taken"}
                               => registry'[q].snapshot # NoInstance
      BY DEF Served
    <3>1. CASE q = p
      BY <2>3, <2>5, <2>7, <2>8, <2>9, <2>10, <3>1
    <3>2. CASE q # p
      <4>1. entries'[q].provider = entries[q].provider /\ entries[q].provider \in Instances \ {i}
        BY <1>4, <2>16, <3>2, PluginAssumption DEF EntryType, Numbers
      <4> QED BY <2>9, <2>10, <3>2, <4>1 DEF Served
    <3> QED BY <3>1, <3>2
  <2>20. Shown'
    <3> SUFFICES ASSUME NEW q \in Providers, runtime_states'[q] = "running"
                 PROVE  /\ entries'[q].provider # NoInstance
                        /\ bootstraps'[entries'[q].provider].result = "taken"
      BY DEF Shown
    <3>1. q \in Plugins \ {p} /\ runtime_states[q] = "running"
      BY <2>12, PluginAssumption
    <3>2. entries[q].provider \in Instances \ {i}
      BY <1>4, <2>16, <3>1 DEF EntryType, Numbers, Shown
    <3> QED BY <2>9, <2>16, <3>1, <3>2 DEF Shown
  <2>21. Handover
    BY <1>1, <2>11, PluginAssumption DEF Handover, Owned
  <2> QED BY <1>3, <2>13, <2>14, <2>15, <2>17, <2>18, <2>19, <2>20, <2>21
<1>6. CASE p \notin Providers
  <2> DEFINE e == [entries[p] EXCEPT !.child = "alive"]
  <2>1. entries' = [entries EXCEPT ![p] = e] /\ UNCHANGED <<tables, threads>>
        /\ runtime_states' = [runtime_states EXCEPT ![p] = "running"]
    BY <1>1, <1>4, <1>6 DEF spawn_plugin_process, Shows, Current
  <2>2. e \in EntryType /\ e.provider = NoInstance
    BY <1>1, <1>4 DEF EntryType
  <2> HIDE DEF e
  <2>3. /\ entries' \in [Plugins -> EntryType] /\ entries'[p] = e
        /\ \A q \in Plugins \ {p} : entries'[q] = entries[q]
    BY <1>1, <1>4, <2>1, <2>2
  <2>4. runtime_states' \in [Plugins -> RuntimeStatuses]
        /\ \A q \in Plugins \ {p} : runtime_states'[q] = runtime_states[q]
    BY <1>1, <1>4, <2>1 DEF RuntimeStatuses
  <2>5. TablesTyped' /\ ThreadsTyped'
    BY <2>1, <2>3, <2>4 DEF TablesTyped, ThreadsTyped, tables, threads
  <2>6. Owned' /\ Entered' /\ Reported'
    BY <1>1, <1>2, <1>6, <2>1, <2>2, <2>3, PluginAssumption
       DEF Owned, Entered, Reported, Current, tables, threads
  <2>7. Served' /\ Shown'
    BY <1>6, <2>1, <2>3, <2>4, PluginAssumption DEF Served, Shown, tables, threads
  <2>8. Handover
    BY <2>1 DEF Handover, tables
  <2> QED BY <1>3, <2>5, <2>6, <2>7, <2>8
<1> QED BY <1>5, <1>6

(* The visit of a plugin whose process runs: a result is taken, and what   *)
(* is shown as running then is served.                                     *)
LEMMA AliveKeeps ==
    ASSUME IInv, manager.pc = "tick", NextPlugin, UNCHANGED <<manifests, tables, readers, entries>>,
           LET result == handle_session_provider_bootstrap_result
           IN /\ IF result = "Ready"
                 THEN bootstraps' = [bootstraps EXCEPT ![Entry.provider].result = "taken"]
                 ELSE UNCHANGED bootstraps
              /\ IF Current \in Providers /\ result # "Ready"
                 THEN UNCHANGED runtime_states ELSE Shows("running")
    PROVE  IInv' /\ Handover
<1> USE DEF IInv, Typed
<1> DEFINE p == manager.plugin
           i == entries[p].provider
           ready == i # NoInstance /\ bootstraps[i].result = "Ready"
<1>1. p \in Plugins /\ i \in Numbers
  BY DEF ManagerTyped, TablesTyped, EntryType
<1>2. /\ ready => bootstraps' = [bootstraps EXCEPT ![i].result = "taken"]
      /\ ~ready => UNCHANGED bootstraps
      /\ p \in Providers /\ ~ready => UNCHANGED runtime_states
      /\ runtime_states' = runtime_states \/ runtime_states' = [runtime_states EXCEPT ![p] = "running"]
  BY DEF handle_session_provider_bootstrap_result, Entry, Current, Shows
<1>3. /\ ready => p \in Providers /\ i \in Instances
      /\ ready => bootstraps[i].pc = "none"
  <2>1. ready => p \in Providers /\ i \in Instances
    BY <1>1 DEF Entered, Numbers
  <2> QED BY <2>1 DEF Reported
<1>4. /\ bootstraps' \in [Instances -> BootstrapType]
      /\ \A j \in Instances : /\ bootstraps'[j].pc = bootstraps[j].pc
                              /\ bootstraps'[j].plugin = bootstraps[j].plugin
                              /\ bootstraps'[j].result = bootstraps[j].result
                                    \/ (j = i /\ ready /\ bootstraps'[j].result = "taken")
      /\ ready => bootstraps'[i].result = "taken"
  <2>1. CASE ready
    <3> DEFINE b == [bootstraps[i] EXCEPT !.result = "taken"]
    <3>1. bootstraps[i] \in BootstrapType
      BY <1>3, <2>1 DEF ThreadsTyped
    <3>2. /\ b \in BootstrapType /\ b.pc = bootstraps[i].pc /\ b.plugin = bootstraps[i].plugin
          /\ b.result = "taken"
      BY <3>1 DEF BootstrapType
    <3>3. bootstraps' = [bootstraps EXCEPT ![i] = b]
      BY <1>2, <2>1
    <3> HIDE DEF b
    <3> QED BY <1>3, <2>1, <3>2, <3>3 DEF ThreadsTyped
  <2>2. CASE ~ready
    BY <1>2, <2>2 DEF ThreadsTyped
  <2> QED BY <2>1, <2>2
<1>5. runtime_states' \in [Plugins -> RuntimeStatuses]
      /\ \A q \in Plugins \ {p} : runtime_states'[q] = runtime_states[q]
  BY <1>1, <1>2 DEF TablesTyped, RuntimeStatuses
<1>6. manager' \in ManagerType /\ manager'.pc \in {"wait", "next"}
  BY NextTyped
<1> HIDE DEF ready
<1>7. ManagerTyped' /\ TablesTyped' /\ ThreadsTyped'
  BY <1>4, <1>5, <1>6 DEF ManagerTyped, TablesTyped, ThreadsTyped, tables
<1>8. Owned' /\ Entered'
  BY <1>6 DEF Owned, Entered, Current, tables
<1>9. Reported'
  BY <1>3, <1>4 DEF Reported
<1>10. \A q \in Providers : entries[q].provider # NoInstance => entries[q].provider \in Instances
  BY PluginAssumption DEF TablesTyped, EntryType, Numbers
<1>11. Served'
  <2> SUFFICES ASSUME NEW q \in Providers, entries[q].provider # NoInstance
               PROVE  /\ registry[q].detail = entries[q].provider
                      /\ bootstraps'[entries[q].provider].result \in {"Ready", "taken"}
                             => registry[q].snapshot # NoInstance
    BY DEF Served, tables
  <2> DEFINE j == entries[q].provider
  <2>1. bootstraps'[j].result = bootstraps[j].result \/ (j = i /\ ready)
    BY <1>4, <1>10
  <2>2. j = i /\ ready => bootstraps[j].result = "Ready"
    BY DEF ready
  <2> QED BY <2>1, <2>2 DEF Served
<1>12. Shown'
  <2> SUFFICES ASSUME NEW q \in Providers, runtime_states'[q] = "running"
               PROVE  /\ entries[q].provider # NoInstance
                      /\ bootstraps'[entries[q].provider].result = "taken"
    BY DEF Shown
  <2>1. CASE runtime_states[q] = "running"
    BY <1>4, <1>10, <2>1 DEF Shown
  <2>2. CASE runtime_states[q] # "running"
    <3>1. q = p /\ ready
      BY <1>2, <1>5, <2>2, PluginAssumption
    <3> QED BY <1>4, <3>1 DEF ready
  <2> QED BY <2>1, <2>2
<1>13. Handover
  BY DEF Handover, tables
<1> QED BY <1>7, <1>8, <1>9, <1>11, <1>12, <1>13

LEMMA TickKeeps ==
    ASSUME IInv, tick_managed_plugin
    PROVE  IInv' /\ Handover
<1> DEFINE result == handle_session_provider_bootstrap_result
<1>1. manager.pc = "tick" /\ UNCHANGED <<manifests, bus>>
  BY DEF tick_managed_plugin, config
<1>2. manager \in ManagerType /\ manager.plugin \in Plugins /\ entries \in [Plugins -> EntryType]
  BY <1>1 DEF IInv, Typed, ManagerTyped, TablesTyped
<1>3. CASE /\ \E why \in {"disabled", "bootstrap", "exited"} : Release(manager, why)
           /\ UNCHANGED <<runtime_states, entries, threads>>
  BY <1>1, <1>2, <1>3, ReleaseKeeps DEF Reasons
<1>4. CASE /\ IF result = "Ready"
              THEN bootstraps' = [bootstraps EXCEPT ![Entry.provider].result = "taken"]
              ELSE UNCHANGED bootstraps
           /\ IF Current \in Providers /\ result # "Ready"
              THEN UNCHANGED runtime_states ELSE Shows("running")
           /\ NextPlugin /\ UNCHANGED <<tables, readers, entries, budget>>
  BY <1>1, <1>4, AliveKeeps
<1>5. CASE Entry.child = "none" /\ StartProcess /\ NextPlugin
  BY <1>1, <1>5, SpawnKeeps DEF StartProcess
<1>6. CASE Entry.child = "none" /\ StartFails /\ NextPlugin
  <2> USE DEF IInv, Typed
  <2> DEFINE p == manager.plugin
             e == [entries[p] EXCEPT !.backoff = TRUE]
  <2>1. /\ entries' = [entries EXCEPT ![p] = e] /\ UNCHANGED <<tables, threads>>
        /\ runtime_states' = [runtime_states EXCEPT ![p] = "failed"]
    BY <1>2, <1>6 DEF StartFails, Shows, Current
  <2>2. e \in EntryType /\ e.provider = entries[p].provider /\ e.child = entries[p].child
    BY <1>2 DEF EntryType
  <2> HIDE DEF e
  <2>3. /\ entries' \in [Plugins -> EntryType]
        /\ \A q \in Plugins : /\ entries'[q].provider = entries[q].provider
                              /\ entries'[q].child = entries[q].child
    BY <1>2, <2>1, <2>2
  <2>4. runtime_states' \in [Plugins -> RuntimeStatuses]
        /\ \A q \in Plugins : runtime_states'[q] = "running" => runtime_states[q] = "running"
    BY <1>2, <2>1 DEF TablesTyped, RuntimeStatuses
  <2>5. manager' \in ManagerType /\ manager'.pc \in {"wait", "next"}
    BY <1>6, NextTyped
  <2>6. ManagerTyped' /\ TablesTyped' /\ ThreadsTyped'
    BY <1>1, <2>1, <2>3, <2>4, <2>5 DEF ManagerTyped, TablesTyped, ThreadsTyped, tables, threads
  <2>7. Owned' /\ Entered' /\ Reported' /\ Served' /\ Shown'
    BY <2>1, <2>3, <2>4, <2>5, PluginAssumption
       DEF Owned, Entered, Reported, Served, Shown, Current, tables, threads
  <2>8. Handover
    BY <2>1 DEF Handover, tables
  <2> QED BY <2>6, <2>7, <2>8
<1>7. CASE UNCHANGED <<entries, runtime_states, tables, threads>> /\ NextPlugin
  <2> USE DEF IInv, Typed
  <2>1. manager' \in ManagerType /\ manager'.pc \in {"wait", "next"}
    BY <1>7, NextTyped
  <2>2. ManagerTyped' /\ TablesTyped' /\ ThreadsTyped'
    BY <1>1, <1>7, <2>1 DEF ManagerTyped, TablesTyped, ThreadsTyped, tables, threads
  <2>3. Owned' /\ Entered' /\ Reported' /\ Served' /\ Shown'
    BY <1>7, <2>1 DEF Owned, Entered, Reported, Served, Shown, Current, tables, threads
  <2>4. Handover
    BY <1>7 DEF Handover, tables
  <2> QED BY <2>2, <2>3, <2>4
<1> HIDE DEF result
<1> QED BY <1>3, <1>4, <1>5, <1>6, <1>7 DEF tick_managed_plugin, result

(* The clean-up after a release: nothing of the entry's instance stays     *)
(* behind, and nothing of another entry's goes.                            *)
LEMMA ClearKeeps ==
    ASSUME IInv, clear_session_provider_runtime
    PROVE  IInv' /\ Handover
<1> USE DEF IInv, Typed
<1> DEFINE p == manager.plugin
           i == entries[p].provider
           e == entries'[p]
<1>1. /\ manager.pc = "clear" /\ UNCHANGED <<manifests, owner, active, readers>>
      /\ registry' \in {registry, [registry EXCEPT ![p] = [snapshot |-> NoInstance, detail |-> NoInstance]]}
      /\ bootstraps' = [j \in Instances |-> IF j = i /\ bootstraps[j].pc = "none" THEN NoBootstrap
                                            ELSE bootstraps[j]]
      /\ \/ manager.why = "manifest" /\ manager' = [manager EXCEPT !.pc = "tick"]
         \/ NextPlugin
  BY DEF clear_session_provider_runtime, config, Current, Entry, Goto
<1>2. manager \in ManagerType /\ p \in Plugins /\ entries \in [Plugins -> EntryType]
      /\ runtime_states \in [Plugins -> RuntimeStatuses]
  BY <1>1 DEF ManagerTyped, TablesTyped
<1>3. manager' \in ManagerType /\ manager'.pc \in {"tick", "wait", "next"}
      /\ (manager'.pc = "tick" => manager'.plugin = p)
  <2>1. CASE NextPlugin
    BY <2>1, NextTyped
  <2>2. CASE manager' = [manager EXCEPT !.pc = "tick"]
    BY <1>2, <2>2 DEF ManagerType
  <2> QED BY <1>1, <2>1, <2>2
<1>4. /\ entries' \in [Plugins -> EntryType] /\ e.provider = NoInstance
      /\ \A q \in Plugins \ {p} : entries'[q] = entries[q]
  <2> DEFINE c == CASE manager.why = "removed" -> NoEntry
                    [] manager.why = "manifest" ->
                         [NoEntry EXCEPT !.managed = TRUE, !.manifest = manager.found[p]]
                    [] OTHER ->
                         [entries[p] EXCEPT !.child = "none", !.provider = NoInstance,
                                            !.backoff = manager.why # "disabled"]
  <2>1. entries' = [entries EXCEPT ![p] = c]
    BY <1>2 DEF clear_session_provider_runtime, Current
  <2>2. NoEntry \in EntryType /\ NoEntry.provider = NoInstance
    BY DEF NoEntry, EntryType, Numbers
  <2>3. manager.found[p] \in Versions \cup {Absent} /\ entries[p] \in EntryType
    BY <1>2 DEF ManagerType
  <2>4. [NoEntry EXCEPT !.managed = TRUE, !.manifest = manager.found[p]] \in EntryType
        /\ [NoEntry EXCEPT !.managed = TRUE, !.manifest = manager.found[p]].provider = NoInstance
    BY <2>2, <2>3 DEF EntryType
  <2>5. \A backoff \in BOOLEAN :
           LET stopped == [entries[p] EXCEPT !.child = "none", !.provider = NoInstance,
                                             !.backoff = backoff]
           IN stopped \in EntryType /\ stopped.provider = NoInstance
    BY <2>3 DEF EntryType, Numbers
  <2>6. (manager.why # "disabled") \in BOOLEAN
    OBVIOUS
  <2>7. c \in EntryType /\ c.provider = NoInstance
    BY <2>2, <2>4, <2>5, <2>6
  <2> HIDE DEF c
  <2> QED BY <1>2, <2>1, <2>7
<1>5. /\ runtime_states' \in [Plugins -> RuntimeStatuses]
      /\ \A q \in Plugins \ {p} : runtime_states'[q] = runtime_states[q]
      /\ p \in Providers => runtime_states'[p] # "running"
  <2> DEFINE s == CASE manager.why \in {"removed", "disabled"} -> "stopped"
                    [] manager.why = "manifest" ->
                         IF entries[p].child = "none" THEN runtime_states[p] ELSE "stopping"
                    [] OTHER -> "failed"
  <2>1. runtime_states' = [runtime_states EXCEPT ![p] = s]
    BY <1>2 DEF clear_session_provider_runtime, Current, Entry
  <2>2. s \in {"stopped", "stopping", "failed"} \/ (entries[p].child = "none" /\ s = runtime_states[p])
    OBVIOUS
  <2> HIDE DEF s
  <2>3. s \in RuntimeStatuses
    BY <1>2, <2>2 DEF RuntimeStatuses
  <2>4. p \in Providers => s # "running"
    BY <1>2, <2>2 DEF Shown, Entered
  <2> QED BY <1>2, <2>1, <2>3, <2>4
<1>6. /\ registry' \in [Providers -> [snapshot : Numbers, detail : Numbers]]
      /\ \A q \in Providers \ {p} : registry'[q] = registry[q]
  BY <1>1 DEF TablesTyped, Numbers
<1>7. /\ bootstraps' \in [Instances -> BootstrapType]
      /\ \A j \in Instances : bootstraps'[j].pc = bootstraps[j].pc
      /\ \A j \in Instances : bootstraps[j].pc # "none" \/ j # i => bootstraps'[j] = bootstraps[j]
  <2>1. NoBootstrap \in BootstrapType /\ NoBootstrap.pc = "none"
    BY DEF NoBootstrap, BootstrapType
  <2> QED BY <1>1, <2>1 DEF ThreadsTyped
<1> HIDE DEF e
<1>8. ManagerTyped' /\ TablesTyped' /\ ThreadsTyped'
  <2>1. ManagerTyped'
    BY <1>1, <1>2, <1>3 DEF ManagerTyped
  <2>2. TablesTyped'
    BY <1>1, <1>4, <1>5, <1>6 DEF TablesTyped
  <2>3. ThreadsTyped'
    BY <1>1, <1>7 DEF ThreadsTyped
  <2> QED BY <2>1, <2>2, <2>3
<1>9. Owned'
  BY <1>1, <1>3, <1>4, PluginAssumption DEF Owned, Current, e
<1>10. Entered'
  BY <1>4 DEF Entered, e
<1>11. Reported'
  BY <1>4, <1>7, PluginAssumption DEF Reported, e
<1>12. \A q \in Providers \ {p} : entries'[q] = entries[q]
          /\ (entries[q].provider # NoInstance =>
                 entries[q].provider \in Instances
                 /\ bootstraps'[entries[q].provider] = bootstraps[entries[q].provider])
  <2> TAKE q \in Providers \ {p}
  <2>1. q \in Plugins /\ entries'[q] = entries[q]
    BY <1>4, PluginAssumption
  <2>2. entries[q].provider # NoInstance => entries[q].provider \in Instances /\ entries[q].provider # i
    BY <1>2, <2>1 DEF Entered, EntryType, Numbers
  <2> QED BY <1>7, <2>1, <2>2
<1>13. Served'
  BY <1>4, <1>6, <1>12 DEF Served, e
<1>14. Shown'
  BY <1>4, <1>5, <1>12, PluginAssumption DEF Shown, e
<1>15. Handover
  BY <1>1 DEF Handover
<1> QED BY <1>8, <1>9, <1>10, <1>11, <1>13, <1>14, <1>15
-----------------------------------------------------------------------------
(* A bootstrap thread goes on or ends: it writes its own slot, may give up *)
(* its own ownership, and reports "Ready" once the snapshot is written.    *)
LEMMA BootstrapKeeps ==
    ASSUME IInv, NEW i \in Instances, NEW b \in BootstrapType,
           bootstraps[i].pc # "none", bootstraps' = [bootstraps EXCEPT ![i] = b],
           b.pc # "none" => b.plugin = bootstraps[i].plugin /\ b.result = "empty",
           b.result # "taken",
           UNCHANGED <<manifests, manager, entries, runtime_states, readers>>,
           \/ UNCHANGED <<owner, active>>
           \/ /\ owner' = release_if_current(i, bootstraps[i].plugin)
              /\ active' = [active EXCEPT ![i] = FALSE],
           \/ UNCHANGED registry /\ b.result # "Ready"
           \/ registry' = [registry EXCEPT ![bootstraps[i].plugin].snapshot = i]
    PROVE  IInv' /\ Handover
<1> USE DEF IInv, Typed, Current
<1> DEFINE p == bootstraps[i].plugin
<1>1. p \in Providers /\ p \in Plugins /\ i # NoInstance /\ i \in Numbers
      /\ bootstraps[i].result = "empty"
  BY PluginAssumption DEF ThreadsTyped, Reported, Numbers
<1>2. /\ owner' \in [Providers -> Numbers] /\ active' \in [Instances -> BOOLEAN]
      /\ \A q \in Providers : owner'[q] = owner[q] \/ owner'[q] = NoInstance
      /\ \A q \in Providers : owner'[q] # owner[q] => owner[q] = i /\ ~active'[i]
  BY <1>1 DEF release_if_current, TablesTyped, Numbers
<1>3. /\ registry' \in [Providers -> [snapshot : Numbers, detail : Numbers]]
      /\ \A q \in Providers : /\ registry'[q].detail = registry[q].detail
                              /\ registry[q].snapshot # NoInstance => registry'[q].snapshot # NoInstance
      /\ b.result = "Ready" => registry'[p].snapshot # NoInstance
  BY <1>1 DEF TablesTyped, Numbers
<1>4. /\ bootstraps' \in [Instances -> BootstrapType] /\ bootstraps'[i] = b
      /\ \A j \in Instances \ {i} : bootstraps'[j] = bootstraps[j]
  BY DEF ThreadsTyped
<1>5. ManagerTyped' /\ TablesTyped' /\ ThreadsTyped'
  <2>1. TablesTyped'
    BY <1>2, <1>3 DEF TablesTyped
  <2>2. ThreadsTyped'
    BY <1>1, <1>4 DEF ThreadsTyped
  <2> QED BY <2>1, <2>2 DEF ManagerTyped
<1>6. Owned' /\ Entered' /\ Reported'
  <2>1. Owned'
    BY <1>2, PluginAssumption DEF Owned
  <2>2. Reported'
    BY <1>4 DEF Reported
  <2> QED BY <2>1, <2>2 DEF Entered
<1>7. \A q \in Providers : entries[q].provider # NoInstance => q \in Plugins /\ entries[q].provider \in Instances
  BY PluginAssumption DEF TablesTyped, EntryType, Numbers
<1>8. Served'
  <2> SUFFICES ASSUME NEW q \in Providers, entries[q].provider # NoInstance
               PROVE  /\ registry'[q].detail = entries[q].provider
                      /\ bootstraps'[entries[q].provider].result \in {"Ready", "taken"}
                             => registry'[q].snapshot # NoInstance
    BY DEF Served
  <2>1. CASE entries[q].provider = i
    BY <1>3, <1>4, <1>7, <2>1 DEF Served, Reported
  <2>2. CASE entries[q].provider # i
    BY <1>3, <1>4, <1>7, <2>2 DEF Served
  <2> QED BY <2>1, <2>2
<1>9. Shown'
  BY <1>1, <1>4, <1>7 DEF Shown
<1>10. Handover
  BY <1>2 DEF Handover
<1> QED BY <1>5, <1>6, <1>8, <1>9, <1>10

(* What a thread leaves in its slot when it ends.                          *)
LEMMA EndedTyped ==
    ASSUME IInv, NEW i \in Instances, NEW result \in {"Ready", "Failed", "closed"}
    PROVE  /\ Ended(i, result) \in BootstrapType /\ Ended(i, result).pc = "none"
           /\ Ended(i, result).result \in {"empty", result}
BY DEF IInv, Typed, ThreadsTyped, Ended, NoBootstrap, BootstrapType

LEMMA BootstrapStepKeeps ==
    ASSUME IInv, NEW i \in Instances, BootstrapStep(i)
    PROVE  IInv' /\ Handover
<1> DEFINE b == bootstraps'[i]
<1>1. bootstraps \in [Instances -> BootstrapType] /\ bootstraps[i].pc # "none"
      /\ bootstraps[i].result = "empty"
  BY DEF IInv, Typed, ThreadsTyped, Reported, BootstrapStep, fetch_snapshot, write_first_snapshot,
         fail_session_provider_bootstrap
<1>2. UNCHANGED <<manifests, manager, entries, runtime_states, readers>>
  BY DEF BootstrapStep, fetch_snapshot, write_first_snapshot, fail_session_provider_bootstrap, config
<1>3. \A pc \in {"checked", "failing"} :
         LET c == [bootstraps[i] EXCEPT !.pc = pc]
         IN c \in BootstrapType /\ c.plugin = bootstraps[i].plugin /\ c.result = "empty"
  BY <1>1 DEF BootstrapType
<1>4. CASE fetch_snapshot(i)
  <2>1. PICK c \in {Ended(i, "closed"), [bootstraps[i] EXCEPT !.pc = "checked"],
                    [bootstraps[i] EXCEPT !.pc = "failing"]} :
           bootstraps' = [bootstraps EXCEPT ![i] = c]
    BY <1>4 DEF fetch_snapshot
  <2>2. c \in BootstrapType /\ (c.pc # "none" => c.plugin = bootstraps[i].plugin /\ c.result = "empty")
        /\ c.result \notin {"taken", "Ready"}
    BY <1>3, <2>1, EndedTyped
  <2>3. /\ \/ UNCHANGED <<owner, active>>
           \/ /\ owner' = release_if_current(i, bootstraps[i].plugin)
              /\ active' = [active EXCEPT ![i] = FALSE]
        /\ UNCHANGED registry
    BY <1>4 DEF fetch_snapshot
  <2> QED BY <1>1, <1>2, <2>1, <2>2, <2>3, BootstrapKeeps
<1>5. CASE write_first_snapshot(i)
  <2>1. /\ bootstraps' = [bootstraps EXCEPT ![i] = Ended(i, "Ready")] /\ UNCHANGED <<owner, active>>
        /\ registry' = [registry EXCEPT ![bootstraps[i].plugin].snapshot = i]
    BY <1>5 DEF write_first_snapshot, SendResult
  <2>2. Ended(i, "Ready") \in BootstrapType /\ Ended(i, "Ready").pc = "none"
        /\ Ended(i, "Ready").result # "taken"
    BY EndedTyped
  <2> QED BY <1>1, <1>2, <2>1, <2>2, BootstrapKeeps
<1>6. CASE fail_session_provider_bootstrap(i)
  <2>1. bootstraps' = [bootstraps EXCEPT ![i] = Ended(i, "Failed")] /\ UNCHANGED <<owner, active, registry>>
    BY <1>6 DEF fail_session_provider_bootstrap, SendResult, tables
  <2>2. Ended(i, "Failed") \in BootstrapType /\ Ended(i, "Failed").pc = "none"
        /\ Ended(i, "Failed").result \notin {"taken", "Ready"}
    BY EndedTyped
  <2> QED BY <1>1, <1>2, <2>1, <2>2, BootstrapKeeps
<1> QED BY <1>4, <1>5, <1>6 DEF BootstrapStep

(* A reader may replace a snapshot, never take one away.                   *)
LEMMA ReaderKeeps ==
    ASSUME IInv, NEW i \in Instances, ReaderStep(i) \/ handle_provider_notification(i)
    PROVE  IInv' /\ Handover
<1> USE DEF IInv, Typed, Current
<1>1. UNCHANGED <<manifests, manager, entries, runtime_states, owner, active, bootstraps>>
  BY DEF ReaderStep, replace_snapshot, ReaderEnds, handle_provider_notification, config, tables
<1>2. readers[i].plugin \in Providers /\ i # NoInstance /\ i \in Numbers
  BY PluginAssumption DEF ReaderStep, replace_snapshot, ReaderEnds, handle_provider_notification,
     ThreadsTyped, Numbers
<1>3. \/ readers' = [readers EXCEPT ![i].pc = "checked"] \/ readers' = [readers EXCEPT ![i].pc = "idle"]
      \/ readers' = [readers EXCEPT ![i] = NoReader]
  BY DEF ReaderStep, replace_snapshot, ReaderEnds, handle_provider_notification
<1>4. UNCHANGED registry \/ registry' = [registry EXCEPT ![readers[i].plugin].snapshot = i]
  BY DEF ReaderStep, replace_snapshot, ReaderEnds, handle_provider_notification, tables
<1>5. /\ registry' \in [Providers -> [snapshot : Numbers, detail : Numbers]]
      /\ \A q \in Providers : /\ registry'[q].detail = registry[q].detail
                              /\ registry[q].snapshot # NoInstance => registry'[q].snapshot # NoInstance
  BY <1>2, <1>4 DEF TablesTyped, Numbers
<1>6. ThreadsTyped'
  BY <1>1, <1>2, <1>3 DEF ThreadsTyped, NoReader
<1>7. ManagerTyped' /\ TablesTyped' /\ Owned' /\ Entered' /\ Reported' /\ Shown'
  BY <1>1, <1>5 DEF ManagerTyped, TablesTyped, Owned, Entered, Reported, Shown
<1>8. Served'
  BY <1>1, <1>5 DEF Served
<1>9. Handover
  BY <1>1 DEF Handover
<1> QED BY <1>6, <1>7, <1>8, <1>9
-----------------------------------------------------------------------------
LEMMA StepKeeps == IInv /\ [Next]_vars => IInv' /\ (Handover \/ UNCHANGED vars)
<1> SUFFICES ASSUME IInv, [Next]_vars PROVE IInv' /\ (Handover \/ UNCHANGED vars)
  OBVIOUS
<1>1. CASE UNCHANGED vars
  BY <1>1 DEF vars, config, tables, threads, IInv, Typed, ManagerTyped, TablesTyped, ThreadsTyped,
     Owned, Entered, Reported, Served, Shown, Current
<1>2. CASE ManagerStep \/ FallbackTimeout
  BY <1>2, PassKeeps, ManifestKeeps, TickKeeps, ClearKeeps DEF ManagerStep
<1>3. CASE \E h \in Handlers : HandlerStep(h) \/ Request(h)
  BY <1>3, RequestsKeep
<1>4. CASE \E i \in Instances : BootstrapStep(i) \/ ReaderStep(i) \/ handle_provider_notification(i)
  BY <1>4, BootstrapStepKeeps, ReaderKeeps
<1>5. CASE \E p \in Plugins : ProcessExits(p) \/ BackoffOver(p)
  BY <1>5, EntryKeeps
<1> QED BY <1>1, <1>2, <1>3, <1>4, <1>5 DEF Next

LEMMA Inductive == Spec => []IInv
<1>1. IInv /\ [Next]_vars => IInv'
  BY StepKeeps
<1> QED BY <1>1, InitEstablishes, PTL DEF Spec

(* A session provider shown as running has a snapshot in the registry and  *)
(* answers details itself, whatever the threads of older processes do.     *)
THEOREM RunningProvidersAreServed == Spec => []RunningIsServed
BY Inductive, Implied, PTL

(* Nobody loses a tool without being invalidated: not to the failing       *)
(* bootstrap of an old process, not to the clean-up after it.              *)
THEOREM OwnersAreInvalidated == Spec => OwnershipSurvivesOldThreads
<1>1. IInv /\ [Next]_vars => [\A p \in Providers :
          (owner[p] # NoInstance /\ owner'[p] # owner[p]) => ~active'[owner[p]]]_vars
  BY StepKeeps DEF Handover
<1> QED BY <1>1, Inductive, PTL DEF Spec, OwnershipSurvivesOldThreads
=============================================================================
