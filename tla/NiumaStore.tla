----------------------------- MODULE NiumaStore -----------------------------
(***************************************************************************)
(* The in-memory store of niuma-core (crates/niuma-core/src/store.rs): the *)
(* RuntimeState behind one mutex, written by the Local API handlers, the   *)
(* stale sweeper thread and the UI commands.                               *)
(*                                                                         *)
(* An append holds the mutex for a whole batch of events: BeginAppend takes*)
(* it, AppendEvent is one turn of the loop, EndAppend trims the cache and  *)
(* releases.  A batch is any sequence of submitted events, repetitions     *)
(* included; an event the loop skips (already applied, or late activity of *)
(* a finished session) leaves everything as it is, which is a stuttering   *)
(* step.  The sweep works the same way on the events it made from the      *)
(* sessions that were stale when it took the mutex.  Approval requests, the*)
(* other part of StoredState, are the subject of module ApprovalFlow.      *)
(***************************************************************************)
EXTENDS SharedStore

CONSTANT MaxPublicEventCacheSize

VARIABLES
    public_events,  \* RuntimeState.public_events (the order is computed when it is trimmed)
    holder,         \* who holds the mutex: "free", "append" or "sweep"
    stale_events    \* the sweep's events that are still to be applied

vars == <<state, public_events, dedupe_keys, holder, stale_events, now>>

ASSUME CacheAssumption == MaxPublicEventCacheSize \in Nat

-----------------------------------------------------------------------------
is_public_event(e) == e.type \notin {"SessionActivity", "SessionStaled"}

(* Mutant: the shared dedupe key is not consulted.                         *)
event_id_already_applied(e) == already_applied(state, e)

event_already_applied(e) == already_applied(state, e) \/ e.dedupe_key \in dedupe_keys

(* The events whose text the main state may show.                          *)
main_state_event_ids(st) ==
    {i.event_id : i \in st.attention_items} \cup {st.latest_activity.event_id}

Newer(e, f) == e.at > f.at \/ (e.at = f.at /\ e.id[2] > f.id[2])

(* Mutant: the cache forgets events the main state refers to.              *)
trim_to_size(events, st) ==
    {e \in events : Cardinality({f \in events : Newer(f, e)}) < MaxPublicEventCacheSize}

(* Sorted newest first, the first MaxPublicEventCacheSize events stay, and *)
(* so does every event the main state refers to.                           *)
trim_public_event_cache(events, st) ==
    IF Cardinality(events) <= MaxPublicEventCacheSize
    THEN events
    ELSE {e \in events :
            \/ Cardinality({f \in events : Newer(f, e)}) < MaxPublicEventCacheSize
            \/ e.id \in main_state_event_ids(st)}

(* Mutant: every silent session is swept, not only the running ones.       *)
SilentSessions(t) ==
    {k \in Sessions : t - state.runtime_states[k].last_activity_at >= StaleTimeout}

StaleSessions(t) ==
    {k \in Sessions : /\ state.runtime_states[k].status = "Running"
                      /\ t - state.runtime_states[k].last_activity_at >= StaleTimeout}

-----------------------------------------------------------------------------
Init ==
    /\ state = DefaultState
    /\ public_events = {}
    /\ dedupe_keys = {}
    /\ holder = "free"
    /\ stale_events = {}
    /\ now = 0

BeginAppend ==
    /\ holder = "free"
    /\ holder' = "append"
    /\ UNCHANGED <<state, public_events, dedupe_keys, stale_events, now>>

AppendEvent(e) ==
    /\ holder = "append"
    /\ ~event_already_applied(e)
    /\ ~is_late_terminal_activity(state, e)
    /\ dedupe_keys' = dedupe_keys \cup {e.dedupe_key}
    /\ public_events' = IF is_public_event(e) THEN public_events \cup {e} ELSE public_events
    /\ state' = apply_event(state, e)
    /\ UNCHANGED <<holder, stale_events, now>>

EndAppend ==
    /\ holder = "append"
    /\ public_events' = trim_public_event_cache(public_events, state)
    /\ holder' = "free"
    /\ UNCHANGED <<state, dedupe_keys, stale_events, now>>

(* The sweeper reads the clock (t) before it waits for the mutex.          *)
BeginSweep(t) ==
    /\ holder = "free"
    /\ t <= now
    /\ stale_events' = {StaleEvent(k, t) : k \in StaleSessions(t)}
    /\ holder' = "sweep"
    /\ UNCHANGED <<state, public_events, dedupe_keys, now>>

SweepEvent(e) ==
    /\ holder = "sweep"
    /\ stale_events' = stale_events \ {e}
    /\ IF event_already_applied(e)
       THEN UNCHANGED <<state, dedupe_keys>>
       ELSE /\ dedupe_keys' = dedupe_keys \cup {e.dedupe_key}
            /\ state' = apply_event(state, e)
    /\ UNCHANGED <<public_events, holder, now>>

EndSweep ==
    /\ holder = "sweep"
    /\ stale_events = {}
    /\ holder' = "free"
    /\ UNCHANGED <<state, public_events, dedupe_keys, stale_events, now>>

(* Listening to a tool is switched off.                                    *)
ClearToolState(tool) ==
    /\ holder = "free"
    /\ state' = clear_tool(state, tool)
    /\ UNCHANGED <<public_events, dedupe_keys, holder, stale_events, now>>

Reset ==
    /\ holder = "free"
    /\ state' = DefaultState
    /\ public_events' = {}
    /\ dedupe_keys' = {}
    /\ UNCHANGED <<holder, stale_events, now>>

DismissActiveBlocker ==
    /\ holder = "free"
    /\ state.attention_items # {}
    /\ state' = [state EXCEPT !.attention_items = {}]
    /\ UNCHANGED <<public_events, dedupe_keys, holder, stale_events, now>>

Tick ==
    /\ now < MaxTime
    /\ now' = now + 1
    /\ UNCHANGED <<state, public_events, dedupe_keys, holder, stale_events>>

Append == BeginAppend \/ (\E e \in Events : AppendEvent(e)) \/ EndAppend

Sweep == (\E t \in 0..MaxTime : BeginSweep(t)) \/ (\E e \in stale_events : SweepEvent(e)) \/ EndSweep

Next ==
    \/ Append
    \/ Sweep
    \/ \E tool \in Tools : ClearToolState(tool)
    \/ Reset
    \/ DismissActiveBlocker
    \/ Tick

Spec == Init /\ [][Next]_vars

-----------------------------------------------------------------------------
(* Every component of the store has the shape the code's types give it.    *)
TypeOK ==
    /\ state \in StoredState(EventIds)
    /\ public_events \subseteq Events
    /\ dedupe_keys \subseteq {e.dedupe_key : e \in Events}
                              \cup ({"stale"} \X Tools \X SessionIds \X (0..MaxTime))
    /\ holder \in {"free", "append", "sweep"}
    /\ stale_events \subseteq {StaleEvent(k, t) : k \in Sessions, t \in 0..MaxTime}
    /\ now \in 0..MaxTime

(* A session with an unresolved attention item is listed as blocked: never *)
(* as running, finished or absent, whatever order events arrived in, and   *)
(* whatever sweeps, resets and tool switches came between                  *)
(* (restore_session_attention_status, clear_tool_state).                   *)
AttentionReflected == ItemsReflected(state)

(* The cache still holds the event behind every attention item and behind  *)
(* the latest public activity, however full it is: the main state can      *)
(* always show the text (trim_public_event_cache, main_state_input).       *)
ActiveEventsCached ==
    /\ \A i \in state.attention_items : \E e \in public_events : e.id = i.event_id
    /\ \/ state.latest_activity.event_id \in {None} \cup {e.id : e \in public_events}
       \/ \E e \in Events : ~is_public_event(e) /\ e.id = state.latest_activity.event_id

(* Two sources that report one occurrence under one dedupe key, with       *)
(* different ids, never both get into the event centre, even when a tool   *)
(* was cleared or the blockers dismissed between (event_already_applied).  *)
NoDuplicatePublicEvent ==
    \A e, f \in public_events : e.dedupe_key = f.dedupe_key => e = f

(* The last activity belongs to a session the store still lists, and not to*)
(* one that went stale or idle: a cleared tool or an ended session is not  *)
(* shown as the current activity.                                          *)
LatestActivityListed == ActivityListed(state)

(* The sweeper never removes something the user still has to answer: it    *)
(* ends running sessions only, and those have no attention item.           *)
SweepKeepsBlockers ==
    [][holder = "sweep" => state'.attention_items = state.attention_items]_vars

-----------------------------------------------------------------------------
(* The sweeper is a thread that loops for ever, the mutex is released by   *)
(* whoever holds it and does not starve a waiting thread; nothing makes    *)
(* tools send events.                                                      *)
Fairness ==
    /\ SF_vars(BeginSweep(now))
    /\ WF_vars(\E e \in stale_events : SweepEvent(e))
    /\ WF_vars(EndSweep)
    /\ WF_vars(EndAppend)
    /\ WF_vars(Tick)

FairSpec == Spec /\ Fairness

Expired(k) ==
    /\ state.runtime_states[k].status = "Running"
    /\ state.runtime_states[k].last_activity_at + StaleTimeout <= now

(* A session that fell silent does not stay running: it is swept, or it    *)
(* is heard of again (mark_stale_running_sessions).  Two sweeps in one     *)
(* second share a dedupe key, so the last second of the bounded clock is   *)
(* not enough.                                                             *)
SilentSessionsEnd == \A k \in Sessions : (Expired(k) /\ now < MaxTime) ~> ~Expired(k)

=============================================================================
