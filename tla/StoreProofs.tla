----------------------------- MODULE StoreProofs -----------------------------
(***************************************************************************)
(* Two components that keep the same state, dedupe keys and clock.         *)
(*                                                                         *)
(* The invariants of NiumaStore, proved for every set of tools, sessions,  *)
(* keys and events, every cache size and every timeout.                    *)
(*                                                                         *)
(* The invariants of SseStreams, the streams that follow the store, for    *)
(* any number of connections, mutators and events: a version names one     *)
(* content, and the versions of one connection grow.  The stream reads the *)
(* store, and takes its version later, when others may have taken theirs.  *)
(* What makes that safe is a relation between the last frame of every      *)
(* connection and the broadcaster (Latest), and what a stream that has read*)
(* holds: a content that it has not sent (Fresh).                          *)
(*                                                                         *)
(* And what the streams show of the providers' snapshots together with the *)
(* stored state, for listings in which families are complete               *)
(* (FamiliesListed): the groups and a detail agree, and a detail that asks *)
(* for something is blocked (ContentsInv).                                 *)
(***************************************************************************)
EXTENDS NiumaStore, StoreTransitionsProofs, SessionContents, DisplayVersions

\* What SseStreams has besides what it shares with NiumaStore.
CONSTANTS Mutators, Cases, DetailSession, Capacity

VARIABLES config, mutators, bus, left

Streams == INSTANCE SseStreams

(* The sweep only ever holds events of distinct sessions that are still    *)
(* running.                                                                *)
SweepTargetsRunning ==
    /\ holder # "sweep" => stale_events = {}
    /\ \A e \in stale_events : state.runtime_states[SessionOf(e)].status = "Running"
    /\ \A e, f \in stale_events : SessionOf(e) = SessionOf(f) => e = f

(* Every cached event has left its dedupe key behind.                      *)
DedupeRecorded == \A e \in public_events : e.dedupe_key \in dedupe_keys

(* The inductive invariant.                                                *)
Inv ==
    /\ TypeOK
    /\ GoodState(EventIds, state)
    /\ ActiveEventsCached
    /\ DedupeRecorded
    /\ NoDuplicatePublicEvent
    /\ SweepTargetsRunning

-----------------------------------------------------------------------------
(* The sweeper's events are well-formed events.                            *)
LEMMA StaleEventFacts ==
    ASSUME NEW k \in Sessions, NEW t \in 0..MaxTime
    PROVE  /\ IsEvent(StaleEvent(k, t), EventIds)
           /\ SessionOf(StaleEvent(k, t)) = k
           /\ StaleEvent(k, t).type = "SessionStaled"
           /\ StaleEvent(k, t).dedupe_key \in {"stale"} \X Tools \X SessionIds \X (0..MaxTime)
<1>1. k[1] \in Tools /\ k[2] \in SessionIds /\ k = <<k[1], k[2]>>
  BY DEF Sessions
<1>2. <<"stale", k[1], k[2], t>> \in EventIds
  BY <1>1 DEF EventIds
<1>3. t \in Int
  BY TimeAssumption
<1> QED
  BY <1>1, <1>2, <1>3 DEF StaleEvent, IsEvent, SessionOf, EventTypes

(* One turn of the append loop keeps the invariant.                        *)
LEMMA AppendEventInv ==
    ASSUME Inv, NEW e \in Events, AppendEvent(e)
    PROVE  Inv'
<1>1. IsEvent(e, EventIds)
  BY EventAssumption
<1>2. GoodState(EventIds, state')
  BY <1>1, ApplyEventGood DEF Inv, AppendEvent
<1>3. TypeOK'
  BY <1>2 DEF Inv, TypeOK, AppendEvent, GoodState
<1>4. /\ \A i \in state'.attention_items :
            \/ i \in state.attention_items
            \/ /\ i.event_id = e.id
               /\ e.type \in {"ApprovalRequested", "InputRequested", "TaskFailed"}
      /\ state'.latest_activity \in {state.latest_activity, IdleActivity, LatestActivityOf(e)}
  BY <1>1, ApplyEventSources DEF Inv, AppendEvent
<1>5. public_events \subseteq public_events'
  BY DEF AppendEvent
<1>6. ActiveEventsCached'
  <2>1. ASSUME NEW i \in state'.attention_items
        PROVE  \E f \in public_events' : f.id = i.event_id
    <3>1. CASE i \in state.attention_items
      BY <1>5, <3>1 DEF Inv, ActiveEventsCached
    <3>2. CASE i.event_id = e.id /\ e.type \in {"ApprovalRequested", "InputRequested", "TaskFailed"}
      BY <3>2 DEF AppendEvent, is_public_event
    <3> QED
      BY <1>4, <3>1, <3>2
  <2>2. \/ state'.latest_activity.event_id \in {None} \cup {f.id : f \in public_events'}
        \/ \E f \in Events : ~is_public_event(f) /\ f.id = state'.latest_activity.event_id
    <3>1. CASE state'.latest_activity = state.latest_activity
      BY <1>5, <3>1 DEF Inv, ActiveEventsCached
    <3>2. CASE state'.latest_activity = IdleActivity
      BY <3>2 DEF IdleActivity
    <3>3. CASE state'.latest_activity = LatestActivityOf(e)
      <4>1. state'.latest_activity.event_id = e.id
        BY <3>3 DEF LatestActivityOf
      <4> QED
        BY <4>1 DEF AppendEvent
    <3> QED
      BY <1>4, <3>1, <3>2, <3>3
  <2> QED
    BY <2>1, <2>2 DEF ActiveEventsCached
<1>7. DedupeRecorded'
  BY DEF Inv, DedupeRecorded, AppendEvent
<1>8. NoDuplicatePublicEvent'
  <2>1. e.dedupe_key \notin dedupe_keys
    BY DEF AppendEvent, event_already_applied
  <2> QED
    BY <2>1 DEF Inv, DedupeRecorded, NoDuplicatePublicEvent, AppendEvent
<1>9. SweepTargetsRunning'
  BY DEF Inv, SweepTargetsRunning, AppendEvent
<1> QED
  BY <1>2, <1>3, <1>6, <1>7, <1>8, <1>9 DEF Inv

(* Trimming the cache keeps the events the main state refers to.           *)
LEMMA EndAppendInv ==
    ASSUME Inv, EndAppend
    PROVE  Inv'
<1>1. /\ public_events' \subseteq public_events
      /\ \A e \in public_events : e.id \in main_state_event_ids(state) => e \in public_events'
  BY DEF EndAppend, trim_public_event_cache
<1>2. UNCHANGED <<state, dedupe_keys, stale_events, now>> /\ holder = "append" /\ holder' = "free"
  BY DEF EndAppend
<1>3. TypeOK'
  BY <1>1, <1>2 DEF Inv, TypeOK
<1>4. ActiveEventsCached'
  BY <1>1, <1>2 DEF Inv, ActiveEventsCached, main_state_event_ids
<1>5. DedupeRecorded' /\ NoDuplicatePublicEvent'
  BY <1>1, <1>2 DEF Inv, DedupeRecorded, NoDuplicatePublicEvent
<1>6. SweepTargetsRunning'
  BY <1>2 DEF Inv, SweepTargetsRunning
<1> QED
  BY <1>2, <1>3, <1>4, <1>5, <1>6 DEF Inv

(* Starting a sweep: its events are of distinct running sessions.          *)
LEMMA BeginSweepInv ==
    ASSUME Inv, NEW t \in 0..MaxTime, BeginSweep(t)
    PROVE  Inv'
<1>1. /\ stale_events' = {StaleEvent(k, t) : k \in StaleSessions(t)}
      /\ UNCHANGED <<state, public_events, dedupe_keys, now>> /\ holder' = "sweep"
  BY DEF BeginSweep
<1>2. StaleSessions(t) \subseteq Sessions
  BY DEF StaleSessions
<1>3. TypeOK'
  BY <1>1, <1>2 DEF Inv, TypeOK
<1>4. SweepTargetsRunning'
  <2>1. ASSUME NEW e \in stale_events'
        PROVE  /\ state.runtime_states[SessionOf(e)].status = "Running"
               /\ e = StaleEvent(SessionOf(e), t)
    <3>1. PICK k \in StaleSessions(t) : e = StaleEvent(k, t)
      BY <1>1
    <3>2. SessionOf(e) = k
      BY <1>2, <3>1, StaleEventFacts
    <3> QED
      BY <3>1, <3>2 DEF StaleSessions
  <2> QED
    BY <1>1, <2>1 DEF SweepTargetsRunning
<1>5. ActiveEventsCached' /\ DedupeRecorded' /\ NoDuplicatePublicEvent'
  BY <1>1 DEF Inv, ActiveEventsCached, DedupeRecorded, NoDuplicatePublicEvent
<1> QED
  BY <1>1, <1>3, <1>4, <1>5 DEF Inv

(* One turn of the sweep keeps the invariant and every attention item.     *)
LEMMA SweepEventInv ==
    ASSUME Inv, NEW e \in stale_events, SweepEvent(e)
    PROVE  Inv' /\ state'.attention_items = state.attention_items
<1>1. PICK k \in Sessions, t \in 0..MaxTime : e = StaleEvent(k, t)
  BY DEF Inv, TypeOK
<1>2. /\ IsEvent(e, EventIds) /\ SessionOf(e) = k /\ e.type = "SessionStaled"
      /\ e.dedupe_key \in {"stale"} \X Tools \X SessionIds \X (0..MaxTime)
  BY <1>1, StaleEventFacts
<1>3. state.runtime_states[k].status = "Running"
  BY <1>2 DEF Inv, SweepTargetsRunning
<1>4. /\ GoodState(EventIds, state')
      /\ state'.attention_items = state.attention_items
      /\ state'.latest_activity \in {state.latest_activity, IdleActivity}
      /\ \A j \in Sessions \ {k} : state'.runtime_states[j] = state.runtime_states[j]
  <2>1. CASE event_already_applied(e)
    BY <2>1 DEF Inv, SweepEvent
  <2>2. CASE ~event_already_applied(e)
    <3>1. state' = apply_event(state, e)
      BY <2>2 DEF SweepEvent
    <3>2. GoodState(EventIds, state)
      BY DEF Inv
    <3> QED
      BY <1>2, <1>3, <3>1, <3>2, ApplyEventGood, StaleEventFrame
  <2> QED
    BY <2>1, <2>2
<1>5. /\ stale_events' = stale_events \ {e} /\ holder' = "sweep"
      /\ UNCHANGED <<public_events, now>>
      /\ dedupe_keys' \in {dedupe_keys, dedupe_keys \cup {e.dedupe_key}}
  BY DEF SweepEvent
<1>6. TypeOK'
  BY <1>2, <1>4, <1>5 DEF Inv, TypeOK, GoodState
<1>7. ActiveEventsCached'
  <2>1. CASE state'.latest_activity = state.latest_activity
    BY <1>4, <1>5, <2>1 DEF Inv, ActiveEventsCached
  <2>2. CASE state'.latest_activity = IdleActivity
    <3>1. state'.latest_activity.event_id = None
      BY <2>2 DEF IdleActivity
    <3> QED
      BY <1>4, <1>5, <3>1 DEF Inv, ActiveEventsCached
  <2> QED
    BY <1>4, <2>1, <2>2
<1>8. DedupeRecorded' /\ NoDuplicatePublicEvent'
  BY <1>5 DEF Inv, DedupeRecorded, NoDuplicatePublicEvent
<1>9. SweepTargetsRunning'
  <2>1. ASSUME NEW f \in stale_events'
        PROVE  state'.runtime_states[SessionOf(f)].status = "Running"
    <3>1. f \in stale_events /\ f # e
      BY <1>5
    <3>2. SessionOf(f) # k /\ state.runtime_states[SessionOf(f)].status = "Running"
      BY <1>2, <3>1 DEF Inv, SweepTargetsRunning
    <3>3. SessionOf(f) \in Sessions
      BY <3>1, StaleEventFacts DEF Inv, TypeOK
    <3> QED
      BY <1>4, <3>2, <3>3
  <2> QED
    BY <1>5, <2>1 DEF Inv, SweepTargetsRunning
<1> QED
  BY <1>4, <1>6, <1>7, <1>8, <1>9 DEF Inv

(* Every step of the store keeps the invariant.                            *)
LEMMA NextInv == Inv /\ [Next]_vars => Inv'
<1> SUFFICES ASSUME Inv, [Next]_vars PROVE Inv'
  OBVIOUS
<1>1. CASE BeginAppend
  BY <1>1 DEF BeginAppend, Inv, TypeOK, ActiveEventsCached, DedupeRecorded,
              NoDuplicatePublicEvent, SweepTargetsRunning
<1>2. CASE \E e \in Events : AppendEvent(e)
  BY <1>2, AppendEventInv
<1>3. CASE EndAppend
  BY <1>3, EndAppendInv
<1>4. CASE \E t \in 0..MaxTime : BeginSweep(t)
  BY <1>4, BeginSweepInv
<1>5. CASE \E e \in stale_events : SweepEvent(e)
  BY <1>5, SweepEventInv
<1>6. CASE EndSweep
  BY <1>6 DEF EndSweep, Inv, TypeOK, ActiveEventsCached, DedupeRecorded,
              NoDuplicatePublicEvent, SweepTargetsRunning
<1>7. CASE \E tool \in Tools : ClearToolState(tool)
  <2>1. PICK tool \in Tools : ClearToolState(tool)
    BY <1>7
  <2>2. /\ holder = "free" /\ state' = clear_tool(state, tool)
        /\ UNCHANGED <<public_events, dedupe_keys, holder, stale_events, now>>
    BY <2>1 DEF ClearToolState
  <2>3. /\ GoodState(EventIds, state')
        /\ state'.attention_items \subseteq state.attention_items
        /\ state'.latest_activity \in {state.latest_activity, IdleActivity}
    BY <2>2, ClearToolGood DEF Inv
  <2>4. stale_events = {}
    BY <2>2 DEF Inv, SweepTargetsRunning
  <2>5. ActiveEventsCached'
    BY <2>2, <2>3 DEF Inv, ActiveEventsCached, IdleActivity
  <2> QED
    BY <2>2, <2>3, <2>4, <2>5 DEF Inv, TypeOK, GoodState, DedupeRecorded,
                                  NoDuplicatePublicEvent, SweepTargetsRunning
<1>8. CASE Reset
  <2>1. stale_events = {}
    BY <1>8 DEF Inv, SweepTargetsRunning, Reset
  <2>2. ActiveEventsCached'
    BY <1>8, DefaultGood DEF Reset, ActiveEventsCached, IdleActivity
  <2> QED
    BY <1>8, <2>1, <2>2, DefaultGood
       DEF Reset, Inv, TypeOK, GoodState, DedupeRecorded, NoDuplicatePublicEvent,
           SweepTargetsRunning
<1>9. CASE DismissActiveBlocker
  <2>1. /\ holder = "free" /\ state' = [state EXCEPT !.attention_items = {}]
        /\ UNCHANGED <<public_events, dedupe_keys, holder, stale_events, now>>
    BY <1>9 DEF DismissActiveBlocker
  <2>2. state \in StoredState(EventIds)
    BY DEF Inv, TypeOK
  <2>3. /\ state' \in StoredState(EventIds) /\ state'.attention_items = {}
        /\ state'.runtime_states = state.runtime_states
        /\ state'.latest_activity = state.latest_activity
    BY <2>1, <2>2 DEF StoredState
  <2>4. OrdBounded({})
    BY DEF OrdBounded
  <2>5. GoodState(EventIds, state')
    BY <2>3, <2>4 DEF Inv, GoodState, ItemsReflected, ActivityListed
  <2>6. ActiveEventsCached'
    BY <2>1, <2>3 DEF Inv, ActiveEventsCached
  <2>7. stale_events = {}
    BY <2>1 DEF Inv, SweepTargetsRunning
  <2> QED
    BY <2>1, <2>3, <2>5, <2>6, <2>7
       DEF Inv, TypeOK, DedupeRecorded, NoDuplicatePublicEvent, SweepTargetsRunning
<1>10. CASE Tick
  BY <1>10, TimeAssumption
     DEF Tick, Inv, TypeOK, ActiveEventsCached, DedupeRecorded, NoDuplicatePublicEvent,
         SweepTargetsRunning
<1>11. CASE UNCHANGED vars
  BY <1>11 DEF vars, Inv, TypeOK, ActiveEventsCached, DedupeRecorded,
               NoDuplicatePublicEvent, SweepTargetsRunning
<1> QED
  BY <1>1, <1>2, <1>3, <1>4, <1>5, <1>6, <1>7, <1>8, <1>9, <1>10, <1>11
     DEF Next, Append, Sweep

(* The store starts in the invariant.                                      *)
LEMMA InitInv == Init => Inv
<1> SUFFICES ASSUME Init PROVE Inv
  OBVIOUS
<1>1. ActiveEventsCached
  BY DefaultGood DEF Init, ActiveEventsCached, IdleActivity
<1> QED
  BY <1>1, DefaultGood, TimeAssumption
     DEF Init, Inv, TypeOK, GoodState, DedupeRecorded, NoDuplicatePublicEvent,
         SweepTargetsRunning

-----------------------------------------------------------------------------
(* The inductive invariant holds in every reachable state.                 *)
THEOREM Invariance == Spec => []Inv
BY InitInv, NextInv, PTL DEF Spec

(* The store keeps its types.                                              *)
THEOREM TypeCorrect == Spec => []TypeOK
<1>1. Inv => TypeOK
  BY DEF Inv
<1> QED
  BY <1>1, Invariance, PTL

(* A session that waits for the user is always listed as blocked           *)
(* (restore_session_attention_status, clear_tool_state).                   *)
THEOREM AttentionIsReflected == Spec => []AttentionReflected
<1>1. Inv => AttentionReflected
  BY DEF Inv, GoodState, AttentionReflected
<1> QED
  BY <1>1, Invariance, PTL

(* The cache always holds the events the main state refers to, for every   *)
(* cache size (trim_public_event_cache).                                   *)
THEOREM ActiveEventsAreCached == Spec => []ActiveEventsCached
<1>1. Inv => ActiveEventsCached
  BY DEF Inv
<1> QED
  BY <1>1, Invariance, PTL

(* One dedupe key, one event in the event centre (event_already_applied).  *)
THEOREM NoDuplicates == Spec => []NoDuplicatePublicEvent
<1>1. Inv => NoDuplicatePublicEvent
  BY DEF Inv
<1> QED
  BY <1>1, Invariance, PTL

(* The latest activity belongs to a live, listed session.                  *)
THEOREM LatestActivityIsListed == Spec => []LatestActivityListed
<1>1. Inv => LatestActivityListed
  BY DEF Inv, GoodState, LatestActivityListed
<1> QED
  BY <1>1, Invariance, PTL

(* The stale sweeper never removes an attention item                       *)
(* (mark_stale_running_sessions_with_result).                              *)
THEOREM SweeperKeepsBlockers == Spec => SweepKeepsBlockers
<1>1. ASSUME Inv, [Next]_vars
      PROVE  [holder = "sweep" => state'.attention_items = state.attention_items]_vars
  <2>1. SUFFICES ASSUME holder = "sweep", Next
                 PROVE  state'.attention_items = state.attention_items
    BY <1>1
  <2>2. CASE \E e \in stale_events : SweepEvent(e)
    BY <1>1, <2>2, SweepEventInv
  <2>3. CASE EndSweep \/ Tick
    BY <2>3 DEF EndSweep, Tick
  <2> QED
    BY <2>1, <2>2, <2>3 DEF Next, Append, Sweep, BeginAppend, AppendEvent, EndAppend, BeginSweep,
                            ClearToolState, Reset, DismissActiveBlocker
<1> QED
  BY <1>1, Invariance, PTL DEF Spec, SweepKeepsBlockers

-----------------------------------------------------------------------------
(* Contents have no common type: of a connection only the shape is fixed.  *)
IsConn(w) ==
    /\ DOMAIN w = {"kind", "pc", "pos", "last", "content", "sent", "excused"}
    /\ w.kind = "state" => w.sent.id \in Nat

Shaped ==
    /\ DOMAIN conns = Conns /\ \A c \in Conns : Streams!Open(c) => IsConn(conns[c])
    /\ broadcaster.version \in Nat

(* A stream holds what it has read and not sent, which differs from what   *)
(* it sent last.                                                           *)
HoldsNews(w) ==
    /\ IF w.pc = "send"
       THEN w.content = w.last /\ w.content # None /\ w.sent.content # w.content
       ELSE w.sent.content = w.last
    /\ w.pc = "force" => w.last = None

(* Every version is the broadcaster's or an older one, the content of the  *)
(* newest is the one the broadcaster remembers, and version 0 names none.  *)
IsPast(w) ==
    /\ w.sent.id = 0 => w.sent.content = None
    /\ w.sent.id <= broadcaster.version
    /\ w.sent.id = broadcaster.version => w.sent.content = broadcaster.last_content

Latest ==
    /\ broadcaster.version = 0 => broadcaster.last_content = None
    /\ \A c \in StateConns : IsPast(conns[c])

Fresh == \A c \in StateConns : HoldsNews(conns[c])

StreamsInv == Shaped /\ Latest /\ Fresh /\ VersionNamesContent

(* The versions of a connection grow.                                      *)
Increase ==
    \A c \in Conns :
        conns[c].kind = "state" /\ conns'[c].kind = "state" /\ conns'[c].sent # conns[c].sent
            => conns'[c].sent.id > conns[c].sent.id

LEMMA StreamsStart == Streams!Init => StreamsInv
<1> SUFFICES ASSUME Streams!Init PROVE StreamsInv
  OBVIOUS
<1>1. \A c \in Conns : conns[c].kind = "new"
  BY DEF Streams!Init, Streams!New
<1>2. DOMAIN conns = Conns /\ broadcaster = [version |-> 0, last_content |-> None]
  BY DEF Streams!Init
<1> QED BY <1>1, <1>2 
   DEF StreamsInv, Shaped, Latest, Fresh, VersionNamesContent, StateConns, Streams!Open

(* Connections move and the broadcaster does not: a connection keeps what  *)
(* it sent, or has just been opened.                                       *)
LEMMA MovesKeep ==
    ASSUME StreamsInv, UNCHANGED broadcaster, DOMAIN conns' = Conns,
           \A c \in Conns : \/ conns'[c] = conns[c]
                            \/ /\ IsConn(conns'[c])
                               /\ conns'[c].kind = "state" =>
                                     /\ HoldsNews(conns'[c])
                                     /\ \/ Streams!Open(c) /\ conns[c].kind = "state"
                                           /\ conns'[c].sent = conns[c].sent
                                        \/ ~Streams!Open(c) /\ conns'[c].sent = Streams!NoFrame
    PROVE  StreamsInv' /\ Increase
<1>1. Shaped'
  BY DEF StreamsInv, Shaped, Streams!Open
<1>2. \A c \in StateConns' : /\ HoldsNews(conns'[c])
                             /\ \/ c \in StateConns /\ conns'[c].sent = conns[c].sent
                                \/ ~Streams!Open(c) /\ conns'[c].sent = Streams!NoFrame
  BY DEF StateConns, StreamsInv, Fresh
<1>3. Fresh'
  BY <1>2 DEF Fresh, HoldsNews
<1>4. \A c \in StateConns' : IsPast(conns'[c])
  BY <1>2 DEF IsPast, StreamsInv, Latest, Shaped, Streams!NoFrame
<1>5. Latest'
  BY <1>4 DEF StreamsInv, Latest, IsPast
<1>6. VersionNamesContent'
  <2> SUFFICES ASSUME NEW c \in StateConns', NEW d \in StateConns',
                      conns'[c].sent.id = conns'[d].sent.id
               PROVE  conns'[c].sent.content = conns'[d].sent.content
    BY DEF VersionNamesContent
  <2>1. CASE c \in StateConns /\ d \in StateConns /\ conns'[c].sent = conns[c].sent
             /\ conns'[d].sent = conns[d].sent
    BY <2>1 DEF StreamsInv, VersionNamesContent
  <2>2. \A e \in StateConns' : conns'[e].sent.id = 0 => conns'[e].sent.content = None
    BY <1>4 DEF IsPast
  <2>3. CASE conns'[c].sent = Streams!NoFrame \/ conns'[d].sent = Streams!NoFrame
    BY <2>2, <2>3 DEF Streams!NoFrame
  <2> QED BY <1>2, <2>1, <2>3
<1>7. Increase
  BY <1>2 DEF Increase, StateConns, Streams!Open
<1> QED BY <1>1, <1>3, <1>5, <1>6, <1>7 DEF StreamsInv
-----------------------------------------------------------------------------
(* Mutations, the bus and the clock concern no connection; a provider that *)
(* goes away leaves a mark on every open one.                              *)
LEMMA ElsewhereKeeps ==
    ASSUME StreamsInv,
           \/ \E m \in Mutators : Streams!Mutate(m) \/ Streams!Finish(m)
           \/ \E tool \in Tools : Streams!clear_snapshot(tool)
           \/ Streams!Tick
    PROVE  StreamsInv' /\ Increase
<1>1. CASE UNCHANGED <<conns, broadcaster>>
  <2>1. DOMAIN conns' = Conns /\ \A c \in Conns : conns'[c] = conns[c]
    BY <1>1 DEF StreamsInv, Shaped
  <2> QED BY <1>1, <2>1, MovesKeep
<1>2. ASSUME NEW tool \in Tools, Streams!clear_snapshot(tool)
      PROVE  StreamsInv' /\ Increase
  <2>1. UNCHANGED broadcaster /\ DOMAIN conns' = Conns
    BY <1>2 DEF Streams!clear_snapshot
  <2>2. ASSUME NEW c \in Conns
        PROVE  \/ ~Streams!Open(c) /\ conns'[c] = conns[c]
               \/ Streams!Open(c) /\ conns'[c] = [conns[c] EXCEPT !.excused = TRUE]
    BY <1>2 DEF Streams!clear_snapshot
  <2>3. ASSUME NEW c \in Conns, Streams!Open(c)
        PROVE  LET w == [conns[c] EXCEPT !.excused = TRUE]
               IN /\ IsConn(w) /\ w.sent = conns[c].sent /\ w.kind = conns[c].kind
                  /\ w.kind = "state" => HoldsNews(w)
    BY <2>3 DEF StreamsInv, Shaped, IsConn, Fresh, HoldsNews, StateConns
  <2> QED BY <2>1, <2>2, <2>3, MovesKeep
<1>3. CASE \E m \in Mutators : Streams!Mutate(m) \/ Streams!Finish(m)
  <2>1. UNCHANGED <<conns, broadcaster>>
    BY <1>3
       DEF Streams!Mutate, Streams!Finish, Streams!append_events, Streams!dismiss_active_blocker,
           Streams!reset, Streams!mark_stale_running_sessions, Streams!read_listener_config,
           Streams!apply_listener_config_update, Streams!replace_snapshot,
           Streams!publish_plugin_notification_test, Streams!fetch_add, Streams!send
  <2> QED BY <1>1, <2>1
<1>4. CASE Streams!Tick
  BY <1>1, <1>4 DEF Streams!Tick
<1> QED BY <1>2, <1>3, <1>4

(* One connection moves, and the broadcaster does not.                     *)
LEMMA OneMoves ==
    ASSUME StreamsInv, UNCHANGED broadcaster, NEW c \in Conns, NEW w,
           conns' = [conns EXCEPT ![c] = w],
           IsConn(w),
           w.kind = "state" =>
               /\ HoldsNews(w)
               /\ \/ Streams!Open(c) /\ conns[c].kind = "state" /\ w.sent = conns[c].sent
                  \/ ~Streams!Open(c) /\ w.sent = Streams!NoFrame
    PROVE  StreamsInv' /\ Increase
<1>1. DOMAIN conns' = Conns /\ conns'[c] = w /\ \A d \in Conns \ {c} : conns'[d] = conns[d]
  BY DEF StreamsInv, Shaped
<1> QED BY <1>1, MovesKeep

LEMMA ConnectKeeps ==
    ASSUME StreamsInv, NEW c \in Conns, NEW kind \in {"state", "groups", "detail"},
           Streams!Connect(c, kind)
    PROVE  StreamsInv' /\ Increase
<1> DEFINE w == [kind |-> kind, pc |-> "force", pos |-> conns'[c].pos, last |-> None,
                 content |-> None, sent |-> Streams!NoFrame, excused |-> FALSE]
<1>1. conns' = [conns EXCEPT ![c] = w]
  BY DEF Streams!Connect, StreamsInv, Shaped
<1>2. IsConn(w) /\ HoldsNews(w) /\ w.sent = Streams!NoFrame
  BY DEF IsConn, HoldsNews, Streams!NoFrame
<1>3. UNCHANGED broadcaster /\ ~Streams!Open(c)
  BY DEF Streams!Connect, Streams!Open, Streams!New
<1> HIDE DEF w
<1> QED BY <1>1, <1>2, <1>3, OneMoves

(* A read: the content is kept to be sent if it is forced or news.         *)
LEMMA ReadsKeep ==
    ASSUME StreamsInv, UNCHANGED broadcaster, NEW c \in Conns, Streams!Open(c), NEW pos,
           NEW content,
           NEW force \in BOOLEAN, conns[c].pc = IF force THEN "force" ELSE "wait",
           Streams!Reads(c, pos, content, force)
    PROVE  StreamsInv' /\ Increase
<1> DEFINE old == conns[c]
           news == [old EXCEPT !.pos = pos, !.last = content, !.content = content, !.pc = "send",
                               !.excused = FALSE]
           rests == [old EXCEPT !.pos = pos, !.pc = "wait", !.excused = FALSE]
<1>1. /\ content # None /\ (force \/ old.last # content) => conns' = [conns EXCEPT ![c] = news]
      /\ ~(content # None /\ (force \/ old.last # content)) => conns' = [conns EXCEPT ![c] = rests]
  BY DEF Streams!Reads, StreamsInv, Shaped
<1>2. IsConn(old)
  BY DEF StreamsInv, Shaped
<1>3. /\ IsConn(news) /\ news.kind = old.kind /\ news.sent = old.sent /\ news.pc = "send"
      /\ news.last = content /\ news.content = content
      /\ IsConn(rests) /\ rests.kind = old.kind /\ rests.sent = old.sent /\ rests.pc = "wait"
      /\ rests.last = old.last
  BY <1>2 DEF IsConn
<1>4. old.kind = "state" => old.sent.content = old.last /\ (force => old.last = None)
  BY DEF StreamsInv, Fresh, HoldsNews, StateConns
<1> HIDE DEF news, rests
<1>5. CASE content # None /\ (force \/ old.last # content)
  <2>1. news.kind = "state" => HoldsNews(news)
    BY <1>3, <1>4, <1>5 DEF HoldsNews
  <2> QED BY <1>1, <1>3, <1>5, <2>1, OneMoves
<1>6. CASE ~(content # None /\ (force \/ old.last # content))
  <2>1. rests.kind = "state" => HoldsNews(rests)
    BY <1>3, <1>4 DEF HoldsNews
  <2> QED BY <1>1, <1>3, <1>6, <2>1, OneMoves
<1> QED BY <1>5, <1>6

(* The streams that do not carry the main state.                           *)
LEMMA ListKeeps ==
    ASSUME StreamsInv, NEW c \in Conns, Streams!ListReceive(c) \/ Streams!ListSend(c)
    PROVE  StreamsInv' /\ Increase
<1>1. conns[c].kind \in {"groups", "detail"} /\ Streams!Open(c) /\ UNCHANGED broadcaster
  BY DEF Streams!ListReceive, Streams!ListSend, Streams!Open
<1>2. IsConn(conns[c])
  BY <1>1 DEF StreamsInv, Shaped
<1>3. CASE Streams!ListSend(c)
  <2> DEFINE w == [conns[c] EXCEPT !.pc = "wait", !.content = None,
                       !.sent = [id |-> bus.version + 1, content |-> conns[c].content]]
  <2>1. conns' = [conns EXCEPT ![c] = w]
    BY <1>3 DEF Streams!ListSend
  <2>2. IsConn(w) /\ w.kind = conns[c].kind
    BY <1>1, <1>2 DEF IsConn
  <2> HIDE DEF w
  <2> QED BY <1>1, <2>1, <2>2, OneMoves
<1>4. CASE Streams!ListReceive(c)
  <2>1. CASE /\ conns[c].pc = "wait"
             /\ Streams!Reads(c, conns[c].pos + 1, Streams!Content(conns[c].kind), FALSE)
    BY <1>1, <2>1, ReadsKeep
  <2>2. ASSUME NEW excused, NEW pos,
               conns' = [conns EXCEPT ![c] = [conns[c] EXCEPT !.pos = pos, !.excused = excused]]
        PROVE  StreamsInv' /\ Increase
    <3> DEFINE w == [conns[c] EXCEPT !.pos = pos, !.excused = excused]
    <3>1. IsConn(w) /\ w.kind = conns[c].kind
      BY <1>2 DEF IsConn
    <3> HIDE DEF w
    <3>2. conns' = [conns EXCEPT ![c] = w]
      BY <2>2 DEF w
    <3> QED BY <1>1, <3>1, <3>2, OneMoves
  <2>3. CASE \E excused :
               conns' = [conns EXCEPT ![c].pos = Streams!NextPos(c), ![c].excused = excused]
    <3>1. PICK excused :
               conns' = [conns EXCEPT ![c].pos = Streams!NextPos(c), ![c].excused = excused]
      BY <2>3
    <3>2. conns' = [conns EXCEPT ![c] =
               [conns[c] EXCEPT !.pos = Streams!NextPos(c), !.excused = excused]]
      BY <1>2, <3>1 DEF StreamsInv, Shaped, IsConn
    <3> QED BY <2>2, <3>2
  <2> QED BY <1>4, <2>1, <2>3 DEF Streams!ListReceive
<1> QED BY <1>3, <1>4

(* The frame of a main-state stream: a content that is not the newest gets *)
(* a version of its own.                                                   *)
LEMMA SendKeeps ==
    ASSUME StreamsInv, NEW c \in Conns, Streams!StateSend(c)
    PROVE  StreamsInv' /\ Increase
<1> DEFINE old == conns[c]
           b == Streams!version_for_content(old.content)
           w == [old EXCEPT !.pc = "wait", !.content = None,
                            !.sent = [id |-> b.version, content |-> old.content]]
<1>1. /\ old.kind = "state" /\ old.pc = "send" /\ Streams!Open(c) /\ c \in StateConns
      /\ broadcaster' = b /\ conns' = [conns EXCEPT ![c] = w]
  BY DEF Streams!StateSend, Streams!Open, StateConns
<1>2. IsConn(old) /\ HoldsNews(old) /\ IsPast(old) /\ old.content # None
  BY <1>1 DEF StreamsInv, Shaped, Fresh, Latest, HoldsNews
<1>3. /\ b.version \in Nat /\ b.last_content = old.content /\ b.version # 0
      /\ \/ b.version = broadcaster.version + 1
         \/ b.version = broadcaster.version /\ broadcaster.last_content = old.content
  BY <1>2 DEF Streams!version_for_content, StreamsInv, Shaped, Latest
<1>4. /\ IsConn(w) /\ w.kind = "state" /\ w.pc = "wait" /\ w.last = old.last
      /\ w.sent.id = b.version /\ w.sent.content = old.content
  BY <1>1, <1>2, <1>3 DEF IsConn
<1>5. b.version > old.sent.id
  BY <1>1, <1>2, <1>3 DEF IsPast, HoldsNews, IsConn, StreamsInv, Shaped
<1> HIDE DEF w, b
<1>6. /\ DOMAIN conns' = Conns /\ conns'[c] = w
      /\ \A d \in Conns \ {c} : conns'[d] = conns[d]
  BY <1>1 DEF StreamsInv, Shaped
<1>7. Shaped'
  BY <1>1, <1>3, <1>4, <1>6 DEF StreamsInv, Shaped, Streams!Open
<1>8. StateConns' = StateConns
  BY <1>1, <1>4, <1>6 DEF StateConns
<1>9. \A d \in StateConns \ {c} : conns'[d] = conns[d] /\ IsPast(conns[d]) /\ IsConn(conns[d])
                                 /\ HoldsNews(conns[d])
  BY <1>6 DEF StateConns, StreamsInv, Latest, Fresh, Shaped, Streams!Open
<1>10. \A d \in StateConns \ {c} :
          /\ conns'[d].sent.id <= b.version
          /\ conns'[d].sent.id = b.version => conns'[d].sent.content = old.content
  BY <1>3, <1>9 DEF StateConns, IsPast, IsConn, StreamsInv, Shaped
<1>11. Latest'
  BY <1>1, <1>3, <1>4, <1>6, <1>8, <1>9, <1>10 DEF Latest, IsPast
<1>12. Fresh'
  BY <1>1, <1>2, <1>4, <1>6, <1>8, <1>9 DEF Fresh, HoldsNews
<1>13. VersionNamesContent'
  BY <1>4, <1>6, <1>8, <1>9, <1>10 DEF VersionNamesContent, StreamsInv
<1>14. Increase
  BY <1>4, <1>5, <1>6 DEF Increase
<1> QED BY <1>7, <1>11, <1>12, <1>13, <1>14 DEF StreamsInv
-----------------------------------------------------------------------------
LEMMA StreamsStepKeeps ==
    StreamsInv /\ [Streams!Next]_Streams!vars
        => StreamsInv' /\ (Increase \/ UNCHANGED Streams!vars)
<1> SUFFICES ASSUME StreamsInv, [Streams!Next]_Streams!vars
             PROVE  StreamsInv' /\ (Increase \/ UNCHANGED Streams!vars)
  OBVIOUS
<1>1. CASE UNCHANGED Streams!vars
  <2>1. UNCHANGED broadcaster /\ DOMAIN conns' = Conns /\ \A c \in Conns : conns'[c] = conns[c]
    BY <1>1 DEF Streams!vars, StreamsInv, Shaped
  <2> QED BY <1>1, <2>1, MovesKeep
<1>2. ASSUME NEW c \in Conns, Streams!Serve(c)
      PROVE  StreamsInv' /\ Increase
  <2>1. CASE Streams!FirstRead(c)
    BY <2>1, ReadsKeep DEF Streams!FirstRead
  <2>2. CASE Streams!StateRefresh(c)
    BY <2>2, ReadsKeep DEF Streams!StateRefresh, Streams!Open
  <2> QED BY <1>2, <2>1, <2>2, SendKeeps, ListKeeps DEF Streams!Serve
<1>3. CASE \E c \in Conns, kind \in {"state", "groups", "detail"} : Streams!Connect(c, kind)
  BY <1>3, ConnectKeeps
<1> QED BY <1>1, <1>2, <1>3, ElsewhereKeeps DEF Streams!Next

LEMMA StreamsInductive == Streams!Spec => []StreamsInv
<1>1. StreamsInv /\ [Streams!Next]_Streams!vars => StreamsInv'
  BY StreamsStepKeeps
<1> QED BY <1>1, StreamsStart, PTL DEF Streams!Spec

(* One version never names two contents, whichever connections got it and  *)
(* however reading and numbering interleave.                               *)
THEOREM VersionsNameOneContent == Streams!Spec => []VersionNamesContent
<1>1. StreamsInv => VersionNamesContent
  BY DEF StreamsInv
<1> QED BY <1>1, StreamsInductive, PTL

(* A client that keeps the highest version keeps the last frame.           *)
THEOREM VersionsGrow == Streams!Spec => VersionsIncrease
<1> DEFINE Grow == [\A c \in Conns :
         conns[c].kind = "state" /\ conns'[c].kind = "state" /\ conns'[c].sent # conns[c].sent
           => conns'[c].sent.id > conns[c].sent.id]_conns
<1>1. StreamsInv /\ [Streams!Next]_Streams!vars => Grow
  BY StreamsStepKeeps DEF Increase, Streams!vars
<1> QED BY <1>1, StreamsInductive, PTL DEF Streams!Spec, VersionsIncrease

-----------------------------------------------------------------------------
(***************************************************************************)
(* The two views of a session: the groups, from the raw sessions with one  *)
(* normalized id, and the detail, from the lineage of its session.         *)
(***************************************************************************)
Listed(tool) == IsListing(tool, snapshots[tool]) /\ FamilyListed(snapshots[tool])

(* Scope and normalized id are what the plugin knew of the session.        *)
LEMMA ItemFacts ==
    ASSUME NEW tool \in Tools, NEW items, IsListing(tool, items), NEW i \in items
    PROVE  /\ i.tool = tool /\ i.session \in SessionIds /\ i.session # None
           /\ session_scope_for(i) = IF i.is_subagent THEN "Subagent" ELSE "Main"
           /\ i.is_subagent \in BOOLEAN
           /\ normalized_session_id_for(i) =
                IF i.is_subagent /\ i.parent # None THEN i.parent ELSE i.session
           /\ i.normalized \in {None, normalized_session_id_for(i)}
           /\ i.parent # None => \A j \in items : j.normalized # None
           /\ i.normalized = None => \A j \in items : j.parent = None
           /\ CoversLineage(i) <=> i.normalized # None /\ normalized_session_id_for(i) = i.session
<1>1. IsItem(tool, i) /\ None \notin SessionIds /\ None \notin {"Main", "Subagent"}
  BY NoneAssumption, ListingAssumption DEF IsListing
<1>2. /\ i.tool = tool /\ i.session \in SessionIds /\ i.session # None
      /\ session_scope_for(i) = IF i.is_subagent THEN "Subagent" ELSE "Main"
      /\ i.is_subagent \in BOOLEAN
  BY <1>1 DEF IsItem, session_scope_for
<1>3. CASE \A j \in items : KnowsNoLineage(j)
  BY <1>2, <1>3 DEF KnowsNoLineage, normalized_session_id_for, CoversLineage
<1>4. CASE \A j \in items : KnowsItsParent(j)
  <2>1. \A j \in items : j.normalized # None
    <3> SUFFICES ASSUME NEW j \in items PROVE j.normalized # None
      OBVIOUS
    <3>1. IsItem(tool, j)
      BY DEF IsListing
    <3> QED BY <1>1, <1>4, <3>1 DEF KnowsItsParent, IsItem
  <2>2. /\ normalized_session_id_for(i) = i.normalized
        /\ i.normalized = IF i.is_subagent /\ i.parent # None THEN i.parent ELSE i.session
    BY <1>4, <2>1 DEF normalized_session_id_for, KnowsItsParent
  <2>3. i.scope = "Main" => ~i.is_subagent
    BY <1>1 DEF IsItem
  <2> QED BY <1>2, <2>1, <2>2, <2>3 DEF CoversLineage
<1> QED BY <1>3, <1>4 DEF IsListing

(* A finite set of items has a first one: their sessions differ.           *)
LEMMA FirstIsListed ==
    ASSUME NEW tool \in Tools, NEW listing, IsListing(tool, listing),
           NEW items, items \subseteq listing, items # {}
    PROVE  First(items) \in items
<1>1. IsFiniteSet(items)
  BY FS_Subset DEF IsListing
<1> DEFINE R == {p \in items \X items : p[1] = p[2] \/ SortsBefore(p[1], p[2])}
<1>2. \A i \in items : i.session \in Int /\ i.modified_at \in Int
  BY DEF IsListing, IsItem
<1>3. \A i, j \in items : i.session = j.session => i = j
  BY DEF IsListing
<1>4. \A x, y \in items : <<x, y>> \in R \/ <<y, x>> \in R
  BY <1>2, <1>3 DEF SortsBefore
<1>5. \A x, y, z \in items : <<x, y>> \in R /\ <<y, z>> \in R => <<x, z>> \in R
  <2> SUFFICES ASSUME NEW x \in items, NEW y \in items, NEW z \in items,
                      SortsBefore(x, y), SortsBefore(y, z)
               PROVE  SortsBefore(x, z)
    OBVIOUS
  <2> QED BY <1>2 DEF SortsBefore
<1> HIDE DEF R
<1>6. PICK x \in items : \A y \in items : <<x, y>> \in R
  BY <1>1, <1>4, <1>5, FiniteFirst
<1>7. \A y \in items \ {x} : SortsBefore(x, y)
  BY <1>6 DEF R
<1> QED BY <1>7 DEF First

(* The session that stands for the others is one of them; it is the main   *)
(* session, or else the one that has the normalized id, if there is one.   *)
LEMMA PrimaryFacts ==
    ASSUME NEW tool \in Tools, NEW listing, IsListing(tool, listing),
           NEW raw, raw \subseteq listing, raw # {}, NEW n
    PROVE  /\ Primary(raw, n) \in raw
           /\ Primary(raw, n).is_subagent => \A i \in raw : i.is_subagent
           /\ Primary(raw, n).is_subagent /\ Primary(raw, n).session # n
                => \A i \in raw : i.session # n
<1> DEFINE main == {i \in raw : session_scope_for(i) = "Main"}
           same == {i \in raw : i.session = n}
<1>1. \A i \in raw : (session_scope_for(i) = "Main" <=> ~i.is_subagent) /\ i.is_subagent \in BOOLEAN
  BY ItemFacts
<1>2. Primary(raw, n) = First(IF main # {} THEN main ELSE IF same # {} THEN same ELSE raw)
  BY DEF Primary
<1>3. CASE main # {}
  <2>1. First(main) \in main
    BY <1>3, FirstIsListed
  <2> QED BY <1>1, <1>2, <1>3, <2>1
<1>4. CASE main = {} /\ same # {}
  <2>1. First(same) \in same
    BY <1>4, FirstIsListed
  <2> QED BY <1>1, <1>2, <1>4, <2>1
<1>5. CASE main = {} /\ same = {}
  <2>1. First(raw) \in raw
    BY FirstIsListed
  <2> QED BY <1>1, <1>2, <1>5, <2>1
<1> QED BY <1>3, <1>4, <1>5

RawSessions(tool, project, n) ==
    {i \in snapshots[tool] : i.project = project /\ normalized_session_id_for(i) = n}

(* The detail of a primary session covers the raw sessions of its group.   *)
LEMMA DetailCoversGroup ==
    ASSUME NEW tool \in Tools, Listed(tool), NEW project, NEW n,
           RawSessions(tool, project, n) # {}, NEW k \in Sessions
    PROVE  k[1] = tool
           /\ detail_matches_runtime_session(snapshots, Primary(RawSessions(tool, project, n), n), k)
              <=> k \in {<<i.tool, i.session>> : i \in RawSessions(tool, project, n)}
<1> DEFINE items == snapshots[tool]
           raw == RawSessions(tool, project, n)
           p == Primary(raw, n)
<1>1. IsListing(tool, items) /\ FamilyListed(items) /\ raw \subseteq items
  BY DEF Listed, RawSessions
<1>2. /\ p \in raw /\ p \in items
      /\ p.is_subagent => \A i \in raw : i.is_subagent
      /\ p.is_subagent /\ p.session # n => \A i \in raw : i.session # n
  BY <1>1, PrimaryFacts
<1>3. \A i \in items :
         /\ i.tool = tool /\ i.is_subagent \in BOOLEAN /\ i.session # None
         /\ normalized_session_id_for(i) =
              IF i.is_subagent /\ i.parent # None THEN i.parent ELSE i.session
         /\ i.normalized \in {None, normalized_session_id_for(i)}
         /\ i.parent # None => p.normalized # None
         /\ i.parent # None => i.is_subagent
  <2> HIDE DEF p
  <2> QED BY <1>1, <1>2, ItemFacts DEF FamilyListed
<1>4. normalized_session_id_for(p) = n /\ p.project = project
  BY <1>2 DEF RawSessions
<1>5. CoversLineage(p) <=> p.normalized # None /\ n = p.session
  <2> HIDE DEF p
  <2> QED BY <1>1, <1>2, <1>4, ItemFacts
<1>6. \A i, j \in items : i.session = j.session => i = j
  BY <1>1 DEF IsListing
<1>7. \A i \in items : i \in raw <=> i.project = project /\ normalized_session_id_for(i) = n
  BY DEF RawSessions
<1> HIDE DEF raw, p
<1>8. k \in {<<i.tool, i.session>> : i \in raw} <=> k[1] = tool /\ \E i \in raw : i.session = k[2]
  <2>1. k = <<k[1], k[2]>>
    BY DEF Sessions
  <2> QED BY <1>1, <1>3, <2>1
<1> DEFINE Child(i) == normalized_session_id_for(i) = p.normalized \/ i.parent = p.session
           Covered(x) == \/ x = p.session
                         \/ CoversLineage(p) /\ \E i \in items : i.session = x /\ Child(i)
           Grouped(x) == \E i \in raw : i.session = x
<1>9. detail_matches_runtime_session(snapshots, p, k) <=> Covered(k[2])
  BY <1>2, <1>3 DEF detail_matches_runtime_session, find_session
<1>10. Grouped(p.session)
  BY <1>2
<1>11. SUFFICES \A x : Covered(x) <=> Grouped(x)
  <2>1. Grouped(k[2]) <=> \E i \in raw : i.session = k[2]
    OBVIOUS
  <2> HIDE DEF Covered, Grouped
  <2> QED BY <1>8, <1>9, <2>1 DEF raw, p
\* What covers its lineage covers those who are normalized to it.
<1>12. CASE n = p.session
  <2>1. ASSUME NEW i \in items, normalized_session_id_for(i) = n PROVE i \in raw
    <3>1. CASE i.session = n
      BY <1>2, <1>6, <1>12, <3>1
    <3>2. CASE i.session # n
      <4>1. i.is_subagent /\ i.parent = n /\ i.parent # None /\ i # p
        BY <1>2, <1>3, <1>12, <2>1, <3>2
      <4>2. \/ \E j \in items : j.session = n /\ ~j.is_subagent /\ j.project = i.project
            \/ \A j \in items \ {i} : n \notin {j.session, j.parent}
        BY <1>1, <4>1 DEF FamilyListed
      <4>3. i.project = p.project
        <5>1. p \in items \ {i} /\ n = p.session
          BY <1>2, <1>12, <4>1
        <5>2. \A j \in items : j.session = n => j = p
          BY <1>2, <1>6, <1>12
        <5> HIDE DEF items
        <5>3. ~\A j \in items \ {i} : n \notin {j.session, j.parent}
          BY <5>1
        <5>4. PICK j \in items : j.session = n /\ ~j.is_subagent /\ j.project = i.project
          BY <4>2, <5>3
        <5> QED BY <5>2, <5>4
      <4> QED BY <1>4, <1>7, <2>1, <4>3
    <3> QED BY <3>1, <3>2
  <2>2. \A i \in items : i.parent = p.session => normalized_session_id_for(i) = n
    BY <1>2, <1>3, <1>12
  <2>3. CASE p.normalized # None
    <3>1. p.normalized = n
      BY <1>2, <1>3, <1>4, <2>3
    <3>2. \A i \in items : Child(i) <=> i \in raw
      BY <1>7, <2>1, <2>2, <3>1
    <3> QED BY <1>1, <1>5, <1>12, <1>10, <2>3, <3>2
  <2>4. CASE p.normalized = None
    <3>1. \A i \in items : i.parent = None
      BY <1>3, <2>4
    <3>2. \A i \in raw : i.session = p.session
      BY <1>1, <1>3, <1>7, <1>12, <3>1
    <3> QED BY <1>5, <1>10, <2>4, <3>2
  <2> QED BY <2>3, <2>4
\* What does not is an only child whose parent is not listed.
<1>13. CASE n # p.session
  <2>1. p.is_subagent /\ p.parent = n /\ p.parent # None
    BY <1>2, <1>3, <1>4, <1>13
  <2>2. \A i \in raw : i.is_subagent /\ i.session # n
    BY <1>2, <1>13, <2>1
  <2>3. \/ \E j \in items : j.session = n /\ ~j.is_subagent /\ j.project = p.project
        \/ \A j \in items \ {p} : n \notin {j.session, j.parent}
    BY <1>1, <1>2, <2>1 DEF FamilyListed
  <2>4. ~\E j \in items : j.session = n /\ ~j.is_subagent /\ j.project = p.project
    BY <1>3, <1>4, <1>7, <2>2
  <2>5. \A i \in raw : i = p
    <3> SUFFICES ASSUME NEW i \in raw, i # p PROVE FALSE
      OBVIOUS
    <3>1. i.parent = n
      BY <1>1, <1>3, <1>7, <2>2
    <3> QED BY <1>1, <2>3, <2>4, <3>1
  <2> QED BY <1>5, <1>13, <1>10, <2>5
<1> QED BY <1>12, <1>13

(* The detail of a listed session is computed from its item.               *)
LEMMA DetailOfItem ==
    ASSUME NEW tool \in Tools, Listed(tool), NEW i \in snapshots[tool]
    PROVE  /\ SessionDetail(tool, i.session).runtime_status
                 = runtime_for_detail(state, snapshots, i).status
           /\ SessionDetail(tool, i.session).pending_action
                 = pending_action_for_session(state, Events, i)
<1>1. find_session(snapshots, tool, i.session) = {i}
  BY DEF find_session, Listed, IsListing
<1>2. (CHOOSE j \in {i} : TRUE) = i
  OBVIOUS
<1> QED BY <1>1, <1>2 DEF SessionDetail, session_detail_with_pending_action

(* So the groups and the details agree on every listed session.            *)
LEMMA ViewsAgree ==
    ASSUME \A tool \in Tools : Listed(tool)
    PROVE  GroupAndDetailAgree
<1> SUFFICES ASSUME NEW g \in GroupsContent, NEW s \in g.sessions
             PROVE  SessionDetail(g.tool, s.primary).runtime_status = s.runtime_status
  BY DEF GroupAndDetailAgree
<1> DEFINE items == UNION {snapshots[t] : t \in Tools}
<1>1. PICK k \in {<<i.tool, i.project>> : i \in items} :
          g = into_runtime_group(state, k[1], k[2],
                                 {i \in items : i.tool = k[1] /\ i.project = k[2]})
  BY DEF GroupsContent, project_groups_with_runtime
<1> DEFINE tool == k[1]
           project == k[2]
           group == {i \in items : i.tool = tool /\ i.project = project}
<1>2. \A t \in Tools : \A i \in snapshots[t] : i.tool = t
  BY DEF Listed, IsListing, IsItem
<1>3. tool \in Tools
  BY <1>2
<1>4. group = {i \in snapshots[tool] : i.project = project}
  BY <1>2, <1>3
<1> HIDE DEF items
<1>5. g.tool = tool /\ \E n \in {normalized_session_id_for(i) : i \in group} :
         s = runtime_normalized_summary(state, n, {i \in group : normalized_session_id_for(i) = n})
  BY <1>1 DEF into_runtime_group
<1>6. PICK n \in {normalized_session_id_for(i) : i \in group} :
         s = runtime_normalized_summary(state, n, {i \in group : normalized_session_id_for(i) = n})
  BY <1>5
<1> DEFINE raw == {i \in group : normalized_session_id_for(i) = n}
           p == Primary(raw, n)
           shown == {<<i.tool, i.session>> : i \in raw} \cap RuntimeStates(state)
<1>7. /\ s.primary = p.session
      /\ s.runtime_status = TopRuntime(state, shown).status
  BY <1>6 DEF runtime_normalized_summary
<1>8. raw = RawSessions(tool, project, n) /\ raw # {}
  BY <1>4, <1>6 DEF RawSessions
<1> HIDE DEF tool, project, group, raw
<1>9. p \in snapshots[tool] /\ p.tool = tool
  <2>1. raw \subseteq snapshots[tool]
    BY <1>8 DEF RawSessions
  <2> QED BY <1>2, <1>3, <1>8, <2>1, PrimaryFacts DEF Listed
<1>10. \A j \in Sessions :
          j[1] = tool /\ detail_matches_runtime_session(snapshots, p, j)
            <=> j \in {<<i.tool, i.session>> : i \in raw}
  BY <1>3, <1>8, DetailCoversGroup
<1> HIDE DEF p
<1>11. {j \in RuntimeStates(state) :
            j[1] = p.tool /\ detail_matches_runtime_session(snapshots, p, j)} = shown
  BY <1>9, <1>10 DEF RuntimeStates
<1>12. runtime_for_detail(state, snapshots, p).status = TopRuntime(state, shown).status
  BY <1>11 DEF runtime_for_detail
<1> QED BY <1>3, <1>5, <1>7, <1>9, <1>12, DetailOfItem

-----------------------------------------------------------------------------
(* Every attention item is of the session of a submitted event.            *)
ItemsFromEvents ==
    \A a \in state.attention_items : \E e \in Events : e.id = a.event_id /\ SessionOf(e) = SessionOf(a)

ItemEvent(a) == CHOOSE e \in Events : e.id = a.event_id

Waiting(i) ==
    {a \in state.attention_items :
        a.status \in {"WaitingApproval", "WaitingInput"} /\ event_matches_detail(ItemEvent(a), i)}

LEMMA ItemEventFacts ==
    ASSUME ItemsFromEvents, NEW a \in state.attention_items
    PROVE  /\ ItemEvent(a) \in Events /\ ItemEvent(a).id = a.event_id
           /\ SessionOf(ItemEvent(a)) = SessionOf(a)
<1>1. PICK e \in Events : e.id = a.event_id /\ SessionOf(e) = SessionOf(a)
  BY DEF ItemsFromEvents
<1>2. ItemEvent(a) \in Events /\ ItemEvent(a).id = a.event_id
  BY <1>1 DEF ItemEvent
<1> QED BY <1>1, <1>2, EventIdAssumption

(* What is asked in a detail comes from an attention item that matches it. *)
LEMMA PendingIsWaiting ==
    ASSUME GoodState(EventIds, state), IsFiniteSet(state.attention_items), ItemsFromEvents, NEW i,
           pending_action_for_session(state, Events, i) # None
    PROVE  \E a \in Waiting(i) :
              pending_action_for_session(state, Events, i).source_event_id = a.event_id
<1> DEFINE items == Waiting(i)
           prio(a) == pending_priority(a, ItemEvent(a))
           at(a) == ItemEvent(a).at
           before(a, b) == \/ prio(a) > prio(b)
                           \/ /\ prio(a) = prio(b)
                              /\ at(a) < at(b) \/ (at(a) = at(b) /\ a.ord <= b.ord)
           first == CHOOSE a \in items : \A b \in items : before(a, b)
<1>1. pending_action_for_session(state, Events, i)
        = IF items = {} THEN None ELSE candidate_from_event(first, ItemEvent(first))
  BY DEF pending_action_for_session, ItemEvent, Waiting
<1>2. IsFiniteSet(items) /\ items \subseteq state.attention_items
  BY FS_Subset DEF Waiting
<1>3. \A a \in items : prio(a) \in Int /\ at(a) \in Int /\ a.ord \in Int
  <2> SUFFICES ASSUME NEW a \in items PROVE prio(a) \in Int /\ at(a) \in Int /\ a.ord \in Int
    OBVIOUS
  <2>1. prio(a) \in Int
    BY DEF pending_priority
  <2>2. at(a) \in Int
    BY <1>2, ItemEventFacts, EventAssumption DEF IsEvent
  <2>3. a.ord \in Int
    BY <1>2 DEF GoodState, StoredState, AttentionItem
  <2> QED BY <2>1, <2>2, <2>3
<1> DEFINE R == {p \in items \X items : before(p[1], p[2])}
<1> HIDE DEF items, prio, at
<1>4. \A a, b \in items : <<a, b>> \in R \/ <<b, a>> \in R
  BY <1>3
<1>5. \A a, b, c \in items : <<a, b>> \in R /\ <<b, c>> \in R => <<a, c>> \in R
  BY <1>3
<1>6. items # {}
  BY <1>1
<1> HIDE DEF R
<1>7. PICK a \in items : \A b \in items : <<a, b>> \in R
  BY <1>2, <1>4, <1>5, <1>6, FiniteFirst
<1>8. \A b \in items : before(a, b)
  BY <1>7 DEF R
<1>9. first \in items
  BY <1>8
<1>10. candidate_from_event(first, ItemEvent(first)).source_event_id = first.event_id
  BY DEF candidate_from_event
<1> HIDE DEF first
<1> QED BY <1>1, <1>6, <1>9, <1>10 DEF items

(* Of some runtime states one of which is blocked, a blocked one is shown. *)
LEMMA TopIsBlocked ==
    ASSUME GoodState(EventIds, state), NEW keys, IsFiniteSet(keys), keys \subseteq RuntimeStates(state),
           NEW k \in keys, state.runtime_states[k].status \in BlockedStatuses
    PROVE  TopRuntime(state, keys).status \in BlockedStatuses
<1> DEFINE item(x) == state.runtime_states[x]
           prio(x) == runtime_status_priority(item(x).status)
           above(x, y) == \/ prio(x) > prio(y)
                          \/ /\ item(x).status = item(y).status
                             /\ item(x).last_activity_at >= item(y).last_activity_at
           top == CHOOSE x \in keys : \A y \in keys : above(x, y)
           R == {p \in keys \X keys : above(p[1], p[2])}
<1>1. \A x \in keys : item(x).status \in RuntimeStatuses /\ item(x).last_activity_at \in Int
  BY DEF GoodState, StoredState, RuntimeStateItem, RuntimeStates
<1>2. \A s \in RuntimeStatuses :
        /\ runtime_status_priority(s) \in Int
        /\ s \in BlockedStatuses <=> runtime_status_priority(s) >= 5
        /\ \A r \in RuntimeStatuses : runtime_status_priority(s) = runtime_status_priority(r) => s = r
  BY DEF RuntimeStatuses, BlockedStatuses, runtime_status_priority
<1>3. \A x \in keys :
        /\ prio(x) \in Int
        /\ item(x).status \in BlockedStatuses <=> prio(x) >= 5
        /\ \A y \in keys : prio(x) = prio(y) <=> item(x).status = item(y).status
  BY <1>1, <1>2
<1>4. TopRuntime(state, keys) = item(top)
  BY DEF TopRuntime
<1> HIDE DEF item, prio
<1>5. \A x, y \in keys : <<x, y>> \in R \/ <<y, x>> \in R
  BY <1>1, <1>3
<1>6. \A x, y, z \in keys : <<x, y>> \in R /\ <<y, z>> \in R => <<x, z>> \in R
  BY <1>1, <1>3
<1> HIDE DEF R
<1>7. PICK x \in keys : \A y \in keys : <<x, y>> \in R
  BY <1>5, <1>6, FiniteFirst
<1>8. \A y \in keys : above(x, y)
  BY <1>7 DEF R
<1>9. top \in keys /\ above(top, k)
  BY <1>8
<1> HIDE DEF top
<1>10. item(k).status \in BlockedStatuses
  BY DEF item
<1>11. prio(top) >= 5
  BY <1>3, <1>9, <1>10
<1> QED BY <1>3, <1>4, <1>9, <1>11

(* The runtime states of a detail are of listed sessions.                  *)
LEMMA DetailKeysFinite ==
    ASSUME NEW tool \in Tools, Listed(tool), NEW i \in snapshots[tool],
           NEW keys, keys = {k \in RuntimeStates(state) :
                               k[1] = tool /\ detail_matches_runtime_session(snapshots, i, k)}
    PROVE  IsFiniteSet(keys)
<1> DEFINE items == snapshots[tool]
           all == {<<tool, j.session>> : j \in items}
           f == [j \in items |-> <<tool, j.session>>]
<1>1. IsFiniteSet(items) /\ i.tool = tool
  BY DEF Listed, IsListing, IsItem
<1>2. f \in Surjection(items, all)
  BY DEF Surjection
<1>3. IsFiniteSet(all)
  <2> HIDE DEF f, all
  <2> QED BY <1>1, <1>2, FS_Surjection
<1>4. keys \subseteq all
  <2> SUFFICES ASSUME NEW k \in keys PROVE k \in all
    OBVIOUS
  <2>1. k = <<k[1], k[2]>> /\ k[1] = tool
    BY DEF RuntimeStates, Sessions
  <2>2. \E j \in items : j.session = k[2]
    <3>1. CASE k[2] = i.session
      BY <3>1
    <3>2. CASE find_session(snapshots, tool, k[2]) # {}
      BY <3>2 DEF find_session
    <3> QED BY <1>1, <3>1, <3>2 DEF detail_matches_runtime_session
  <2> QED BY <2>1, <2>2
<1> HIDE DEF all
<1> QED BY <1>3, <1>4, FS_Subset

(* An event of a listed session that matches a detail is of one of the     *)
(* sessions that the detail covers.                                        *)
LEMMA MatchesMeanCovered ==
    ASSUME NEW tool \in Tools, Listed(tool), EventsOfFamily(snapshots[tool]),
           NEW i \in snapshots[tool], NEW e \in Events, event_matches_detail(e, i),
           NEW j \in snapshots[tool], j.session = e.session
    PROVE  detail_matches_runtime_session(snapshots, i, SessionOf(e))
<1> DEFINE items == snapshots[tool]
<1>1. IsListing(tool, items) /\ FamilyListed(items)
  BY DEF Listed
<1>2. /\ i.tool = tool /\ i.session # None /\ j.tool = tool
      /\ CoversLineage(i) <=> i.normalized # None /\ normalized_session_id_for(i) = i.session
      /\ normalized_session_id_for(i) = IF i.is_subagent /\ i.parent # None THEN i.parent ELSE i.session
      /\ j.parent # None => i.normalized # None
  BY <1>1, ItemFacts
<1>3. e.tool = tool /\ SessionOf(e) = SessionOf(j)
  BY <1>2 DEF event_matches_detail, SessionOf
<1>4. e.parent \in {None, j.parent} /\ e.normalized \in {None, normalized_session_id_for(j)}
  BY <1>3 DEF EventsOfFamily
<1>5. j \in find_session(snapshots, tool, e.session)
  BY DEF find_session
<1>6. SessionOf(e)[2] = e.session
  BY DEF SessionOf
<1>7. CASE e.session = i.session
  BY <1>6, <1>7 DEF detail_matches_runtime_session
<1>8. CASE CoversLineage(i) /\ e.normalized = i.normalized
  <2>1. normalized_session_id_for(j) = i.normalized
    BY <1>2, <1>4, <1>8
  <2> QED BY <1>2, <1>5, <1>6, <1>8, <2>1 DEF detail_matches_runtime_session
<1>9. CASE e.parent = i.session
  <2>1. j.parent = i.session /\ j.parent # None
    BY <1>2, <1>4, <1>9
  <2>2. \/ \E m \in items : m.session = i.session /\ ~m.is_subagent
        \/ i = j
    BY <1>1, <2>1 DEF FamilyListed
  <2>3. ~i.is_subagent \/ i.parent = i.session
    BY <1>1, <2>1, <2>2 DEF IsListing
  <2>4. CoversLineage(i)
    BY <1>2, <2>1, <2>3
  <2> QED BY <1>2, <1>5, <1>6, <2>1, <2>4 DEF detail_matches_runtime_session
<1> QED BY <1>7, <1>8, <1>9 DEF event_matches_detail

(* A listed session whose detail asks for something is shown as blocked.   *)
LEMMA AskedIsBlocked ==
    ASSUME GoodState(EventIds, state), IsFiniteSet(state.attention_items), ItemsFromEvents,
           \A tool \in Tools : Listed(tool) /\ EventsOfFamily(snapshots[tool])
    PROVE  PendingActionIsBlocked
<1> SUFFICES ASSUME NEW tool \in Tools, NEW i \in snapshots[tool],
                    SessionDetail(tool, i.session).pending_action # None,
                    \A e \in Events :
                       e.id = SessionDetail(tool, i.session).pending_action.source_event_id
                         => find_session(snapshots, tool, e.session) # {}
             PROVE  SessionDetail(tool, i.session).runtime_status \in BlockedStatuses
  BY DEF PendingActionIsBlocked
<1>1. Listed(tool) /\ EventsOfFamily(snapshots[tool]) /\ i.tool = tool
  BY DEF Listed, IsListing, IsItem
<1>2. PICK a \in Waiting(i) :
         SessionDetail(tool, i.session).pending_action.source_event_id = a.event_id
  BY <1>1, DetailOfItem, PendingIsWaiting
<1> DEFINE e == ItemEvent(a)
           k == SessionOf(e)
<1>3. e \in Events /\ e.id = a.event_id /\ k = SessionOf(a)
  BY <1>2, ItemEventFacts DEF Waiting
<1>4. event_matches_detail(e, i) /\ state.runtime_states[k].status \in BlockedStatuses
  BY <1>2, <1>3 DEF Waiting, GoodState, ItemsReflected
<1> HIDE DEF e
<1>5. PICK j \in snapshots[tool] : j.session = e.session
  BY <1>2, <1>3 DEF find_session
<1>6. detail_matches_runtime_session(snapshots, i, k)
  BY <1>1, <1>3, <1>4, <1>5, MatchesMeanCovered
<1>7. k[1] = tool /\ k \in RuntimeStates(state)
  <2>1. e.tool = tool /\ e.session \in SessionIds
    BY <1>1, <1>3, <1>4, EventAssumption DEF IsEvent, event_matches_detail
  <2> QED BY <1>4, <2>1 DEF RuntimeStates, SessionOf, Sessions, BlockedStatuses
<1> DEFINE keys == {x \in RuntimeStates(state) :
                       x[1] = tool /\ detail_matches_runtime_session(snapshots, i, x)}
<1>8. IsFiniteSet(keys)
  BY <1>1, DetailKeysFinite
<1>9. k \in keys /\ keys \subseteq RuntimeStates(state)
  BY <1>6, <1>7
<1>10. runtime_for_detail(state, snapshots, i) = TopRuntime(state, keys)
  BY <1>1 DEF runtime_for_detail
<1> HIDE DEF keys, k
<1>11. TopRuntime(state, keys).status \in BlockedStatuses
  BY <1>4, <1>8, <1>9, TopIsBlocked
<1> QED BY <1>1, <1>10, <1>11, DetailOfItem

-----------------------------------------------------------------------------
(***************************************************************************)
(* SseStreams has its own copy of the transitions: they are the same.      *)
(***************************************************************************)
LEMMA SameUpsert == \A st, e : Streams!upsert_runtime_state(st, e) = upsert_runtime_state(st, e)
BY DEF Streams!upsert_runtime_state, upsert_runtime_state, Streams!SessionOf, SessionOf,
       Streams!status_from_event, status_from_event

LEMMA SamePush == \A items, e : Streams!push_attention_item(items, e) = push_attention_item(items, e)
BY DEF Streams!push_attention_item, push_attention_item, Streams!NextOrd, NextOrd, Streams!Max, Max,
       Streams!status_from_event, status_from_event

LEMMA SameRestore ==
    \A st, k : Streams!restore_session_attention_status(st, k) = restore_session_attention_status(st, k)
BY DEF Streams!restore_session_attention_status, restore_session_attention_status,
       Streams!IsFirst, IsFirst, Streams!SessionOf, SessionOf

LEMMA SameResolved == \A items, e : Streams!resolved_items(items, e) = resolved_items(items, e)
BY DEF Streams!resolved_items, resolved_items, Streams!SessionOf, SessionOf,
       Streams!attention_item_resolved_by_key, attention_item_resolved_by_key,
       Streams!is_unkeyed_approval, is_unkeyed_approval, Streams!is_keyed_approval, is_keyed_approval,
       Streams!is_unkeyed_input, is_unkeyed_input

LEMMA SameAdd == \A st, e : Streams!add_blocker(st, e) = add_blocker(st, e)
BY SamePush
   DEF Streams!add_blocker, add_blocker, Streams!SessionOf, SessionOf,
       Streams!is_keyed_relay_input_event, is_keyed_relay_input_event,
       Streams!is_unkeyed_input, is_unkeyed_input, Streams!is_keyed_input, is_keyed_input,
       Streams!should_skip_unkeyed_input_fallback, should_skip_unkeyed_input_fallback

LEMMA SameSettle == \A st, e : Streams!settle_blockers(st, e) = settle_blockers(st, e)
<1> TAKE st, e
<1> DEFINE settled == [st EXCEPT !.attention_items = @ \ resolved_items(@, e)]
           copied == [st EXCEPT !.attention_items = @ \ Streams!resolved_items(@, e)]
<1>1. settled = copied
  BY SameResolved
<1>2. /\ Streams!SessionOf(e) = SessionOf(e) /\ Streams!LatestActivityOf(e) = LatestActivityOf(e)
      /\ Streams!should_update_latest_activity(e) = should_update_latest_activity(e)
  BY DEF Streams!should_update_latest_activity, should_update_latest_activity,
         Streams!LatestActivityOf, LatestActivityOf, Streams!SessionOf, SessionOf,
         Streams!status_from_event, status_from_event
<1>3. Streams!restore_session_attention_status(copied, Streams!SessionOf(e))
        = restore_session_attention_status(settled, SessionOf(e))
  BY <1>1, <1>2, SameRestore
<1> QED BY <1>2, <1>3 DEF Streams!settle_blockers, settle_blockers

LEMMA SameEnd == \A st, e : Streams!end_session(st, e) = end_session(st, e)
BY DEF Streams!end_session, end_session, Streams!IdleActivity, IdleActivity,
       Streams!SessionOf, SessionOf

LEMMA SameTransitions ==
    /\ \A st, e : Streams!apply_event(st, e) = apply_event(st, e)
    /\ \A st, tool : Streams!clear_tool(st, tool) = clear_tool(st, tool)
    /\ \A k, t : Streams!StaleEvent(k, t) = StaleEvent(k, t)
    /\ Streams!DefaultState = DefaultState /\ Streams!Sessions = Sessions
<1>1. \A st, e : Streams!apply_event(st, e) = apply_event(st, e)
  BY SameUpsert, SameRestore, SameAdd, SameSettle, SameEnd
     DEF Streams!apply_event, apply_event, Streams!SessionOf, SessionOf,
         Streams!apply_attention_transition, apply_attention_transition
<1>2. \A st, tool : Streams!clear_tool(st, tool) = clear_tool(st, tool)
  BY DEF Streams!clear_tool, clear_tool, Streams!Sessions, Sessions,
         Streams!NoRuntimeState, NoRuntimeState, Streams!IdleActivity, IdleActivity
<1>3. \A k, t : Streams!StaleEvent(k, t) = StaleEvent(k, t)
  BY DEF Streams!StaleEvent, StaleEvent
<1>4. Streams!DefaultState = DefaultState /\ Streams!Sessions = Sessions
  BY DEF Streams!DefaultState, DefaultState, Streams!Sessions, Sessions,
         Streams!NoRuntimeState, NoRuntimeState, Streams!IdleActivity, IdleActivity
<1> QED BY <1>1, <1>2, <1>3, <1>4

-----------------------------------------------------------------------------
(* What the streams show is of a good state and of listed families.        *)
StateHeld ==
    /\ GoodState(EventIds, state) /\ IsFiniteSet(state.attention_items) /\ ItemsFromEvents
    /\ now \in 0..MaxTime

SnapshotsHeld ==
    /\ DOMAIN snapshots = Tools
    /\ \A tool \in Tools : Listed(tool) /\ EventsOfFamily(snapshots[tool])

MutatorsHeld ==
    /\ DOMAIN mutators = Mutators
    /\ \A m \in Mutators :
          "pc" \in DOMAIN mutators[m] /\ (mutators[m].pc = "save" => mutators[m].tool \in Tools)

ContentsInv == FamiliesListed /\ StateHeld /\ SnapshotsHeld /\ MutatorsHeld

LEMMA NothingListed ==
    ASSUME NEW tool \in Tools
    PROVE  IsListing(tool, {}) /\ FamilyListed({}) /\ EventsOfFamily({})
BY FS_EmptySet DEF IsListing, FamilyListed, EventsOfFamily

LEMMA ContentsStart == FamiliesListed /\ Streams!Init => ContentsInv
<1> SUFFICES ASSUME FamiliesListed, Streams!Init PROVE ContentsInv
  OBVIOUS
<1>1. state = DefaultState /\ now = 0 /\ snapshots = FirstSnapshot
      /\ mutators = [m \in Mutators |-> Streams!Idle]
  BY SameTransitions DEF Streams!Init
<1>2. StateHeld
  BY <1>1, DefaultGood, FS_EmptySet, TimeAssumption DEF StateHeld, ItemsFromEvents
<1>3. SnapshotsHeld
  BY <1>1, ListingAssumption DEF SnapshotsHeld, Listed, FamiliesListed
<1>4. MutatorsHeld
  BY <1>1 DEF MutatorsHeld, Streams!Idle
<1> QED BY <1>2, <1>3, <1>4 DEF ContentsInv

(* No change of the state leaves it without the events of its items.       *)
LEMMA EventKeepsState ==
    ASSUME StateHeld, NEW e \in Events, state' = apply_event(state, e), UNCHANGED now
    PROVE  StateHeld'
<1>1. IsEvent(e, EventIds)
  BY EventAssumption
<1>2. GoodState(EventIds, state')
  BY <1>1, ApplyEventGood DEF StateHeld
<1>3. PICK new : /\ state'.attention_items \subseteq state.attention_items \cup {new}
                 /\ new.event_id = e.id /\ SessionOf(new) = SessionOf(e)
  BY <1>1, ApplyEventAdds DEF StateHeld
<1>4. IsFiniteSet(state'.attention_items)
  BY <1>3, FS_AddElement, FS_Subset DEF StateHeld
<1>5. ItemsFromEvents'
  BY <1>3 DEF StateHeld, ItemsFromEvents
<1> QED BY <1>2, <1>4, <1>5 DEF StateHeld

LEMMA FewerItemsKeepState ==
    ASSUME StateHeld, GoodState(EventIds, state'), now' \in 0..MaxTime,
           state'.attention_items \subseteq state.attention_items
    PROVE  StateHeld'
<1>1. IsFiniteSet(state'.attention_items)
  BY FS_Subset DEF StateHeld
<1> QED BY <1>1 DEF StateHeld, ItemsFromEvents

LEMMA MutateKeepsState ==
    ASSUME ContentsInv, NEW m \in Mutators, Streams!Mutate(m) \/ Streams!Finish(m)
    PROVE  StateHeld'
<1> USE DEF ContentsInv
<1>1. CASE \E e \in Events : Streams!append_events(m, e)
  BY <1>1, EventKeepsState, SameTransitions DEF Streams!append_events
<1>2. CASE Streams!dismiss_active_blocker(m)
  <2>1. state' = [state EXCEPT !.attention_items = {}] /\ UNCHANGED now
    BY <1>2 DEF Streams!dismiss_active_blocker
  <2>2. state \in StoredState(EventIds) /\ OrdBounded({})
    BY DEF StateHeld, GoodState, OrdBounded
  <2>3. /\ state' \in StoredState(EventIds) /\ state'.attention_items = {}
        /\ state'.runtime_states = state.runtime_states
        /\ state'.latest_activity = state.latest_activity
    BY <2>1, <2>2 DEF StoredState
  <2>4. GoodState(EventIds, state')
    BY <2>2, <2>3 DEF StateHeld, GoodState, ItemsReflected, ActivityListed
  <2> QED BY <2>1, <2>3, <2>4, FewerItemsKeepState DEF StateHeld
<1>3. CASE Streams!reset(m)
  <2>1. state' = DefaultState /\ UNCHANGED now
    BY <1>3, SameTransitions DEF Streams!reset
  <2> QED BY <2>1, DefaultGood, FewerItemsKeepState DEF StateHeld
<1>4. CASE \E k \in Streams!Sessions : Streams!mark_stale_running_sessions(m, k)
  <2>1. PICK k \in Sessions : /\ state.runtime_states[k].status = "Running" /\ UNCHANGED now
                              /\ state' = apply_event(state, StaleEvent(k, now))
    BY <1>4, SameTransitions DEF Streams!mark_stale_running_sessions
  <2>2. /\ IsEvent(StaleEvent(k, now), EventIds) /\ SessionOf(StaleEvent(k, now)) = k
        /\ StaleEvent(k, now).type = "SessionStaled"
    BY StaleEventFacts DEF StateHeld
  <2>3. GoodState(EventIds, state') /\ state'.attention_items = state.attention_items
    BY <2>1, <2>2, ApplyEventGood, StaleEventFrame DEF StateHeld
  <2> QED BY <2>1, <2>3, FewerItemsKeepState DEF StateHeld
<1>5. CASE Streams!apply_listener_config_update(m)
  <2>1. PICK tool \in Tools : state' \in {state, clear_tool(state, tool)}
    BY <1>5, SameTransitions DEF Streams!apply_listener_config_update, MutatorsHeld
  <2>2. UNCHANGED now
    BY <1>5 DEF Streams!apply_listener_config_update
  <2>3. CASE state' = clear_tool(state, tool)
    BY <2>2, <2>3, ClearToolGood, FewerItemsKeepState DEF StateHeld
  <2> QED BY <2>1, <2>2, <2>3, FewerItemsKeepState DEF StateHeld
<1>6. CASE UNCHANGED <<state, now>>
  BY <1>6, FewerItemsKeepState DEF StateHeld
<1>7. CASE \/ \E tool \in Tools, enabled \in BOOLEAN : Streams!read_listener_config(m, tool, enabled)
           \/ \E snap \in Snapshots : Streams!replace_snapshot(m, snap)
           \/ Streams!publish_plugin_notification_test(m) \/ Streams!fetch_add(m) \/ Streams!send(m)
  BY <1>6, <1>7 DEF Streams!read_listener_config, Streams!replace_snapshot,
     Streams!publish_plugin_notification_test, Streams!fetch_add, Streams!send, Streams!store
<1> QED BY <1>1, <1>2, <1>3, <1>4, <1>5, <1>7 DEF Streams!Mutate, Streams!Finish

LEMMA MutateKeepsRest ==
    ASSUME ContentsInv, NEW m \in Mutators, Streams!Mutate(m) \/ Streams!Finish(m)
    PROVE  SnapshotsHeld' /\ MutatorsHeld'
<1>1. SnapshotsHeld'
  <2>1. ASSUME NEW snap \in Snapshots, snapshots' = snap PROVE SnapshotsHeld'
    BY <2>1, ListingAssumption DEF ContentsInv, SnapshotsHeld, Listed, FamiliesListed
  <2>2. ASSUME UNCHANGED snapshots PROVE SnapshotsHeld'
    BY <2>2 DEF ContentsInv, SnapshotsHeld, Listed
  <2>3. (\E snap \in Snapshots : snapshots' = snap) \/ UNCHANGED snapshots
    BY DEF Streams!Mutate, Streams!Finish, Streams!append_events, Streams!dismiss_active_blocker,
           Streams!reset, Streams!mark_stale_running_sessions, Streams!read_listener_config,
           Streams!apply_listener_config_update, Streams!replace_snapshot, Streams!store,
           Streams!publish_plugin_notification_test, Streams!fetch_add, Streams!send
  <2> QED BY <2>1, <2>2, <2>3
<1>2. ASSUME NEW w, mutators' = [mutators EXCEPT ![m] = w], "pc" \in DOMAIN w,
             w.pc = "save" => w.tool \in Tools
      PROVE  MutatorsHeld'
  BY <1>2 DEF ContentsInv, MutatorsHeld
<1>3. ASSUME NEW x, Streams!Publish(m, x) PROVE MutatorsHeld'
  <2> DEFINE w == [pc |-> "mutated", event |-> x]
  <2>1. mutators' = [mutators EXCEPT ![m] = w]
    BY <1>3 DEF Streams!Publish
  <2>2. "pc" \in DOMAIN w /\ w.pc = "mutated"
    OBVIOUS
  <2> HIDE DEF w
  <2> QED BY <1>2, <2>1, <2>2
<1>4. ASSUME mutators' = [mutators EXCEPT ![m] = Streams!Idle] PROVE MutatorsHeld'
  <2>1. "pc" \in DOMAIN Streams!Idle /\ Streams!Idle.pc = "idle"
    BY DEF Streams!Idle
  <2> QED BY <1>2, <1>4, <2>1
<1>5. CASE \E tool \in Tools, enabled \in BOOLEAN : Streams!read_listener_config(m, tool, enabled)
  <2>1. PICK tool \in Tools, enabled \in BOOLEAN : Streams!read_listener_config(m, tool, enabled)
    BY <1>5
  <2> DEFINE w == [pc |-> "save", previous |-> config, tool |-> tool, enabled |-> enabled]
  <2>2. mutators' = [mutators EXCEPT ![m] = w]
    BY <2>1 DEF Streams!read_listener_config
  <2>3. "pc" \in DOMAIN w /\ w.tool \in Tools
    OBVIOUS
  <2> HIDE DEF w
  <2> QED BY <1>1, <1>2, <2>2, <2>3
<1>6. CASE Streams!fetch_add(m)
  <2> DEFINE w == [mutators[m] EXCEPT !.pc = "versioned"]
  <2>1. mutators' = [mutators EXCEPT ![m] = w]
    BY <1>6 DEF Streams!fetch_add
  <2>2. "pc" \in DOMAIN w /\ w.pc = "versioned"
    BY DEF ContentsInv, MutatorsHeld
  <2> HIDE DEF w
  <2> QED BY <1>1, <1>2, <2>1, <2>2
<1> QED
  BY <1>1, <1>3, <1>4, <1>5, <1>6
     DEF Streams!Mutate, Streams!Finish, Streams!append_events, Streams!dismiss_active_blocker,
         Streams!reset, Streams!mark_stale_running_sessions, Streams!apply_listener_config_update,
         Streams!replace_snapshot, Streams!publish_plugin_notification_test, Streams!send

LEMMA ContentsStep == ContentsInv /\ [Streams!Next]_Streams!vars => ContentsInv'
<1> SUFFICES ASSUME ContentsInv, [Streams!Next]_Streams!vars PROVE ContentsInv'
  OBVIOUS
<1>1. FamiliesListed'
  BY DEF ContentsInv, FamiliesListed, FamilyListed, EventsOfFamily, normalized_session_id_for, SessionOf
<1>2. CASE \E m \in Mutators : Streams!Mutate(m) \/ Streams!Finish(m)
  BY <1>1, <1>2, MutateKeepsState, MutateKeepsRest DEF ContentsInv
<1>3. CASE \E tool \in Tools : Streams!clear_snapshot(tool)
  <2>1. PICK gone \in Tools : snapshots' = [snapshots EXCEPT ![gone] = {}]
    BY <1>3 DEF Streams!clear_snapshot
  <2>2. UNCHANGED <<state, now, mutators>>
    BY <1>3 DEF Streams!clear_snapshot
  <2>3. SnapshotsHeld'
    <3>1. \A tool \in Tools : snapshots'[tool] \in {snapshots[tool], {}}
      BY <2>1 DEF ContentsInv, SnapshotsHeld
    <3> QED BY <2>1, <3>1, NothingListed DEF ContentsInv, SnapshotsHeld, Listed
  <2> QED BY <1>1, <2>2, <2>3 DEF ContentsInv, StateHeld, MutatorsHeld, ItemsFromEvents
<1>4. CASE Streams!Tick
  <2>1. now' \in 0..MaxTime /\ UNCHANGED <<state, snapshots, mutators>>
    BY <1>4, TimeAssumption DEF Streams!Tick, Streams!store, ContentsInv, StateHeld
  <2> QED BY <1>1, <2>1 DEF ContentsInv, StateHeld, SnapshotsHeld, Listed, MutatorsHeld, ItemsFromEvents
<1>5. CASE UNCHANGED <<state, now, snapshots, mutators>>
  BY <1>1, <1>5 DEF ContentsInv, StateHeld, SnapshotsHeld, Listed, MutatorsHeld, ItemsFromEvents
<1>6. CASE \/ \E c \in Conns : Streams!Serve(c)
           \/ \E c \in Conns, kind \in {"state", "groups", "detail"} : Streams!Connect(c, kind)
           \/ UNCHANGED Streams!vars
  BY <1>5, <1>6 DEF Streams!Serve, Streams!Connect, Streams!vars, Streams!store, Streams!FirstRead,
     Streams!StateRefresh, Streams!StateSend, Streams!ListReceive, Streams!ListSend
<1> QED BY <1>2, <1>3, <1>4, <1>6 DEF Streams!Next

LEMMA ContentsInductive == FamiliesListed /\ Streams!Spec => []ContentsInv
BY ContentsStart, ContentsStep, PTL DEF Streams!Spec

(* A session has one status: the project groups show for it what its detail*)
(* shows, whatever the stored state, if families are listed together.      *)
THEOREM GroupsAndDetailsAgree == FamiliesListed /\ Streams!Spec => []GroupAndDetailAgree
<1>1. ContentsInv => GroupAndDetailAgree
  BY ViewsAgree DEF ContentsInv, SnapshotsHeld
<1> QED BY <1>1, ContentsInductive, PTL

(* A session that asks for something is shown as blocked.                  *)
THEOREM AskingIsBlocked == FamiliesListed /\ Streams!Spec => []PendingActionIsBlocked
<1>1. ContentsInv => PendingActionIsBlocked
  BY AskedIsBlocked DEF ContentsInv, StateHeld, SnapshotsHeld
<1> QED BY <1>1, ContentsInductive, PTL

=============================================================================
