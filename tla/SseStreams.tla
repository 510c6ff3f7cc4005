----------------------------- MODULE SseStreams -----------------------------
(***************************************************************************)
(* The runtime event bus (crates/niuma-core/src/runtime_event.rs), the     *)
(* mutations that publish to it (state_mutation.rs) and the SSE streams of *)
(* the Local API that follow it (crates/niuma-api/src/sse.rs).             *)
(*                                                                         *)
(* A mutation changes the store under its mutex and publishes afterwards,  *)
(* in two more steps: the version is taken, then the event is sent.  The   *)
(* channel keeps the last Capacity events; a receiver that fell behind is  *)
(* told so once and goes on with the oldest event that is left.  A stream  *)
(* reads the store when it is woken, compares with what it sent last and,  *)
(* in the case of the main state, takes the mutex of the broadcaster for   *)
(* the version only after that (DisplayVersions).                          *)
(***************************************************************************)
EXTENDS SessionContents, DisplayVersions, Sequences

CONSTANTS
    Mutators,       \* threads that change state
    Cases,          \* the cases to check: which stream each connection asks for (wants),
                    \* and how many mutations there are (left)
    DetailSession,  \* the <<tool, session>> whose detail is followed
    Capacity        \* of the broadcast channel

VARIABLES
    config,         \* ListenerConfig: the tools that are listened to
    mutators,       \* per thread: what it has done and still has to publish
    bus,            \* version (the counter), log (everything sent)
    left            \* bound: how many mutations may still begin

vars == <<state, dedupe_keys, config, snapshots, now, mutators, bus, broadcaster, conns, left>>

store == <<state, dedupe_keys, config, snapshots>>

ASSUME StreamAssumption ==
    /\ Capacity \in Nat \ {0}
    /\ DetailSession \in Sessions
    /\ Cases \subseteq [wants : [Conns -> {"state", "groups", "detail", None}], left : Nat]

Idle == [pc |-> "idle"]

-----------------------------------------------------------------------------
(* What the streams show.                                                  *)
MainContent == current_state(state, config # {}, now)

DetailContent == SessionDetail(DetailSession[1], DetailSession[2])

Content(kind) ==
    CASE kind = "state" -> MainContent
      [] kind = "groups" -> GroupsContent
      [] kind = "detail" -> DetailContent

-----------------------------------------------------------------------------
(* Mutations.  The thread goes on to publish event x, or is done.          *)
Publish(m, x) == mutators' = [mutators EXCEPT ![m] = [pc |-> "mutated", event |-> x]]

Free(m) ==
    /\ mutators[m].pc = "idle"
    /\ left > 0
    /\ left' = left - 1

append_events(m, e) ==
    /\ Free(m)
    /\ ~already_applied(state, e) /\ e.dedupe_key \notin dedupe_keys
    /\ ~is_late_terminal_activity(state, e)
    /\ state' = apply_event(state, e)
    /\ dedupe_keys' = dedupe_keys \cup {e.dedupe_key}
    /\ Publish(m, [type |-> "NiumaEventsAppended", event |-> e])
    /\ UNCHANGED <<config, snapshots, now, bus, broadcaster, conns>>

dismiss_active_blocker(m) ==
    /\ Free(m)
    /\ state.attention_items # {}
    /\ state' = [state EXCEPT !.attention_items = {}]
    /\ Publish(m, [type |-> "AttentionDismissed"])
    /\ UNCHANGED <<dedupe_keys, config, snapshots, now, bus, broadcaster, conns>>

reset(m) ==
    /\ Free(m)
    /\ state # DefaultState
    /\ state' = DefaultState
    /\ dedupe_keys' = {}
    /\ Publish(m, [type |-> "StateReset"])
    /\ UNCHANGED <<config, snapshots, now, bus, broadcaster, conns>>

(* All silent sessions are swept under one lock; each sweep of a session   *)
(* is independent of the others, so one is enough.                         *)
mark_stale_running_sessions(m, k) ==
    /\ Free(m)
    /\ state.runtime_states[k].status = "Running"
    /\ now - state.runtime_states[k].last_activity_at >= StaleTimeout
    /\ state' = apply_event(state, StaleEvent(k, now))
    /\ Publish(m, [type |-> "StateChanged"])
    /\ UNCHANGED <<dedupe_keys, config, snapshots, now, bus, broadcaster, conns>>

(* set_tool_listening_enabled: the configuration is read,                  *)
read_listener_config(m, tool, enabled) ==
    /\ Free(m)
    /\ mutators' = [mutators EXCEPT ![m] =
         [pc |-> "save", previous |-> config, tool |-> tool, enabled |-> enabled]]
    /\ UNCHANGED <<store, now, bus, broadcaster, conns>>

(* changed, saved, the state of a tool switched off is cleared, and a      *)
(* change against what was read is published.                              *)
apply_listener_config_update(m) ==
    LET w == mutators[m]
        new == IF w.enabled THEN w.previous \cup {w.tool} ELSE w.previous \ {w.tool}
        cleared == IF w.enabled THEN state ELSE clear_tool(state, w.tool)
    IN  /\ w.pc = "save"
        /\ config' = new
        /\ state' = cleared
        /\ IF new # w.previous \/ cleared # state
           THEN Publish(m, [type |-> "StateChanged"])
           ELSE mutators' = [mutators EXCEPT ![m] = Idle]
        /\ UNCHANGED <<dedupe_keys, snapshots, now, bus, broadcaster, conns, left>>

(* The provider plugin of a tool has gone: its sessions are dropped, and   *)
(* nobody is told (clear_session_provider_runtime).                        *)
clear_snapshot(tool) ==
    /\ snapshots[tool] # {}
    /\ snapshots' = [snapshots EXCEPT ![tool] = {}]
    /\ conns' = [c \in Conns |-> IF Open(c) THEN [conns[c] EXCEPT !.excused = TRUE] ELSE conns[c]]
    /\ UNCHANGED <<state, dedupe_keys, config, now, mutators, bus, broadcaster, left>>

(* A provider plugin reports the sessions of a tool.                       *)
replace_snapshot(m, snap) ==
    /\ Free(m)
    /\ snapshots # snap
    /\ snapshots' = snap
    /\ Publish(m, [type |-> "ToolSessionControlChanged"])
    /\ UNCHANGED <<state, dedupe_keys, config, now, bus, broadcaster, conns>>

(* A test notification is asked for: a control event, no change of state.  *)
publish_plugin_notification_test(m) ==
    /\ Free(m)
    /\ Publish(m, [type |-> "Test"])
    /\ UNCHANGED <<store, now, bus, broadcaster, conns>>

(* RuntimeEventBus::publish: the version is taken,                         *)
fetch_add(m) ==
    /\ mutators[m].pc = "mutated"
    /\ bus' = [bus EXCEPT !.version = @ + 1]
    /\ mutators' = [mutators EXCEPT ![m].pc = "versioned"]
    /\ UNCHANGED <<store, now, broadcaster, conns, left>>

(* then the event is sent.                                                 *)
send(m) ==
    /\ mutators[m].pc = "versioned"
    /\ bus' = [bus EXCEPT !.log = Append(@, mutators[m].event)]
    /\ mutators' = [mutators EXCEPT ![m] = Idle]
    /\ UNCHANGED <<store, now, broadcaster, conns, left>>

-----------------------------------------------------------------------------
(* Streams.                                                                *)
Oldest == IF Len(bus.log) > Capacity THEN Len(bus.log) - Capacity + 1 ELSE 1

(* The stream subscribes, then sends the whole content whatever it is.     *)
Connect(c, kind) ==
    /\ conns[c] = New(kind)
    /\ kind = "detail" => DetailContent # None
    /\ conns' = [conns EXCEPT ![c] =
         [kind |-> kind, pc |-> "force", pos |-> Len(bus.log) + 1, last |-> None,
          content |-> None, sent |-> NoFrame, excused |-> FALSE]]
    /\ UNCHANGED <<store, now, mutators, bus, broadcaster, left>>

(* The first frame.                                                        *)
FirstRead(c) ==
    /\ Open(c) /\ conns[c].pc = "force"
    /\ Reads(c, conns[c].pos, Content(conns[c].kind), TRUE)
    /\ UNCHANGED <<store, now, mutators, bus, broadcaster, left>>

(* MainStateWatcher::wait_for_refresh: an event, a lag or the timer; all   *)
(* of them make the stream read the state again.                           *)
wait_for_refresh(c) ==
    \/ conns[c].pos >= Oldest /\ conns[c].pos <= Len(bus.log)
    \/ conns[c].pos < Oldest
    \/ conns[c].pos > Len(bus.log)

(* A lag moves the receiver to the oldest event, an event to the next one, *)
(* and the timer leaves it where it is.                                    *)
NextPos(c) ==
    CASE conns[c].pos < Oldest -> Oldest
      [] conns[c].pos >= Oldest /\ conns[c].pos <= Len(bus.log) -> conns[c].pos + 1
      [] conns[c].pos > Len(bus.log) -> conns[c].pos

StateRefresh(c) ==
    /\ conns[c].kind = "state" /\ conns[c].pc = "wait"
    /\ wait_for_refresh(c)
    /\ Reads(c, NextPos(c), MainContent, FALSE)
    /\ UNCHANGED <<store, now, mutators, bus, broadcaster, left>>

(* Mutant: every connection counts its own versions.                       *)
StateSendOwnVersion(c) ==
    /\ conns[c].kind = "state" /\ conns[c].pc = "send"
    /\ conns' = [conns EXCEPT ![c] =
         [@ EXCEPT !.pc = "wait", !.content = None,
                   !.sent = [id |-> @.id + 1, content |-> conns[c].content]]]
    /\ UNCHANGED <<store, now, mutators, bus, broadcaster, left>>

(* next_state_event after the read: the version, then the frame.           *)
StateSend(c) ==
    LET b == version_for_content(conns[c].content)
    IN  /\ conns[c].kind = "state" /\ conns[c].pc = "send"
        /\ broadcaster' = b
        /\ conns' = [conns EXCEPT ![c] =
             [@ EXCEPT !.pc = "wait", !.content = None,
                       !.sent = [id |-> b.version, content |-> conns[c].content]]]
        /\ UNCHANGED <<store, now, mutators, bus, left>>

groups_stream_refreshes(x) == x.type # "Test"

session_detail_event_matches(e) ==
    /\ e.tool = DetailSession[1]
    /\ e.session = DetailSession[2] \/ e.normalized = DetailSession[2]

(* Mutant: a reset is not followed.                                        *)
detail_stream_misses_reset(x) ==
    \/ x.type = "NiumaEventsAppended" /\ session_detail_event_matches(x.event)
    \/ x.type \in {"StateChanged", "ToolSessionControlChanged"}

detail_stream_refreshes(x) ==
    \/ x.type = "NiumaEventsAppended" /\ session_detail_event_matches(x.event)
    \/ x.type \in {"StateReset", "StateChanged", "ToolSessionControlChanged"}

Refreshes(kind, x) ==
    IF kind = "groups" THEN groups_stream_refreshes(x) ELSE detail_stream_refreshes(x)

(* What a detail stream skips although the detail may have changed: a      *)
(* dismissal, and an event of a subagent that was reported without lineage *)
(* (by a hook or the relay, which do not know it).                         *)
SkippedByDetail(x) ==
    \/ x.type = "AttentionDismissed"
    \/ x.type = "NiumaEventsAppended" /\ x.event.normalized = None

(* Of the events a lagging receiver missed nothing is left but tests.      *)
OnlyTestsLeft == \A i \in Oldest..Len(bus.log) : bus.log[i].type = "Test"

(* The other streams: an event that concerns them makes them read; any     *)
(* other event, and a lag, is skipped.  The excuse is bookkeeping for the  *)
(* properties: something this stream does not follow has happened.         *)
ListReceive(c) ==
    LET w == conns[c]
        lagged == w.pos < Oldest
    IN  /\ w.kind \in {"groups", "detail"} /\ w.pc = "wait"
        /\ w.pos <= Len(bus.log)
        /\ IF ~lagged /\ Refreshes(w.kind, bus.log[w.pos])
           THEN Reads(c, w.pos + 1, Content(w.kind), FALSE)
           ELSE conns' = [conns EXCEPT ![c].pos = NextPos(c),
                    ![c].excused = @ \/ (IF w.kind = "groups" THEN lagged /\ OnlyTestsLeft
                                         ELSE lagged \/ SkippedByDetail(bus.log[w.pos]))]
        /\ UNCHANGED <<store, now, mutators, bus, broadcaster, left>>

(* The frame's id is the version of the bus plus one.                      *)
ListSend(c) ==
    /\ conns[c].kind \in {"groups", "detail"} /\ conns[c].pc = "send"
    /\ conns' = [conns EXCEPT ![c] =
         [@ EXCEPT !.pc = "wait", !.content = None,
                   !.sent = [id |-> bus.version + 1, content |-> conns[c].content]]]
    /\ UNCHANGED <<store, now, mutators, bus, broadcaster, left>>

Tick ==
    /\ now < MaxTime
    /\ now' = now + 1
    /\ UNCHANGED <<store, mutators, bus, broadcaster, conns, left>>

-----------------------------------------------------------------------------
Init ==
    /\ state = DefaultState
    /\ dedupe_keys = {}
    /\ config = Tools
    /\ snapshots = FirstSnapshot
    /\ now = 0
    /\ mutators = [m \in Mutators |-> Idle]
    /\ bus = [version |-> 0, log |-> <<>>]
    /\ broadcaster = [version |-> 0, last_content |-> None]
    /\ \E case \in Cases : /\ conns = [c \in Conns |-> New(case.wants[c])]
                           /\ left = case.left

Mutate(m) ==
    \/ \E e \in Events : append_events(m, e)
    \/ dismiss_active_blocker(m)
    \/ reset(m)
    \/ \E k \in Sessions : mark_stale_running_sessions(m, k)
    \/ \E tool \in Tools, enabled \in BOOLEAN : read_listener_config(m, tool, enabled)
    \/ \E snap \in Snapshots : replace_snapshot(m, snap)
    \/ publish_plugin_notification_test(m)

Finish(m) == apply_listener_config_update(m) \/ fetch_add(m) \/ send(m)

Serve(c) == FirstRead(c) \/ StateRefresh(c) \/ StateSend(c) \/ ListReceive(c) \/ ListSend(c)

Next ==
    \/ \E m \in Mutators : Mutate(m) \/ Finish(m)
    \/ \E tool \in Tools : clear_snapshot(tool)
    \/ \E c \in Conns : Serve(c)
    \/ \E c \in Conns, kind \in {"state", "groups", "detail"} : Connect(c, kind)
    \/ Tick

(* Threads finish what they began, and the server serves every connection: *)
(* the timer of a main-state stream fires every five seconds.              *)
Fairness ==
    /\ \A m \in Mutators : WF_vars(Finish(m))
    /\ \A c \in Conns : WF_vars(Serve(c))

Spec == Init /\ [][Next]_vars

FairSpec == Spec /\ Fairness

-----------------------------------------------------------------------------
Shows(c) == conns[c].sent.content = Content(conns[c].kind)

(* What the list streams do not follow: a lag behind a channel full of test*)
(* notifications and a provider that went away without an event (groups);  *)
(* any lag, a dismissal and a session that is not listed (detail).         *)
Unfollowed(c) ==
    \/ conns[c].kind \in {"groups", "detail"} /\ conns[c].excused
    \/ conns[c].kind = "detail" /\ DetailContent = None

(* Every stream gets to the current content again and again, although      *)
(* events are lost to a slow receiver, and the main state also changes     *)
(* without an event: with the clock (a completed task fades), or when a    *)
(* saved configuration equals the stale one that was read; there the timer *)
(* makes up for it (wait_for_refresh, session_project_groups_stream,       *)
(* session_detail_stream).                                                 *)
StreamsFollow == \A c \in Conns : []<>(~Open(c) \/ Unfollowed(c) \/ Shows(c))

=============================================================================
