-------------------------- MODULE StoreTransitions --------------------------
(***************************************************************************)
(* The pure state transitions of niuma-core: what one NiumaEvent does to   *)
(* the StoredState (crates/niuma-core/src/store/transitions.rs).           *)
(*                                                                         *)
(* A StoredState is a record with the fields                               *)
(*   runtime_states   a total function over (tool, session) pairs; the Vec *)
(*                    of the code holds at most one item per pair, and     *)
(*                    NoRuntimeState stands for "no item";                 *)
(*   attention_items  a set of items; the Vec order is the field ord, which*)
(*                    grows with every push;                               *)
(*   latest_activity  the last activity, or IdleActivity.                  *)
(* Project names, summaries and contents are carried by the code but decide*)
(* nothing, and are left out; the approval requests, which no event        *)
(* touches, are in module ApprovalFlow.                                    *)
(***************************************************************************)
EXTENDS Integers, FiniteSetsExt

CONSTANTS
    Tools,          \* ToolKind
    SessionIds,     \* session ids; one id may be in use by several tools
    ApprovalKeys,   \* resolve keys "approval:", "codex_permission:", "claude_permission:"
    InputKeys,      \* resolve keys "input:"
    OtherKeys,      \* resolve keys with any other prefix
    None            \* Option::None

(* The prefixes of resolve keys are mutually exclusive.                    *)
ASSUME KeyAssumption ==
    /\ ApprovalKeys \cap InputKeys = {}
    /\ None \notin ApprovalKeys \cup InputKeys \cup OtherKeys

ASSUME NoneAssumption == None \notin Tools /\ None \notin SessionIds

Sessions == Tools \X SessionIds

ResolveKeys == ApprovalKeys \cup InputKeys \cup OtherKeys

EventTypes == {"SessionStarted", "SessionIdled", "ApprovalRequested", "ApprovalResolved",
               "ApprovalReturnedToCodex", "ApprovalReturnedToTool", "InputRequested",
               "TaskFailed", "AssistantMessageCompleted", "ManualDismissed",
               "SessionStaled", "SessionActivity"}

BlockedStatuses == {"WaitingApproval", "WaitingInput", "Error"}

RuntimeStatuses == BlockedStatuses \cup {"Idle", "Running", "Completed", "Stale"}

IdleActivity == [event_id |-> None, tool |-> None, session |-> None,
                 status |-> "Idle", updated_at |-> None]

NoRuntimeState == [status |-> "Absent", last_event_id |-> None, last_activity_at |-> 0]

(* StoredState::default                                                    *)
DefaultState == [runtime_states  |-> [k \in Sessions |-> NoRuntimeState],
                 attention_items |-> {},
                 latest_activity |-> IdleActivity]

SessionOf(x) == <<x.tool, x.session>>

(* The types of events and of the stored state, over a set of event ids.   *)
IsEvent(e, ids) ==
    /\ e.id \in ids /\ e.tool \in Tools /\ e.session \in SessionIds
    /\ e.type \in EventTypes /\ e.key \in ResolveKeys \cup {None}
    /\ e.subagent \in BOOLEAN /\ e.at \in Int

RuntimeStateItem(ids) ==
    [status : RuntimeStatuses \cup {"Absent"}, last_event_id : ids \cup {None},
     last_activity_at : Int]

AttentionItem(ids) ==
    [ord : Nat, event_id : ids, tool : Tools, session : SessionIds,
     status : BlockedStatuses, key : ResolveKeys \cup {None}]

LatestActivity(ids) ==
    [event_id : ids, tool : Tools, session : SessionIds,
     status : {"Running", "Completed"}, updated_at : Int] \cup {IdleActivity}

StoredState(ids) ==
    [runtime_states  : [Sessions -> RuntimeStateItem(ids)],
     attention_items : SUBSET AttentionItem(ids),
     latest_activity : LatestActivity(ids)]

(* A session with an unresolved attention item is listed as blocked.       *)
ItemsReflected(st) ==
    \A i \in st.attention_items : st.runtime_states[SessionOf(i)].status \in BlockedStatuses

(* The latest activity is of a session that is listed and has not ended.   *)
ActivityListed(st) ==
    \/ st.latest_activity = IdleActivity
    \/ st.runtime_states[SessionOf(st.latest_activity)].status \notin {"Absent", "Stale", "Idle"}

status_from_event(type) ==
    CASE type \in {"SessionStarted", "ApprovalResolved", "SessionActivity"} -> "Running"
      [] type = "SessionIdled" -> "Idle"
      [] type \in {"ApprovalRequested", "ApprovalReturnedToCodex", "ApprovalReturnedToTool"}
           -> "WaitingApproval"
      [] type = "InputRequested" -> "WaitingInput"
      [] type = "TaskFailed" -> "Error"
      [] type \in {"AssistantMessageCompleted", "ManualDismissed"} -> "Completed"
      [] type = "SessionStaled" -> "Stale"

-----------------------------------------------------------------------------
(* The event's id is still visible somewhere in the state.                 *)
already_applied(st, e) ==
    \/ \E k \in Sessions : st.runtime_states[k].last_event_id = e.id
    \/ \E i \in st.attention_items : i.event_id = e.id
    \/ st.latest_activity.event_id = e.id

(* Telemetry written after the end of a task must not reopen it.           *)
is_late_terminal_activity(st, e) ==
    /\ e.type = "SessionActivity"
    /\ st.runtime_states[SessionOf(e)].status \in {"Completed", "Error", "Stale", "Idle"}

upsert_runtime_state(st, e) ==
    [st EXCEPT !.runtime_states[SessionOf(e)] =
        [status           |-> status_from_event(e.type),
         last_event_id    |-> e.id,
         last_activity_at |-> e.at]]

-----------------------------------------------------------------------------
IsFirst(i, items) == \A j \in items : i.ord <= j.ord

(* Vec::push: the new item comes after every item of the vector.           *)
NextOrd(items) == IF items = {} THEN 0 ELSE 1 + Max({i.ord : i \in items})

push_attention_item(items, e) ==
    items \cup {[ord      |-> NextOrd(items),
                 event_id |-> e.id,
                 tool     |-> e.tool,
                 session  |-> e.session,
                 status   |-> status_from_event(e.type),
                 key      |-> e.key]}

is_unkeyed_approval(i) == i.status = "WaitingApproval" /\ i.key = None

is_unkeyed_input(i) == i.status = "WaitingInput" /\ i.key = None

is_keyed_approval(i) == i.status = "WaitingApproval" /\ i.key # None

is_keyed_input(i) == i.status = "WaitingInput" /\ i.key \in InputKeys

(* A watcher's input event adds nothing to one the relay can answer.       *)
should_skip_unkeyed_input_fallback(st, e) ==
    /\ e.type = "InputRequested"
    /\ e.key = None
    /\ \E i \in st.attention_items : SessionOf(i) = SessionOf(e) /\ is_keyed_input(i)

is_keyed_relay_input_event(e) == e.type = "InputRequested" /\ e.key \in InputKeys

(* i is an item of e's session that e's resolve key settles.               *)
attention_item_resolved_by_key(i, e) ==
    \/ i.key = e.key
    \/ e.key \in ApprovalKeys /\ is_unkeyed_approval(i)
    \/ e.key \in InputKeys /\ is_unkeyed_input(i)

(* The items a Running or Completed event settles.                         *)
resolved_items(items, e) ==
    {i \in items :
        /\ SessionOf(i) = SessionOf(e)
        /\ IF e.key # None THEN attention_item_resolved_by_key(i, e)
                           ELSE ~is_keyed_approval(i)}

(* Mutant: the status of the event is kept although items remain.          *)
restore_nothing(st, k) == st

(* The session shows its first unresolved item, if it has one.             *)
restore_session_attention_status(st, k) ==
    LET mine == {i \in st.attention_items : SessionOf(i) = k}
    IN  IF mine = {} \/ st.runtime_states[k].status = "Absent"
        THEN st
        ELSE [st EXCEPT !.runtime_states[k].status =
                            (CHOOSE i \in mine : IsFirst(i, mine)).status]

should_update_latest_activity(e) ==
    ~(e.type = "AssistantMessageCompleted" /\ e.subagent)

LatestActivityOf(e) ==
    [event_id |-> e.id, tool |-> e.tool, session |-> e.session,
     status |-> status_from_event(e.type), updated_at |-> e.at]

add_blocker(st, e) ==
    LET kept == IF is_keyed_relay_input_event(e)
                THEN {i \in st.attention_items :
                        ~(SessionOf(i) = SessionOf(e) /\ is_unkeyed_input(i))}
                ELSE st.attention_items
    IN  IF should_skip_unkeyed_input_fallback(st, e)
        THEN st
        ELSE [st EXCEPT !.attention_items = push_attention_item(kept, e)]

(* Mutant: an activity is pushed like a blocker.                           *)
settle_blockers_by_push(st, e) ==
    [st EXCEPT !.attention_items = push_attention_item(@, e)]

settle_blockers(st, e) ==
    LET settled  == [st EXCEPT !.attention_items = @ \ resolved_items(@, e)]
        restored == restore_session_attention_status(settled, SessionOf(e))
    IN  IF should_update_latest_activity(e)
        THEN [restored EXCEPT !.latest_activity = LatestActivityOf(e)]
        ELSE restored

(* Mutant: the latest activity is not reset with its session.              *)
end_session_keep_activity(st, e) ==
    [st EXCEPT !.attention_items = {i \in @ : SessionOf(i) # SessionOf(e)}]

(* Stale and Idle: the session is over, whatever it was waiting for.       *)
end_session(st, e) ==
    LET gone == [st EXCEPT !.attention_items =
                        {i \in @ : SessionOf(i) # SessionOf(e)}]
    IN  IF SessionOf(st.latest_activity) = SessionOf(e)
        THEN [gone EXCEPT !.latest_activity = IdleActivity]
        ELSE gone

apply_attention_transition(st, e) ==
    CASE e.type = "ManualDismissed" -> [st EXCEPT !.attention_items = {}]
      [] e.type \in {"ApprovalReturnedToCodex", "ApprovalReturnedToTool"}
           -> restore_session_attention_status(st, SessionOf(e))
      [] e.type \in {"ApprovalRequested", "InputRequested", "TaskFailed"} -> add_blocker(st, e)
      [] e.type \in {"SessionStarted", "ApprovalResolved", "SessionActivity",
                     "AssistantMessageCompleted"} -> settle_blockers(st, e)
      [] e.type \in {"SessionStaled", "SessionIdled"} -> end_session(st, e)

(* The body of the append loop for an event that is neither known nor late.*)
apply_event(st, e) == apply_attention_transition(upsert_runtime_state(st, e), e)

-----------------------------------------------------------------------------
(* clear_tool_state without the approval requests.                         *)
clear_tool(st, tool) ==
    [st EXCEPT
        !.runtime_states  = [k \in Sessions |-> IF k[1] = tool THEN NoRuntimeState ELSE @[k]],
        !.attention_items = {i \in @ : i.tool # tool},
        !.latest_activity = IF @.tool = tool THEN IdleActivity ELSE @]

=============================================================================
