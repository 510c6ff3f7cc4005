----------------------------- MODULE MainState ------------------------------
(***************************************************************************)
(* The main state shown to the UI, to the SSE clients and to the plugins:  *)
(* MainStateService::current_state (crates/niuma-core/src/main_state.rs),  *)
(* a pure function of the stored state, the listener configuration and the *)
(* clock.  Of the payload the model keeps the status, the session and the  *)
(* event it is about.                                                      *)
(***************************************************************************)
EXTENDS StoreTransitions

CONSTANT CompletedRetention  \* how long a completed task stays visible

idle_payload == [status |-> "Idle", session |-> None, event_id |-> None]

FirstItem(items) == CHOOSE i \in items : IsFirst(i, items)

state_from_attention_item(i) ==
    [status |-> i.status, session |-> SessionOf(i), event_id |-> i.event_id]

state_from_latest_activity(a, now) ==
    IF \/ a.status \in {"Idle", "Stale"}
       \/ a.status = "Completed" /\ now - a.updated_at > CompletedRetention
    THEN idle_payload
    ELSE [status |-> a.status, session |-> SessionOf(a), event_id |-> a.event_id]

(* listening: is_any_ai_listening_enabled                                  *)
current_state(st, listening, now) ==
    LET waiting == {i \in st.attention_items : i.status \in {"WaitingApproval", "WaitingInput"}}
        errors  == {i \in st.attention_items : i.status = "Error"}
    IN  CASE ~listening                    -> idle_payload
          [] listening /\ waiting # {}     -> state_from_attention_item(FirstItem(waiting))
          [] listening /\ waiting = {} /\ errors # {}
                                           -> state_from_attention_item(FirstItem(errors))
          [] OTHER                         -> state_from_latest_activity(st.latest_activity, now)

=============================================================================
