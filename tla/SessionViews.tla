---------------------------- MODULE SessionViews ----------------------------
(***************************************************************************)
(* What the Local API shows of a tool's sessions: the project groups       *)
(* (crates/niuma-api/src/tool_sessions.rs) and the detail of one session   *)
(* with the action that is waiting for the user (handlers/sessions.rs,     *)
(* pending_action.rs).  Both are computed from the session snapshots that  *)
(* the provider plugins report and from the stored state; nothing here     *)
(* changes state.                                                          *)
(*                                                                         *)
(* A ToolSessionListItem is a record of a snapshot (a set of items).  The  *)
(* events carry, besides the fields StoreTransitions reads, the lineage    *)
(* (parent, normalized) and the interaction offered to the user.  Session  *)
(* ids are numbers, so that the code's tie-breaks have an order.           *)
(***************************************************************************)
EXTENDS MainState

normalized_session_id_for(item) ==
    CASE item.normalized # None -> item.normalized
      [] item.normalized = None /\ item.is_subagent /\ item.parent # None -> item.parent
      [] OTHER -> item.session

session_scope_for(item) ==
    IF item.scope # None THEN item.scope ELSE IF item.is_subagent THEN "Subagent" ELSE "Main"

(* The order in which normalized_summary sorts the raw sessions.           *)
SortsBefore(a, b) ==
    LET rank(i) == IF session_scope_for(i) = "Main" THEN 0 ELSE 1
    IN  \/ rank(a) < rank(b)
        \/ rank(a) = rank(b) /\ a.modified_at > b.modified_at
        \/ rank(a) = rank(b) /\ a.modified_at = b.modified_at /\ a.session < b.session

First(items) == CHOOSE i \in items : \A j \in items \ {i} : SortsBefore(i, j)

(* The session that stands for a normalized session.                       *)
Primary(raw, nid) ==
    LET main == {i \in raw : session_scope_for(i) = "Main"}
        same == {i \in raw : i.session = nid}
    IN  First(IF main # {} THEN main ELSE IF same # {} THEN same ELSE raw)

runtime_status_priority(status) ==
    CASE status = "WaitingApproval" -> 7 [] status = "WaitingInput" -> 6
      [] status = "Error" -> 5 [] status = "Running" -> 4 [] status = "Completed" -> 3
      [] status = "Idle" -> 2 [] status = "Stale" -> 1

RuntimeStates(st) == {k \in Sessions : st.runtime_states[k].status # "Absent"}

(* The runtime state that is shown for a set of sessions.                  *)
TopRuntime(st, keys) ==
    IF keys = {} THEN NoRuntimeState
    ELSE LET item(k) == st.runtime_states[k]
             top == CHOOSE k \in keys : \A other \in keys :
                      \/ runtime_status_priority(item(k).status)
                           > runtime_status_priority(item(other).status)
                      \/ /\ item(k).status = item(other).status
                         /\ item(k).last_activity_at >= item(other).last_activity_at
         IN  item(top)

(* Channels of one id reported by several raw sessions: the newest, and of *)
(* two as old the available one.                                           *)
control_channel_should_replace(existing, incoming) ==
    \/ incoming.updated_at > existing.updated_at
    \/ incoming.updated_at = existing.updated_at /\ incoming.available /\ ~existing.available

control_channel_can_resume(ch) == ch.available /\ ch.can_send

normalized_control(raw) ==
    LET all == UNION {i.channels : i \in raw}
        merged == {ch \in all : \A other \in all :
                     other.id = ch.id => ~control_channel_should_replace(ch, other)}
        rank(ch) == IF control_channel_can_resume(ch) THEN 2 ELSE IF ch.available THEN 1 ELSE 0
        usable == {ch \in merged : ch.available}
    IN  [channels |-> merged,
         resumable |-> \E ch \in merged : control_channel_can_resume(ch),
         preferred |-> IF usable = {} THEN None
                       ELSE (CHOOSE ch \in usable : \A other \in usable :
                               \/ rank(ch) > rank(other)
                               \/ /\ rank(ch) = rank(other)
                                  /\ \/ ch.updated_at > other.updated_at
                                     \/ ch.updated_at = other.updated_at /\ ch.id <= other.id).id]

(* The first message of the main session speaks for the whole, or else the *)
(* earliest one.                                                           *)
normalized_first_user_message(primary, raw) ==
    LET ats == {i.first_message_at : i \in raw} \ {None}
    IN  CASE primary.first_message_at # None -> primary.first_message_at
          [] primary.first_message_at = None /\ ats # {} -> Min(ats)
          [] OTHER -> None

runtime_normalized_summary(st, nid, raw) ==
    LET primary == Primary(raw, nid)
        runtime == TopRuntime(st, {<<i.tool, i.session>> : i \in raw} \cap RuntimeStates(st))
    IN  [normalized |-> nid,
         primary    |-> primary.session,
         status     |-> IF \E i \in raw : i.is_active THEN "Active" ELSE primary.status,
         runtime_status        |-> runtime.status,
         runtime_last_event_id |-> runtime.last_event_id,
         updated_at |-> Max({i.modified_at : i \in raw}),
         first_message_at |-> normalized_first_user_message(primary, raw),
         subagent_count |-> Cardinality({i \in raw : i.is_subagent}),
         control    |-> normalized_control(raw)]

(* One group per tool and project, one summary per normalized session.     *)
into_runtime_group(st, tool, project, raw) ==
    LET nids == {normalized_session_id_for(i) : i \in raw}
        sessions == {runtime_normalized_summary(
                        st, n, {i \in raw : normalized_session_id_for(i) = n}) : n \in nids}
    IN  [tool |-> tool, project |-> project, sessions |-> sessions,
         updated_at |-> Max({s.updated_at : s \in sessions}),
         raw_session_count |-> Cardinality(raw)]

project_groups_with_runtime(st, snapshots) ==
    LET items == UNION {snapshots[t] : t \in Tools}
    IN  {into_runtime_group(st, k[1], k[2], {i \in items : i.tool = k[1] /\ i.project = k[2]})
            : k \in {<<i.tool, i.project>> : i \in items}}

-----------------------------------------------------------------------------
find_session(snapshots, tool, session) == {i \in snapshots[tool] : i.session = session}

(* The detail of a normalized or main session covers its subagents.        *)
CoversLineage(d) == d.normalized # None /\ (d.session = d.normalized \/ d.scope = "Main")

(* Mutant: only the sessions of the detail's own id count.                 *)
detail_matches_own_session(snapshots, d, k) == k[2] = d.session

detail_matches_runtime_session(snapshots, d, k) ==
    \/ k[2] = d.session
    \/ /\ CoversLineage(d)
       /\ \E i \in find_session(snapshots, d.tool, k[2]) :
             normalized_session_id_for(i) = d.normalized \/ i.parent = d.session

runtime_for_detail(st, snapshots, d) ==
    TopRuntime(st, {k \in RuntimeStates(st) :
                      k[1] = d.tool /\ detail_matches_runtime_session(snapshots, d, k)})

(* Mutant: a subagent's detail claims the events of the whole lineage.     *)
event_matches_lineage(e, d) ==
    /\ e.tool = d.tool
    /\ e.session = d.session \/ e.parent = d.session \/ e.normalized = d.normalized

event_matches_detail(e, d) ==
    /\ e.tool = d.tool
    /\ \/ e.session = d.session
       \/ e.parent = d.session
       \/ CoversLineage(d) /\ e.normalized = d.normalized

(* An item NiuMa itself can answer, and of the kind the item waits for.    *)
NiumaActionable(item, e) ==
    /\ e.interaction # None
    /\ e.interaction.kind = IF item.status = "WaitingApproval" THEN "Approval" ELSE "Input"
    /\ e.interaction.handling = "Niuma" /\ e.interaction.actionable

pending_priority(item, e) ==
    CASE item.status = "WaitingApproval" /\ NiumaActionable(item, e) -> 40
      [] item.status = "WaitingInput" /\ NiumaActionable(item, e) -> 30
      [] item.status = "WaitingApproval" /\ ~NiumaActionable(item, e) -> 20
      [] OTHER -> 10

(* Approvals are submitted by request id, inputs by request and channel.   *)
candidate_from_event(item, e) ==
    [type |-> IF item.status = "WaitingApproval" THEN "Approval" ELSE "Input",
     source_event_id |-> item.event_id,
     actionable |-> /\ NiumaActionable(item, e)
                    /\ e.interaction.request_id # None
                    /\ item.status = "WaitingInput" => e.interaction.channel # None]

(* events: the cached public events.  Those of the attention items are     *)
(* always among them (NiumaStore, ActiveEventsCached), so the fallback for *)
(* a missing event is never taken.                                         *)
pending_action_for_session(st, events, d) ==
    LET event(i) == CHOOSE e \in events : e.id = i.event_id
        waiting == {i \in st.attention_items :
                      /\ i.status \in {"WaitingApproval", "WaitingInput"}
                      /\ event_matches_detail(event(i), d)}
        before(i, j) == \/ pending_priority(i, event(i)) > pending_priority(j, event(j))
                        \/ /\ pending_priority(i, event(i)) = pending_priority(j, event(j))
                           /\ \/ event(i).at < event(j).at
                              \/ event(i).at = event(j).at /\ i.ord <= j.ord
        first == CHOOSE i \in waiting : \A j \in waiting : before(i, j)
    IN  IF waiting = {} THEN None ELSE candidate_from_event(first, event(first))

(* None when the session is not in the snapshot or no provider answers.    *)
(* What the provider itself adds (messages, title) is left out; its scope  *)
(* and normalized id are those it reported in the snapshot.                *)
session_detail_with_pending_action(st, events, snapshots, tool, session) ==
    LET found == find_session(snapshots, tool, session)
        d == CHOOSE i \in found : TRUE
        runtime == runtime_for_detail(st, snapshots, d)
    IN  IF found = {} THEN None
        ELSE [session |-> session,
              control |-> d.channels,
              runtime_status |-> runtime.status,
              runtime_last_event_id |-> runtime.last_event_id,
              pending_action |-> pending_action_for_session(st, events, d)]

=============================================================================
