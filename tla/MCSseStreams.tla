---------------------------- MODULE MCSseStreams ----------------------------
(***************************************************************************)
(* An instance of SseStreams: a main session 1 of Codex with a subagent 2, *)
(* whose approval is reported with lineage by the session watcher and      *)
(* resolved without it by the Local API.                                   *)
(***************************************************************************)
EXTENDS SseStreams, TLC

Item(s, sub, at, chs) ==
    [tool |-> "codex", session |-> s, parent |-> IF sub THEN 1 ELSE None, normalized |-> 1,
     scope |-> None, is_subagent |-> sub, is_active |-> sub, status |-> "Idle",
     modified_at |-> at, project |-> "p", first_message_at |-> IF sub THEN 0 ELSE None,
     channels |-> chs]

Channel(available) == [id |-> 1, available |-> available, can_send |-> TRUE, updated_at |-> 0]

CONSTANTS c1, c2

MCCases == {[wants |-> (c1 :> "state") @@ (c2 :> "state"), left |-> 1],
            [wants |-> (c1 :> "state") @@ (c2 :> None), left |-> 2],
            [wants |-> (c1 :> "groups") @@ (c2 :> None), left |-> 2],
            [wants |-> (c1 :> "detail") @@ (c2 :> None), left |-> 2]}

MCDetailSession == <<"codex", 1>>

MCFirstSnapshot == [t \in Tools |-> {Item(1, FALSE, 0, {}), Item(2, TRUE, 1, {Channel(FALSE)})}]

MCSnapshots == {MCFirstSnapshot, [t \in Tools |-> {Item(1, FALSE, 0, {Channel(TRUE)})}]}

Approval == [kind |-> "Approval", handling |-> "Niuma", actionable |-> TRUE,
             request_id |-> "r1", channel |-> None]

Event(n, session, type, key, normalized, interaction, at) ==
    [id |-> <<"event", n>>, dedupe_key |-> n, tool |-> "codex", session |-> session,
     type |-> type, key |-> key, subagent |-> session = 2, at |-> at,
     parent |-> IF normalized # None /\ session = 2 THEN 1 ELSE None,
     normalized |-> normalized, interaction |-> interaction]

MCEvents ==
    { Event(1, 2, "ApprovalRequested", "approval:1", 1, Approval, 0),
      Event(2, 2, "ApprovalResolved", "approval:1", None, None, 0),
      Event(4, 1, "AssistantMessageCompleted", None, 1, None, 0),
      Event(5, 1, "InputRequested", None, 1, None, 0) }

(* Every subagent is listed with its main session.                         *)
ASSUME FamiliesListed

=============================================================================
