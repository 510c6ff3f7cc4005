-------------------------- MODULE MCNotifications --------------------------
(* Instances of Notifications for TLC. *)
EXTENDS Notifications

Event(type, scope, reason) == [type |-> type, scope |-> scope, reason |-> reason]

MCFacts ==
    [e \in Events |->
        CASE e = "asked" -> Event("ApprovalRequested", "Main", "none")
          [] e = "resolved" -> Event("ApprovalResolved", "Main", "none")
          [] e = "completed" -> Event("AssistantMessageCompleted", "Main", "Normal")
          [] e = "helper" -> Event("AssistantMessageCompleted", "Subagent", "Normal")]
=============================================================================
