-------------------------- MODULE ApprovalContract --------------------------
(***************************************************************************)
(* What NiumaNotifier promises about approvals, whoever asks and whoever   *)
(* decides: an abstract specification that module ApprovalFlow implements. *)
(*                                                                         *)
(*   phase[r]   absent, open, returned (to the tool), or settled;          *)
(*   answer[h]  what hook process h has told its tool;                     *)
(*   won        the consumers whose decision was accepted.                 *)
(***************************************************************************)
CONSTANTS Requests, Hooks, RequestOf, Deciders, DecisionOf

VARIABLES phase, answer, won

Settled == {"Allowed", "Denied", "ResolvedInTool"}

Init ==
    /\ phase = [r \in Requests |-> "absent"]
    /\ answer = [h \in Hooks |-> "none"]
    /\ won = {}

Open(r) ==
    /\ phase[r] = "absent"
    /\ phase' = [phase EXCEPT ![r] = "open"]
    /\ UNCHANGED <<answer, won>>

(* Some open requests go back to their tools.                              *)
Return(S) ==
    /\ S # {}
    /\ \A r \in S : phase[r] = "open"
    /\ phase' = [r \in Requests |-> IF r \in S THEN "returned" ELSE phase[r]]
    /\ UNCHANGED <<answer, won>>

(* Consumer d wins.                                                        *)
Win(d) ==
    /\ d \notin won
    /\ phase[DecisionOf[d].request] \in {"open", "returned"}
    /\ phase' = [phase EXCEPT ![DecisionOf[d].request] = DecisionOf[d].verdict]
    /\ won' = won \cup {d}
    /\ UNCHANGED answer

SettleInTool(r) ==
    /\ phase[r] \in {"open", "returned"}
    /\ phase' = [phase EXCEPT ![r] = "ResolvedInTool"]
    /\ UNCHANGED <<answer, won>>

(* A hook tells its tool what was decided, or leaves the tool to itself.   *)
Answer(h) ==
    /\ answer[h] = "none"
    /\ phase[RequestOf[h]] \in {"Allowed", "Denied"}
    /\ answer' = [answer EXCEPT
            ![h] = IF phase[RequestOf[h]] = "Allowed" THEN "allow" ELSE "deny"]
    /\ UNCHANGED <<phase, won>>

GiveUp(h) ==
    /\ answer[h] = "none"
    /\ answer' = [answer EXCEPT ![h] = "silent"]
    /\ UNCHANGED <<phase, won>>

(* The requests of a tool, or all of them, are forgotten.                  *)
Forget(S) ==
    /\ S # {}
    /\ phase' = [r \in Requests |-> IF r \in S THEN "absent" ELSE phase[r]]
    /\ UNCHANGED <<answer, won>>

Next ==
    \/ \E r \in Requests : Open(r) \/ SettleInTool(r)
    \/ \E S \in SUBSET Requests : Return(S) \/ Forget(S)
    \/ \E d \in Deciders : Win(d)
    \/ \E h \in Hooks : Answer(h) \/ GiveUp(h)

Spec == Init /\ [][Next]_<<phase, answer, won>>

=============================================================================
