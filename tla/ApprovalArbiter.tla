-------------------------- MODULE ApprovalArbiter ---------------------------
(***************************************************************************)
(* The arbiter between the two reporters of one Codex approval: the session*)
(* file watcher, which can only tell the user to go to Codex, and the hook *)
(* or relay, which can carry a decision back                               *)
(* (crates/niuma-core/src/approval_arbitration.rs).  Pure operators on the *)
(* arbiter's record                                                        *)
(*   capabilities        what is known of the hook, per project;           *)
(*   pending_candidates  the watcher event that waits, per fingerprint;    *)
(*   recent_emissions    who has shown which fingerprint, and when.        *)
(* A fingerprint is [project, text]: session and command are its text.     *)
(***************************************************************************)
EXTENDS Integers

CONSTANTS
    Fingerprints,
    NoCandidate,
    RecentEmissionTtl, ActiveTtl, InactiveTtl,
    ActiveMissedThreshold

Projects == {f.project : f \in Fingerprints}

UnknownCapability == [kind |-> "Unknown", at |-> 0, missed_count |-> 0]

ProxySources == {"Hook", "Relay"}

NewArbiter == [capabilities       |-> [p \in Projects |-> UnknownCapability],
               pending_candidates |-> [f \in Fingerprints |-> NoCandidate],
               recent_emissions   |-> {}]

prune_recent(arb, t) ==
    [arb EXCEPT !.recent_emissions = {m \in @ : t - m.at <= RecentEmissionTtl}]

record_emission(arb, f, source, t) ==
    [arb EXCEPT !.recent_emissions = @ \cup {[fingerprint |-> f, source |-> source, at |-> t]}]

EmittedBy(arb, f, sources) ==
    \E m \in arb.recent_emissions : m.fingerprint = f /\ m.source \in sources

(* What is known of a project's hook expires.                              *)
capability_for_scope(arb, p, t) ==
    LET c == arb.capabilities[p]
    IN  IF \/ c.kind = "Active" /\ t - c.at > ActiveTtl
           \/ c.kind = "Inactive" /\ t - c.at > InactiveTtl
        THEN UnknownCapability
        ELSE c

-----------------------------------------------------------------------------
(* Mutant: a hook that was seen lately is trusted to come.                 *)
WatcherApprovalDecisionTrusting(arb, f, t) ==
    IF \/ EmittedBy(prune_recent(arb, t), f, ProxySources)
       \/ capability_for_scope(arb, f.project, t).kind # "Inactive"
    THEN "Suppress" ELSE "EmitNow"

(* What happens to a watcher's approval: the hook has it already, or no    *)
(* hook is to be expected, or it waits for the hook.                       *)
WatcherApprovalDecision(arb, f, t) ==
    LET pruned == prune_recent(arb, t)
    IN  CASE EmittedBy(pruned, f, ProxySources) -> "Suppress"
          [] OTHER -> IF capability_for_scope(pruned, f.project, t).kind = "Inactive"
                      THEN "EmitNow" ELSE "Delay"

on_watcher_approval(arb, f, e, t) ==
    LET pruned == prune_recent(arb, t)
        known  == [pruned EXCEPT !.capabilities[f.project] =
                                    capability_for_scope(pruned, f.project, t)]
    IN  CASE WatcherApprovalDecision(arb, f, t) = "Suppress" -> pruned
          [] WatcherApprovalDecision(arb, f, t) = "EmitNow"
               -> record_emission(known, f, "Watcher", t)
          [] WatcherApprovalDecision(arb, f, t) = "Delay"
               -> [known EXCEPT !.pending_candidates[f] = e]

(* HookApprovalDecision::ReplaceWatcher                                    *)
ReplaceWatcher(arb, f, t) == EmittedBy(prune_recent(arb, t), f, {"Watcher"})

(* Mutant: the hook leaves the waiting candidate where it is.              *)
on_proxy_approval_keep_candidate(arb, f, source, t) ==
    record_emission([prune_recent(arb, t) EXCEPT
                        !.capabilities[f.project] =
                            [kind |-> "Active", at |-> t, missed_count |-> 0]], f, source, t)

on_proxy_approval(arb, f, source, t) ==
    record_emission([prune_recent(arb, t) EXCEPT
                        !.pending_candidates[f] = NoCandidate,
                        !.capabilities[f.project] =
                            [kind |-> "Active", at |-> t, missed_count |-> 0]], f, source, t)

(* The hook did not come in time.  When the candidate is gone only the     *)
(* pruning remains.                                                        *)
expire_candidate(arb, f, t) ==
    LET pruned == prune_recent(arb, t)
        c      == capability_for_scope(pruned, f.project, t)
        missed == IF c.kind = "Active" /\ c.missed_count + 1 < ActiveMissedThreshold
                  THEN [c EXCEPT !.missed_count = @ + 1]
                  ELSE [kind |-> "Inactive", at |-> t, missed_count |-> 0]
    IN  IF arb.pending_candidates[f] = NoCandidate
        THEN pruned
        ELSE record_emission([pruned EXCEPT !.pending_candidates[f] = NoCandidate,
                                            !.capabilities[f.project] = missed],
                             f, "Watcher", t)

(* One candidate with this resolve key is dropped; which one, when several *)
(* fingerprints hold the key, is up to the hash map.                       *)
Cancelled(arb, key) ==
    LET held == {f \in Fingerprints : /\ arb.pending_candidates[f] # NoCandidate
                                      /\ arb.pending_candidates[f].key = key}
    IN  IF held = {} THEN {arb}
        ELSE {[arb EXCEPT !.pending_candidates[f] = NoCandidate] : f \in held}

=============================================================================
