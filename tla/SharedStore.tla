---------------------------- MODULE SharedStore -----------------------------
(***************************************************************************)
(* What NiumaStore, the store itself, and SseStreams, the streams that     *)
(* show it, both keep of niuma-core's store (crates/niuma-core/src/        *)
(* store.rs): the stored state, the dedupe keys and the clock, the events  *)
(* that are submitted and those that the sweeper makes.                    *)
(***************************************************************************)
EXTENDS MainState

CONSTANTS
    Events,         \* the events the tools, plugins and hooks may submit
    StaleTimeout,   \* how long a running session may be silent
    MaxTime         \* bound of the clock

VARIABLES
    state,          \* RuntimeState.state
    dedupe_keys,    \* RuntimeState.dedupe_keys
    now             \* the clock

ASSUME TimeAssumption ==
    StaleTimeout \in Nat /\ CompletedRetention \in Nat /\ MaxTime \in Nat

EventIds == {e.id : e \in Events} \cup ({"stale"} \X Tools \X SessionIds \X (0..MaxTime))

ASSUME EventAssumption == (\A e \in Events : IsEvent(e, EventIds)) /\ None \notin EventIds

(* Mutant: the dedupe key of a stale event has no timestamp.               *)
StaleEventOncePerSession(k, t) ==
    [id |-> <<"stale", k[1], k[2], t>>, dedupe_key |-> <<"stale", k[1], k[2], 0>>,
     tool |-> k[1], session |-> k[2], type |-> "SessionStaled", key |-> None,
     subagent |-> FALSE, at |-> t]

StaleEvent(k, t) ==
    [id |-> <<"stale", k[1], k[2], t>>, dedupe_key |-> <<"stale", k[1], k[2], t>>,
     tool |-> k[1], session |-> k[2], type |-> "SessionStaled", key |-> None,
     subagent |-> FALSE, at |-> t]

=============================================================================
