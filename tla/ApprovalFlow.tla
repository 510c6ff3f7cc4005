---------------------------- MODULE ApprovalFlow ----------------------------
(***************************************************************************)
(* An approval on its way between an AI tool and the user: the handlers of *)
(* the Local API (crates/niuma-api/src/handlers/approval.rs, events.rs),   *)
(* the watchdog, and their clients: the hook processes of niuma-cli, the   *)
(* Codex relay, the session file watchers and the consumers that decide.   *)
(*                                                                         *)
(* A handler does not hold a lock throughout: it locks the arbiter, then   *)
(* the store, then the store again.  Every such critical section is one    *)
(* step, and calls[c] is where the call of client c stands between two of  *)
(* them.  A client waits for its answer, so it has one call at a time.     *)
(*                                                                         *)
(* The store is that of StoreTransitions plus the approval requests; its   *)
(* event cache plays no part here (module NiumaStore).  The ids of approval*)
(* events carry the millisecond they were made in; the dedupe key does not *)
(* and decides, so it stands for the id.                                   *)
(***************************************************************************)
EXTENDS StoreTransitions, ApprovalRequests, ApprovalArbiter, SequencesExt

CONSTANTS
    Hooks,          \* hook processes waiting for a decision
    Relays,         \* approvals the Codex relay reports
    RequestOf,      \* [Hooks \cup Relays -> Requests]
    Deciders,       \* consumers that decide one request
    DecisionOf,     \* [Deciders -> [request : Requests, verdict : {"Allowed", "Denied"}]]
    Watchers,       \* reports of session file watchers
    ReportOf,       \* [Watchers -> Seq(events)], one post of /plugin-events each
    ClaudeCode,     \* ToolId::ClaudeCode
    UiCommands,     \* the UI commands in use: a subset of {"dismiss", "listen", "reset"}
    WatcherApprovalDelay,
    MaxTime         \* bound of the clock

VARIABLES
    state,          \* StoredState without its approval requests
    dedupe_keys,    \* RuntimeState.dedupe_keys
    requests,       \* StoredState.approval_requests
    arbiter,        \* AppState.approval_arbiter
    calls,          \* calls[c]: where the call of client c stands
    expiries,       \* the tasks that wait to show a delayed watcher event
    now,            \* the clock
    unreported,     \* the watcher reports that are still to come
    enabled,        \* the tools the listener configuration enables
    hooks,          \* hooks[h]: how far the hook process is
    relay,          \* relay[r]: whether the relay holds the approval as pending
    tui,            \* tui[r]: the answer given in the terminal, on its way
    codex,          \* codex[r]: the first answer that reached the app-server
    accepted        \* accepted[d]: what the consumer was told

store  == <<state, dedupe_keys>>
client == <<unreported, enabled, hooks, relay, tui, codex, accepted>>
vars   == <<state, dedupe_keys, requests, arbiter, calls, expiries, now,
            unreported, enabled, hooks, relay, tui, codex, accepted>>

Watchdog == <<"watchdog">>
Ui       == <<"ui">>
Callers  == Hooks \cup Relays \cup Deciders \cup Watchers \cup {Watchdog, Ui}
                \cup ({"tool-resolved"} \X Relays)

(* Every client asks or decides about a request of the instance.  A client *)
(* is of one kind, hooks and relays use their own channels, and a relay's  *)
(* request is its own: its id holds the app-server's turn and item.  None  *)
(* is no answer.                                                           *)
ASSUME ClientAssumption ==
    /\ \A c \in Hooks \cup Relays : RequestOf[c] \in Requests
    /\ \A h \in Hooks : RequestInfo[RequestOf[h]].channel = "HookProxy"
    /\ \A s \in Relays : RequestInfo[RequestOf[s]].channel = "NiumaCodexRelay"
    /\ \A s, t \in Relays : RequestOf[s] = RequestOf[t] => s = t
    /\ \A d \in Deciders : /\ DecisionOf[d].request \in Requests
                           /\ DecisionOf[d].verdict \in {"Allowed", "Denied"}
    /\ \A d \in Deciders : d \notin Hooks \cup Relays \cup Watchers \cup {Watchdog, Ui}
                                        \cup ({"tool-resolved"} \X Relays)
    /\ \A s \in Relays : s \notin Hooks \cup Deciders \cup Watchers \cup {Watchdog, Ui}
                                        \cup ({"tool-resolved"} \X Relays)
    /\ None \notin {"accepted", "rejected", "error", "Allowed", "Denied"}

ASSUME ClockAssumption == MaxTime \in Nat

(* Hooks and watchers are processes of their own.                          *)
ASSUME ProcessAssumption ==
    /\ Hooks \cap Watchers = {}
    /\ \A c \in Hooks \cup Watchers : c \notin {Watchdog, Ui} \cup ({"tool-resolved"} \X Relays)

NoCall == [at |-> "idle", request |-> None, todo |-> <<>>, replace |-> FALSE, batch |-> <<>>]

-----------------------------------------------------------------------------
(* Events *)

approval_ref(r) == <<"approval", r>>

(* A key begins with its kind; this is the kind of a Codex watcher's.      *)
IsCodexPermission(key) == key # None /\ key[1] = "codex_permission"

approval_event(r, type) ==
    [id |-> <<type, r>>, dedupe_key |-> <<type, r>>, tool |-> RequestInfo[r].tool,
     session |-> RequestInfo[r].session, type |-> type, key |-> approval_ref(r),
     subagent |-> FALSE, at |-> 0]

(* Mutant: a request that went back to the tool counts as resolved.        *)
returned_as_resolved(r) == approval_event(r, "ApprovalResolved")

(* The events of the instance are events of the store; their ids and keys  *)
(* tell the approval of a request (event_approval_{id}, approval:{id}) from*)
(* whatever a session file gives; None is no fingerprint.                  *)
asked_id(r) == approval_event(r, "ApprovalRequested").id

ReportedEvents == UNION {ToSet(ReportOf[w]) : w \in Watchers}

ASSUME EventAssumption ==
    /\ None \notin Fingerprints
    /\ \A r \in Requests : /\ RequestInfo[r].tool \in Tools /\ RequestInfo[r].session \in SessionIds
                           /\ approval_ref(r) \in ApprovalKeys
                           /\ asked_id(r) # None
    /\ \A w \in Watchers : ReportOf[w] \in Seq(ToSet(ReportOf[w]))
    /\ \A e \in ReportedEvents : /\ IsEvent(e, {e.id})
                                 /\ e.fingerprint \in Fingerprints \cup {None}
                                 /\ \A r \in Requests : asked_id(r) \notin {e.id, e.dedupe_key}

returned_event(r) ==
    approval_event(r, IF RequestInfo[r].tool = Codex THEN "ApprovalReturnedToCodex"
                                                     ELSE "ApprovalReturnedToTool")

(* The watcher's item that shows what r is about, if it is there.          *)
WatcherItems(r) ==
    {i \in state.attention_items :
        /\ i.status = "WaitingApproval"
        /\ i.tool = RequestInfo[r].tool
        /\ IsCodexPermission(i.key)
        /\ \E w \in Watchers : \E e \in ToSet(ReportOf[w]) :
              /\ e.id = i.event_id
              /\ e.item_fingerprint \in ToSet(RequestInfo[r].fingerprints)}

(* An event that makes the state machine drop the watcher's item.          *)
watcher_fallback_resolved_event(r) ==
    LET item == CHOOSE i \in WatcherItems(r) : IsFirst(i, WatcherItems(r))
    IN  [id |-> <<"watcher_replaced", r>>, dedupe_key |-> <<"watcher_replaced", r>>,
         tool |-> RequestInfo[r].tool, session |-> item.session,
         type |-> "ApprovalResolved", key |-> item.key, subagent |-> FALSE, at |-> 0]

(* append_events: the loop of the store over one batch.                    *)
ApplyEvent(s, e) ==
    IF \/ already_applied(s.state, e) \/ e.dedupe_key \in s.keys
       \/ is_late_terminal_activity(s.state, e)
    THEN s
    ELSE [state |-> apply_event(s.state, e), keys |-> s.keys \cup {e.dedupe_key}]

append_events(batch) ==
    LET s == FoldLeft(ApplyEvent, [state |-> state, keys |-> dedupe_keys], batch)
    IN  state' = s.state /\ dedupe_keys' = s.keys

Goto(c, at) == calls' = [calls EXCEPT ![c].at = at]

Finish(c) == calls' = [calls EXCEPT ![c] = NoCall]

AppendNext(c, batch) == calls' = [calls EXCEPT ![c].at = "append", ![c].batch = batch]

-----------------------------------------------------------------------------
Init ==
    /\ state = DefaultState
    /\ dedupe_keys = {}
    /\ requests = [r \in Requests |-> NoRequest]
    /\ arbiter = NewArbiter
    /\ calls = [c \in Callers |-> NoCall]
    /\ expiries = {}
    /\ now = 0
    /\ unreported = Watchers
    /\ enabled = Tools
    /\ hooks = [h \in Hooks |-> "ready"]
    /\ relay = [s \in Relays |-> "none"]
    /\ tui = [s \in Relays |-> None]
    /\ codex = [s \in Relays |-> None]
    /\ accepted = [d \in Deciders |-> None]

-----------------------------------------------------------------------------
(* post_approval_request                                                   *)

Submit(c) ==
    calls' = [calls EXCEPT ![c] = [NoCall EXCEPT
                !.at      = IF c \in Relays THEN "check" ELSE "arbitrate",
                !.request = RequestOf[c],
                !.todo    = RequestInfo[RequestOf[c]].fingerprints]]

(* A relay's approval that a hook already carries is not stored.           *)
existing_pending_hook_approval_for_relay(r) ==
    \E q \in Requests :
        /\ requests[q].status = "Pending"
        /\ RequestInfo[q].channel = "HookProxy"
        /\ ToSet(RequestInfo[q].fingerprints) \cap ToSet(RequestInfo[r].fingerprints) # {}

CheckExisting(c) ==
    /\ calls[c].at = "check"
    /\ IF existing_pending_hook_approval_for_relay(calls[c].request)
       THEN Finish(c)
       ELSE Goto(c, "arbitrate")
    /\ UNCHANGED <<store, requests, arbiter, expiries, now, client>>

(* One turn of the loop over the request's fingerprints.                   *)
Arbitrate(c) ==
    /\ c \in Hooks \cup Relays
    /\ calls[c].at = "arbitrate"
    /\ IF calls[c].todo = <<>>
       THEN Goto(c, "upsert") /\ UNCHANGED arbiter
       ELSE LET f == Head(calls[c].todo)
            IN  /\ arbiter' = on_proxy_approval(arbiter, f,
                                IF c \in Hooks THEN "Hook" ELSE "Relay", now)
                /\ calls' = [calls EXCEPT
                                ![c].todo = Tail(@),
                                ![c].replace = @ \/ ReplaceWatcher(arbiter, f, now)]
    /\ UNCHANGED <<store, requests, expiries, now, client>>

UpsertRequest(c) ==
    /\ calls[c].at = "upsert"
    /\ requests' = upsert_request(requests, calls[c].request, now)
    /\ Goto(c, "find")
    /\ UNCHANGED <<store, arbiter, expiries, now, client>>

(* The events to append: a fallback already shown is replaced.             *)
FindWatcherItem(c) ==
    /\ calls[c].at = "find"
    /\ LET r == calls[c].request
       IN  AppendNext(c, IF calls[c].replace /\ WatcherItems(r) # {}
                         THEN <<watcher_fallback_resolved_event(r),
                                approval_event(r, "ApprovalRequested")>>
                         ELSE <<approval_event(r, "ApprovalRequested")>>)
    /\ UNCHANGED <<store, requests, arbiter, expiries, now, client>>

(* The last step of every handler that has events to append, and its       *)
(* answer to the client.                                                   *)
AppendAndReply(c) ==
    /\ calls[c].at = "append"
    /\ append_events(calls[c].batch)
    /\ Finish(c)
    /\ hooks' = [h \in Hooks |->
                    CASE h = c /\ hooks[h] = "creating"  -> "waiting"
                      [] h = c /\ hooks[h] = "returning" -> "silent"
                      [] OTHER -> hooks[h]]
    /\ accepted' = [d \in Deciders |-> IF d = c THEN "accepted" ELSE accepted[d]]
    /\ UNCHANGED <<requests, arbiter, expiries, now, unreported, enabled, relay, tui, codex>>

-----------------------------------------------------------------------------
(* The hook process: run_codex_permission_proxy, run_claude_permission_proxy *)

StartHook(h) ==
    /\ hooks[h] = "ready"
    /\ IF RequestInfo[RequestOf[h]].tool \in enabled
       THEN hooks' = [hooks EXCEPT ![h] = "creating"] /\ Submit(h)
       ELSE hooks' = [hooks EXCEPT ![h] = "silent"] /\ UNCHANGED calls
    /\ UNCHANGED <<store, requests, arbiter, expiries, now, unreported, enabled, relay, tui, codex, accepted>>

Heartbeat(h) ==
    /\ hooks[h] = "waiting"
    /\ requests' = heartbeat_proxy(requests, RequestOf[h], now)
    /\ UNCHANGED <<store, arbiter, calls, expiries, now, client>>

(* What the hook makes of the status it polls.  An error ends it silently, *)
(* and so does a request that is no longer there.                          *)
approval_decision(status) ==
    CASE status = "Allowed" -> "allow"
      [] status = "Denied"  -> "deny"
      [] status = "Absent"  -> "silent"
      [] OTHER              -> "waiting"

(* The hook polls, and on a decision prints it and exits.                  *)
Poll(h) ==
    /\ hooks[h] = "waiting"
    /\ approval_decision(requests[RequestOf[h]].status) # "waiting"
    /\ hooks' = [hooks EXCEPT ![h] = approval_decision(requests[RequestOf[h]].status)]
    /\ UNCHANGED <<store, requests, arbiter, calls, expiries, now, unreported, enabled,
                   relay, tui, codex, accepted>>

(* The deadline passes: post_approval_return_to_codex.  The hook exits     *)
(* whatever the answer is.                                                 *)
TimeOut(h) ==
    /\ hooks[h] = "waiting"
    /\ IF MayReturn(requests, RequestOf[h])
       THEN /\ requests' = return_to_codex(requests, RequestOf[h])
            /\ AppendNext(h, <<returned_event(RequestOf[h])>>)
            /\ hooks' = [hooks EXCEPT ![h] = "returning"]
       ELSE /\ hooks' = [hooks EXCEPT ![h] = "silent"]
            /\ UNCHANGED <<requests, calls>>
    /\ UNCHANGED <<store, arbiter, expiries, now, unreported, enabled, relay, tui, codex, accepted>>

(* The hook process dies, or cannot reach the API; a call it has made goes *)
(* on.                                                                     *)
Crash(h) ==
    /\ hooks[h] \in {"creating", "waiting", "returning"}
    /\ hooks' = [hooks EXCEPT ![h] = "crashed"]
    /\ UNCHANGED <<store, requests, arbiter, calls, expiries, now, unreported, enabled,
                   relay, tui, codex, accepted>>

(* sweep_approval_proxy_watchdog                                           *)
SweepProxies ==
    /\ calls[Watchdog].at = "idle"
    /\ stale_proxies(requests, now) # {}
    /\ requests' = return_stale_proxies_to_codex(requests, now)
    /\ LET gone == SetToSeq(stale_proxies(requests, now))
       IN  AppendNext(Watchdog, [i \in DOMAIN gone |-> returned_event(gone[i])])
    /\ UNCHANGED <<store, arbiter, expiries, now, client>>

-----------------------------------------------------------------------------
(* post_approval_decision                                                  *)

ReadRequest(d) ==
    /\ calls[d].at = "idle"
    /\ accepted[d] = None
    /\ LET r == DecisionOf[d].request
       IN  /\ requests[r].status # "Absent"
           /\ Goto(d, IF RequestInfo[r].channel = "NiumaCodexRelay" /\ requests[r].status = "Pending"
                      THEN "send" ELSE "decide")
    /\ UNCHANGED <<store, requests, arbiter, expiries, now, client>>

RelayOf(r) == {s \in Relays : RequestOf[s] = r}

FirstAnswer(s, v) == codex' = [codex EXCEPT ![s] = IF @ = None THEN v ELSE @]

(* Mutant: the outcome of the control socket is not looked at.             *)
SendRelayDecisionUnchecked(d) ==
    /\ calls[d].at = "send"
    /\ \E s \in RelayOf(DecisionOf[d].request) :
         IF relay[s] = "pending"
         THEN /\ relay' = [relay EXCEPT ![s] = "closed"]
              /\ FirstAnswer(s, DecisionOf[d].verdict) \/ UNCHANGED codex
         ELSE UNCHANGED <<relay, codex>>
    /\ Goto(d, "decide")
    /\ UNCHANGED <<store, requests, arbiter, expiries, now, unreported, enabled, hooks, tui, accepted>>

(* The control socket: the relay gives up its pending approval and writes  *)
(* the verdict to the app-server.  The handler ends with an error when it  *)
(* cannot reach the relay or the relay holds no such approval, when the    *)
(* relay's write fails, and when only the relay's response is lost.        *)
SendRelayDecision(d) ==
    /\ calls[d].at = "send"
    /\ \E s \in RelayOf(DecisionOf[d].request) :
         \/ /\ relay[s] = "pending"
            /\ relay' = [relay EXCEPT ![s] = "closed"]
            /\ FirstAnswer(s, DecisionOf[d].verdict)
            /\ Goto(d, "decide")
            /\ UNCHANGED accepted
         \/ /\ \/ UNCHANGED <<relay, codex>>
               \/ /\ relay[s] = "pending"
                  /\ relay' = [relay EXCEPT ![s] = "closed"]
                  /\ FirstAnswer(s, DecisionOf[d].verdict) \/ UNCHANGED codex
            /\ Finish(d)
            /\ accepted' = [accepted EXCEPT ![d] = "error"]
    /\ UNCHANGED <<store, requests, arbiter, expiries, now, unreported, enabled, hooks, tui>>

Decide(d) ==
    /\ calls[d].at = "decide"
    /\ LET r == DecisionOf[d].request
       IN  IF MaySettle(requests, r)
           THEN /\ requests' = decide(requests, r, DecisionOf[d].verdict)
                /\ AppendNext(d, <<approval_event(r, "ApprovalResolved")>>)
                /\ UNCHANGED accepted
           ELSE /\ Finish(d)
                /\ accepted' = [accepted EXCEPT
                                    ![d] = IF requests[r].status = "Absent" THEN "error" ELSE "rejected"]
                /\ UNCHANGED requests
    /\ UNCHANGED <<store, arbiter, expiries, now, unreported, enabled, hooks, relay, tui, codex>>

-----------------------------------------------------------------------------
(* The Codex relay *)

(* The app-server asks; the relay notes the approval and reports it in a   *)
(* thread of its own.                                                      *)
ObserveServerRequest(s) ==
    /\ relay[s] = "none"
    /\ relay' = [relay EXCEPT ![s] = "pending"]
    /\ Submit(s)
    /\ UNCHANGED <<store, requests, arbiter, expiries, now, unreported, enabled, hooks, tui, codex, accepted>>

(* The user answers in the terminal: the relay first forwards the answer...*)
ForwardClientAnswer(s, v) ==
    /\ relay[s] # "none"
    /\ tui[s] = None
    /\ tui' = [tui EXCEPT ![s] = "forwarded"]
    /\ FirstAnswer(s, v)
    /\ UNCHANGED <<store, requests, arbiter, calls, expiries, now, unreported, enabled, hooks, relay, accepted>>

(* ... and then looks at it; for an approval it still holds, another thread*)
(* reports that the tool has resolved it.                                  *)
ObserveClientMessage(s) ==
    /\ tui[s] = "forwarded"
    /\ tui' = [tui EXCEPT ![s] = "observed"]
    /\ IF relay[s] = "pending"
       THEN /\ relay' = [relay EXCEPT ![s] = "closed"]
            /\ calls' = [calls EXCEPT ![<<"tool-resolved", s>>] =
                            [NoCall EXCEPT !.at = "resolve", !.request = RequestOf[s]]]
       ELSE UNCHANGED <<relay, calls>>
    /\ UNCHANGED <<store, requests, arbiter, expiries, now, unreported, enabled, hooks, codex, accepted>>

(* post_approval_tool_resolved                                             *)
ToolResolved(s) ==
    LET c == <<"tool-resolved", s>>
        r == RequestOf[s]
    IN  /\ calls[c].at = "resolve"
        /\ IF MaySettle(requests, r)
           THEN /\ requests' = resolve_in_tool(requests, r)
                /\ AppendNext(c, <<approval_event(r, "ApprovalResolved")>>)
           ELSE /\ Finish(c)
                /\ UNCHANGED requests
        /\ UNCHANGED <<store, arbiter, expiries, now, client>>

-----------------------------------------------------------------------------
(* post_event and post_plugin_events, for the session file watchers        *)

StartReport(w) ==
    /\ w \in unreported
    /\ unreported' = unreported \ {w}
    /\ calls' = [calls EXCEPT ![w] = [NoCall EXCEPT !.at = "report", !.todo = ReportOf[w]]]
    /\ UNCHANGED <<store, requests, arbiter, expiries, now, enabled, hooks, relay, tui, codex,
                   accepted>>

is_codex_watcher_approval(e) == e.tool = Codex /\ e.type = "ApprovalRequested"

(* Handing on: the event is appended with the others of its post.          *)
Collect(w, events) ==
    calls' = [calls EXCEPT ![w].at = "report", ![w].todo = Tail(@), ![w].batch = @ \o events]

(* arbitrate_watcher_approval_event, for an event without command and      *)
(* description...                                                          *)
ReportUnknownApproval(w) ==
    /\ w \in Watchers /\ calls[w].at = "report" /\ calls[w].todo # <<>>
    /\ LET e == Head(calls[w].todo)
       IN  /\ is_codex_watcher_approval(e) /\ e.fingerprint = None
           /\ Collect(w, <<e>>)
    /\ UNCHANGED <<store, requests, arbiter, expiries, now, client>>

(* ... and for any other.                                                  *)
ReportApproval(w) ==
    /\ w \in Watchers /\ calls[w].at = "report" /\ calls[w].todo # <<>>
    /\ LET e == Head(calls[w].todo)
           f == e.fingerprint
           decision == WatcherApprovalDecision(arbiter, f, now)
       IN  /\ is_codex_watcher_approval(e) /\ f # None
           /\ arbiter' = on_watcher_approval(arbiter, f, e, now)
           /\ Collect(w, IF decision = "EmitNow" THEN <<e>> ELSE <<>>)
           /\ expiries' = IF decision = "Delay"
                          THEN expiries \cup {[by |-> e.id, fingerprint |-> f, batch |-> <<>>,
                                               due |-> now + WatcherApprovalDelay]}
                          ELSE expiries
    /\ UNCHANGED <<store, requests, now, client>>

claude_tool_continued(e) ==
    /\ e.tool = ClaudeCode
    /\ \/ e.type \in {"SessionActivity", "TaskFailed"}
       \/ e.type = "AssistantMessageCompleted" /\ e.interrupted

(* claude_watcher_resolution_candidate: the request a Claude Code event    *)
(* shows to be over; none when there is more than one choice.              *)
ClaudeCandidates(e) ==
    LET open    == {r \in Requests : /\ RequestInfo[r].tool = ClaudeCode
                                     /\ RequestInfo[r].session = e.session
                                     /\ MaySettle(requests, r)}
        named   == {r \in open : e.key = approval_ref(r)}
        exact   == {r \in open : RequestInfo[r].call = e.call}
        unkeyed == {r \in open : RequestInfo[r].call = None}
        Only(S) == IF Cardinality(S) = 1 THEN S ELSE {}
    IN  CASE ~claude_tool_continued(e) -> {}
          [] claude_tool_continued(e) /\ \E r \in Requests : e.key = approval_ref(r) -> named
          [] OTHER -> IF e.call = None THEN Only(open)
                      ELSE IF exact # {} THEN Only(exact) ELSE Only(unkeyed)

(* A sign of life drops the candidate that waits under its key, and a      *)
(* Claude Code request that it answers is resolved in a step of its own.   *)
ReportActivity(w) ==
    /\ w \in Watchers /\ calls[w].at = "report" /\ calls[w].todo # <<>>
    /\ LET e == Head(calls[w].todo)
       IN  /\ ~is_codex_watcher_approval(e)
           /\ arbiter' \in IF e.tool = Codex /\ e.type = "SessionActivity" /\ IsCodexPermission(e.key)
                           THEN Cancelled(arbiter, e.key) ELSE {arbiter}
           /\ IF ClaudeCandidates(e) = {}
              THEN Collect(w, <<e>>)
              ELSE \E r \in ClaudeCandidates(e) :
                     calls' = [calls EXCEPT ![w].at = "resolve", ![w].request = r]
    /\ UNCHANGED <<store, requests, expiries, now, client>>

ResolveReported(w) ==
    /\ w \in Watchers /\ calls[w].at = "resolve"
    /\ LET e == Head(calls[w].todo)
           r == calls[w].request
       IN  IF MaySettle(requests, r)
           THEN /\ requests' = resolve_in_tool(requests, r)
                /\ Collect(w, <<approval_event(r, "ApprovalResolved"), e>>)
           ELSE /\ Collect(w, <<e>>)
                /\ UNCHANGED requests
    /\ UNCHANGED <<store, arbiter, expiries, now, client>>

EndReport(w) ==
    /\ w \in Watchers /\ calls[w].at = "report" /\ calls[w].todo = <<>>
    /\ IF calls[w].batch = <<>> THEN Finish(w) ELSE Goto(w, "append")
    /\ UNCHANGED <<store, requests, arbiter, expiries, now, client>>

(* spawn_watcher_candidate_expiry: no hook came in time.                   *)
ExpireCandidate(x) ==
    /\ x.batch = <<>>
    /\ x.due <= now
    /\ arbiter' = expire_candidate(arbiter, x.fingerprint, now)
    /\ LET e == arbiter.pending_candidates[x.fingerprint]
       IN  expiries' = (expiries \ {x}) \cup
                        (IF e = NoCandidate THEN {} ELSE {[x EXCEPT !.batch = <<e>>]})
    /\ UNCHANGED <<store, requests, calls, now, client>>

AppendExpired(x) ==
    /\ x.batch # <<>>
    /\ append_events(x.batch)
    /\ expiries' = expiries \ {x}
    /\ UNCHANGED <<requests, arbiter, calls, now, client>>

-----------------------------------------------------------------------------
(* The commands of the UI *)

(* set_tool_listening_enabled: the configuration is saved, and the tool's  *)
(* state is cleared when it was switched off.                              *)
SetListening(tool, on) ==
    /\ "listen" \in UiCommands
    /\ calls[Ui].at = "idle"
    /\ enabled' = IF on THEN enabled \cup {tool} ELSE enabled \ {tool}
    /\ calls' = IF on THEN calls
                ELSE [calls EXCEPT ![Ui].at = "clear", ![Ui].todo = <<tool>>]
    /\ UNCHANGED <<store, requests, arbiter, expiries, now, unreported, hooks, relay, tui, codex,
                   accepted>>

ClearToolState ==
    /\ calls[Ui].at = "clear"
    /\ state' = clear_tool(state, Head(calls[Ui].todo))
    /\ requests' = clear_tool_requests(requests, Head(calls[Ui].todo))
    /\ Finish(Ui)
    /\ UNCHANGED <<dedupe_keys, arbiter, expiries, now, client>>

Reset ==
    /\ "reset" \in UiCommands
    /\ state' = DefaultState
    /\ dedupe_keys' = {}
    /\ requests' = [r \in Requests |-> NoRequest]
    /\ UNCHANGED <<arbiter, calls, expiries, now, client>>

DismissActiveBlocker ==
    /\ "dismiss" \in UiCommands
    /\ state.attention_items # {}
    /\ state' = [state EXCEPT !.attention_items = {}]
    /\ UNCHANGED <<dedupe_keys, requests, arbiter, calls, expiries, now, client>>

Tick ==
    /\ now < MaxTime
    /\ now' = now + 1
    /\ UNCHANGED <<store, requests, arbiter, calls, expiries, client>>

-----------------------------------------------------------------------------
ServeSubmission(c) ==
    CheckExisting(c) \/ Arbitrate(c) \/ UpsertRequest(c) \/ FindWatcherItem(c)

HookStep(h) == StartHook(h) \/ Heartbeat(h) \/ Poll(h) \/ TimeOut(h) \/ Crash(h)

DeciderStep(d) == ReadRequest(d) \/ SendRelayDecision(d) \/ Decide(d)

RelayStep(s) ==
    \/ ObserveServerRequest(s) \/ ObserveClientMessage(s) \/ ToolResolved(s)
    \/ \E v \in {"Allowed", "Denied"} : ForwardClientAnswer(s, v)

WatcherStep(w) ==
    \/ StartReport(w) \/ ReportUnknownApproval(w) \/ ReportApproval(w) \/ ReportActivity(w)
    \/ ResolveReported(w) \/ EndReport(w)

UiStep ==
    \/ \E tool \in Tools, on \in BOOLEAN : SetListening(tool, on)
    \/ ClearToolState \/ Reset \/ DismissActiveBlocker

Next ==
    \/ \E c \in Hooks \cup Relays : ServeSubmission(c)
    \/ \E c \in Callers : AppendAndReply(c)
    \/ \E h \in Hooks : HookStep(h)
    \/ \E d \in Deciders : DeciderStep(d)
    \/ \E s \in Relays : RelayStep(s)
    \/ \E w \in Watchers : WatcherStep(w)
    \/ \E x \in expiries : ExpireCandidate(x) \/ AppendExpired(x)
    \/ SweepProxies
    \/ UiStep
    \/ Tick

Spec == Init /\ [][Next]_vars

-----------------------------------------------------------------------------
PhaseOf(status) ==
    CASE status = "Absent"  -> "absent"
      [] status = "Pending" -> "open"
      [] status \in {"ReturnedToCodex", "ReturnedToTool"} -> "returned"
      [] OTHER -> status

AnswerOf(hook) ==
    CASE hook \in {"allow", "deny"}     -> hook
      [] hook \in {"silent", "crashed"} -> "silent"
      [] OTHER -> "none"

Winners == {d \in Deciders : accepted[d] = "accepted" \/ calls[d].at = "append"}

(* What the approvals promise to tools and consumers, hiding the calls, the*)
(* arbiter and the attention list.                                         *)
Contract == INSTANCE ApprovalContract WITH
    phase  <- [r \in Requests |-> PhaseOf(requests[r].status)],
    answer <- [h \in Hooks |-> AnswerOf(hooks[h])],
    won    <- Winners

(* Whatever hooks, consumers, relay, watchers and watchdog do at once: a   *)
(* request is settled once and stays settled until it is forgotten, of the *)
(* consumers that decide it at most one wins and its verdict is the one    *)
(* recorded, and a hook prints a verdict only when it is recorded.         *)
RefinesContract == Contract!Spec

(* An approval that is still open is in the attention list as soon as the  *)
(* call that created it has ended, and it stays there while it goes back to*)
(* the tool, whichever way the creation raced a watcher, a timeout or the  *)
(* watchdog (post_approval_request, approval_event,                        *)
(* watcher_fallback_resolved_event).                                       *)
OpenIsShown ==
    \A r \in Requests :
        /\ MaySettle(requests, r)
        /\ \A c \in Hooks \cup Relays : calls[c].request # r
        => \E i \in state.attention_items : i.key = approval_ref(r)

(* When that is so for every value of the constants.  Nobody dismisses,    *)
(* resets or switches a tool off; and the reports are those of the built-in*)
(* watchers, which never end a session, and name a request only in what    *)
(* Claude Code made of it.                                                 *)
WatchedTypes == {"SessionStarted", "SessionActivity", "ApprovalRequested", "InputRequested",
                 "TaskFailed", "AssistantMessageCompleted"}

OnlyWatched ==
    /\ UiCommands = {}
    /\ \A e \in ReportedEvents :
          /\ e.type \in WatchedTypes
          /\ \A r \in Requests : e.key = approval_ref(r) =>
                claude_tool_continued(e) /\ SessionOf(RequestInfo[r]) = SessionOf(e)

(* And no report names a request before the request has been stored: the   *)
(* tool goes on after its hook has asked.                                  *)
AskedBeforeAnswered ==
    \A w \in Watchers \ unreported : \A e \in ToSet(ReportOf[w]) : \A r \in Requests :
        e.key = approval_ref(r) => requests[r].status # "Absent"

(* The watchers' approvals of f among the events a handler is to append.   *)
WatcherApprovals(batch, f) ==
    {e \in ToSet(batch) : is_codex_watcher_approval(e) /\ e.fingerprint = f}

(* Once a hook or relay has shown an approval, and for as long as the      *)
(* arbiter remembers, no report of a watcher about it is newly delayed or  *)
(* handed on: not by a post that comes later, nor by the expiry of one that*)
(* was waiting (on_watcher_approval, on_proxy_approval, expire_candidate). *)
(* What a post or an expiry had taken on its way before the hook spoke is  *)
(* still appended, next to the hook's approval                             *)
(* (spawn_watcher_candidate_expiry).                                       *)
HookSilencesWatcher ==
    [][\A f \in Fingerprints :
         EmittedBy(prune_recent(arbiter, now), f, ProxySources)
         => /\ arbiter'.pending_candidates[f] \in {arbiter.pending_candidates[f], NoCandidate}
            /\ \A w \in Watchers :
                  WatcherApprovals(calls'[w].batch, f) \subseteq WatcherApprovals(calls[w].batch, f)
            /\ \A x \in expiries' \ expiries : WatcherApprovals(x.batch, f) = {}]_vars

(* A relay approval is recorded as decided only when the app-server has    *)
(* been given an answer, although the answer is sent before the decision is*)
(* recorded and two consumers may do so at once (post_approval_decision).  *)
DecidedReachesCodex ==
    \A s \in Relays :
        requests[RequestOf[s]].status \in {"Allowed", "Denied"} => codex[s] # None

-----------------------------------------------------------------------------
(* What goes on by itself: a handler runs to its end, a hook that lives    *)
(* polls until its deadline, and the watchdog and the expiry tasks are     *)
(* timers of the runtime.                                                  *)
Progress ==
    \/ \E c \in Hooks \cup Relays : ServeSubmission(c)
    \/ \E c \in Callers : AppendAndReply(c)
    \/ \E h \in Hooks : Poll(h) \/ TimeOut(h)
    \/ \E d \in Deciders : SendRelayDecision(d) \/ Decide(d)
    \/ \E s \in Relays : ObserveClientMessage(s) \/ ToolResolved(s)
    \/ \E w \in Watchers : \/ ReportUnknownApproval(w) \/ ReportApproval(w) \/ ReportActivity(w)
                           \/ ResolveReported(w) \/ EndReport(w)
    \/ \E x \in expiries : ExpireCandidate(x) \/ AppendExpired(x)
    \/ SweepProxies

(* There is always only a bounded amount of that, so it is enough that some*)
(* of it happens; the clock goes on too.  Nobody has to ask, to decide, to *)
(* answer in the terminal or to crash.                                     *)
Fairness == WF_vars(Progress) /\ WF_vars(ClearToolState) /\ WF_vars(Tick)

FairSpec == Spec /\ Fairness

(* Nobody who could carry the decision back is left.                       *)
Abandoned(r) ==
    /\ requests[r].status = "Pending"
    /\ RequestInfo[r].channel = "HookProxy"
    /\ \A h \in Hooks : RequestOf[h] = r => hooks[h] \notin {"creating", "waiting", "returning"}

(* A request whose hook process died does not stay pending, and so         *)
(* actionable: the watchdog hands it back to the tool                      *)
(* (sweep_approval_proxy_watchdog).  The second case is the end of the     *)
(* bounded clock.                                                          *)
AbandonedIsReturned ==
    \A r \in Requests :
        Abandoned(r) ~> \/ ~Abandoned(r)
                        \/ requests[r].last_heartbeat_at + ProxyStaleAfter >= MaxTime

Reported == UNION {ToSet(ReportOf[w]) : w \in Watchers \ unreported}

(* The approval of e came to the user: by an item of either reporter for   *)
(* the same command, or through a request; or the tool went on by itself.  *)
Surfaced(e) ==
    \/ \E i \in state.attention_items : \E o \in Reported :
          /\ i.event_id = o.id
          /\ o = e \/ (o.fingerprint = e.fingerprint /\ e.fingerprint # None)
    \/ \E r \in Requests : /\ requests[r].status # "Absent"
                           /\ e.fingerprint \in ToSet(RequestInfo[r].fingerprints)
    \/ \E o \in Reported : o.key = e.key /\ o.type = "SessionActivity"

(* An approval that a watcher reports is not lost while it waits for a hook*)
(* that may never come: the user gets to see it                            *)
(* (arbitrate_watcher_approval_event, spawn_watcher_candidate_expiry).  The*)
(* second case is the end of the bounded clock.                            *)
ReportSurfaces ==
    \A w \in Watchers : \A e \in ToSet(ReportOf[w]) :
        (is_codex_watcher_approval(e) /\ w \notin unreported)
        ~> (Surfaced(e) \/ \E x \in expiries : x.by = e.id /\ x.due > MaxTime)

=============================================================================
