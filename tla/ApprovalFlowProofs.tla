------------------------ MODULE ApprovalFlowProofs --------------------------
(***************************************************************************)
(* Theorems of ApprovalFlow for any number of hooks, relays, consumers,    *)
(* watchers and requests: it implements ApprovalContract, the watcher is   *)
(* silent once a hook has spoken, what is recorded as decided has been     *)
(* answered, and an open approval is in the attention list.                *)
(***************************************************************************)
EXTENDS ApprovalFlow, StoreTransitionsProofs, TLAPS

HookStates == {"ready", "creating", "waiting", "returning", "allow", "deny", "silent", "crashed"}

FlowTypes ==
    /\ requests \in [Requests -> ApprovalRequest]
    /\ hooks \in [Hooks -> HookStates]
    /\ accepted \in [Deciders -> {None, "accepted", "rejected", "error"}]
    /\ DOMAIN calls = Callers
    /\ now \in Nat

(* A consumer has no answer while its call is under way.                   *)
DecidersInFlight ==
    \A d \in Deciders : /\ "at" \in DOMAIN calls[d]
                        /\ calls[d].at # "idle" => accepted[d] = None

(* The inductive invariant behind the contract.                            *)
FlowInv == FlowTypes /\ DecidersInFlight

-----------------------------------------------------------------------------
(* What the operations do to the requests.                                 *)

LEMMA NewRequestType ==
    ASSUME NEW r \in Requests, NEW t \in Nat
    PROVE  /\ build_approval_request(r, t) \in ApprovalRequest
           /\ build_approval_request(r, t).status = "Pending"
BY DEF build_approval_request, ApprovalRequest, ApprovalStatuses, OpenStatuses, DecidedStatuses, NoHeartbeat

LEMMA NoRequestType == NoRequest \in ApprovalRequest /\ NoRequest.status = "Absent"
BY DEF NoRequest, ApprovalRequest, ApprovalStatuses, OpenStatuses, DecidedStatuses, NoHeartbeat

(* A new status is all that settling and returning write.                  *)
LEMMA StatusWritten ==
    ASSUME NEW rs \in [Requests -> ApprovalRequest], NEW r, NEW st \in ApprovalStatuses
    PROVE  /\ [rs EXCEPT ![r].status = st] \in [Requests -> ApprovalRequest]
           /\ \A q \in Requests : [rs EXCEPT ![r].status = st][q].status
                                    = IF q = r THEN st ELSE rs[q].status
BY DEF ApprovalRequest

LEMMA ResolveFacts ==
    ASSUME NEW rs \in [Requests -> ApprovalRequest], NEW r
    PROVE  /\ resolve_in_tool(rs, r) \in [Requests -> ApprovalRequest]
           /\ \A q \in Requests : resolve_in_tool(rs, r)[q].status
                                    = IF q = r THEN "ResolvedInTool" ELSE rs[q].status
BY DEF resolve_in_tool, ApprovalRequest, ApprovalStatuses, DecidedStatuses

LEMMA StatusUpserted ==
    ASSUME NEW rs \in [Requests -> ApprovalRequest], NEW r, NEW t \in Nat
    PROVE  /\ upsert_request(rs, r, t) \in [Requests -> ApprovalRequest]
           /\ \A q \in Requests :
                upsert_request(rs, r, t)[q].status
                  = IF q = r /\ rs[q].status = "Absent" THEN "Pending" ELSE rs[q].status
<1>1. CASE r \in Requests
  BY <1>1, NewRequestType DEF upsert_request
<1>2. CASE r \notin Requests
  BY <1>2 DEF upsert_request
<1> QED
  BY <1>1, <1>2

LEMMA HeartbeatFacts ==
    ASSUME NEW rs \in [Requests -> ApprovalRequest], NEW r \in Requests, NEW t \in Nat
    PROVE  /\ heartbeat_proxy(rs, r, t) \in [Requests -> ApprovalRequest]
           /\ \A q \in Requests : heartbeat_proxy(rs, r, t)[q].status = rs[q].status
BY DEF heartbeat_proxy, ApprovalRequest

LEMMA ReturnedStatus ==
    ASSUME NEW tool
    PROVE  returned_status_for_tool(tool) \in {"ReturnedToCodex", "ReturnedToTool"}
BY DEF returned_status_for_tool

LEMMA SweepFacts ==
    ASSUME NEW rs \in [Requests -> ApprovalRequest], NEW t \in Nat
    PROVE  /\ return_stale_proxies_to_codex(rs, t) \in [Requests -> ApprovalRequest]
           /\ \A q \in Requests :
                /\ q \in stale_proxies(rs, t) =>
                     /\ rs[q].status = "Pending"
                     /\ return_stale_proxies_to_codex(rs, t)[q].status
                          \in {"ReturnedToCodex", "ReturnedToTool"}
                /\ q \notin stale_proxies(rs, t) => return_stale_proxies_to_codex(rs, t)[q] = rs[q]
<1>1. ASSUME NEW q \in Requests
      PROVE  [rs[q] EXCEPT !.status = returned_status_for_tool(RequestInfo[q].tool),
                           !.proxy_status = "Lost"] \in ApprovalRequest
  BY ReturnedStatus DEF ApprovalRequest, ApprovalStatuses, OpenStatuses
<1>2. return_stale_proxies_to_codex(rs, t) \in [Requests -> ApprovalRequest]
  BY <1>1 DEF return_stale_proxies_to_codex
<1>3. ASSUME NEW q \in Requests, q \in stale_proxies(rs, t)
      PROVE  /\ rs[q].status = "Pending"
             /\ return_stale_proxies_to_codex(rs, t)[q].status
                  = returned_status_for_tool(RequestInfo[q].tool)
  BY <1>3 DEF stale_proxies, return_stale_proxies_to_codex, ApprovalRequest
<1>4. ASSUME NEW q \in Requests, q \notin stale_proxies(rs, t)
      PROVE  return_stale_proxies_to_codex(rs, t)[q] = rs[q]
  BY <1>4 DEF return_stale_proxies_to_codex
<1> QED
  BY <1>2, <1>3, <1>4, ReturnedStatus

LEMMA ClearFacts ==
    ASSUME NEW rs \in [Requests -> ApprovalRequest], NEW tool
    PROVE  /\ clear_tool_requests(rs, tool) \in [Requests -> ApprovalRequest]
           /\ \A q \in Requests : clear_tool_requests(rs, tool)[q].status
                                    = IF RequestInfo[q].tool = tool THEN "Absent" ELSE rs[q].status
BY NoRequestType DEF clear_tool_requests

-----------------------------------------------------------------------------
(* The clients whose steps leave the consumers alone.                      *)

DecidersUntouched == DOMAIN calls' = Callers /\ \A d \in Deciders : calls'[d] = calls[d]

LEMMA OtherCalls ==
    ASSUME FlowInv, NEW c, c \notin Deciders
    PROVE  /\ \A at : Goto(c, at) => DecidersUntouched
           /\ Finish(c) => DecidersUntouched
           /\ \A batch : AppendNext(c, batch) => DecidersUntouched
           /\ \A events : Collect(c, events) => DecidersUntouched
           /\ Submit(c) => DecidersUntouched
           /\ UNCHANGED calls => DecidersUntouched
<1>0. DOMAIN calls = Callers /\ Deciders \subseteq Callers
  BY DEF FlowInv, FlowTypes, Callers
<1>1. \A at : Goto(c, at) => DecidersUntouched
  BY <1>0 DEF DecidersUntouched, Goto
<1>2. Finish(c) => DecidersUntouched
  BY <1>0 DEF DecidersUntouched, Finish
<1>3. \A batch : AppendNext(c, batch) => DecidersUntouched
  BY <1>0 DEF DecidersUntouched, AppendNext
<1>4. \A events : Collect(c, events) => DecidersUntouched
  BY <1>0 DEF DecidersUntouched, Collect
<1>5. Submit(c) => DecidersUntouched
  BY <1>0 DEF DecidersUntouched, Submit
<1> QED
  BY <1>0, <1>1, <1>2, <1>3, <1>4, <1>5 DEF DecidersUntouched

(* The kinds of clients do not mix.                                        *)
LEMMA OtherClients ==
    /\ \A c \in Hooks \cup Relays \cup Watchers \cup {Watchdog, Ui} : c \notin Deciders
    /\ \A s \in Relays : <<"tool-resolved", s>> \notin Deciders
BY ClientAssumption

(* A step that leaves the consumers alone keeps the invariant and the      *)
(* winners.                                                                *)
LEMMA Frame ==
    ASSUME FlowInv, DecidersUntouched, UNCHANGED accepted,
           requests' \in [Requests -> ApprovalRequest],
           hooks' \in [Hooks -> HookStates],
           now' \in Nat
    PROVE  FlowInv' /\ Winners' = Winners
BY DEF FlowInv, FlowTypes, DecidersInFlight, DecidersUntouched, Winners

-----------------------------------------------------------------------------
(* The steps of the contract, in terms of the flow's variables.            *)

LEMMA Phases ==
    /\ PhaseOf("Absent") = "absent"
    /\ PhaseOf("Pending") = "open"
    /\ PhaseOf("ReturnedToCodex") = "returned"
    /\ PhaseOf("ReturnedToTool") = "returned"
    /\ \A st \in DecidedStatuses : PhaseOf(st) = st
BY DEF PhaseOf, DecidedStatuses

Phase  == [r \in Requests |-> PhaseOf(requests[r].status)]
Answer == [h \in Hooks |-> AnswerOf(hooks[h])]

ContractStep == [Contract!Next]_<<Phase, Answer, Winners>>

LEMMA StutterStep ==
    ASSUME \A r \in Requests : requests'[r].status = requests[r].status,
           \A h \in Hooks : AnswerOf(hooks'[h]) = AnswerOf(hooks[h]),
           Winners' = Winners
    PROVE  ContractStep
<1>1. Phase' = Phase
  BY DEF Phase, PhaseOf
<1>2. Answer' = Answer
  BY DEF Answer, AnswerOf
<1> QED
  BY <1>1, <1>2 DEF ContractStep

LEMMA OpenStep ==
    ASSUME NEW r \in Requests,
           requests[r].status = "Absent",
           \A q \in Requests : requests'[q].status = IF q = r THEN "Pending" ELSE requests[q].status,
           UNCHANGED hooks,
           Winners' = Winners
    PROVE  ContractStep
<1>1. Phase' = [Phase EXCEPT ![r] = "open"] /\ Phase[r] = "absent"
  BY DEF Phase, PhaseOf
<1>2. Answer' = Answer
  BY DEF Answer, AnswerOf
<1>3. Contract!Open(r)
  BY <1>1, <1>2 DEF Contract!Open, Phase, Answer
<1> QED
  BY <1>3 DEF ContractStep, Contract!Next

LEMMA ReturnStep ==
    ASSUME NEW S \in SUBSET Requests, S # {},
           \A q \in S : /\ requests[q].status = "Pending"
                        /\ requests'[q].status \in {"ReturnedToCodex", "ReturnedToTool"},
           \A q \in Requests \ S : requests'[q].status = requests[q].status,
           \A h \in Hooks : AnswerOf(hooks'[h]) = AnswerOf(hooks[h]),
           Winners' = Winners
    PROVE  ContractStep
<1>1. Phase' = [r \in Requests |-> IF r \in S THEN "returned" ELSE Phase[r]]
  BY DEF Phase, PhaseOf
<1>2. \A r \in S : Phase[r] = "open"
  BY DEF Phase, PhaseOf
<1>3. Answer' = Answer
  BY DEF Answer, AnswerOf
<1>4. Contract!Return(S)
  BY <1>1, <1>2, <1>3 DEF Contract!Return, Phase, Answer
<1> QED
  BY <1>4 DEF ContractStep, Contract!Next

LEMMA WinStep ==
    ASSUME NEW d \in Deciders, d \notin Winners,
           MaySettle(requests, DecisionOf[d].request),
           \A q \in Requests : requests'[q].status = IF q = DecisionOf[d].request
                                                     THEN DecisionOf[d].verdict
                                                     ELSE requests[q].status,
           UNCHANGED hooks,
           Winners' = Winners \cup {d}
    PROVE  ContractStep
<1>0. DecisionOf[d].request \in Requests /\ DecisionOf[d].verdict \in {"Allowed", "Denied"}
  BY ClientAssumption
<1>1. Phase' = [Phase EXCEPT ![DecisionOf[d].request] = DecisionOf[d].verdict]
  BY <1>0 DEF Phase, PhaseOf
<1>2. Phase[DecisionOf[d].request] \in {"open", "returned"}
  BY <1>0 DEF Phase, PhaseOf, MaySettle, OpenStatuses
<1>3. Answer' = Answer
  BY DEF Answer, AnswerOf
<1>4. Contract!Win(d)
  BY <1>1, <1>2, <1>3 DEF Contract!Win, Phase, Answer
<1> QED
  BY <1>4 DEF ContractStep, Contract!Next

LEMMA SettleInToolStep ==
    ASSUME NEW r \in Requests, MaySettle(requests, r),
           \A q \in Requests : requests'[q].status = IF q = r THEN "ResolvedInTool"
                                                              ELSE requests[q].status,
           UNCHANGED hooks,
           Winners' = Winners
    PROVE  ContractStep
<1>1. Phase' = [Phase EXCEPT ![r] = "ResolvedInTool"]
  BY DEF Phase, PhaseOf
<1>2. Phase[r] \in {"open", "returned"}
  BY DEF Phase, PhaseOf, MaySettle, OpenStatuses
<1>3. Answer' = Answer
  BY DEF Answer, AnswerOf
<1>4. Contract!SettleInTool(r)
  BY <1>1, <1>2, <1>3 DEF Contract!SettleInTool, Phase, Answer
<1> QED
  BY <1>4 DEF ContractStep, Contract!Next

LEMMA AnswerStep ==
    ASSUME NEW h \in Hooks, AnswerOf(hooks[h]) = "none",
           requests[RequestOf[h]].status \in {"Allowed", "Denied"},
           \A g \in Hooks : hooks'[g] = IF g = h
                                        THEN approval_decision(requests[RequestOf[h]].status)
                                        ELSE hooks[g],
           UNCHANGED requests,
           Winners' = Winners
    PROVE  ContractStep
<1>0. RequestOf[h] \in Requests
  BY ClientAssumption
<1>1. Phase' = Phase
  BY DEF Phase, PhaseOf
<1>2. Phase[RequestOf[h]] = requests[RequestOf[h]].status
  BY <1>0 DEF Phase, PhaseOf
<1>3. Answer[h] = "none"
  BY DEF Answer
<1>4. Answer' = [Answer EXCEPT ![h] = IF Phase[RequestOf[h]] = "Allowed" THEN "allow" ELSE "deny"]
  BY <1>2 DEF Answer, AnswerOf, approval_decision
<1>5. Contract!Answer(h)
  BY <1>1, <1>2, <1>3, <1>4 DEF Contract!Answer, Phase, Answer
<1> QED
  BY <1>5 DEF ContractStep, Contract!Next

LEMMA GiveUpStep ==
    ASSUME NEW h \in Hooks, AnswerOf(hooks[h]) = "none",
           \A g \in Hooks : AnswerOf(hooks'[g]) = IF g = h THEN "silent" ELSE AnswerOf(hooks[g]),
           \A r \in Requests : requests'[r].status = requests[r].status,
           Winners' = Winners
    PROVE  ContractStep
<1>1. Phase' = Phase
  BY DEF Phase, PhaseOf
<1>2. Answer' = [Answer EXCEPT ![h] = "silent"] /\ Answer[h] = "none"
  BY DEF Answer, AnswerOf
<1>3. Contract!GiveUp(h)
  BY <1>1, <1>2 DEF Contract!GiveUp, Phase, Answer
<1> QED
  BY <1>3 DEF ContractStep, Contract!Next

LEMMA ForgetStep ==
    ASSUME NEW S \in SUBSET Requests,
           \A q \in Requests : requests'[q].status = IF q \in S THEN "Absent" ELSE requests[q].status,
           UNCHANGED hooks,
           Winners' = Winners
    PROVE  ContractStep
<1>1. CASE S = {}
  BY <1>1, StutterStep DEF AnswerOf
<1>2. CASE S # {}
  <2>1. Phase' = [r \in Requests |-> IF r \in S THEN "absent" ELSE Phase[r]]
    BY DEF Phase, PhaseOf
  <2>2. Answer' = Answer
    BY DEF Answer, AnswerOf
  <2>3. Contract!Forget(S)
    BY <1>2, <2>1, <2>2 DEF Contract!Forget, Phase, Answer
  <2> QED
    BY <2>3 DEF ContractStep, Contract!Next
<1> QED
  BY <1>1, <1>2

-----------------------------------------------------------------------------
(* Every step keeps the invariant and is a step of the contract.           *)

Implements == FlowInv' /\ ContractStep

(* A step on the calls of others than consumers, of which the contract sees*)
(* nothing.                                                                *)
LEMMA HiddenStep ==
    ASSUME FlowInv, DecidersUntouched, UNCHANGED <<requests, hooks, accepted>>, now' \in Nat
    PROVE  Implements
<1>1. FlowInv' /\ Winners' = Winners
  BY Frame DEF FlowInv, FlowTypes
<1> QED
  BY <1>1, StutterStep DEF Implements, AnswerOf

LEMMA SubmissionImplements ==
    ASSUME FlowInv, NEW c \in Hooks \cup Relays, ServeSubmission(c)
    PROVE  Implements
<1>0. /\ now \in Nat
      /\ requests \in [Requests -> ApprovalRequest]
      /\ hooks \in [Hooks -> HookStates]
      /\ c \notin Deciders
  BY OtherClients DEF FlowInv, FlowTypes
<1>1. CASE CheckExisting(c)
  BY <1>0, <1>1, OtherCalls, HiddenStep DEF CheckExisting, client
<1>2. CASE Arbitrate(c)
  <2>1. DecidersUntouched
    <3>1. CASE calls[c].todo = <<>>
      BY <1>0, <1>2, <3>1, OtherCalls DEF Arbitrate
    <3>2. CASE calls[c].todo # <<>>
      <4>1. \E todo, replace : calls' = [calls EXCEPT ![c].todo = todo, ![c].replace = replace]
        BY <1>2, <3>2 DEF Arbitrate
      <4> QED
        BY <1>0, <4>1 DEF FlowInv, FlowTypes, DecidersUntouched, Callers
    <3> QED
      BY <3>1, <3>2
  <2> QED
    BY <1>0, <1>2, <2>1, HiddenStep DEF Arbitrate, client
<1>3. CASE UpsertRequest(c)
  <2> DEFINE r == calls[c].request
  <2>1. /\ requests' \in [Requests -> ApprovalRequest]
        /\ \A q \in Requests : requests'[q].status = IF q = r /\ requests[q].status = "Absent"
                                                     THEN "Pending" ELSE requests[q].status
    BY <1>0, <1>3, StatusUpserted DEF UpsertRequest
  <2>2. DecidersUntouched /\ UNCHANGED <<now, hooks, accepted>>
    BY <1>0, <1>3, OtherCalls DEF UpsertRequest, client
  <2>3. FlowInv' /\ Winners' = Winners
    BY <1>0, <2>1, <2>2, Frame
  <2>4. CASE r \in Requests /\ requests[r].status = "Absent"
    BY <2>1, <2>2, <2>3, <2>4, OpenStep DEF Implements
  <2>5. CASE ~(r \in Requests /\ requests[r].status = "Absent")
    BY <2>1, <2>2, <2>3, <2>5, StutterStep DEF Implements, AnswerOf
  <2> QED
    BY <2>4, <2>5
<1>4. CASE FindWatcherItem(c)
  BY <1>0, <1>4, OtherCalls, HiddenStep DEF FindWatcherItem, client
<1> QED
  BY <1>1, <1>2, <1>3, <1>4 DEF ServeSubmission

LEMMA ReplyImplements ==
    ASSUME FlowInv, NEW c \in Callers, AppendAndReply(c)
    PROVE  Implements
<1>0. /\ requests \in [Requests -> ApprovalRequest]
      /\ hooks \in [Hooks -> HookStates]
      /\ accepted \in [Deciders -> {None, "accepted", "rejected", "error"}]
      /\ DOMAIN calls = Callers
      /\ UNCHANGED <<requests, now>>
      /\ calls[c].at = "append"
      /\ calls' = [calls EXCEPT ![c] = NoCall]
      /\ accepted' = [d \in Deciders |-> IF d = c THEN "accepted" ELSE accepted[d]]
      /\ Deciders \subseteq Callers
  BY DEF AppendAndReply, FlowInv, FlowTypes, Finish, Callers
<1>1. /\ \A h \in Hooks : hooks'[h] = IF h = c /\ hooks[h] = "creating" THEN "waiting"
                                      ELSE IF h = c /\ hooks[h] = "returning" THEN "silent"
                                      ELSE hooks[h]
      /\ hooks' \in [Hooks -> HookStates]
  BY <1>0 DEF AppendAndReply, HookStates
<1>2. FlowInv'
  BY <1>0, <1>1 DEF FlowInv, FlowTypes, DecidersInFlight, NoCall
<1>3. Winners' = Winners
  BY <1>0 DEF Winners, NoCall
<1>4. CASE c \in Hooks /\ hooks[c] = "returning"
  BY <1>0, <1>1, <1>2, <1>3, <1>4, GiveUpStep DEF Implements, AnswerOf
<1>5. CASE ~(c \in Hooks /\ hooks[c] = "returning")
  BY <1>0, <1>1, <1>2, <1>3, <1>5, StutterStep DEF Implements, AnswerOf
<1> QED
  BY <1>4, <1>5

LEMMA HookImplements ==
    ASSUME FlowInv, NEW h \in Hooks, HookStep(h)
    PROVE  Implements
<1>0. /\ now \in Nat
      /\ requests \in [Requests -> ApprovalRequest]
      /\ hooks \in [Hooks -> HookStates]
      /\ h \notin Deciders
      /\ RequestOf[h] \in Requests
  BY OtherClients, ClientAssumption DEF FlowInv, FlowTypes
<1>1. CASE StartHook(h)
  <2>1. DecidersUntouched /\ UNCHANGED <<requests, accepted, now>>
    BY <1>0, <1>1, OtherCalls DEF StartHook
  <2>2. hooks[h] = "ready" /\ \E st \in {"creating", "silent"} : hooks' = [hooks EXCEPT ![h] = st]
    BY <1>1 DEF StartHook
  <2>3. FlowInv' /\ Winners' = Winners
    BY <1>0, <2>1, <2>2, Frame DEF HookStates
  <2>4. CASE hooks' = [hooks EXCEPT ![h] = "creating"]
    BY <1>0, <2>1, <2>2, <2>3, <2>4, StutterStep DEF Implements, AnswerOf
  <2>5. CASE hooks' = [hooks EXCEPT ![h] = "silent"]
    BY <1>0, <2>1, <2>2, <2>3, <2>5, GiveUpStep DEF Implements, AnswerOf
  <2> QED
    BY <2>2, <2>4, <2>5
<1>2. CASE Heartbeat(h)
  <2>1. /\ requests' \in [Requests -> ApprovalRequest]
        /\ \A q \in Requests : requests'[q].status = requests[q].status
    BY <1>0, <1>2, HeartbeatFacts DEF Heartbeat
  <2>2. DecidersUntouched /\ UNCHANGED <<hooks, accepted, now>>
    BY <1>0, <1>2, OtherCalls DEF Heartbeat, client
  <2>3. FlowInv' /\ Winners' = Winners
    BY <1>0, <2>1, <2>2, Frame
  <2> QED
    BY <2>1, <2>2, <2>3, StutterStep DEF Implements, AnswerOf
<1>3. CASE Poll(h)
  <2> DEFINE st == requests[RequestOf[h]].status
  <2>1. DecidersUntouched /\ UNCHANGED <<requests, accepted, now>>
    BY <1>0, <1>3, OtherCalls DEF Poll
  <2>2. /\ hooks[h] = "waiting"
        /\ st \in {"Allowed", "Denied", "Absent"}
        /\ hooks' = [hooks EXCEPT ![h] = approval_decision(st)]
    BY <1>3 DEF Poll, approval_decision
  <2>3. FlowInv' /\ Winners' = Winners
    BY <1>0, <2>1, <2>2, Frame DEF HookStates, approval_decision
  <2>4. CASE st = "Absent"
    BY <1>0, <2>1, <2>2, <2>3, <2>4, GiveUpStep DEF Implements, AnswerOf, approval_decision
  <2>5. CASE st # "Absent"
    <3>1. AnswerOf(hooks[h]) = "none"
      BY <2>2 DEF AnswerOf
    <3>2. \A g \in Hooks : hooks'[g] = IF g = h THEN approval_decision(st) ELSE hooks[g]
      BY <1>0, <2>2
    <3> QED
      BY <2>1, <2>2, <2>3, <2>5, <3>1, <3>2, AnswerStep DEF Implements
  <2> QED
    BY <2>4, <2>5
<1>4. CASE TimeOut(h)
  <2>1. DecidersUntouched /\ UNCHANGED <<accepted, now>>
    BY <1>0, <1>4, OtherCalls DEF TimeOut
  <2>2. CASE MayReturn(requests, RequestOf[h])
    <3> DEFINE st == returned_status_for_tool(RequestInfo[RequestOf[h]].tool)
    <3>1. /\ requests' = [requests EXCEPT ![RequestOf[h]].status = st]
          /\ hooks[h] = "waiting"
          /\ hooks' = [hooks EXCEPT ![h] = "returning"]
          /\ requests[RequestOf[h]].status = "Pending"
      BY <1>4, <2>2 DEF TimeOut, return_to_codex, MayReturn
    <3>2. st \in {"ReturnedToCodex", "ReturnedToTool"} /\ st \in ApprovalStatuses
      BY ReturnedStatus DEF ApprovalStatuses, OpenStatuses
    <3>3. /\ requests' \in [Requests -> ApprovalRequest]
          /\ \A q \in Requests : requests'[q].status = IF q = RequestOf[h] THEN st ELSE requests[q].status
      BY <1>0, <3>1, <3>2, StatusWritten
    <3>4. FlowInv' /\ Winners' = Winners
      BY <1>0, <2>1, <3>1, <3>3, Frame DEF HookStates
    <3>5. \A g \in Hooks : AnswerOf(hooks'[g]) = AnswerOf(hooks[g])
      BY <1>0, <3>1 DEF AnswerOf
    <3> HIDE DEF st
    <3>6. {RequestOf[h]} \in SUBSET Requests /\ {RequestOf[h]} # {}
      BY <1>0
    <3> QED
      BY <3>1, <3>2, <3>3, <3>4, <3>5, <3>6, ReturnStep DEF Implements
  <2>3. CASE ~MayReturn(requests, RequestOf[h])
    <3>1. UNCHANGED requests /\ hooks[h] = "waiting" /\ hooks' = [hooks EXCEPT ![h] = "silent"]
      BY <1>4, <2>3 DEF TimeOut
    <3>2. FlowInv' /\ Winners' = Winners
      BY <1>0, <2>1, <3>1, Frame DEF HookStates
    <3> QED
      BY <1>0, <3>1, <3>2, GiveUpStep DEF Implements, AnswerOf
  <2> QED
    BY <2>2, <2>3
<1>5. CASE Crash(h)
  <2>1. DecidersUntouched /\ UNCHANGED <<requests, accepted, now>>
    BY <1>0, <1>5, OtherCalls DEF Crash
  <2>2. hooks[h] \in {"creating", "waiting", "returning"} /\ hooks' = [hooks EXCEPT ![h] = "crashed"]
    BY <1>5 DEF Crash
  <2>3. FlowInv' /\ Winners' = Winners
    BY <1>0, <2>1, <2>2, Frame DEF HookStates
  <2> QED
    BY <1>0, <2>1, <2>2, <2>3, GiveUpStep DEF Implements, AnswerOf
<1> QED
  BY <1>1, <1>2, <1>3, <1>4, <1>5 DEF HookStep

LEMMA SweepImplements ==
    ASSUME FlowInv, SweepProxies
    PROVE  Implements
<1>0. /\ now \in Nat
      /\ requests \in [Requests -> ApprovalRequest]
      /\ hooks \in [Hooks -> HookStates]
      /\ Watchdog \notin Deciders
  BY OtherClients DEF FlowInv, FlowTypes
<1> DEFINE S == stale_proxies(requests, now)
<1>1. /\ requests' \in [Requests -> ApprovalRequest]
      /\ \A q \in Requests :
            /\ q \in S => /\ requests[q].status = "Pending"
                          /\ requests'[q].status \in {"ReturnedToCodex", "ReturnedToTool"}
            /\ q \notin S => requests'[q] = requests[q]
  BY <1>0, SweepFacts DEF SweepProxies
<1>2. S \in SUBSET Requests /\ S # {}
  BY DEF SweepProxies, stale_proxies
<1>3. DecidersUntouched /\ UNCHANGED <<hooks, accepted, now>>
  BY <1>0, OtherCalls DEF SweepProxies, client
<1>4. FlowInv' /\ Winners' = Winners
  BY <1>0, <1>1, <1>3, Frame
<1>5. \A h \in Hooks : AnswerOf(hooks'[h]) = AnswerOf(hooks[h])
  BY <1>3 DEF AnswerOf
<1> HIDE DEF S
<1> QED
  BY <1>1, <1>2, <1>3, <1>4, <1>5, ReturnStep DEF Implements

LEMMA DeciderImplements ==
    ASSUME FlowInv, NEW d \in Deciders, DeciderStep(d)
    PROVE  Implements
<1>0. /\ now \in Nat
      /\ requests \in [Requests -> ApprovalRequest]
      /\ hooks \in [Hooks -> HookStates]
      /\ accepted \in [Deciders -> {None, "accepted", "rejected", "error"}]
      /\ DOMAIN calls = Callers
      /\ d \in Callers /\ Deciders \subseteq Callers
      /\ \A e \in Deciders : /\ "at" \in DOMAIN calls[e]
                             /\ calls[e].at # "idle" => accepted[e] = None
      /\ None \notin {"accepted", "rejected", "error"}
  BY ClientAssumption DEF FlowInv, FlowTypes, DecidersInFlight, Callers
<1>1. ASSUME accepted[d] = None, calls[d].at # "append", UNCHANGED <<requests, hooks, accepted, now>>,
             NEW at \in {"send", "decide"}, Goto(d, at)
      PROVE  Implements
  <2>1. /\ DOMAIN calls' = Callers
        /\ \A e \in Deciders : IF e = d THEN calls'[e].at = at /\ "at" \in DOMAIN calls'[e]
                                        ELSE calls'[e] = calls[e]
    BY <1>0, <1>1 DEF Goto
  <2>2. FlowInv'
    BY <1>0, <1>1, <2>1 DEF FlowInv, FlowTypes, DecidersInFlight
  <2>3. Winners' = Winners
    BY <1>0, <1>1, <2>1 DEF Winners
  <2> QED
    BY <1>1, <2>2, <2>3, StutterStep DEF Implements, AnswerOf
<1>2. ASSUME calls[d].at \in {"send", "decide"}, UNCHANGED <<requests, hooks, now>>, Finish(d),
             NEW a \in {"rejected", "error"}, accepted' = [accepted EXCEPT ![d] = a]
      PROVE  Implements
  <2>1. /\ DOMAIN calls' = Callers
        /\ \A e \in Deciders : IF e = d THEN calls'[e].at = "idle" /\ "at" \in DOMAIN calls'[e]
                                        ELSE calls'[e] = calls[e]
    BY <1>0, <1>2 DEF Finish, NoCall
  <2>2. FlowInv'
    BY <1>0, <1>2, <2>1 DEF FlowInv, FlowTypes, DecidersInFlight
  <2>3. Winners' = Winners
    BY <1>0, <1>2, <2>1 DEF Winners
  <2> QED
    BY <1>2, <2>2, <2>3, StutterStep DEF Implements, AnswerOf
<1>3. CASE ReadRequest(d)
  BY <1>1, <1>3 DEF ReadRequest, client
<1>4. CASE SendRelayDecision(d)
  BY <1>0, <1>1, <1>2, <1>4 DEF SendRelayDecision
<1>5. CASE Decide(d)
  <2> DEFINE r == DecisionOf[d].request
             v == DecisionOf[d].verdict
  <2>0. r \in Requests /\ v \in {"Allowed", "Denied"} /\ v \in ApprovalStatuses
    BY ClientAssumption DEF ApprovalStatuses, DecidedStatuses
  <2>1. CASE MaySettle(requests, r)
    <3>1. /\ requests' = [requests EXCEPT ![r].status = v]
          /\ calls[d].at = "decide"
          /\ AppendNext(d, <<approval_event(r, "ApprovalResolved")>>)
          /\ UNCHANGED <<accepted, hooks, now>>
      BY <1>5, <2>1 DEF Decide, decide
    <3>2. /\ requests' \in [Requests -> ApprovalRequest]
          /\ \A q \in Requests : requests'[q].status = IF q = r THEN v ELSE requests[q].status
      BY <1>0, <2>0, <3>1, StatusWritten
    <3>3. /\ DOMAIN calls' = Callers
          /\ \A e \in Deciders : IF e = d THEN calls'[e].at = "append" /\ "at" \in DOMAIN calls'[e]
                                          ELSE calls'[e] = calls[e]
      BY <1>0, <3>1 DEF AppendNext
    <3>4. FlowInv'
      BY <1>0, <3>1, <3>2, <3>3 DEF FlowInv, FlowTypes, DecidersInFlight
    <3>5. Winners' = Winners \cup {d} /\ d \notin Winners
      BY <1>0, <3>1, <3>3 DEF Winners
    <3> QED
      BY <2>1, <3>1, <3>2, <3>4, <3>5, WinStep DEF Implements
  <2>2. CASE ~MaySettle(requests, r)
    <3>1. \E a \in {"rejected", "error"} : accepted' = [accepted EXCEPT ![d] = a]
      BY <1>5, <2>2 DEF Decide
    <3> QED
      BY <1>2, <1>5, <2>2, <3>1 DEF Decide
  <2> QED
    BY <2>1, <2>2
<1> QED
  BY <1>3, <1>4, <1>5 DEF DeciderStep

(* The tool resolves a request: for the relay and for the watcher.         *)
LEMMA ToolSettles ==
    ASSUME FlowInv, NEW r, MaySettle(requests, r), requests' = resolve_in_tool(requests, r),
           DecidersUntouched, UNCHANGED <<hooks, accepted, now>>
    PROVE  Implements
<1>0. requests \in [Requests -> ApprovalRequest]
  BY DEF FlowInv, FlowTypes
<1>1. /\ requests' \in [Requests -> ApprovalRequest]
      /\ \A q \in Requests : requests'[q].status = IF q = r THEN "ResolvedInTool" ELSE requests[q].status
  BY <1>0, ResolveFacts
<1>2. FlowInv' /\ Winners' = Winners
  BY <1>1, Frame DEF FlowInv, FlowTypes
<1>3. CASE r \in Requests
  BY <1>1, <1>2, <1>3, SettleInToolStep DEF Implements
<1>4. CASE r \notin Requests
  BY <1>1, <1>2, <1>4, StutterStep DEF Implements, AnswerOf
<1> QED
  BY <1>3, <1>4

LEMMA RelayImplements ==
    ASSUME FlowInv, NEW s \in Relays, RelayStep(s)
    PROVE  Implements
<1>0. now \in Nat /\ s \notin Deciders /\ <<"tool-resolved", s>> \notin Deciders
  BY OtherClients DEF FlowInv, FlowTypes
<1>1. CASE ObserveServerRequest(s)
  BY <1>0, <1>1, OtherCalls, HiddenStep DEF ObserveServerRequest
<1>2. CASE \E v \in {"Allowed", "Denied"} : ForwardClientAnswer(s, v)
  BY <1>0, <1>2, OtherCalls, HiddenStep DEF ForwardClientAnswer
<1>3. CASE ObserveClientMessage(s)
  <2>1. DecidersUntouched
    <3>1. CASE relay[s] = "pending"
      <4>1. \E new : calls' = [calls EXCEPT ![<<"tool-resolved", s>>] = new]
        BY <1>3, <3>1 DEF ObserveClientMessage
      <4> QED
        BY <1>0, <4>1 DEF FlowInv, FlowTypes, DecidersUntouched, Callers
    <3>2. CASE relay[s] # "pending"
      BY <1>0, <1>3, <3>2, OtherCalls DEF ObserveClientMessage
    <3> QED
      BY <3>1, <3>2
  <2> QED
    BY <1>0, <1>3, <2>1, HiddenStep DEF ObserveClientMessage
<1>4. CASE ToolResolved(s)
  <2>1. DecidersUntouched /\ UNCHANGED <<hooks, accepted, now>>
    BY <1>0, <1>4, OtherCalls DEF ToolResolved, client
  <2>2. CASE MaySettle(requests, RequestOf[s])
    BY <1>4, <2>1, <2>2, ToolSettles DEF ToolResolved
  <2>3. CASE ~MaySettle(requests, RequestOf[s])
    BY <1>0, <1>4, <2>1, <2>3, HiddenStep DEF ToolResolved
  <2> QED
    BY <2>2, <2>3
<1> QED
  BY <1>1, <1>2, <1>3, <1>4 DEF RelayStep

LEMMA WatcherImplements ==
    ASSUME FlowInv, NEW w \in Watchers, WatcherStep(w)
    PROVE  Implements
<1>0. now \in Nat /\ w \notin Deciders
  BY OtherClients DEF FlowInv, FlowTypes
<1>1. CASE StartReport(w)
  <2>1. \E new : calls' = [calls EXCEPT ![w] = new]
    BY <1>1 DEF StartReport
  <2>2. DecidersUntouched
    BY <1>0, <2>1 DEF FlowInv, FlowTypes, DecidersUntouched, Callers
  <2> QED
    BY <1>0, <1>1, <2>2, HiddenStep DEF StartReport
<1>2. CASE ReportUnknownApproval(w)
  BY <1>0, <1>2, OtherCalls, HiddenStep DEF ReportUnknownApproval, client
<1>3. CASE ReportApproval(w)
  <2>1. \E events : Collect(w, events)
    BY <1>3 DEF ReportApproval
  <2> QED
    BY <1>0, <1>3, <2>1, OtherCalls, HiddenStep DEF ReportApproval, client
<1>4. CASE ReportActivity(w)
  <2>1. \/ \E events : Collect(w, events)
        \/ \E r : calls' = [calls EXCEPT ![w].at = "resolve", ![w].request = r]
    BY <1>4 DEF ReportActivity
  <2>2. DecidersUntouched
    BY <1>0, <2>1, OtherCalls DEF FlowInv, FlowTypes, DecidersUntouched, Callers
  <2> QED
    BY <1>0, <1>4, <2>2, HiddenStep DEF ReportActivity, client
<1>5. CASE ResolveReported(w)
  <2>1. \E events : Collect(w, events)
    BY <1>5 DEF ResolveReported
  <2>2. DecidersUntouched /\ UNCHANGED <<hooks, accepted, now>>
    BY <1>0, <1>5, <2>1, OtherCalls DEF ResolveReported, client
  <2>3. CASE MaySettle(requests, calls[w].request)
    BY <1>5, <2>2, <2>3, ToolSettles DEF ResolveReported
  <2>4. CASE ~MaySettle(requests, calls[w].request)
    BY <1>0, <1>5, <2>2, <2>4, HiddenStep DEF ResolveReported
  <2> QED
    BY <2>3, <2>4
<1>6. CASE EndReport(w)
  BY <1>0, <1>6, OtherCalls, HiddenStep DEF EndReport, client
<1> QED
  BY <1>1, <1>2, <1>3, <1>4, <1>5, <1>6 DEF WatcherStep

LEMMA UiImplements ==
    ASSUME FlowInv, UiStep
    PROVE  Implements
<1>0. /\ now \in Nat
      /\ requests \in [Requests -> ApprovalRequest]
      /\ hooks \in [Hooks -> HookStates]
      /\ Ui \notin Deciders
  BY OtherClients DEF FlowInv, FlowTypes
<1>1. CASE \E tool \in Tools, on \in BOOLEAN : SetListening(tool, on)
  <2>1. \/ UNCHANGED calls
        \/ \E at, todo : calls' = [calls EXCEPT ![Ui].at = at, ![Ui].todo = todo]
    BY <1>1 DEF SetListening
  <2>2. DecidersUntouched
    BY <1>0, <2>1 DEF FlowInv, FlowTypes, DecidersUntouched, Callers
  <2> QED
    BY <1>0, <1>1, <2>2, HiddenStep DEF SetListening
<1>2. CASE ClearToolState
  <2> DEFINE tool == Head(calls[Ui].todo)
  <2>1. /\ requests' \in [Requests -> ApprovalRequest]
        /\ \A q \in Requests : requests'[q].status
                                 = IF RequestInfo[q].tool = tool THEN "Absent" ELSE requests[q].status
    BY <1>0, <1>2, ClearFacts DEF ClearToolState
  <2>2. DecidersUntouched /\ UNCHANGED <<hooks, accepted, now>>
    BY <1>0, <1>2, OtherCalls DEF ClearToolState, client
  <2>3. FlowInv' /\ Winners' = Winners
    BY <1>0, <2>1, <2>2, Frame
  <2> HIDE DEF tool
  <2> DEFINE S == {q \in Requests : RequestInfo[q].tool = tool}
  <2>4. /\ S \in SUBSET Requests
        /\ \A q \in Requests : requests'[q].status = IF q \in S THEN "Absent" ELSE requests[q].status
    BY <2>1
  <2> HIDE DEF S
  <2> QED
    BY <2>2, <2>3, <2>4, ForgetStep DEF Implements
<1>3. CASE Reset
  <2>1. /\ requests' \in [Requests -> ApprovalRequest]
        /\ \A q \in Requests : requests'[q].status = IF q \in Requests THEN "Absent"
                                                                      ELSE requests[q].status
    BY <1>3, NoRequestType DEF Reset
  <2>2. DecidersUntouched /\ UNCHANGED <<hooks, accepted, now>>
    BY <1>0, <1>3, OtherCalls DEF Reset, client
  <2>3. FlowInv' /\ Winners' = Winners
    BY <1>0, <2>1, <2>2, Frame
  <2>4. Requests \in SUBSET Requests
    OBVIOUS
  <2> QED
    BY <2>1, <2>2, <2>3, <2>4, ForgetStep DEF Implements
<1>4. CASE DismissActiveBlocker
  BY <1>0, <1>4, OtherCalls, HiddenStep DEF DismissActiveBlocker, client
<1> QED
  BY <1>1, <1>2, <1>3, <1>4 DEF UiStep

LEMMA TimerImplements ==
    ASSUME FlowInv, Tick \/ \E x \in expiries : ExpireCandidate(x) \/ AppendExpired(x)
    PROVE  Implements
<1>0. now \in Nat /\ Ui \notin Deciders
  BY OtherClients DEF FlowInv, FlowTypes
<1>1. UNCHANGED <<calls, requests, hooks, accepted>> /\ now' \in Nat
  BY <1>0 DEF Tick, ExpireCandidate, AppendExpired, client
<1> QED
  BY <1>0, <1>1, OtherCalls, HiddenStep

LEMMA NextImplements ==
    ASSUME FlowInv, [Next]_vars
    PROVE  Implements
<1>1. CASE Next
  BY <1>1, SubmissionImplements, ReplyImplements, HookImplements, DeciderImplements,
     RelayImplements, WatcherImplements, TimerImplements, SweepImplements, UiImplements DEF Next
<1>2. CASE UNCHANGED vars
  <2>1. now \in Nat /\ Ui \notin Deciders
    BY OtherClients DEF FlowInv, FlowTypes
  <2> QED
    BY <1>2, <2>1, OtherCalls, HiddenStep DEF vars
<1> QED
  BY <1>1, <1>2

LEMMA InitImplements == Init => FlowInv /\ Contract!Init
<1> SUFFICES ASSUME Init PROVE FlowInv /\ Contract!Init
  OBVIOUS
<1>1. FlowTypes
  BY NoRequestType DEF Init, FlowTypes, HookStates
<1>2. DecidersInFlight
  BY DEF Init, DecidersInFlight, NoCall, Callers
<1>3. Winners = {}
  BY ClientAssumption DEF Init, Winners, NoCall, Callers
<1>4. /\ [r \in Requests |-> PhaseOf(requests[r].status)] = [r \in Requests |-> "absent"]
      /\ [h \in Hooks |-> AnswerOf(hooks[h])] = [h \in Hooks |-> "none"]
  BY NoRequestType DEF Init, PhaseOf, AnswerOf
<1> QED
  BY <1>1, <1>2, <1>3, <1>4 DEF FlowInv, Contract!Init

(* Whoever asks, decides, answers in the terminal, crashes or cleans up,   *)
(* and however their calls interleave: the approvals keep the contract.  A *)
(* request is settled at most once, of the consumers that decide it at most*)
(* one wins and its verdict is the one recorded, and a hook prints a       *)
(* verdict only when it is recorded (handlers/approval.rs, approval.rs,    *)
(* hook_runtime.rs, approval_proxy_watchdog.rs).                           *)
THEOREM FlowImplementsContract == Spec => RefinesContract
<1>1. Init => FlowInv /\ Contract!Init
  BY InitImplements
<1>2. FlowInv /\ [Next]_vars => FlowInv'
  BY NextImplements DEF Implements
<1>3. FlowInv /\ [Next]_vars
        => [Contract!Next]_<<[r \in Requests |-> PhaseOf(requests[r].status)],
                             [h \in Hooks |-> AnswerOf(hooks[h])], Winners>>
  BY NextImplements DEF Implements, ContractStep, Phase, Answer
<1> QED
  BY <1>1, <1>2, <1>3, PTL DEF Spec, RefinesContract, Contract!Spec

-----------------------------------------------------------------------------
(* The arbiter *)

ArbiterShape(arb) ==
    /\ {"capabilities", "pending_candidates", "recent_emissions"} \subseteq DOMAIN arb
    /\ DOMAIN arb.pending_candidates = Fingerprints

(* No event waits for a fingerprint that a hook or relay has shown.        *)
NothingWaits(arb) ==
    \A f \in Fingerprints :
        EmittedBy(arb, f, ProxySources) => arb.pending_candidates[f] = NoCandidate

ArbiterInv(arb) == ArbiterShape(arb) /\ NothingWaits(arb)

(* What HookSilencesWatcher says of the arbiter.                           *)
KeepsSilence(arb, new, t) ==
    \A f \in Fingerprints :
        EmittedBy(prune_recent(arb, t), f, ProxySources)
        => new.pending_candidates[f] \in {arb.pending_candidates[f], NoCandidate}

LEMMA PruneFacts ==
    ASSUME NEW arb, ArbiterShape(arb), NEW t
    PROVE  /\ ArbiterShape(prune_recent(arb, t))
           /\ prune_recent(arb, t).pending_candidates = arb.pending_candidates
           /\ prune_recent(arb, t).recent_emissions \subseteq arb.recent_emissions
BY DEF ArbiterShape, prune_recent

LEMMA RecordFacts ==
    ASSUME NEW arb, ArbiterShape(arb), NEW f, NEW source, NEW t
    PROVE  /\ ArbiterShape(record_emission(arb, f, source, t))
           /\ record_emission(arb, f, source, t).pending_candidates = arb.pending_candidates
           /\ record_emission(arb, f, source, t).recent_emissions
                = arb.recent_emissions \cup {[fingerprint |-> f, source |-> source, at |-> t]}
BY DEF ArbiterShape, record_emission

LEMMA PruningIsSilent ==
    ASSUME NEW arb, ArbiterInv(arb), NEW t
    PROVE  ArbiterInv(prune_recent(arb, t)) /\ KeepsSilence(arb, prune_recent(arb, t), t)
BY PruneFacts DEF ArbiterInv, NothingWaits, EmittedBy, KeepsSilence

LEMMA ProxyIsSilent ==
    ASSUME NEW arb, ArbiterInv(arb), NEW f, NEW source \in ProxySources, NEW t
    PROVE  LET new == on_proxy_approval(arb, f, source, t)
           IN  ArbiterInv(new) /\ KeepsSilence(arb, new, t)
<1> DEFINE pruned == prune_recent(arb, t)
           active == [kind |-> "Active", at |-> t, missed_count |-> 0]
           seen   == [pruned EXCEPT !.pending_candidates[f] = NoCandidate,
                                    !.capabilities[f.project] = active]
           new    == record_emission(seen, f, source, t)
<1>1. /\ ArbiterInv(pruned)
      /\ pruned.pending_candidates = arb.pending_candidates
      /\ pruned.recent_emissions \subseteq arb.recent_emissions
  BY PruneFacts, PruningIsSilent DEF ArbiterInv
<1> HIDE DEF pruned
<1>2. /\ ArbiterShape(seen)
      /\ \A g \in Fingerprints : seen.pending_candidates[g]
                                   = IF g = f THEN NoCandidate ELSE pruned.pending_candidates[g]
      /\ seen.recent_emissions = pruned.recent_emissions
  BY <1>1 DEF ArbiterInv, ArbiterShape, seen
<1> HIDE DEF seen
<1>3. /\ ArbiterShape(new)
      /\ new.pending_candidates = seen.pending_candidates
      /\ new.recent_emissions
           = seen.recent_emissions \cup {[fingerprint |-> f, source |-> source, at |-> t]}
  BY <1>2, RecordFacts
<1> HIDE DEF new
<1>4. NothingWaits(new)
  BY <1>1, <1>2, <1>3 DEF ArbiterInv, NothingWaits, EmittedBy
<1>5. KeepsSilence(arb, new, t)
  BY <1>1, <1>2, <1>3 DEF KeepsSilence, ProxySources
<1>6. new = on_proxy_approval(arb, f, source, t)
  BY DEF new, seen, pruned, on_proxy_approval
<1> QED
  BY <1>3, <1>4, <1>5, <1>6 DEF ArbiterInv

LEMMA WatcherIsSilent ==
    ASSUME NEW arb, ArbiterInv(arb), NEW f, NEW e, NEW t
    PROVE  LET new == on_watcher_approval(arb, f, e, t)
           IN  ArbiterInv(new) /\ KeepsSilence(arb, new, t)
<1> DEFINE pruned == prune_recent(arb, t)
           known  == [pruned EXCEPT !.capabilities[f.project] =
                                        capability_for_scope(pruned, f.project, t)]
           new    == on_watcher_approval(arb, f, e, t)
<1>1. /\ ArbiterInv(pruned)
      /\ pruned.pending_candidates = arb.pending_candidates
      /\ pruned.recent_emissions \subseteq arb.recent_emissions
  BY PruneFacts, PruningIsSilent DEF ArbiterInv
<1>2. /\ ArbiterShape(known)
      /\ known.pending_candidates = pruned.pending_candidates
      /\ known.recent_emissions = pruned.recent_emissions
  BY <1>1 DEF ArbiterInv, ArbiterShape
<1>3. CASE EmittedBy(pruned, f, ProxySources)
  <2>1. new = pruned
    BY <1>3 DEF on_watcher_approval, WatcherApprovalDecision
  <2> QED
    BY <2>1, PruningIsSilent
<1>4. ASSUME ~EmittedBy(pruned, f, ProxySources), new = record_emission(known, f, "Watcher", t)
      PROVE  ArbiterInv(new) /\ KeepsSilence(arb, new, t)
  <2> HIDE DEF pruned, known
  <2>1. /\ ArbiterShape(new)
        /\ new.pending_candidates = known.pending_candidates
        /\ new.recent_emissions
             = known.recent_emissions \cup {[fingerprint |-> f, source |-> "Watcher", at |-> t]}
    BY <1>2, <1>4, RecordFacts
  <2> HIDE DEF new
  <2>2. NothingWaits(new)
    BY <1>1, <1>2, <2>1 DEF ArbiterInv, NothingWaits, EmittedBy, ProxySources
  <2>3. KeepsSilence(arb, new, t)
    BY <1>1, <1>2, <1>4, <2>1 DEF KeepsSilence, pruned
  <2> QED
    BY <2>1, <2>2, <2>3 DEF ArbiterInv
<1>5. ASSUME ~EmittedBy(pruned, f, ProxySources), new = [known EXCEPT !.pending_candidates[f] = e]
      PROVE  ArbiterInv(new) /\ KeepsSilence(arb, new, t)
  <2> HIDE DEF pruned, known
  <2>1. /\ ArbiterShape(new)
        /\ \A g \in Fingerprints : new.pending_candidates[g]
                                     = IF g = f THEN e ELSE known.pending_candidates[g]
        /\ new.recent_emissions = known.recent_emissions
    BY <1>2, <1>5 DEF ArbiterShape
  <2> HIDE DEF new
  <2>2. NothingWaits(new)
    BY <1>1, <1>2, <1>5, <2>1 DEF ArbiterInv, NothingWaits, EmittedBy
  <2>3. KeepsSilence(arb, new, t)
    BY <1>1, <1>2, <1>5, <2>1 DEF KeepsSilence, pruned
  <2> QED
    BY <2>1, <2>2, <2>3 DEF ArbiterInv
<1>6. \/ EmittedBy(pruned, f, ProxySources)
      \/ new = record_emission(known, f, "Watcher", t)
      \/ new = [known EXCEPT !.pending_candidates[f] = e]
  BY DEF on_watcher_approval, WatcherApprovalDecision
<1> QED
  BY <1>3, <1>4, <1>5, <1>6

LEMMA ExpiryIsSilent ==
    ASSUME NEW arb, ArbiterInv(arb), NEW f, NEW t
    PROVE  LET new == expire_candidate(arb, f, t)
           IN  ArbiterInv(new) /\ KeepsSilence(arb, new, t)
<1> DEFINE pruned == prune_recent(arb, t)
           new    == expire_candidate(arb, f, t)
<1>1. /\ ArbiterInv(pruned)
      /\ pruned.pending_candidates = arb.pending_candidates
      /\ pruned.recent_emissions \subseteq arb.recent_emissions
  BY PruneFacts, PruningIsSilent DEF ArbiterInv
<1>2. CASE arb.pending_candidates[f] = NoCandidate
  <2>1. new = pruned
    BY <1>2 DEF expire_candidate
  <2> QED
    BY <2>1, PruningIsSilent
<1>3. CASE arb.pending_candidates[f] # NoCandidate
  <2>1. \E c : new = record_emission([pruned EXCEPT !.pending_candidates[f] = NoCandidate,
                                                    !.capabilities[f.project] = c], f, "Watcher", t)
    BY <1>3 DEF expire_candidate
  <2>2. PICK c : new = record_emission([pruned EXCEPT !.pending_candidates[f] = NoCandidate,
                                                      !.capabilities[f.project] = c], f, "Watcher", t)
    BY <2>1
  <2> DEFINE missed == [pruned EXCEPT !.pending_candidates[f] = NoCandidate,
                                      !.capabilities[f.project] = c]
  <2> HIDE DEF pruned
  <2>3. /\ ArbiterShape(missed)
        /\ \A g \in Fingerprints : missed.pending_candidates[g]
                                     = IF g = f THEN NoCandidate ELSE pruned.pending_candidates[g]
        /\ missed.recent_emissions = pruned.recent_emissions
    BY <1>1 DEF ArbiterInv, ArbiterShape, missed
  <2>4. new = record_emission(missed, f, "Watcher", t)
    BY <2>2
  <2> HIDE DEF missed
  <2>5. /\ ArbiterShape(new)
        /\ new.pending_candidates = missed.pending_candidates
        /\ new.recent_emissions
             = missed.recent_emissions \cup {[fingerprint |-> f, source |-> "Watcher", at |-> t]}
    BY <2>3, <2>4, RecordFacts
  <2>6. NothingWaits(new)
    BY <1>1, <2>3, <2>5 DEF ArbiterInv, NothingWaits, EmittedBy, ProxySources
  <2>7. f \in Fingerprints => ~EmittedBy(pruned, f, ProxySources)
    BY <1>1, <1>3 DEF ArbiterInv, NothingWaits
  <2>8. KeepsSilence(arb, new, t)
    BY <1>1, <2>3, <2>5, <2>7 DEF KeepsSilence, pruned
  <2> QED
    BY <2>5, <2>6, <2>8 DEF ArbiterInv
<1> QED
  BY <1>2, <1>3

LEMMA CancelIsSilent ==
    ASSUME NEW arb, ArbiterInv(arb), NEW key, NEW new \in Cancelled(arb, key), NEW t
    PROVE  ArbiterInv(new) /\ KeepsSilence(arb, new, t)
<1>1. CASE new = arb
  BY <1>1 DEF KeepsSilence
<1>2. CASE \E f \in Fingerprints : new = [arb EXCEPT !.pending_candidates[f] = NoCandidate]
  <2>1. PICK f \in Fingerprints : new = [arb EXCEPT !.pending_candidates[f] = NoCandidate]
    BY <1>2
  <2>2. /\ ArbiterShape(new)
        /\ \A g \in Fingerprints : new.pending_candidates[g]
                                     = IF g = f THEN NoCandidate ELSE arb.pending_candidates[g]
        /\ new.recent_emissions = arb.recent_emissions
    BY <2>1 DEF ArbiterInv, ArbiterShape
  <2>3. NothingWaits(new)
    BY <2>2 DEF ArbiterInv, NothingWaits, EmittedBy
  <2> QED
    BY <2>2, <2>3 DEF ArbiterInv, KeepsSilence
<1> QED
  BY <1>1, <1>2 DEF Cancelled

(* Whichever step is taken, by whomever.                                   *)
LEMMA ArbiterStep ==
    ASSUME ArbiterInv(arbiter), [Next]_vars
    PROVE  ArbiterInv(arbiter') /\ KeepsSilence(arbiter, arbiter', now)
<1>1. CASE UNCHANGED arbiter
  BY <1>1 DEF KeepsSilence
<1>2. CASE \E c \in Hooks \cup Relays : Arbitrate(c)
  <2>1. PICK c \in Hooks \cup Relays : Arbitrate(c)
    BY <1>2
  <2>2. CASE calls[c].todo = <<>>
    BY <1>1, <2>1, <2>2 DEF Arbitrate
  <2>3. CASE calls[c].todo # <<>>
    <3>1. \E source \in ProxySources :
            arbiter' = on_proxy_approval(arbiter, Head(calls[c].todo), source, now)
      BY <2>1, <2>3 DEF Arbitrate, ProxySources
    <3> QED
      BY <3>1, ProxyIsSilent
  <2> QED
    BY <2>2, <2>3
<1>3. CASE \E w \in Watchers : ReportApproval(w)
  <2>1. \E f, e : arbiter' = on_watcher_approval(arbiter, f, e, now)
    BY <1>3 DEF ReportApproval
  <2> QED
    BY <2>1, WatcherIsSilent
<1>4. CASE \E w \in Watchers : ReportActivity(w)
  <2>1. arbiter' = arbiter \/ \E key : arbiter' \in Cancelled(arbiter, key)
    BY <1>4 DEF ReportActivity
  <2> QED
    BY <1>1, <2>1, CancelIsSilent
<1>5. CASE \E x \in expiries : ExpireCandidate(x)
  <2>1. \E f : arbiter' = expire_candidate(arbiter, f, now)
    BY <1>5 DEF ExpireCandidate
  <2> QED
    BY <2>1, ExpiryIsSilent
<1>6. CASE \E c \in Hooks \cup Relays : CheckExisting(c) \/ UpsertRequest(c) \/ FindWatcherItem(c)
  BY <1>1, <1>6 DEF CheckExisting, UpsertRequest, FindWatcherItem
<1>7. CASE \E c \in Callers : AppendAndReply(c)
  BY <1>1, <1>7 DEF AppendAndReply
<1>8. CASE \E h \in Hooks : HookStep(h)
  BY <1>1, <1>8 DEF HookStep, StartHook, Heartbeat, Poll, TimeOut, Crash
<1>9. CASE \E d \in Deciders : DeciderStep(d)
  BY <1>1, <1>9 DEF DeciderStep, ReadRequest, SendRelayDecision, Decide
<1>10. CASE \E s \in Relays : RelayStep(s)
  BY <1>1, <1>10 DEF RelayStep, ObserveServerRequest, ObserveClientMessage, ForwardClientAnswer,
                     ToolResolved
<1>11. CASE \E w \in Watchers : \/ StartReport(w) \/ ReportUnknownApproval(w)
                                \/ ResolveReported(w) \/ EndReport(w)
  BY <1>1, <1>11 DEF StartReport, ReportUnknownApproval, ResolveReported, EndReport
<1>12. CASE SweepProxies \/ UiStep \/ Tick \/ \E x \in expiries : AppendExpired(x)
  BY <1>1, <1>12 DEF SweepProxies, UiStep, SetListening, ClearToolState, Reset,
                     DismissActiveBlocker, Tick, AppendExpired
<1>13. CASE UNCHANGED vars
  BY <1>1, <1>13 DEF vars
<1> QED
  BY <1>2, <1>3, <1>4, <1>5, <1>6, <1>7, <1>8, <1>9, <1>10, <1>11, <1>12, <1>13
     DEF Next, ServeSubmission, WatcherStep

-----------------------------------------------------------------------------
(* The relay *)

Submitting == {"check", "arbitrate", "upsert"}

(* The request of relay approval s has not come to the store yet.          *)
Unstored(s) == relay[s] = "none" \/ calls[s].at \in Submitting

StatusOf(s) == requests[RequestOf[s]].status

CallFields == \A c \in Callers : {"at", "request", "todo", "replace", "batch"} \subseteq DOMAIN calls[c]

(* A submission is about the client's own request.                         *)
SubmissionsNamed ==
    \A c \in Hooks \cup Relays : calls[c].at \in Submitting => calls[c].request = RequestOf[c]

(* A consumer that is about to record its decision has seen the app-server *)
(* answered, or the request is settled or gone, and then for good.         *)
AnsweredBeforeDecided(s) ==
    \A d \in Deciders :
        DecisionOf[d].request = RequestOf[s] /\ calls[d].at = "decide"
        => \/ codex[s] # None
           \/ ~Unstored(s) /\ StatusOf(s) \in DecidedStatuses \cup {"Absent"}

RelayGood(s) ==
    /\ relay[s] = "none" => calls[s].at = "idle"
    /\ Unstored(s) => StatusOf(s) = "Absent"
    /\ StatusOf(s) \notin {"ReturnedToCodex", "ReturnedToTool"}
    /\ StatusOf(s) \in {"Allowed", "Denied"} => codex[s] # None
    /\ AnsweredBeforeDecided(s)

RelayShape ==
    /\ relay \in [Relays -> {"none", "pending", "closed"}]
    /\ codex \in [Relays -> {None, "Allowed", "Denied"}]
    /\ CallFields
    /\ SubmissionsNamed

(* The inductive invariant behind DecidedReachesCodex.                     *)
RelayInv ==
    /\ FlowInv
    /\ RelayShape
    /\ \A s \in Relays : RelayGood(s)

(* The call of client c moves on, and no other.                            *)
Moved(c, at, r) ==
    /\ CallFields'
    /\ calls'[c].at = at
    /\ calls'[c].request = r
    /\ \A x \in Callers \ {c} : calls'[x] = calls[x]

LEMMA CallMoves ==
    ASSUME RelayInv, NEW c \in Callers
    PROVE  /\ \A at : Goto(c, at) => Moved(c, at, calls[c].request)
           /\ Finish(c) => Moved(c, "idle", None)
           /\ \A batch : AppendNext(c, batch) => Moved(c, "append", calls[c].request)
           /\ \A events : Collect(c, events) => Moved(c, "report", calls[c].request)
           /\ Submit(c) => Moved(c, IF c \in Relays THEN "check" ELSE "arbitrate", RequestOf[c])
<1>0. DOMAIN calls = Callers /\ CallFields
  BY DEF RelayInv, RelayShape, FlowInv, FlowTypes
<1>1. \A at : Goto(c, at) => Moved(c, at, calls[c].request)
  BY <1>0 DEF Goto, Moved, CallFields
<1>2. Finish(c) => Moved(c, "idle", None)
  BY <1>0 DEF Finish, NoCall, Moved, CallFields
<1>3. \A batch : AppendNext(c, batch) => Moved(c, "append", calls[c].request)
  BY <1>0 DEF AppendNext, Moved, CallFields
<1>4. \A events : Collect(c, events) => Moved(c, "report", calls[c].request)
  BY <1>0 DEF Collect, Moved, CallFields
<1>5. Submit(c) => Moved(c, IF c \in Relays THEN "check" ELSE "arbitrate", RequestOf[c])
  BY <1>0 DEF Submit, NoCall, Moved, CallFields
<1> QED
  BY <1>1, <1>2, <1>3, <1>4, <1>5

(* What a step may do to relay approval s without harm.                    *)
Harmless(s) ==
    /\ Unstored(s)' => Unstored(s)
    /\ relay'[s] = "none" => calls'[s].at = "idle"
    /\ codex[s] # None => codex'[s] # None
    /\ \/ StatusOf(s)' = StatusOf(s)
       \/ StatusOf(s)' = "Absent"
       \/ /\ StatusOf(s) \in OpenStatuses
          /\ StatusOf(s)' \in DecidedStatuses
          /\ StatusOf(s)' = "ResolvedInTool" \/ codex'[s] # None
    /\ \A d \in Deciders :
          DecisionOf[d].request = RequestOf[s] /\ calls'[d].at = "decide"
          => \/ calls[d].at = "decide"
             \/ codex'[s] # None
             \/ ~Unstored(s)' /\ StatusOf(s)' \in DecidedStatuses

LEMMA HarmlessKeepsGood ==
    ASSUME NEW s \in Relays, RelayGood(s), Harmless(s)
    PROVE  RelayGood(s)'
<1>1. (Unstored(s) => StatusOf(s) = "Absent")'
  BY DEF RelayGood, Harmless, OpenStatuses
<1>2. (StatusOf(s) \notin {"ReturnedToCodex", "ReturnedToTool"})'
  BY DEF RelayGood, Harmless, DecidedStatuses
<1>3. (StatusOf(s) \in {"Allowed", "Denied"} => codex[s] # None)'
  BY DEF RelayGood, Harmless, DecidedStatuses
<1>4. AnsweredBeforeDecided(s)'
  BY DEF RelayGood, Harmless, AnsweredBeforeDecided, OpenStatuses, DecidedStatuses
<1> QED
  BY <1>1, <1>2, <1>3, <1>4 DEF RelayGood, Harmless

LEMMA RelayInit == Init => RelayInv
<1> SUFFICES ASSUME Init PROVE RelayInv
  OBVIOUS
<1>1. FlowInv
  BY InitImplements
<1>2. RelayShape
  BY DEF Init, RelayShape, CallFields, SubmissionsNamed, NoCall, Callers, Submitting
<1>3. ASSUME NEW s \in Relays PROVE RelayGood(s)
  BY ClientAssumption, NoRequestType
     DEF Init, RelayGood, Unstored, StatusOf, AnsweredBeforeDecided, NoCall, Callers, Submitting
<1> QED
  BY <1>1, <1>2, <1>3 DEF RelayInv

RelayKept == RelayShape' /\ \A s \in Relays : RelayGood(s)'

(* Steps of the other clients, who may clear or settle a relay's request.  *)
MildStatus(s) ==
    \/ StatusOf(s)' = StatusOf(s)
    \/ StatusOf(s)' = "Absent"
    \/ StatusOf(s) \in OpenStatuses /\ StatusOf(s)' = "ResolvedInTool"

OtherMoves(c) ==
    \E at, r : Moved(c, at, r) /\ (at \in Submitting => r = RequestOf[c])

LEMMA OthersKeepRelay ==
    ASSUME RelayInv, UNCHANGED <<relay, codex>>,
           \/ UNCHANGED calls
           \/ \E c \in Callers \ (Relays \cup Deciders) : OtherMoves(c),
           \A s \in Relays : MildStatus(s)
    PROVE  RelayKept
<1>1. /\ CallFields'
      /\ \A x \in Relays \cup Deciders : calls'[x] = calls[x]
      /\ \A x \in Hooks \cup Relays : calls'[x].at \in Submitting =>
            \/ calls'[x] = calls[x]
            \/ calls'[x].request = RequestOf[x]
  <2>1. CASE UNCHANGED calls
    BY <2>1 DEF RelayInv, RelayShape, CallFields
  <2>2. CASE \E c \in Callers \ (Relays \cup Deciders) : OtherMoves(c)
    BY <2>2 DEF OtherMoves, Moved, Callers
  <2> QED
    BY <2>1, <2>2
<1>2. RelayShape'
  BY <1>1 DEF RelayInv, RelayShape, SubmissionsNamed
<1>3. ASSUME NEW s \in Relays PROVE Harmless(s)
  BY <1>1 DEF RelayInv, RelayGood, Harmless, MildStatus, Unstored, DecidedStatuses
<1> QED
  BY <1>2, <1>3, HarmlessKeepsGood DEF RelayInv, RelayKept

(* A relay's own call goes on: never back into the submission.             *)
LEMMA RelayMoves ==
    ASSUME RelayInv, NEW t \in Relays, NEW at, NEW r, Moved(t, at, r),
           calls[t].at # "idle",
           at \in Submitting => calls[t].at \in Submitting /\ r = RequestOf[t],
           UNCHANGED <<relay, codex>>,
           \A s \in Relays : StatusOf(s)' = StatusOf(s)
    PROVE  RelayKept
<1>1. t \in Callers /\ t \notin Deciders /\ Deciders \subseteq Callers /\ Relays \subseteq Callers
      /\ Hooks \subseteq Callers
  BY ClientAssumption DEF Callers
<1>2. RelayShape'
  BY <1>1 DEF RelayInv, RelayShape, SubmissionsNamed, Moved
<1>3. ASSUME NEW s \in Relays PROVE Harmless(s)
  BY <1>1 DEF RelayInv, RelayGood, Harmless, Unstored, Moved
<1> QED
  BY <1>2, <1>3, HarmlessKeepsGood DEF RelayInv, RelayKept

(* Hooks and relays have different requests, and so have two relays.       *)
LEMMA OwnRequests ==
    ASSUME NEW s \in Relays, NEW c \in Hooks \cup Relays, c # s
    PROVE  RequestOf[c] # RequestOf[s]
BY ClientAssumption

LEMMA SubmissionKeepsRelay ==
    ASSUME RelayInv, NEW c \in Hooks \cup Relays, ServeSubmission(c)
    PROVE  RelayKept
<1>0. /\ c \in Callers
      /\ c \notin Deciders
      /\ c \notin Relays => c \in Callers \ (Relays \cup Deciders)
      /\ now \in Nat
      /\ requests \in [Requests -> ApprovalRequest]
  BY OtherClients DEF RelayInv, FlowInv, FlowTypes, Callers
<1>a. ASSUME UNCHANGED <<requests, relay, codex>>, calls[c].at # "idle", NEW at, NEW r,
             Moved(c, at, r), at \in Submitting => calls[c].at \in Submitting /\ r = RequestOf[c]
      PROVE  RelayKept
  <2>1. \A s \in Relays : StatusOf(s)' = StatusOf(s) /\ MildStatus(s)
    BY <1>a DEF StatusOf, MildStatus
  <2>2. CASE c \in Relays
    BY <1>a, <2>1, <2>2, RelayMoves
  <2>3. CASE c \notin Relays
    BY <1>0, <1>a, <2>1, <2>3, OthersKeepRelay DEF OtherMoves
  <2> QED
    BY <2>2, <2>3
<1>1. CASE CheckExisting(c)
  <2>1. calls[c].at = "check" /\ calls[c].request = RequestOf[c] /\ UNCHANGED <<requests, relay, codex>>
    BY <1>1 DEF CheckExisting, client, RelayInv, RelayShape, SubmissionsNamed, Submitting
  <2>2. Moved(c, "idle", None) \/ Moved(c, "arbitrate", calls[c].request)
    BY <1>0, <1>1, CallMoves DEF CheckExisting
  <2> QED
    BY <1>a, <2>1, <2>2 DEF Submitting
<1>2. CASE Arbitrate(c)
  <2>1. calls[c].at = "arbitrate" /\ calls[c].request = RequestOf[c]
        /\ UNCHANGED <<requests, relay, codex>>
    BY <1>2 DEF Arbitrate, client, RelayInv, RelayShape, SubmissionsNamed, Submitting
  <2>2. CASE calls[c].todo = <<>>
    <3>1. Moved(c, "upsert", calls[c].request)
      BY <1>0, <1>2, <2>2, CallMoves DEF Arbitrate
    <3> QED
      BY <1>a, <2>1, <3>1 DEF Submitting
  <2>3. CASE calls[c].todo # <<>>
    <3>1. \E todo, replace : calls' = [calls EXCEPT ![c].todo = todo, ![c].replace = replace]
      BY <1>2, <2>3 DEF Arbitrate
    <3>2. Moved(c, "arbitrate", calls[c].request)
      BY <1>0, <2>1, <3>1 DEF Moved, CallFields, RelayInv, RelayShape, FlowInv, FlowTypes
    <3> QED
      BY <1>a, <2>1, <3>2 DEF Submitting
  <2> QED
    BY <2>2, <2>3
<1>3. CASE FindWatcherItem(c)
  <2>1. calls[c].at = "find" /\ UNCHANGED <<requests, relay, codex>>
    BY <1>3 DEF FindWatcherItem, client
  <2>2. Moved(c, "append", calls[c].request)
    BY <1>0, <1>3, CallMoves DEF FindWatcherItem
  <2> QED
    BY <1>a, <2>1, <2>2 DEF Submitting
<1>4. CASE UpsertRequest(c)
  <2>1. calls[c].at = "upsert" /\ calls[c].request = RequestOf[c] /\ UNCHANGED <<relay, codex>>
    BY <1>4 DEF UpsertRequest, client, RelayInv, RelayShape, SubmissionsNamed, Submitting
  <2>2. \A q \in Requests : requests'[q].status
            = IF q = RequestOf[c] /\ requests[q].status = "Absent" THEN "Pending" ELSE requests[q].status
    BY <1>0, <1>4, <2>1, StatusUpserted DEF UpsertRequest
  <2>3. Moved(c, "find", RequestOf[c])
    BY <1>0, <1>4, <2>1, CallMoves DEF UpsertRequest
  <2>4. \A s \in Relays : s # c => StatusOf(s)' = StatusOf(s)
    BY <2>2, OwnRequests, ClientAssumption DEF StatusOf
  <2>5. CASE c \notin Relays
    BY <1>0, <2>1, <2>3, <2>4, <2>5, OthersKeepRelay DEF OtherMoves, MildStatus, Submitting
  <2>6. CASE c \in Relays
    <3>1. Deciders \subseteq Callers /\ Relays \subseteq Callers /\ Hooks \subseteq Callers
      BY DEF Callers
    <3>2. RelayShape'
      BY <1>0, <2>1, <2>3, <3>1 DEF RelayInv, RelayShape, SubmissionsNamed, Moved, Submitting
    <3>3. ASSUME NEW s \in Relays, s # c PROVE RelayGood(s)'
      <4>1. Harmless(s)
        BY <1>0, <2>1, <2>3, <2>4, <3>1, <3>3 DEF RelayInv, RelayGood, Harmless, Unstored, Moved
      <4> QED
        BY <4>1, HarmlessKeepsGood DEF RelayInv
    <3>4. RelayGood(c)'
      <4>1. RelayGood(c) /\ relay[c] # "none" /\ StatusOf(c) = "Absent" /\ Unstored(c)
        BY <2>1, <2>6 DEF RelayInv, RelayGood, Unstored, Submitting
      <4>2. StatusOf(c)' = "Pending"
        BY <2>2, <2>6, <4>1, ClientAssumption DEF StatusOf
      <4>3. ~Unstored(c)'
        BY <2>1, <2>3, <4>1 DEF Unstored, Submitting, Moved
      <4>4. AnsweredBeforeDecided(c)'
        BY <1>0, <2>1, <2>3, <3>1, <4>1 DEF RelayGood, AnsweredBeforeDecided, Moved
      <4> QED
        BY <2>1, <2>3, <4>1, <4>2, <4>3, <4>4 DEF RelayGood
    <3> QED
      BY <3>2, <3>3, <3>4 DEF RelayKept
  <2> QED
    BY <2>5, <2>6
<1> QED
  BY <1>1, <1>2, <1>3, <1>4 DEF ServeSubmission

LEMMA ReplyKeepsRelay ==
    ASSUME RelayInv, NEW c \in Callers, AppendAndReply(c)
    PROVE  RelayKept
<1>1. /\ UNCHANGED <<requests, relay, codex>>
      /\ calls[c].at = "append"
      /\ Moved(c, "idle", None)
  BY CallMoves DEF AppendAndReply
<1>2. \A s \in Relays : StatusOf(s)' = StatusOf(s) /\ MildStatus(s)
  BY <1>1 DEF StatusOf, MildStatus
<1>3. CASE c \in Relays
  BY <1>1, <1>2, <1>3, RelayMoves DEF Submitting
<1>4. CASE c \in Deciders
  <2>0. c \notin Relays /\ Deciders \subseteq Callers /\ Relays \subseteq Callers /\ Hooks \subseteq Callers
        /\ c \notin Hooks
    BY <1>4, ClientAssumption DEF Callers
  <2>1. RelayShape'
    BY <1>1, <2>0 DEF RelayInv, RelayShape, SubmissionsNamed, Moved
  <2>2. ASSUME NEW s \in Relays PROVE Harmless(s)
    BY <1>1, <1>2, <2>0 DEF RelayInv, RelayGood, Harmless, Unstored, Moved
  <2> QED
    BY <2>1, <2>2, HarmlessKeepsGood DEF RelayInv, RelayKept
<1>5. CASE c \notin Relays \cup Deciders
  <2>1. \E x \in Callers \ (Relays \cup Deciders) : OtherMoves(x)
    BY <1>1, <1>5 DEF OtherMoves, Submitting
  <2> QED
    BY <1>1, <1>2, <2>1, OthersKeepRelay
<1> QED
  BY <1>3, <1>4, <1>5

LEMMA HookKeepsRelay ==
    ASSUME RelayInv, NEW h \in Hooks, HookStep(h)
    PROVE  RelayKept
<1>0. /\ now \in Nat
      /\ requests \in [Requests -> ApprovalRequest]
      /\ h \in Callers /\ h \in Callers \ (Relays \cup Deciders)
      /\ RequestOf[h] \in Requests
      /\ \A s \in Relays : RequestOf[s] \in Requests /\ RequestOf[s] # RequestOf[h]
  BY ClientAssumption DEF RelayInv, FlowInv, FlowTypes, Callers
<1>1. UNCHANGED <<relay, codex>>
  BY DEF HookStep, StartHook, Heartbeat, Poll, TimeOut, Crash, client
<1>2. UNCHANGED calls \/ OtherMoves(h)
  <2>1. CASE StartHook(h)
    BY <1>0, <2>1, CallMoves DEF StartHook, OtherMoves
  <2>2. CASE TimeOut(h)
    BY <1>0, <2>2, CallMoves DEF TimeOut, OtherMoves, Submitting
  <2>3. CASE Heartbeat(h) \/ Poll(h) \/ Crash(h)
    BY <2>3 DEF Heartbeat, Poll, Crash
  <2> QED
    BY <2>1, <2>2, <2>3 DEF HookStep
<1>3. \A s \in Relays : StatusOf(s)' = StatusOf(s)
  <2>1. CASE Heartbeat(h)
    BY <1>0, <2>1, HeartbeatFacts DEF Heartbeat, StatusOf
  <2>2. CASE TimeOut(h)
    BY <1>0, <2>2 DEF TimeOut, return_to_codex, StatusOf
  <2>3. CASE StartHook(h) \/ Poll(h) \/ Crash(h)
    BY <2>3 DEF StartHook, Poll, Crash, StatusOf
  <2> QED
    BY <2>1, <2>2, <2>3 DEF HookStep
<1> QED
  BY <1>0, <1>1, <1>2, <1>3, OthersKeepRelay DEF MildStatus

LEMMA SweepKeepsRelay ==
    ASSUME RelayInv, SweepProxies
    PROVE  RelayKept
<1>0. /\ now \in Nat
      /\ requests \in [Requests -> ApprovalRequest]
      /\ Watchdog \in Callers /\ Watchdog \in Callers \ (Relays \cup Deciders)
  BY ClientAssumption DEF RelayInv, FlowInv, FlowTypes, Callers
<1>1. UNCHANGED <<relay, codex>>
  BY DEF SweepProxies, client
<1>2. OtherMoves(Watchdog)
  BY <1>0, CallMoves DEF SweepProxies, OtherMoves, Submitting
<1>3. ASSUME NEW s \in Relays PROVE StatusOf(s)' = StatusOf(s)
  <2>1. RequestOf[s] \in Requests /\ RequestOf[s] \notin stale_proxies(requests, now)
    BY ClientAssumption DEF stale_proxies
  <2> QED
    BY <1>0, <2>1, SweepFacts DEF SweepProxies, StatusOf
<1> QED
  BY <1>0, <1>1, <1>2, <1>3, OthersKeepRelay DEF MildStatus

(* What resolve_in_tool and clearing do to a relay's request.              *)
LEMMA ToolSettlesMildly ==
    ASSUME RelayInv, NEW r, MaySettle(requests, r), requests' = resolve_in_tool(requests, r),
           NEW s \in Relays
    PROVE  MildStatus(s)
<1>1. requests \in [Requests -> ApprovalRequest] /\ RequestOf[s] \in Requests
  BY ClientAssumption DEF RelayInv, FlowInv, FlowTypes
<1>2. \A q \in Requests : requests'[q].status = IF q = r THEN "ResolvedInTool" ELSE requests[q].status
  BY <1>1, ResolveFacts
<1> QED
  BY <1>1, <1>2 DEF MildStatus, StatusOf, MaySettle

LEMMA WatcherKeepsRelay ==
    ASSUME RelayInv, NEW w \in Watchers, WatcherStep(w)
    PROVE  RelayKept
<1>0. w \in Callers /\ w \in Callers \ (Relays \cup Deciders)
  BY ClientAssumption DEF Callers
<1>1. UNCHANGED <<relay, codex>>
  BY DEF WatcherStep, StartReport, ReportUnknownApproval, ReportApproval, ReportActivity,
         ResolveReported, EndReport, client
<1>2. OtherMoves(w)
  <2>0. DOMAIN calls = Callers /\ CallFields
    BY DEF RelayInv, RelayShape, FlowInv, FlowTypes
  <2>1. ASSUME \E events : Collect(w, events)
        PROVE  OtherMoves(w)
    BY <1>0, <2>1, CallMoves DEF OtherMoves, Submitting
  <2>2. CASE StartReport(w)
    <3>1. Moved(w, "report", None)
      BY <1>0, <2>0, <2>2 DEF StartReport, Moved, CallFields, NoCall
    <3> QED
      BY <3>1 DEF OtherMoves, Submitting
  <2>3. CASE ReportUnknownApproval(w) \/ ReportApproval(w) \/ ResolveReported(w)
    BY <2>1, <2>3 DEF ReportUnknownApproval, ReportApproval, ResolveReported
  <2>4. CASE ReportActivity(w)
    <3>1. ASSUME NEW r, calls' = [calls EXCEPT ![w].at = "resolve", ![w].request = r]
          PROVE  Moved(w, "resolve", r)
      BY <1>0, <2>0, <3>1 DEF Moved, CallFields
    <3>2. \/ \E events : Collect(w, events)
          \/ \E r : calls' = [calls EXCEPT ![w].at = "resolve", ![w].request = r]
      BY <2>4 DEF ReportActivity
    <3> QED
      BY <2>1, <3>1, <3>2 DEF OtherMoves, Submitting
  <2>5. CASE EndReport(w)
    BY <1>0, <2>5, CallMoves DEF EndReport, OtherMoves, Submitting
  <2> QED
    BY <2>2, <2>3, <2>4, <2>5 DEF WatcherStep
<1>3. \A s \in Relays : MildStatus(s)
  <2>1. CASE ResolveReported(w) /\ MaySettle(requests, calls[w].request)
    BY <2>1, ToolSettlesMildly DEF ResolveReported
  <2>2. CASE UNCHANGED requests
    BY <2>2 DEF MildStatus, StatusOf
  <2> QED
    BY <2>1, <2>2 DEF WatcherStep, StartReport, ReportUnknownApproval, ReportApproval,
                      ReportActivity, ResolveReported, EndReport
<1> QED
  BY <1>0, <1>1, <1>2, <1>3, OthersKeepRelay

LEMMA RelayKeepsRelay ==
    ASSUME RelayInv, NEW s \in Relays, RelayStep(s)
    PROVE  RelayKept
<1>0. /\ s \in Callers /\ s \notin Deciders
      /\ <<"tool-resolved", s>> \in Callers \ (Relays \cup Deciders)
      /\ Deciders \subseteq Callers /\ Relays \subseteq Callers /\ Hooks \subseteq Callers
      /\ DOMAIN calls = Callers
      /\ CallFields
      /\ relay \in [Relays -> {"none", "pending", "closed"}]
      /\ codex \in [Relays -> {None, "Allowed", "Denied"}]
      /\ None \notin {"Allowed", "Denied"}
  BY ClientAssumption DEF Callers, RelayInv, RelayShape, FlowInv, FlowTypes
<1>1. CASE ObserveServerRequest(s)
  <2>1. /\ relay[s] = "none" /\ relay' = [relay EXCEPT ![s] = "pending"]
        /\ UNCHANGED <<requests, codex>>
        /\ Moved(s, "check", RequestOf[s])
    BY <1>0, <1>1, CallMoves DEF ObserveServerRequest
  <2>2. RelayShape'
    BY <1>0, <2>1 DEF RelayInv, RelayShape, SubmissionsNamed, Moved
  <2>3. ASSUME NEW t \in Relays PROVE Harmless(t)
    BY <1>0, <2>1 DEF RelayInv, RelayGood, Harmless, Unstored, StatusOf, Moved
  <2> QED
    BY <2>2, <2>3, HarmlessKeepsGood DEF RelayInv, RelayKept
<1>2. CASE \E v \in {"Allowed", "Denied"} : ForwardClientAnswer(s, v)
  <2>1. PICK v \in {"Allowed", "Denied"} : ForwardClientAnswer(s, v)
    BY <1>2
  <2>2. /\ UNCHANGED <<calls, relay, requests>>
        /\ codex' = [codex EXCEPT ![s] = IF codex[s] = None THEN v ELSE codex[s]]
    BY <2>1 DEF ForwardClientAnswer, FirstAnswer
  <2>3. RelayShape'
    BY <1>0, <2>2 DEF RelayInv, RelayShape, SubmissionsNamed, CallFields
  <2>4. ASSUME NEW t \in Relays PROVE Harmless(t)
    BY <1>0, <2>2 DEF RelayInv, RelayGood, Harmless, Unstored, StatusOf
  <2> QED
    BY <2>3, <2>4, HarmlessKeepsGood DEF RelayInv, RelayKept
<1>3. CASE ObserveClientMessage(s)
  <2>1. UNCHANGED <<requests, codex>> /\ \A t \in Relays : MildStatus(t)
    BY <1>3 DEF ObserveClientMessage, MildStatus, StatusOf
  <2>2. CASE relay[s] # "pending"
    BY <1>3, <2>1, <2>2, OthersKeepRelay DEF ObserveClientMessage
  <2>3. CASE relay[s] = "pending"
    <3>1. /\ relay' = [relay EXCEPT ![s] = "closed"]
          /\ Moved(<<"tool-resolved", s>>, "resolve", RequestOf[s])
      <4> DEFINE new == [NoCall EXCEPT !.at = "resolve", !.request = RequestOf[s]]
      <4>1. /\ relay' = [relay EXCEPT ![s] = "closed"]
            /\ calls' = [calls EXCEPT ![<<"tool-resolved", s>>] = new]
        BY <1>3, <2>3 DEF ObserveClientMessage
      <4>2. /\ {"at", "request", "todo", "replace", "batch"} \subseteq DOMAIN new
            /\ new.at = "resolve"
            /\ new.request = RequestOf[s]
        BY DEF NoCall
      <4> HIDE DEF new
      <4> QED
        BY <1>0, <4>1, <4>2 DEF Moved, CallFields
    <3>2. RelayShape'
      BY <1>0, <2>1, <3>1 DEF RelayInv, RelayShape, SubmissionsNamed, Moved, Submitting
    <3>3. ASSUME NEW t \in Relays PROVE Harmless(t)
      BY <1>0, <2>1, <2>3, <3>1 DEF RelayInv, RelayGood, Harmless, Unstored, StatusOf, Moved
    <3> QED
      BY <3>2, <3>3, HarmlessKeepsGood DEF RelayInv, RelayKept
  <2> QED
    BY <2>2, <2>3
<1>4. CASE ToolResolved(s)
  <2>1. UNCHANGED <<relay, codex>>
    BY <1>4 DEF ToolResolved, client
  <2>2. OtherMoves(<<"tool-resolved", s>>)
    BY <1>0, <1>4, CallMoves DEF ToolResolved, OtherMoves, Submitting
  <2>3. \A t \in Relays : MildStatus(t)
    <3>1. CASE MaySettle(requests, RequestOf[s])
      BY <1>4, <3>1, ToolSettlesMildly DEF ToolResolved
    <3>2. CASE ~MaySettle(requests, RequestOf[s])
      BY <1>4, <3>2 DEF ToolResolved, MildStatus, StatusOf
    <3> QED
      BY <3>1, <3>2
  <2> QED
    BY <1>0, <2>1, <2>2, <2>3, OthersKeepRelay
<1> QED
  BY <1>1, <1>2, <1>3, <1>4 DEF RelayStep

LEMMA UiKeepsRelay ==
    ASSUME RelayInv, UiStep
    PROVE  RelayKept
<1>0. /\ Ui \in Callers \ (Relays \cup Deciders)
      /\ requests \in [Requests -> ApprovalRequest]
      /\ DOMAIN calls = Callers
      /\ CallFields
      /\ \A s \in Relays : RequestOf[s] \in Requests
  BY ClientAssumption DEF Callers, RelayInv, RelayShape, FlowInv, FlowTypes
<1>1. UNCHANGED <<relay, codex>>
  BY DEF UiStep, SetListening, ClearToolState, Reset, DismissActiveBlocker, client
<1>2. UNCHANGED calls \/ OtherMoves(Ui)
  <2>1. CASE \E tool \in Tools, on \in BOOLEAN : SetListening(tool, on)
    <3>1. UNCHANGED calls \/ \E todo : calls' = [calls EXCEPT ![Ui].at = "clear", ![Ui].todo = todo]
      BY <2>1 DEF SetListening
    <3>2. ASSUME NEW todo, calls' = [calls EXCEPT ![Ui].at = "clear", ![Ui].todo = todo]
          PROVE  Moved(Ui, "clear", calls[Ui].request)
      BY <1>0, <3>2 DEF Moved, CallFields
    <3> QED
      BY <3>1, <3>2 DEF OtherMoves, Submitting
  <2>2. CASE ClearToolState
    BY <1>0, <2>2, CallMoves DEF ClearToolState, OtherMoves, Submitting
  <2>3. CASE Reset \/ DismissActiveBlocker
    BY <2>3 DEF Reset, DismissActiveBlocker
  <2> QED
    BY <2>1, <2>2, <2>3 DEF UiStep
<1>3. \A s \in Relays : MildStatus(s)
  <2>1. CASE \E tool \in Tools, on \in BOOLEAN : SetListening(tool, on)
    BY <2>1 DEF SetListening, MildStatus, StatusOf
  <2>2. CASE ClearToolState
    BY <1>0, <2>2, ClearFacts DEF ClearToolState, MildStatus, StatusOf
  <2>3. CASE Reset
    BY <1>0, <2>3, NoRequestType DEF Reset, MildStatus, StatusOf
  <2>4. CASE DismissActiveBlocker
    BY <2>4 DEF DismissActiveBlocker, MildStatus, StatusOf
  <2> QED
    BY <2>1, <2>2, <2>3, <2>4 DEF UiStep
<1> QED
  BY <1>0, <1>1, <1>2, <1>3, OthersKeepRelay

LEMMA DeciderKeepsRelay ==
    ASSUME RelayInv, NEW d \in Deciders, DeciderStep(d)
    PROVE  RelayKept
<1> DEFINE r == DecisionOf[d].request
           v == DecisionOf[d].verdict
<1>0. /\ d \in Callers /\ d \notin Relays /\ d \notin Hooks
      /\ Deciders \subseteq Callers /\ Relays \subseteq Callers /\ Hooks \subseteq Callers
      /\ relay \in [Relays -> {"none", "pending", "closed"}]
      /\ codex \in [Relays -> {None, "Allowed", "Denied"}]
      /\ requests \in [Requests -> ApprovalRequest]
      /\ r \in Requests /\ v \in {"Allowed", "Denied"} /\ None \notin {"Allowed", "Denied"}
      /\ \A s, t \in Relays : RequestOf[s] = RequestOf[t] => s = t
      /\ \A s \in Relays : /\ RequestInfo[RequestOf[s]].channel = "NiumaCodexRelay"
                           /\ RequestOf[s] \in Requests
  BY ClientAssumption DEF Callers, RelayInv, RelayShape, FlowInv, FlowTypes
<1>1. ASSUME NEW at, NEW x, Moved(d, at, x),
             relay' \in [Relays -> {"none", "pending", "closed"}],
             codex' \in [Relays -> {None, "Allowed", "Denied"}]
      PROVE  RelayShape'
  BY <1>0, <1>1 DEF RelayInv, RelayShape, SubmissionsNamed, Moved
<1>2. ASSUME NEW at, NEW x, Moved(d, at, x), UNCHANGED requests,
             \A s \in Relays : /\ relay'[s] = "none" <=> relay[s] = "none"
                               /\ codex[s] # None => codex'[s] # None
                               /\ (at = "decide" /\ r = RequestOf[s])
                                  => \/ codex'[s] # None
                                     \/ StatusOf(s) \in DecidedStatuses
      PROVE  \A s \in Relays : RelayGood(s)'
  <2>1. ASSUME NEW s \in Relays PROVE Harmless(s)
    <3>1. StatusOf(s)' = StatusOf(s) /\ (Unstored(s)' <=> Unstored(s))
      BY <1>0, <1>2 DEF StatusOf, Unstored, Moved
    <3>2. RelayGood(s) /\ (Unstored(s) => StatusOf(s) \notin DecidedStatuses)
      BY DEF RelayInv, RelayGood, DecidedStatuses
    <3> QED
      BY <1>0, <1>2, <3>1, <3>2 DEF RelayGood, Harmless, Moved
  <2> QED
    BY <2>1, HarmlessKeepsGood DEF RelayInv
<1>3. CASE ReadRequest(d)
  <2>1. /\ UNCHANGED <<requests, relay, codex>>
        /\ requests[r].status # "Absent"
        /\ \E at : /\ Moved(d, at, calls[d].request)
                   /\ at = "decide" => ~(/\ RequestInfo[r].channel = "NiumaCodexRelay"
                                         /\ requests[r].status = "Pending")
    BY <1>0, <1>3, CallMoves DEF ReadRequest, client
  <2>2. \A s \in Relays : r = RequestOf[s] /\ requests[r].status # "Pending"
                            => StatusOf(s) \in DecidedStatuses
    BY <1>0, <2>1 DEF RelayInv, RelayGood, StatusOf, DecidedStatuses, ApprovalRequest,
                      ApprovalStatuses, OpenStatuses
  <2>3. PICK at : /\ Moved(d, at, calls[d].request)
                  /\ at = "decide" => ~(/\ RequestInfo[r].channel = "NiumaCodexRelay"
                                        /\ requests[r].status = "Pending")
    BY <2>1
  <2>4. \A s \in Relays : RelayGood(s)'
    BY <1>0, <1>2, <2>1, <2>2, <2>3
  <2>5. RelayShape'
    BY <1>0, <1>1, <2>1, <2>3
  <2> QED
    BY <2>4, <2>5 DEF RelayKept
<1>4. CASE SendRelayDecision(d)
  <2>1. PICK s \in Relays :
           /\ RequestOf[s] = r
           /\ \/ UNCHANGED <<relay, codex>> /\ Finish(d)
              \/ /\ relay[s] = "pending" /\ relay' = [relay EXCEPT ![s] = "closed"]
                 /\ \/ FirstAnswer(s, v) /\ (Goto(d, "decide") \/ Finish(d))
                    \/ UNCHANGED codex /\ Finish(d)
    BY <1>4 DEF SendRelayDecision, RelayOf
  <2>2. UNCHANGED requests
    BY <1>4 DEF SendRelayDecision
  <2>3. /\ relay' \in [Relays -> {"none", "pending", "closed"}]
        /\ codex' \in [Relays -> {None, "Allowed", "Denied"}]
        /\ \A t \in Relays : /\ relay'[t] = "none" <=> relay[t] = "none"
                             /\ codex[t] # None => codex'[t] # None
        /\ Finish(d) \/ (Goto(d, "decide") /\ codex'[s] # None)
    <3>1. \/ relay' = relay
          \/ relay[s] = "pending" /\ relay' = [relay EXCEPT ![s] = "closed"]
      BY <2>1
    <3>2. codex' = codex \/ FirstAnswer(s, v)
      BY <2>1
    <3>3. FirstAnswer(s, v) => codex'[s] # None
      BY <1>0 DEF FirstAnswer
    <3>4. /\ codex' \in [Relays -> {None, "Allowed", "Denied"}]
          /\ \A t \in Relays : codex[t] # None => codex'[t] # None
      BY <1>0, <3>2 DEF FirstAnswer
    <3>5. /\ relay' \in [Relays -> {"none", "pending", "closed"}]
          /\ \A t \in Relays : relay'[t] = "none" <=> relay[t] = "none"
      BY <1>0, <3>1
    <3> QED
      BY <2>1, <3>3, <3>4, <3>5
  <2>4. CASE Finish(d)
    <3>1. Moved(d, "idle", None)
      BY <1>0, <2>4, CallMoves
    <3>2. RelayShape'
      BY <1>0, <1>1, <2>3, <3>1
    <3>3. \A t \in Relays : RelayGood(t)'
      BY <1>2, <2>2, <2>3, <3>1
    <3> QED
      BY <3>2, <3>3 DEF RelayKept
  <2>5. CASE Goto(d, "decide") /\ codex'[s] # None
    <3>1. Moved(d, "decide", calls[d].request)
      BY <1>0, <2>5, CallMoves
    <3>2. RelayShape'
      BY <1>1, <2>3, <3>1
    <3>3. \A t \in Relays : r = RequestOf[t] => t = s
      BY <1>0, <2>1
    <3>4. \A t \in Relays : RelayGood(t)'
      BY <1>2, <2>2, <2>3, <2>5, <3>1, <3>3
    <3> QED
      BY <3>2, <3>4 DEF RelayKept
  <2> QED
    BY <2>3, <2>4, <2>5
<1>5. CASE Decide(d)
  <2>1. UNCHANGED <<relay, codex>> /\ calls[d].at = "decide"
    BY <1>5 DEF Decide
  <2>2. CASE ~MaySettle(requests, r)
    <3>1. Moved(d, "idle", None) /\ UNCHANGED requests
      BY <1>0, <1>5, <2>2, CallMoves DEF Decide
    <3>2. RelayShape' /\ \A t \in Relays : RelayGood(t)'
      BY <1>0, <1>1, <1>2, <2>1, <3>1
    <3> QED
      BY <3>2 DEF RelayKept
  <2>3. CASE MaySettle(requests, r)
    <3>1. /\ Moved(d, "append", calls[d].request)
          /\ requests' = [requests EXCEPT ![r].status = v]
      BY <1>0, <1>5, <2>3, CallMoves DEF Decide, decide
    <3>2. RelayShape'
      BY <1>0, <1>1, <2>1, <3>1
    <3>3. v \in ApprovalStatuses
      BY <1>0 DEF ApprovalStatuses, DecidedStatuses
    <3>4. \A q \in Requests : requests'[q].status = IF q = r THEN v ELSE requests[q].status
      BY <1>0, <3>1, <3>3, StatusWritten
    <3>5. ASSUME NEW s \in Relays PROVE Harmless(s)
      <4>1. (Unstored(s)' <=> Unstored(s)) /\ (relay'[s] = "none" => calls'[s].at = "idle")
        BY <1>0, <2>1, <3>1 DEF Unstored, Moved, RelayInv, RelayGood
      <4>2. CASE RequestOf[s] # r
        BY <1>0, <2>1, <3>1, <3>4, <4>1, <4>2 DEF Harmless, StatusOf, Moved
      <4>3. CASE RequestOf[s] = r
        <5>1. StatusOf(s) \in OpenStatuses /\ StatusOf(s)' = v /\ v \in DecidedStatuses
          BY <1>0, <2>3, <3>4, <4>3 DEF StatusOf, MaySettle, DecidedStatuses
        <5>2. codex[s] # None
          BY <2>1, <4>3, <5>1 DEF RelayInv, RelayGood, AnsweredBeforeDecided, OpenStatuses,
                                  DecidedStatuses
        <5> QED
          BY <1>0, <2>1, <3>1, <4>1, <5>1, <5>2 DEF Harmless, Moved
      <4> QED
        BY <4>2, <4>3
    <3> QED
      BY <3>2, <3>5, HarmlessKeepsGood DEF RelayInv, RelayKept
  <2> QED
    BY <2>2, <2>3
<1> QED
  BY <1>3, <1>4, <1>5 DEF DeciderStep

LEMMA TimerKeepsRelay ==
    ASSUME RelayInv,
           UNCHANGED vars \/ Tick \/ \E x \in expiries : ExpireCandidate(x) \/ AppendExpired(x)
    PROVE  RelayKept
<1>1. UNCHANGED <<calls, relay, codex, requests>>
  BY DEF Tick, ExpireCandidate, AppendExpired, client, vars
<1> QED
  BY <1>1, OthersKeepRelay DEF MildStatus, StatusOf

LEMMA NextKeepsRelay == RelayInv /\ [Next]_vars => RelayInv'
<1> SUFFICES ASSUME RelayInv, [Next]_vars PROVE RelayInv'
  OBVIOUS
<1>1. FlowInv'
  BY NextImplements DEF RelayInv, Implements
<1>2. RelayKept
  BY SubmissionKeepsRelay, ReplyKeepsRelay, HookKeepsRelay, DeciderKeepsRelay, RelayKeepsRelay,
     WatcherKeepsRelay, TimerKeepsRelay, SweepKeepsRelay, UiKeepsRelay DEF Next
<1> QED
  BY <1>1, <1>2 DEF RelayKept, RelayInv

(* An approval that came through the relay is recorded as decided only when*)
(* the app-server has been given an answer, for any number of relays,      *)
(* consumers and terminals, although sending and recording are two steps   *)
(* of post_approval_decision and the request may be cleared between them.  *)
THEOREM DecidedIsAnswered == Spec => []DecidedReachesCodex
<1>1. Init => RelayInv
  BY RelayInit
<1>2. RelayInv /\ [Next]_vars => RelayInv'
  BY NextKeepsRelay
<1>3. RelayInv => DecidedReachesCodex
  BY DEF RelayInv, RelayGood, StatusOf, DecidedReachesCodex
<1> QED
  BY <1>1, <1>2, <1>3, PTL DEF Spec

-----------------------------------------------------------------------------
(* The append loop takes the events of a batch one after another: a fold of*)
(* the community modules is one over the set of their positions, which     *)
(* takes the greatest last.                                                *)
LEMMA GreatestIs ==
    ASSUME NEW m \in Nat, NEW s \in SUBSET (1..m), m \in s
    PROVE  Max(s) = m
<1> DEFINE P(x) == \A y \in s : x >= y
<1>1. m \in s /\ P(m) /\ \A x \in s : P(x) => x = m
  OBVIOUS
<1>2. Max(s) = CHOOSE x \in s : P(x)
  BY DEF Max
<1> HIDE DEF P
<1>3. (CHOOSE x \in s : P(x)) \in s /\ P(CHOOSE x \in s : P(x))
  BY <1>1
<1> QED
  BY <1>1, <1>2, <1>3

(* g[s] is what the loop makes of the events at the positions s.           *)
Applied(base, b, m, g) ==
    g = [s \in SUBSET (1..m) |->
            IF s = {} THEN base ELSE ApplyEvent(g[s \ {Max(s)}], b[Max(s)])]

LEMMA AppliedExists ==
    ASSUME NEW base, NEW b, NEW m \in Nat
    PROVE  \E g : Applied(base, b, m, g)
<1> DEFINE S == {k \in Nat : \E g : Applied(base, b, k, g)}
<1>1. 0 \in S
  <2> DEFINE g == [s \in SUBSET (1..0) |-> base]
  <2>1. \A s \in SUBSET (1..0) : s = {}
    OBVIOUS
  <2>2. Applied(base, b, 0, g)
    BY <2>1 DEF Applied
  <2> QED BY <2>2
<1>2. ASSUME NEW k \in S PROVE k + 1 \in S
  <2>1. k \in Nat /\ k + 1 \in Nat
    BY <1>2
  <2>2. PICK g : Applied(base, b, k, g)
    BY <1>2
  <2> DEFINE h == [s \in SUBSET (1..(k + 1)) |->
                      IF k + 1 \in s THEN ApplyEvent(g[s \ {k + 1}], b[k + 1]) ELSE g[s]]
             B(s) == IF s = {} THEN base ELSE ApplyEvent(h[s \ {Max(s)}], b[Max(s)])
             D == SUBSET (1..(k + 1))
  <2>3. ASSUME NEW s \in D PROVE h[s] = B(s)
    <3>1. CASE k + 1 \in s
      <4>1. Max(s) = k + 1
        BY <2>1, <3>1, GreatestIs
      <4>2. s \ {k + 1} \in D /\ k + 1 \notin s \ {k + 1}
        OBVIOUS
      <4>3. h[s \ {k + 1}] = g[s \ {k + 1}]
        BY <4>2
      <4> QED BY <3>1, <4>1, <4>3
    <3>2. CASE k + 1 \notin s
      <4>1. s \in SUBSET (1..k)
        BY <2>1, <3>2
      <4>2. h[s] = g[s] /\ h[s \ {Max(s)}] = g[s \ {Max(s)}]
        BY <3>2
      <4>3. g[s] = IF s = {} THEN base ELSE ApplyEvent(g[s \ {Max(s)}], b[Max(s)])
        BY <2>2, <4>1 DEF Applied
      <4> QED BY <4>2, <4>3
    <3> QED BY <3>1, <3>2
  <2>4. h = [s \in D |-> h[s]]
    OBVIOUS
  <2> HIDE DEF h, B
  <2>5. h = [s \in D |-> B(s)]
    BY <2>3, <2>4, Zenon
  <2>6. Applied(base, b, k + 1, h)
    BY <2>5 DEF Applied, B
  <2> QED BY <2>1, <2>6
<1> HIDE DEF S
<1>3. S \in SUBSET Nat
  BY DEF S
<1>4. S = Nat
  BY <1>1, <1>2, <1>3, InductiveSet
<1> QED BY <1>4 DEF S

(* The stores on the way from before the batch to after it.                *)
AfterBatch(base, b) == FoldLeft(ApplyEvent, base, b)

LEMMA BatchSteps ==
    ASSUME NEW base, NEW X, NEW b \in Seq(X)
    PROVE  \E f : /\ f[0] = base
                  /\ f[Len(b)] = AfterBatch(base, b)
                  /\ \A k \in Nat : k < Len(b) => f[k + 1] = ApplyEvent(f[k], b[k + 1])
<1> DEFINE m == Len(b)
           g == CHOOSE a : Applied(base, b, m, a)
           f == [k \in Nat |-> g[1..k]]
<1>0. m \in Nat /\ DOMAIN b = 1..m
  OBVIOUS
<1>1. Applied(base, b, m, g)
  BY AppliedExists
<1>2. AfterBatch(base, b) = g[1..m]
  BY <1>0, <1>1 DEF AfterBatch, FoldLeft, MapThenFoldSet, Applied
<1> HIDE DEF g
<1>3. g[{}] = base
  BY <1>1 DEF Applied
<1>4. ASSUME NEW k \in Nat, k < m
      PROVE  g[1..(k + 1)] = ApplyEvent(g[1..k], b[k + 1])
  <2>1. 1..(k + 1) \in SUBSET (1..m) /\ 1..(k + 1) # {} /\ k + 1 \in 1..(k + 1)
    <3> HIDE DEF m
    <3> QED BY <1>0, <1>4
  <2>2. Max(1..(k + 1)) = k + 1
    <3>1. k + 1 \in Nat /\ 1..(k + 1) \in SUBSET (1..(k + 1))
      OBVIOUS
    <3> QED BY <2>1, <3>1, GreatestIs
  <2>3. (1..(k + 1)) \ {k + 1} = 1..k
    OBVIOUS
  <2> QED BY <1>1, <2>1, <2>2, <2>3 DEF Applied
<1>5. f[0] = base /\ f[m] = AfterBatch(base, b)
  <2>1. 1..0 = {}
    OBVIOUS
  <2> QED BY <1>2, <1>3, <2>1
<1>6. \A k \in Nat : k < m => f[k + 1] = ApplyEvent(f[k], b[k + 1])
  BY <1>4
<1> QED BY <1>5, <1>6

-----------------------------------------------------------------------------
(* The attention list *)

(* The event that shows the approval of r.                                 *)
asked_event(r) == approval_event(r, "ApprovalRequested")

FlowIds == ((EventTypes \cup {"watcher_replaced"}) \X Requests) \cup {e.id : e \in ReportedEvents}

(* What may be on its way to the store while the requests are rs: nothing  *)
(* that ends a session; an event of the id of r's approval is that event,  *)
(* and r is stored; and what settles r's item comes after the decision.    *)
EventAllowed(rs, e) ==
    /\ IsEvent(e, FlowIds)
    /\ e.type \notin EndingTypes
    /\ \A r \in Requests :
          /\ asked_id(r) \in {e.id, e.dedupe_key} =>
                e = asked_event(r) /\ rs[r].status # "Absent"
          /\ e.type \in SettlingTypes /\ e.key = approval_ref(r) =>
                rs[r].status \in DecidedStatuses

BatchAllowed(rs, b) == b \in Seq(ToSet(b)) /\ \A e \in ToSet(b) : EventAllowed(rs, e)

(* The call of c is about to show the approval of r.                       *)
Shows(c, r) ==
    /\ calls[c].request = r
    /\ \/ calls[c].at = "find"
       \/ calls[c].at = "append" /\ asked_event(r) \in ToSet(calls[c].batch)

Shown(st, r) == \E i \in st.attention_items : i.key = approval_ref(r) /\ i.status = "WaitingApproval"

(* In a store that knows these keys, an open approval whose event was      *)
(* applied is in the list.                                                 *)
StoreShows(st, keys, rs) ==
    /\ GoodState(FlowIds, st)
    /\ \A r \in Requests :
          /\ already_applied(st, asked_event(r)) => asked_id(r) \in keys
          /\ asked_id(r) \in keys => rs[r].status # "Absent"
          /\ asked_id(r) \in keys /\ MaySettle(rs, r) => Shown(st, r)

(* And one whose event was not applied is about to be shown.               *)
Asking ==
    \A r \in Requests :
        MaySettle(requests, r) =>
            \/ asked_id(r) \in dedupe_keys
            \/ \E c \in Hooks \cup Relays : Shows(c, r)

(* Where the call of c may stand.                                          *)
SubmissionGood(c) ==
    calls[c].at = "find" => calls[c].request = RequestOf[c]
                            /\ requests[RequestOf[c]].status # "Absent"

ReportGood(w) ==
    /\ calls[w].at \in {"report", "resolve"} =>
          w \notin unreported /\ calls[w].todo \in Seq(ToSet(ReportOf[w]))
    /\ calls[w].at = "resolve" =>
          /\ calls[w].todo # <<>>
          /\ calls[w].request \in Requests
          /\ requests[calls[w].request].status # "Absent"
          /\ \A r \in Requests :
                Head(calls[w].todo).key = approval_ref(r) => calls[w].request = r

CallGood(c) ==
    /\ BatchAllowed(requests, calls[c].batch)
    /\ c \in Hooks \cup Relays => SubmissionGood(c)
    /\ c \in Hooks /\ hooks[c] \in {"ready", "waiting"} => calls[c].at = "idle"
    /\ c \in Watchers => ReportGood(c)
    /\ c = Ui => calls[c].at # "clear"

(* What the arbiter holds back is approvals the watchers reported.         *)
ReportedApprovals == {e \in ReportedEvents : e.type = "ApprovalRequested"}

Candidates(arb) ==
    \A f \in Fingerprints :
        \/ arb.pending_candidates[f] = NoCandidate
        \/ /\ arb.pending_candidates[f] \in ReportedApprovals
           /\ arb.pending_candidates[f].fingerprint = f

ExpiryGood(x) ==
    /\ {"fingerprint", "batch"} \subseteq DOMAIN x
    /\ x.fingerprint \in Fingerprints
    /\ x.batch = <<>> \/ \E e \in ReportedApprovals : x.batch = <<e>>

(* Finitely many requests are stored.                                      *)
Stored == {r \in Requests : requests[r].status # "Absent"}

(* What the calls and the store make of the list...                        *)
ListGood ==
    /\ StoreShows(state, dedupe_keys, requests)
    /\ Asking
    /\ \A c \in Callers : CallGood(c)
    /\ IsFiniteSet(Stored)

(* ... and the watchers' approvals that are held back.                     *)
HeldBackGood == Candidates(arbiter) /\ \A x \in expiries : ExpiryGood(x)

(* The event that shows an approval.                                       *)
LEMMA AskedFacts ==
    ASSUME NEW r \in Requests
    PROVE  /\ asked_event(r).id = asked_id(r)
           /\ asked_event(r).dedupe_key = asked_id(r)
           /\ asked_event(r).type = "ApprovalRequested"
           /\ asked_event(r).key = approval_ref(r)
           /\ asked_id(r) = <<"ApprovalRequested", r>>
           /\ asked_id(r) # None
           /\ approval_ref(r) # None
BY EventAssumption, KeyAssumption DEF asked_event, asked_id, approval_event

(* One event of a batch, applied or not, keeps open approvals shown, and   *)
(* shows the one it is about.                                              *)
LEMMA AllowedIsShown ==
    ASSUME NEW rs, NEW s, StoreShows(s.state, s.keys, rs), NEW e, EventAllowed(rs, e),
           NEW t, t = ApplyEvent(s, e)
    PROVE  /\ StoreShows(t.state, t.keys, rs)
           /\ s.keys \subseteq t.keys
           /\ \A r \in Requests : e = asked_event(r) => asked_id(r) \in t.keys
<1>1. CASE already_applied(s.state, e) \/ e.dedupe_key \in s.keys \/ is_late_terminal_activity(s.state, e)
  <2>1. t = s
    BY <1>1 DEF ApplyEvent
  <2>2. ASSUME NEW r \in Requests, e = asked_event(r)
        PROVE  asked_id(r) \in s.keys
    <3>1. ~is_late_terminal_activity(s.state, e)
      BY <2>2, AskedFacts DEF is_late_terminal_activity
    <3> QED
      BY <1>1, <2>2, <3>1, AskedFacts DEF StoreShows
  <2> QED
    BY <2>1, <2>2
<1>2. CASE ~(already_applied(s.state, e) \/ e.dedupe_key \in s.keys
                \/ is_late_terminal_activity(s.state, e))
  <2> DEFINE st == s.state
             new == apply_event(st, e)
             keys == s.keys \cup {e.dedupe_key}
  <2>1. t.state = new /\ t.keys = keys
    BY <1>2 DEF ApplyEvent
  <2>2. GoodState(FlowIds, st) /\ IsEvent(e, FlowIds) /\ e.type \notin EndingTypes
    BY DEF StoreShows, EventAllowed
  <2>3. GoodState(FlowIds, new)
    BY <2>2, ApplyEventGood
  <2>4. ASSUME NEW r \in Requests, already_applied(new, asked_event(r))
        PROVE  asked_id(r) \in keys
    <3>1. already_applied(st, asked_event(r)) \/ asked_event(r).id = e.id
      BY <2>2, <2>4, AskedFacts, ApplyEventVisible
    <3>2. CASE already_applied(st, asked_event(r))
      BY <3>2 DEF StoreShows
    <3>3. CASE asked_event(r).id = e.id
      <4>1. e = asked_event(r)
        BY <3>3, AskedFacts DEF EventAllowed
      <4> QED
        BY <4>1, AskedFacts
    <3> QED
      BY <3>1, <3>2, <3>3
  <2>5. ASSUME NEW r \in Requests, asked_id(r) \in keys
        PROVE  /\ rs[r].status # "Absent"
               /\ asked_id(r) \in s.keys \/ e = asked_event(r)
    BY <2>5 DEF StoreShows, EventAllowed
  <2>6. ASSUME NEW r \in Requests, asked_id(r) \in keys, MaySettle(rs, r)
        PROVE  Shown(new, r)
    <3>1. CASE e = asked_event(r)
      <4>1. \E i \in new.attention_items : i.key = e.key /\ i.status = "WaitingApproval"
        BY <2>2, <3>1, AskedFacts, ApplyEventShows
      <4> QED
        BY <3>1, <4>1, AskedFacts DEF Shown
    <3>2. CASE e # asked_event(r)
      <4>1. PICK i \in st.attention_items : i.key = approval_ref(r) /\ i.status = "WaitingApproval"
        BY <2>5, <2>6, <3>2 DEF StoreShows, Shown
      <4>2. is_keyed_approval(i)
        BY <4>1, AskedFacts DEF is_keyed_approval
      <4>3. e.type \in SettlingTypes => e.key # i.key
        BY <2>6, <4>1 DEF EventAllowed, MaySettle, OpenStatuses, DecidedStatuses
      <4>4. i \in new.attention_items
        BY <2>2, <4>2, <4>3, ApplyEventKeeps
      <4> QED
        BY <4>1, <4>4 DEF Shown
    <3> QED
      BY <3>1, <3>2
  <2> HIDE DEF new, keys
  <2>7. StoreShows(t.state, t.keys, rs)
    BY <2>1, <2>3, <2>4, <2>5, <2>6 DEF StoreShows
  <2>8. \A r \in Requests : e = asked_event(r) => asked_id(r) \in t.keys
    BY <2>1, AskedFacts DEF keys
  <2> QED
    BY <2>1, <2>7, <2>8 DEF keys
<1> QED
  BY <1>1, <1>2

(* And so does the batch.                                                  *)
LEMMA BatchIsShown ==
    ASSUME NEW rs, NEW st, NEW keys, StoreShows(st, keys, rs), NEW b, BatchAllowed(rs, b),
           NEW t, t = AfterBatch([state |-> st, keys |-> keys], b)
    PROVE  /\ StoreShows(t.state, t.keys, rs)
           /\ keys \subseteq t.keys
           /\ \A r \in Requests : asked_event(r) \in ToSet(b) => asked_id(r) \in t.keys
<1> DEFINE base == [state |-> st, keys |-> keys]
           m == Len(b)
<1>1. b \in Seq(ToSet(b)) /\ \A e \in ToSet(b) : EventAllowed(rs, e)
  BY DEF BatchAllowed
<1>2. m \in Nat /\ DOMAIN b = 1..m /\ \A j \in 1..m : b[j] \in ToSet(b)
  BY <1>1 DEF ToSet
<1>3. PICK f : /\ f[0] = base
               /\ f[m] = AfterBatch(base, b)
               /\ \A k \in Nat : k < m => f[k + 1] = ApplyEvent(f[k], b[k + 1])
  BY <1>1, BatchSteps
<1>4. base.state = st /\ base.keys = keys
  OBVIOUS
<1> HIDE DEF base, m
<1> DEFINE Good(k) == /\ StoreShows(f[k].state, f[k].keys, rs)
                      /\ keys \subseteq f[k].keys
                      /\ \A j \in 1..k : \A r \in Requests :
                            b[j] = asked_event(r) => asked_id(r) \in f[k].keys
           S == {k \in Nat : k <= m => Good(k)}
<1>5. 0 \in S
  BY <1>3, <1>4
<1>6. ASSUME NEW k \in S PROVE k + 1 \in S
  <2>1. SUFFICES ASSUME k + 1 <= m PROVE Good(k + 1)
    BY <1>6
  <2>2. k \in Nat /\ k < m /\ k + 1 \in 1..m /\ Good(k)
    <3>1. k \in Nat /\ (k <= m => Good(k))
      BY <1>6
    <3> HIDE DEF Good, S
    <3> QED
      BY <1>2, <2>1, <3>1
  <2>3. f[k + 1] = ApplyEvent(f[k], b[k + 1]) /\ EventAllowed(rs, b[k + 1])
    <3> HIDE DEF Good, S
    <3>1. f[k + 1] = ApplyEvent(f[k], b[k + 1])
      BY <1>3, <2>2
    <3>2. b[k + 1] \in ToSet(b)
      BY <1>2, <2>2
    <3> QED
      BY <1>1, <3>1, <3>2
  <2>4. /\ StoreShows(f[k + 1].state, f[k + 1].keys, rs)
        /\ f[k].keys \subseteq f[k + 1].keys
        /\ \A r \in Requests : b[k + 1] = asked_event(r) => asked_id(r) \in f[k + 1].keys
    <3>1. StoreShows(f[k].state, f[k].keys, rs)
      BY <2>2
    <3> HIDE DEF Good, S
    <3> QED
      BY <2>3, <3>1, AllowedIsShown
  <2>5. \A j \in 1..(k + 1) : j = k + 1 \/ j \in 1..k
    BY <2>2
  <2> QED
    BY <2>2, <2>4, <2>5
<1> HIDE DEF Good, S
<1>7. S = Nat
  <2>1. S \in SUBSET Nat
    BY DEF S
  <2> QED
    BY <1>5, <1>6, <2>1, InductiveSet
<1>8. Good(m)
  <2>1. m \in S /\ m <= m
    BY <1>2, <1>7
  <2> QED
    BY <2>1 DEF S
<1>9. t = f[m]
  BY <1>3 DEF base
<1> QED
  BY <1>2, <1>8, <1>9 DEF Good, ToSet

-----------------------------------------------------------------------------
(* Requests only go on: nobody forgets them or takes a decision back.      *)
Progressed(rs, new) ==
    \A r \in Requests : /\ rs[r].status # "Absent" => new[r].status # "Absent"
                        /\ rs[r].status \in DecidedStatuses => new[r].status \in DecidedStatuses

(* Batches.                                                                *)
LEMMA NothingAllowed ==
    ASSUME NEW rs
    PROVE  BatchAllowed(rs, <<>>)
BY DEF BatchAllowed, ToSet

LEMMA OneAllowed ==
    ASSUME NEW rs, NEW e, EventAllowed(rs, e)
    PROVE  BatchAllowed(rs, <<e>>) /\ e \in ToSet(<<e>>)
<1>1. ToSet(<<e>>) = {e}
  BY DEF ToSet
<1> QED
  BY <1>1 DEF BatchAllowed

LEMMA Joined ==
    ASSUME NEW b, b \in Seq(ToSet(b)), NEW a, a \in Seq(ToSet(a))
    PROVE  /\ b \o a \in Seq(ToSet(b \o a))
           /\ ToSet(b \o a) = ToSet(b) \cup ToSet(a)
<1> DEFINE X == ToSet(b)
           Y == ToSet(a)
<1>1. b \in Seq(X) /\ a \in Seq(Y)
  OBVIOUS
<1>2. b \in Seq(X \cup Y) /\ a \in Seq(X \cup Y)
  <2> HIDE DEF X, Y
  <2> QED BY <1>1
<1>3. ToSet(b \o a) = X \cup Y
  <2>1. /\ Len(b) \in Nat /\ DOMAIN b = 1..Len(b)
        /\ Len(a) \in Nat /\ DOMAIN a = 1..Len(a)
        /\ Len(b \o a) = Len(b) + Len(a) /\ DOMAIN (b \o a) = 1..(Len(b) + Len(a))
    <3> HIDE DEF X, Y
    <3> QED BY <1>2
  <2>2. \A i \in 1..(Len(b) + Len(a)) : (b \o a)[i] = IF i <= Len(b) THEN b[i] ELSE a[i - Len(b)]
    <3> HIDE DEF X, Y
    <3> QED BY <1>2
  <2>3. ToSet(b \o a) \subseteq X \cup Y
    <3>1. SUFFICES ASSUME NEW i \in 1..(Len(b) + Len(a)) PROVE (b \o a)[i] \in X \cup Y
      BY <2>1 DEF ToSet
    <3>2. CASE i <= Len(b)
      <4>1. i \in DOMAIN b /\ (b \o a)[i] = b[i]
        BY <2>1, <2>2, <3>2
      <4> QED BY <4>1 DEF ToSet
    <3>3. CASE ~(i <= Len(b))
      <4>1. i - Len(b) \in DOMAIN a /\ (b \o a)[i] = a[i - Len(b)]
        BY <2>1, <2>2, <3>3
      <4> QED BY <4>1 DEF ToSet
    <3> QED BY <3>2, <3>3
  <2>4. X \subseteq ToSet(b \o a)
    <3>1. \A i \in DOMAIN b : i \in DOMAIN (b \o a) /\ (b \o a)[i] = b[i]
      BY <2>1, <2>2
    <3> QED BY <3>1 DEF ToSet
  <2>5. Y \subseteq ToSet(b \o a)
    <3>1. ASSUME NEW i \in DOMAIN a
          PROVE  Len(b) + i \in DOMAIN (b \o a) /\ (b \o a)[Len(b) + i] = a[i]
      BY <2>1, <2>2
    <3> QED BY <3>1 DEF ToSet
  <2> QED BY <2>3, <2>4, <2>5
<1>4. b \o a \in Seq(X \cup Y)
  <2> HIDE DEF X, Y
  <2> QED BY <1>2
<1> QED
  BY <1>3, <1>4

LEMMA BothAllowed ==
    ASSUME NEW rs, NEW b, BatchAllowed(rs, b), NEW a, BatchAllowed(rs, a)
    PROVE  /\ BatchAllowed(rs, b \o a)
           /\ ToSet(b \o a) = ToSet(b) \cup ToSet(a)
BY Joined DEF BatchAllowed

LEMMA AllowedStays ==
    ASSUME NEW rs, NEW new, Progressed(rs, new), NEW b, BatchAllowed(rs, b)
    PROVE  BatchAllowed(new, b)
BY DEF BatchAllowed, EventAllowed, Progressed

(* The events of the approvals themselves.                                 *)
LEMMA ApprovalAllowed ==
    ASSUME NEW rs, NEW r \in Requests,
           NEW type \in {"ApprovalRequested", "ApprovalResolved", "ApprovalReturnedToCodex",
                         "ApprovalReturnedToTool"},
           type = "ApprovalRequested" => rs[r].status # "Absent",
           type = "ApprovalResolved" => rs[r].status \in DecidedStatuses
    PROVE  EventAllowed(rs, approval_event(r, type))
<1> DEFINE e == approval_event(r, type)
<1>1. /\ e.id = <<type, r>> /\ e.dedupe_key = <<type, r>> /\ e.tool = RequestInfo[r].tool
      /\ e.session = RequestInfo[r].session /\ e.type = type /\ e.key = approval_ref(r)
      /\ e.subagent = FALSE /\ e.at = 0
  BY DEF approval_event
<1>2. type = "ApprovalRequested" => e = asked_event(r)
  BY DEF asked_event
<1> HIDE DEF e
<1>3. type \in EventTypes /\ type \notin EndingTypes
  BY DEF EventTypes, EndingTypes
<1>4. e.id \in FlowIds
  BY <1>1, <1>3 DEF FlowIds
<1>5. IsEvent(e, FlowIds)
  <2>1. e.subagent \in BOOLEAN
    BY <1>1, Zenon
  <2>2. e.tool \in Tools /\ e.session \in SessionIds /\ e.key \in ResolveKeys \cup {None}
    BY <1>1, EventAssumption DEF ResolveKeys
  <2>3. e.at \in Int
    BY <1>1
  <2> QED
    BY <1>1, <1>3, <1>4, <2>1, <2>2, <2>3 DEF IsEvent
<1>6. ASSUME NEW q \in Requests, asked_id(q) \in {e.id, e.dedupe_key}
      PROVE  e = asked_event(q) /\ rs[q].status # "Absent"
  <2>1. type = "ApprovalRequested" /\ q = r
    BY <1>1, <1>6, AskedFacts
  <2> QED
    BY <1>2, <2>1
<1>7. ASSUME NEW q \in Requests, e.type \in SettlingTypes, e.key = approval_ref(q)
      PROVE  rs[q].status \in DecidedStatuses
  BY <1>1, <1>7 DEF SettlingTypes, approval_ref
<1> QED
  BY <1>1, <1>3, <1>5, <1>6, <1>7 DEF EventAllowed, e

LEMMA ReturnedAllowed ==
    ASSUME NEW rs, NEW r \in Requests
    PROVE  EventAllowed(rs, returned_event(r))
<1>1. \/ returned_event(r) = approval_event(r, "ApprovalReturnedToCodex")
      \/ returned_event(r) = approval_event(r, "ApprovalReturnedToTool")
  BY DEF returned_event
<1>2. CASE returned_event(r) = approval_event(r, "ApprovalReturnedToCodex")
  BY <1>2, ApprovalAllowed
<1>3. CASE returned_event(r) = approval_event(r, "ApprovalReturnedToTool")
  BY <1>3, ApprovalAllowed
<1> QED
  BY <1>1, <1>2, <1>3

(* What a watcher reported, as soon as the requests it names are decided.  *)
LEMMA ReportedAllowed ==
    ASSUME OnlyWatched, NEW rs, NEW e \in ReportedEvents,
           \A r \in Requests : e.type \in SettlingTypes /\ e.key = approval_ref(r) =>
                                  rs[r].status \in DecidedStatuses
    PROVE  EventAllowed(rs, e)
<1>1. e.id \in FlowIds
  BY DEF FlowIds
<1>2. IsEvent(e, FlowIds)
  BY <1>1, EventAssumption DEF IsEvent
<1>3. e.type \notin EndingTypes
  BY DEF OnlyWatched, WatchedTypes, EndingTypes
<1>4. \A r \in Requests : asked_id(r) \notin {e.id, e.dedupe_key}
  BY EventAssumption
<1> QED
  BY <1>2, <1>3, <1>4 DEF EventAllowed

LEMMA CandidateAllowed ==
    ASSUME OnlyWatched, NEW rs, NEW e \in ReportedApprovals
    PROVE  EventAllowed(rs, e)
BY ReportedAllowed DEF ReportedApprovals, SettlingTypes

(* And the event that takes the watcher's item away.                       *)
LEMMA FallbackAllowed ==
    ASSUME GoodState(FlowIds, state), NEW rs, NEW r \in Requests, WatcherItems(r) # {}
    PROVE  EventAllowed(rs, watcher_fallback_resolved_event(r))
<1> DEFINE item == CHOOSE i \in WatcherItems(r) : IsFirst(i, WatcherItems(r))
           e == watcher_fallback_resolved_event(r)
<1>1. WatcherItems(r) \subseteq AttentionItem(FlowIds)
  BY DEF WatcherItems, GoodState, StoredState
<1>2. item \in WatcherItems(r)
  <2>1. \A i \in WatcherItems(r) : i.ord \in Nat
    BY <1>1 DEF AttentionItem
  <2> QED
    BY <2>1, FirstIsItem
<1> HIDE DEF item
<1>3. /\ item.session \in SessionIds
      /\ item.key \in ResolveKeys \cup {None}
      /\ IsCodexPermission(item.key)
  BY <1>1, <1>2 DEF AttentionItem, WatcherItems
<1>4. /\ e.id = <<"watcher_replaced", r>> /\ e.dedupe_key = <<"watcher_replaced", r>>
      /\ e.tool = RequestInfo[r].tool /\ e.session = item.session
      /\ e.type = "ApprovalResolved" /\ e.key = item.key
      /\ e.subagent = FALSE /\ e.at = 0
  BY DEF watcher_fallback_resolved_event, item
<1> HIDE DEF e
<1>5. e.id \in FlowIds
  BY <1>4 DEF FlowIds
<1>6. IsEvent(e, FlowIds)
  <2>1. e.subagent \in BOOLEAN
    BY <1>4, Zenon
  <2>2. e.tool \in Tools /\ e.session \in SessionIds /\ e.key \in ResolveKeys \cup {None}
    BY <1>3, <1>4, EventAssumption
  <2>3. e.at \in Int /\ e.type \in EventTypes
    BY <1>4 DEF EventTypes
  <2> QED
    BY <1>5, <2>1, <2>2, <2>3 DEF IsEvent
<1>7. \A q \in Requests : asked_id(q) \notin {e.id, e.dedupe_key}
  BY <1>4, AskedFacts
<1>8. \A q \in Requests : e.key # approval_ref(q)
  BY <1>3, <1>4 DEF IsCodexPermission, approval_ref
<1> QED
  BY <1>4, <1>6, <1>7, <1>8 DEF EventAllowed, EndingTypes, e

-----------------------------------------------------------------------------
(* How a call moves on.                                                    *)
Goes(c, at, r, todo, b) ==
    /\ calls'[c].at = at /\ calls'[c].request = r
    /\ calls'[c].todo = todo /\ calls'[c].batch = b
    /\ \A x \in Callers \ {c} : calls'[x] = calls[x]

LEMMA CallGoes ==
    ASSUME RelayInv, NEW c \in Callers
    PROVE  /\ \A at : Goto(c, at) => Goes(c, at, calls[c].request, calls[c].todo, calls[c].batch)
           /\ Finish(c) => Goes(c, "idle", None, <<>>, <<>>)
           /\ \A b : AppendNext(c, b) => Goes(c, "append", calls[c].request, calls[c].todo, b)
           /\ \A a : Collect(c, a) => Goes(c, "report", calls[c].request, Tail(calls[c].todo),
                                           calls[c].batch \o a)
           /\ Submit(c) => Goes(c, IF c \in Relays THEN "check" ELSE "arbitrate", RequestOf[c],
                                RequestInfo[RequestOf[c]].fingerprints, <<>>)
<1>0. DOMAIN calls = Callers /\ CallFields
  BY DEF RelayInv, RelayShape, FlowInv, FlowTypes
<1>1. \A at : Goto(c, at) => Goes(c, at, calls[c].request, calls[c].todo, calls[c].batch)
  BY <1>0 DEF Goto, Goes, CallFields
<1>2. Finish(c) => Goes(c, "idle", None, <<>>, <<>>)
  BY <1>0 DEF Finish, NoCall, Goes
<1>3. \A b : AppendNext(c, b) => Goes(c, "append", calls[c].request, calls[c].todo, b)
  BY <1>0 DEF AppendNext, Goes, CallFields
<1>4. \A a : Collect(c, a) => Goes(c, "report", calls[c].request, Tail(calls[c].todo),
                                   calls[c].batch \o a)
  BY <1>0 DEF Collect, Goes, CallFields
<1>5. Submit(c) => Goes(c, IF c \in Relays THEN "check" ELSE "arbitrate", RequestOf[c],
                        RequestInfo[RequestOf[c]].fingerprints, <<>>)
  BY <1>0 DEF Submit, NoCall, Goes
<1> QED
  BY <1>1, <1>2, <1>3, <1>4, <1>5

(* Which kinds of callers there are.                                       *)
LEMMA Kinds ==
    /\ \A h \in Hooks : h \in Callers /\ h \notin Relays \cup Watchers \cup Deciders \cup {Watchdog, Ui}
    /\ \A s \in Relays : /\ s \in Callers
                         /\ s \notin Hooks \cup Watchers \cup Deciders \cup {Watchdog, Ui}
                         /\ <<"tool-resolved", s>> \in Callers
                         /\ <<"tool-resolved", s>> \notin Hooks \cup Relays \cup Watchers \cup {Ui}
    /\ \A w \in Watchers : w \in Callers /\ w \notin Hooks \cup Relays \cup Deciders \cup {Watchdog, Ui}
    /\ \A d \in Deciders : d \in Callers /\ d \notin Hooks \cup Relays \cup Watchers \cup {Watchdog, Ui}
    /\ Watchdog \in Callers /\ Watchdog \notin Hooks \cup Relays \cup Watchers \cup {Ui}
    /\ Ui \in Callers
<1>1. Watchdog # Ui /\ \A s \in Relays : <<"tool-resolved", s>> # Ui
  BY DEF Watchdog, Ui
<1>2. \A s, t \in Relays : <<"tool-resolved", s>> # t
  BY ClientAssumption
<1> QED
  BY <1>1, <1>2, ClientAssumption, ProcessAssumption DEF Callers

(* What the requests do in a step that stores none.                        *)
RequestsGo ==
    /\ Progressed(requests, requests')
    /\ IsFiniteSet(Stored')
    /\ \A r \in Requests : MaySettle(requests', r) => MaySettle(requests, r)

LEMMA StoredStays ==
    ASSUME IsFiniteSet(Stored), NEW q,
           \A r \in Requests : requests'[r].status # "Absent" => requests[r].status # "Absent" \/ r = q
    PROVE  IsFiniteSet(Stored')
<1>1. Stored' \in SUBSET (Stored \cup {q})
  BY DEF Stored
<1>2. IsFiniteSet(Stored \cup {q})
  BY FS_AddElement
<1> QED
  BY <1>1, <1>2, FS_Subset

LEMMA RequestsSame ==
    ASSUME ListGood, \A r \in Requests : requests'[r].status = requests[r].status
    PROVE  RequestsGo
BY StoredStays DEF ListGood, RequestsGo, Progressed, MaySettle

LEMMA RequestSettled ==
    ASSUME ListGood, NEW r \in Requests, MaySettle(requests, r), NEW st \in DecidedStatuses,
           \A q \in Requests : requests'[q].status = IF q = r THEN st ELSE requests[q].status
    PROVE  RequestsGo /\ requests'[r].status \in DecidedStatuses
<1>1. IsFiniteSet(Stored')
  BY StoredStays DEF ListGood
<1> QED
  BY <1>1 DEF RequestsGo, Progressed, MaySettle, OpenStatuses, DecidedStatuses

LEMMA RequestsReturned ==
    ASSUME ListGood,
           \A q \in Requests : \/ requests'[q].status = requests[q].status
                               \/ /\ requests[q].status = "Pending"
                                  /\ requests'[q].status \in {"ReturnedToCodex", "ReturnedToTool"}
    PROVE  RequestsGo
<1>1. IsFiniteSet(Stored')
  BY StoredStays DEF ListGood
<1> QED
  BY <1>1 DEF RequestsGo, Progressed, MaySettle, OpenStatuses, DecidedStatuses

(* A status that is neither absent nor open is decided.                    *)
LEMMA DecidedOtherwise ==
    ASSUME RelayInv, NEW r \in Requests, requests[r].status # "Absent", ~MaySettle(requests, r)
    PROVE  requests[r].status \in DecidedStatuses
BY DEF RelayInv, FlowInv, FlowTypes, ApprovalRequest, ApprovalStatuses, MaySettle

(* The store, when requests go on.                                         *)
LEMMA StoreStays ==
    ASSUME RelayInv, StoreShows(state, dedupe_keys, requests), Progressed(requests, requests')
    PROVE  StoreShows(state, dedupe_keys, requests')
<1>1. ASSUME NEW r \in Requests, asked_id(r) \in dedupe_keys, MaySettle(requests', r)
      PROVE  Shown(state, r)
  <2>1. MaySettle(requests, r)
    BY <1>1, DecidedOtherwise DEF StoreShows, Progressed, MaySettle, OpenStatuses, DecidedStatuses
  <2> QED
    BY <1>1, <2>1 DEF StoreShows
<1> QED
  BY <1>1 DEF StoreShows, Progressed

(* A call that does not move, and whose hook does not come to life.        *)
Rests(x) ==
    /\ calls'[x] = calls[x]
    /\ x \in Hooks => hooks'[x] = hooks[x] \/ hooks'[x] \notin {"ready", "waiting"}

Others(c) == \A x \in Callers \ {c} : Rests(x)

LEMMA CallStays ==
    ASSUME ListGood, NEW x \in Callers, Rests(x), Progressed(requests, requests'),
           unreported' \subseteq unreported
    PROVE  CallGood(x)'
<1>1. CallGood(x) /\ calls'[x] = calls[x]
  BY DEF ListGood, Rests
<1>2. BatchAllowed(requests, calls[x].batch)'
  BY <1>1, AllowedStays DEF CallGood
<1>3. x \in Hooks \cup Relays => SubmissionGood(x)'
  BY <1>1, ClientAssumption DEF CallGood, SubmissionGood, Progressed
<1>4. x \in Hooks /\ hooks'[x] \in {"ready", "waiting"} => calls'[x].at = "idle"
  BY <1>1 DEF CallGood, Rests
<1>5. x \in Watchers => ReportGood(x)'
  BY <1>1 DEF CallGood, ReportGood, Progressed
<1>6. x = Ui => calls'[x].at # "clear"
  BY <1>1 DEF CallGood
<1> QED
  BY <1>2, <1>3, <1>4, <1>5, <1>6 DEF CallGood

(* A step on the call of c, which leaves the store alone.                  *)
LEMMA CallKeepsList ==
    ASSUME RelayInv, ListGood, NEW c \in Callers, Others(c), UNCHANGED store,
           unreported' \subseteq unreported, RequestsGo, CallGood(c)',
           \A r \in Requests : c \in Hooks \cup Relays /\ Shows(c, r) => Shows(c, r)'
    PROVE  ListGood'
<1>1. StoreShows(state, dedupe_keys, requests)'
  BY StoreStays DEF ListGood, RequestsGo, store
<1>2. \A x \in Callers : CallGood(x)'
  BY CallStays DEF RequestsGo, Others
<1>3. Asking'
  <2> SUFFICES ASSUME NEW r \in Requests, MaySettle(requests', r)
               PROVE  \/ asked_id(r) \in dedupe_keys'
                      \/ \E x \in Hooks \cup Relays : Shows(x, r)'
    BY DEF Asking
  <2>1. MaySettle(requests, r)
    BY DEF RequestsGo
  <2>2. CASE asked_id(r) \in dedupe_keys
    BY <2>2 DEF store
  <2>3. CASE \E x \in Hooks \cup Relays : Shows(x, r)
    <3>1. PICK x \in Hooks \cup Relays : Shows(x, r)
      BY <2>3
    <3>2. CASE x = c
      BY <3>1, <3>2
    <3>3. CASE x # c
      <4>1. calls'[x] = calls[x]
        BY <3>3, Kinds DEF Others, Rests
      <4> QED
        BY <3>1, <4>1 DEF Shows
    <3> QED
      BY <3>2, <3>3
  <2> QED
    BY <2>1, <2>2, <2>3 DEF ListGood, Asking
<1> QED
  BY <1>1, <1>2, <1>3 DEF ListGood, RequestsGo

LEMMA NoCallKeepsList ==
    ASSUME RelayInv, ListGood, UNCHANGED <<calls, state, dedupe_keys>>,
           unreported' \subseteq unreported, RequestsGo,
           \A h \in Hooks : hooks'[h] = hooks[h] \/ hooks'[h] \notin {"ready", "waiting"}
    PROVE  ListGood'
<1>1. StoreShows(state, dedupe_keys, requests)'
  BY StoreStays DEF ListGood, RequestsGo
<1>2. \A x \in Callers : CallGood(x)'
  <2>1. \A x \in Callers : Rests(x)
    BY DEF Rests
  <2> QED
    BY <2>1, CallStays DEF RequestsGo
<1>3. Asking'
  BY DEF ListGood, Asking, Shows, RequestsGo
<1> QED
  BY <1>1, <1>2, <1>3 DEF ListGood, RequestsGo

(* A batch comes to the store.                                             *)
LEMMA BatchKeepsList ==
    ASSUME RelayInv, ListGood, NEW b, BatchAllowed(requests, b), append_events(b),
           UNCHANGED <<requests, unreported>>,
           NEW c \in Callers, Others(c), CallGood(c)',
           \A r \in Requests : c \in Hooks \cup Relays /\ Shows(c, r) => asked_event(r) \in ToSet(b)
    PROVE  ListGood'
<1>1. PICK t : t = AfterBatch([state |-> state, keys |-> dedupe_keys], b)
  OBVIOUS
<1>2. state' = t.state /\ dedupe_keys' = t.keys
  BY <1>1 DEF append_events, AfterBatch
<1>3. /\ StoreShows(t.state, t.keys, requests)
      /\ dedupe_keys \subseteq t.keys
      /\ \A r \in Requests : asked_event(r) \in ToSet(b) => asked_id(r) \in t.keys
  BY <1>1, BatchIsShown DEF ListGood
<1>4. RequestsGo
  BY RequestsSame
<1>5. \A x \in Callers : CallGood(x)'
  BY <1>4, CallStays DEF RequestsGo, Others
<1>6. Asking'
  <2> SUFFICES ASSUME NEW r \in Requests, MaySettle(requests', r)
               PROVE  \/ asked_id(r) \in dedupe_keys'
                      \/ \E x \in Hooks \cup Relays : Shows(x, r)'
    BY DEF Asking
  <2>1. CASE asked_id(r) \in dedupe_keys
    BY <1>2, <1>3, <2>1
  <2>2. CASE \E x \in Hooks \cup Relays : Shows(x, r)
    <3>1. PICK x \in Hooks \cup Relays : Shows(x, r)
      BY <2>2
    <3>2. CASE x = c
      BY <1>2, <1>3, <3>1, <3>2
    <3>3. CASE x # c
      <4>1. calls'[x] = calls[x]
        BY <3>3, Kinds DEF Others, Rests
      <4> QED
        BY <3>1, <4>1 DEF Shows
    <3> QED
      BY <3>2, <3>3
  <2> QED
    BY <2>1, <2>2 DEF ListGood, Asking
<1>7. StoreShows(state, dedupe_keys, requests)'
  BY <1>2, <1>3
<1> QED
  BY <1>4, <1>5, <1>6, <1>7 DEF ListGood, RequestsGo

-----------------------------------------------------------------------------
(* The steps, by whose they are.                                           *)
LEMMA AskerGood ==
    ASSUME NEW c \in Hooks \cup Relays, BatchAllowed(requests, calls[c].batch)', SubmissionGood(c)',
           c \in Hooks /\ hooks'[c] \in {"ready", "waiting"} => calls'[c].at = "idle"
    PROVE  CallGood(c)'
BY Kinds DEF CallGood

LEMMA OtherGood ==
    ASSUME NEW c \in Callers \ (Hooks \cup Relays \cup Watchers \cup {Ui}),
           BatchAllowed(requests, calls[c].batch)'
    PROVE  CallGood(c)'
BY DEF CallGood

LEMMA SubmissionKeepsList ==
    ASSUME RelayInv, ListGood, NEW c \in Hooks \cup Relays, ServeSubmission(c)
    PROVE  ListGood'
<1>0. /\ c \in Callers
      /\ CallGood(c)
      /\ BatchAllowed(requests, calls[c].batch)
      /\ RequestOf[c] \in Requests
      /\ calls[c].at \in Submitting => calls[c].request = RequestOf[c]
      /\ requests \in [Requests -> ApprovalRequest]
      /\ now \in Nat
  BY Kinds, ClientAssumption
     DEF ListGood, CallGood, RelayInv, RelayShape, SubmissionsNamed, FlowInv, FlowTypes
<1>1. calls[c].at \in {"check", "arbitrate", "upsert", "find"}
  BY DEF ServeSubmission, CheckExisting, Arbitrate, UpsertRequest, FindWatcherItem
<1>2. UNCHANGED store /\ UNCHANGED unreported /\ UNCHANGED hooks
  BY DEF ServeSubmission, CheckExisting, Arbitrate, UpsertRequest, FindWatcherItem, client
<1>3. c \in Hooks => hooks[c] \notin {"ready", "waiting"}
  BY <1>0, <1>1 DEF CallGood
<1>a. ASSUME UNCHANGED requests, calls[c].at # "find",
             calls'[c].at \in {"idle", "arbitrate", "upsert"},
             BatchAllowed(requests, calls'[c].batch),
             \A x \in Callers \ {c} : calls'[x] = calls[x]
      PROVE  ListGood'
  <2>1. RequestsGo
    BY <1>a, RequestsSame
  <2>2. CallGood(c)'
    BY <1>2, <1>3, <1>a, AskerGood DEF SubmissionGood
  <2>3. Others(c)
    BY <1>2, <1>a DEF Others, Rests
  <2>4. \A r \in Requests : ~Shows(c, r)
    BY <1>1, <1>a DEF Shows
  <2> QED
    BY <1>0, <1>2, <2>1, <2>2, <2>3, <2>4, CallKeepsList
<1>4. CASE CheckExisting(c)
  <2>1. Finish(c) \/ Goto(c, "arbitrate")
    BY <1>4 DEF CheckExisting
  <2>2. /\ calls'[c].at \in {"idle", "arbitrate"}
        /\ calls'[c].batch \in {<<>>, calls[c].batch}
        /\ \A x \in Callers \ {c} : calls'[x] = calls[x]
    BY <1>0, <2>1, CallGoes DEF Goes
  <2> QED
    BY <1>0, <1>4, <1>a, <2>2, NothingAllowed DEF CheckExisting
<1>5. CASE Arbitrate(c)
  <2>1. DOMAIN calls = Callers /\ CallFields
    BY DEF RelayInv, RelayShape, FlowInv, FlowTypes
  <2>2. \/ Goto(c, "upsert")
        \/ \E todo, replace : calls' = [calls EXCEPT ![c].todo = todo, ![c].replace = replace]
    BY <1>5 DEF Arbitrate
  <2>3. /\ calls'[c].at \in {"arbitrate", "upsert"}
        /\ calls'[c].batch = calls[c].batch
        /\ \A x \in Callers \ {c} : calls'[x] = calls[x]
    <3>1. CASE Goto(c, "upsert")
      BY <1>0, <3>1, CallGoes DEF Goes
    <3>2. CASE \E todo, replace : calls' = [calls EXCEPT ![c].todo = todo, ![c].replace = replace]
      BY <1>0, <1>5, <2>1, <3>2 DEF Arbitrate, CallFields
    <3> QED
      BY <2>2, <3>1, <3>2
  <2> QED
    BY <1>0, <1>5, <1>a, <2>3 DEF Arbitrate
<1>6. CASE UpsertRequest(c)
  <2> DEFINE r == RequestOf[c]
  <2>1. calls[c].at = "upsert" /\ calls[c].request = r
    BY <1>0, <1>6 DEF UpsertRequest, Submitting
  <2>2. Goes(c, "find", r, calls[c].todo, calls[c].batch)
    BY <1>0, <1>6, <2>1, CallGoes DEF UpsertRequest
  <2>3. \A q \in Requests : requests'[q].status
                              = IF q = r /\ requests[q].status = "Absent" THEN "Pending"
                                                                          ELSE requests[q].status
    BY <1>0, <1>6, <2>1, StatusUpserted DEF UpsertRequest
  <2>4. Progressed(requests, requests') /\ requests'[r].status # "Absent"
    BY <1>0, <2>3 DEF Progressed, DecidedStatuses
  <2>5. IsFiniteSet(Stored')
    BY <2>3, StoredStays DEF ListGood
  <2>6. BatchAllowed(requests', calls'[c].batch)
    BY <1>0, <2>2, <2>4, AllowedStays DEF Goes
  <2>7. SubmissionGood(c)'
    BY <2>2, <2>4 DEF Goes, SubmissionGood
  <2>8. CallGood(c)'
    BY <1>2, <1>3, <2>6, <2>7, AskerGood
  <2>9. \A x \in Callers : CallGood(x)'
    BY <1>2, <2>2, <2>4, <2>8, CallStays DEF Goes, Rests
  <2>10. Shows(c, r)'
    BY <2>2 DEF Goes, Shows
  <2>11. Asking'
    <3> SUFFICES ASSUME NEW q \in Requests, MaySettle(requests', q)
                 PROVE  \/ asked_id(q) \in dedupe_keys'
                        \/ \E x \in Hooks \cup Relays : Shows(x, q)'
      BY DEF Asking
    <3>1. CASE q = r
      BY <2>10, <3>1
    <3>2. CASE q # r
      <4>1. MaySettle(requests, q)
        BY <2>3, <3>2 DEF MaySettle
      <4>2. CASE asked_id(q) \in dedupe_keys
        BY <1>2, <4>2 DEF store
      <4>3. CASE \E x \in Hooks \cup Relays : Shows(x, q)
        <5>1. PICK x \in Hooks \cup Relays : Shows(x, q)
          BY <4>3
        <5>2. x # c /\ x \in Callers
          BY <2>1, <5>1, Kinds DEF Shows
        <5> QED
          BY <2>2, <5>1, <5>2 DEF Goes, Shows
      <4> QED
        BY <4>1, <4>2, <4>3 DEF ListGood, Asking
    <3> QED
      BY <3>1, <3>2
  <2>12. StoreShows(state, dedupe_keys, requests)'
    BY <1>2, <2>4, StoreStays DEF ListGood, store
  <2> QED
    BY <2>5, <2>9, <2>11, <2>12 DEF ListGood
<1>7. CASE FindWatcherItem(c)
  <2> DEFINE r == calls[c].request
  <2>1. r \in Requests /\ requests[r].status # "Absent" /\ calls[c].at = "find"
    BY <1>0, <1>7 DEF FindWatcherItem, CallGood, SubmissionGood
  <2>2. UNCHANGED requests
    BY <1>7 DEF FindWatcherItem
  <2>3. EventAllowed(requests, asked_event(r))
    BY <2>1, ApprovalAllowed DEF asked_event
  <2>4. \E b : /\ AppendNext(c, b)
               /\ BatchAllowed(requests, b)
               /\ asked_event(r) \in ToSet(b)
    <3>1. CASE calls[c].replace /\ WatcherItems(r) # {}
      <4> DEFINE w == watcher_fallback_resolved_event(r)
      <4>1. AppendNext(c, <<w, asked_event(r)>>)
        BY <1>7, <3>1 DEF FindWatcherItem, asked_event
      <4>2. EventAllowed(requests, w)
        BY <2>1, <3>1, FallbackAllowed DEF ListGood, StoreShows
      <4> HIDE DEF w, r
      <4>3. <<w, asked_event(r)>> = <<w>> \o <<asked_event(r)>>
        OBVIOUS
      <4>4. BatchAllowed(requests, <<w>>)
        BY <4>2, OneAllowed
      <4>5. BatchAllowed(requests, <<asked_event(r)>>) /\ asked_event(r) \in ToSet(<<asked_event(r)>>)
        BY <2>3, OneAllowed
      <4>6. /\ BatchAllowed(requests, <<w>> \o <<asked_event(r)>>)
            /\ asked_event(r) \in ToSet(<<w>> \o <<asked_event(r)>>)
        BY <4>4, <4>5, BothAllowed
      <4> QED
        BY <4>1, <4>3, <4>6
    <3>2. CASE ~(calls[c].replace /\ WatcherItems(r) # {})
      <4>1. AppendNext(c, <<asked_event(r)>>)
        BY <1>7, <3>2 DEF FindWatcherItem, asked_event
      <4> QED
        BY <2>3, <4>1, OneAllowed
    <3> QED
      BY <3>1, <3>2
  <2>5. PICK b : /\ AppendNext(c, b)
                 /\ BatchAllowed(requests, b)
                 /\ asked_event(r) \in ToSet(b)
    BY <2>4
  <2>6. Goes(c, "append", r, calls[c].todo, b)
    BY <1>0, <2>5, CallGoes
  <2>7. CallGood(c)'
    BY <1>2, <1>3, <2>2, <2>5, <2>6, AskerGood DEF Goes, SubmissionGood
  <2>8. Others(c) /\ RequestsGo
    BY <1>2, <2>2, <2>6, RequestsSame DEF Goes, Others, Rests
  <2>9. \A q \in Requests : Shows(c, q) => Shows(c, q)'
    BY <2>5, <2>6 DEF Goes, Shows
  <2> QED
    BY <1>0, <1>2, <2>7, <2>8, <2>9, CallKeepsList
<1> QED
  BY <1>4, <1>5, <1>6, <1>7 DEF ServeSubmission

LEMMA ReplyKeepsList ==
    ASSUME RelayInv, ListGood, NEW c \in Callers, AppendAndReply(c)
    PROVE  ListGood'
<1>1. /\ calls[c].at = "append"
      /\ append_events(calls[c].batch)
      /\ UNCHANGED <<requests, unreported>>
      /\ hooks' = [h \in Hooks |->
                      CASE h = c /\ hooks[h] = "creating"  -> "waiting"
                        [] h = c /\ hooks[h] = "returning" -> "silent"
                        [] OTHER -> hooks[h]]
  BY DEF AppendAndReply
<1>2. Goes(c, "idle", None, <<>>, <<>>)
  BY CallGoes DEF AppendAndReply
<1>3. BatchAllowed(requests, calls[c].batch)
  BY DEF ListGood, CallGood
<1>4. Others(c)
  BY <1>1, <1>2 DEF Goes, Others, Rests
<1>5. CallGood(c)'
  BY <1>2, NothingAllowed DEF Goes, CallGood, SubmissionGood, ReportGood
<1>6. \A r \in Requests : Shows(c, r) => asked_event(r) \in ToSet(calls[c].batch)
  BY <1>1 DEF Shows
<1> QED
  BY <1>1, <1>3, <1>4, <1>5, <1>6, BatchKeepsList

LEMMA HookKeepsList ==
    ASSUME RelayInv, ListGood, NEW h \in Hooks, HookStep(h)
    PROVE  ListGood'
<1>0. /\ h \in Callers
      /\ CallGood(h)
      /\ BatchAllowed(requests, calls[h].batch)
      /\ hooks[h] \in {"ready", "waiting"} => calls[h].at = "idle"
      /\ RequestOf[h] \in Requests
      /\ requests \in [Requests -> ApprovalRequest]
      /\ hooks \in [Hooks -> HookStates]
      /\ now \in Nat
  BY Kinds, ClientAssumption DEF ListGood, CallGood, RelayInv, FlowInv, FlowTypes
<1>1. UNCHANGED store /\ UNCHANGED unreported
  BY DEF HookStep, StartHook, Heartbeat, Poll, TimeOut, Crash, client
<1>2. ASSUME UNCHANGED <<calls, requests>>,
             \E s : s \notin {"ready", "waiting"} /\ hooks' = [hooks EXCEPT ![h] = s]
      PROVE  ListGood'
  <2>1. \A x \in Hooks : hooks'[x] = hooks[x] \/ hooks'[x] \notin {"ready", "waiting"}
    BY <1>0, <1>2
  <2>2. RequestsGo
    BY <1>2, RequestsSame
  <2> QED
    BY <1>1, <1>2, <2>1, <2>2, NoCallKeepsList DEF store
<1>3. CASE StartHook(h)
  <2>1. CASE hooks' = [hooks EXCEPT ![h] = "silent"] /\ UNCHANGED calls
    BY <1>2, <1>3, <2>1 DEF StartHook
  <2>2. CASE hooks' = [hooks EXCEPT ![h] = "creating"] /\ Submit(h)
    <3>1. /\ calls[h].at = "idle" /\ UNCHANGED requests
          /\ hooks'[h] = "creating" /\ \A x \in Hooks \ {h} : hooks'[x] = hooks[x]
      BY <1>0, <1>3, <2>2 DEF StartHook
    <3>2. /\ calls'[h].at = "arbitrate" /\ calls'[h].batch = <<>>
          /\ \A x \in Callers \ {h} : calls'[x] = calls[x]
      BY <1>0, <2>2, CallGoes, Kinds DEF Goes
    <3>3. CallGood(h)'
      BY <3>1, <3>2, AskerGood, NothingAllowed DEF SubmissionGood
    <3>4. Others(h) /\ RequestsGo
      BY <3>1, <3>2, RequestsSame DEF Others, Rests
    <3>5. \A r \in Requests : ~Shows(h, r)
      BY <3>1 DEF Shows
    <3> QED
      BY <1>0, <1>1, <3>3, <3>4, <3>5, CallKeepsList
  <2> QED
    BY <1>3, <2>1, <2>2 DEF StartHook
<1>4. CASE Heartbeat(h)
  <2>1. \A q \in Requests : requests'[q].status = requests[q].status
    BY <1>0, <1>4, HeartbeatFacts DEF Heartbeat
  <2>2. UNCHANGED <<calls, hooks>>
    BY <1>4 DEF Heartbeat, client
  <2>3. RequestsGo
    BY <2>1, RequestsSame
  <2> QED
    BY <1>1, <2>2, <2>3, NoCallKeepsList DEF store
<1>5. CASE Poll(h)
  <2>1. approval_decision(requests[RequestOf[h]].status) \notin {"ready", "waiting"}
    BY <1>5 DEF Poll, approval_decision
  <2> QED
    BY <1>2, <1>5, <2>1 DEF Poll
<1>6. CASE TimeOut(h)
  <2>1. CASE ~MayReturn(requests, RequestOf[h])
    BY <1>2, <1>6, <2>1 DEF TimeOut
  <2>2. CASE MayReturn(requests, RequestOf[h])
    <3>1. /\ calls[h].at = "idle"
          /\ requests' = return_to_codex(requests, RequestOf[h])
          /\ AppendNext(h, <<returned_event(RequestOf[h])>>)
          /\ hooks' = [hooks EXCEPT ![h] = "returning"]
      BY <1>0, <1>6, <2>2 DEF TimeOut
    <3>2. /\ hooks'[h] = "returning" /\ \A x \in Hooks \ {h} : hooks'[x] = hooks[x]
      BY <1>0, <3>1
    <3>3. Goes(h, "append", calls[h].request, calls[h].todo, <<returned_event(RequestOf[h])>>)
      BY <1>0, <3>1, CallGoes
    <3>4. RequestsGo
      <4> DEFINE st == returned_status_for_tool(RequestInfo[RequestOf[h]].tool)
      <4>1. st \in {"ReturnedToCodex", "ReturnedToTool"}
        BY ReturnedStatus
      <4>2. requests' = [requests EXCEPT ![RequestOf[h]].status = st]
        BY <3>1 DEF return_to_codex
      <4>3. requests[RequestOf[h]].status = "Pending"
        BY <2>2 DEF MayReturn
      <4> HIDE DEF st
      <4>4. st \in ApprovalStatuses
        BY <4>1 DEF ApprovalStatuses, OpenStatuses
      <4>5. \A q \in Requests : requests'[q].status = IF q = RequestOf[h] THEN st
                                                                          ELSE requests[q].status
        BY <1>0, <4>2, <4>4, StatusWritten
      <4> QED
        BY <4>1, <4>3, <4>5, RequestsReturned
    <3>5. BatchAllowed(requests', calls'[h].batch)
      BY <1>0, <3>3, ReturnedAllowed, OneAllowed DEF Goes
    <3>6. CallGood(h)'
      BY <3>2, <3>3, <3>5, AskerGood DEF Goes, SubmissionGood
    <3>7. Others(h)
      BY <3>2, <3>3 DEF Goes, Others, Rests
    <3>8. \A r \in Requests : ~Shows(h, r)
      BY <3>1 DEF Shows
    <3> QED
      BY <1>0, <1>1, <3>4, <3>6, <3>7, <3>8, CallKeepsList
  <2> QED
    BY <2>1, <2>2
<1>7. CASE Crash(h)
  BY <1>2, <1>7 DEF Crash
<1> QED
  BY <1>3, <1>4, <1>5, <1>6, <1>7 DEF HookStep


LEMMA DeciderKeepsList ==
    ASSUME RelayInv, ListGood, NEW d \in Deciders, DeciderStep(d)
    PROVE  ListGood'
<1> DEFINE r == DecisionOf[d].request
           verdict == DecisionOf[d].verdict
<1>0. /\ d \in Callers \ (Hooks \cup Relays \cup Watchers \cup {Ui})
      /\ BatchAllowed(requests, calls[d].batch)
      /\ r \in Requests /\ verdict \in {"Allowed", "Denied"}
      /\ requests \in [Requests -> ApprovalRequest]
  BY Kinds, ClientAssumption DEF ListGood, CallGood, RelayInv, FlowInv, FlowTypes
<1>1. UNCHANGED <<store, unreported, hooks>>
  BY DEF DeciderStep, ReadRequest, SendRelayDecision, Decide, client
<1> HIDE DEF r, verdict
<1>2. ASSUME RequestsGo, NEW at, NEW q, NEW todo, NEW b, Goes(d, at, q, todo, b),
             BatchAllowed(requests', b)
      PROVE  ListGood'
  <2>1. CallGood(d)'
    BY <1>0, <1>2, OtherGood DEF Goes
  <2>2. Others(d)
    BY <1>1, <1>2 DEF Goes, Others, Rests
  <2> QED
    BY <1>0, <1>1, <1>2, <2>1, <2>2, CallKeepsList
<1>3. ASSUME UNCHANGED requests, Finish(d) \/ \E at : Goto(d, at)
      PROVE  ListGood'
  <2>1. RequestsGo
    BY <1>3, RequestsSame
  <2>2. CASE Finish(d)
    <3>1. Goes(d, "idle", None, <<>>, <<>>)
      BY <1>0, <2>2, CallGoes
    <3> QED
      BY <1>2, <2>1, <3>1, NothingAllowed
  <2>3. CASE \E at : Goto(d, at)
    <3>1. PICK at : Goto(d, at)
      BY <2>3
    <3>2. Goes(d, at, calls[d].request, calls[d].todo, calls[d].batch)
      BY <1>0, <3>1, CallGoes
    <3> QED
      BY <1>0, <1>2, <1>3, <2>1, <3>2
  <2> QED
    BY <1>3, <2>2, <2>3
<1>4. CASE ReadRequest(d) \/ SendRelayDecision(d)
  <2>1. UNCHANGED requests /\ (Finish(d) \/ \E at : Goto(d, at))
    BY <1>4 DEF ReadRequest, SendRelayDecision
  <2> QED
    BY <1>3, <2>1
<1>5. CASE Decide(d)
  <2>1. CASE MaySettle(requests, r)
    <3>1. /\ requests' = decide(requests, r, verdict)
          /\ AppendNext(d, <<approval_event(r, "ApprovalResolved")>>)
      BY <1>5, <2>1 DEF Decide, r, verdict
    <3>2. verdict \in DecidedStatuses /\ verdict \in ApprovalStatuses
      BY <1>0 DEF DecidedStatuses, ApprovalStatuses
    <3>3. \A q \in Requests : requests'[q].status = IF q = r THEN verdict ELSE requests[q].status
      BY <1>0, <3>1, <3>2, StatusWritten DEF decide
    <3>4. RequestsGo /\ requests'[r].status \in DecidedStatuses
      BY <1>0, <2>1, <3>2, <3>3, RequestSettled
    <3>5. BatchAllowed(requests', <<approval_event(r, "ApprovalResolved")>>)
      BY <1>0, <3>4, ApprovalAllowed, OneAllowed
    <3>6. Goes(d, "append", calls[d].request, calls[d].todo,
               <<approval_event(r, "ApprovalResolved")>>)
      BY <1>0, <3>1, CallGoes
    <3> QED
      BY <1>2, <3>4, <3>5, <3>6
  <2>2. CASE ~MaySettle(requests, r)
    BY <1>3, <1>5, <2>2 DEF Decide, r
  <2> QED
    BY <2>1, <2>2
<1> QED
  BY <1>4, <1>5 DEF DeciderStep

LEMMA RelayKeepsList ==
    ASSUME RelayInv, ListGood, NEW s \in Relays, RelayStep(s)
    PROVE  ListGood'
<1> DEFINE c == <<"tool-resolved", s>>
           r == RequestOf[s]
<1>0. /\ s \in Callers /\ r \in Requests
      /\ c \in Callers \ (Hooks \cup Relays \cup Watchers \cup {Ui})
      /\ BatchAllowed(requests, calls[c].batch)
      /\ requests \in [Requests -> ApprovalRequest]
      /\ DOMAIN calls = Callers
  BY Kinds, ClientAssumption DEF ListGood, CallGood, RelayInv, FlowInv, FlowTypes
<1>1. UNCHANGED <<store, unreported, hooks>>
  BY DEF RelayStep, ObserveServerRequest, ObserveClientMessage, ForwardClientAnswer, ToolResolved,
         client
<1>2. ASSUME RequestsGo, \A x \in Callers \ {c} : calls'[x] = calls[x],
             BatchAllowed(requests', calls'[c].batch)
      PROVE  ListGood'
  <2>1. CallGood(c)'
    BY <1>0, <1>2, OtherGood
  <2>2. Others(c)
    BY <1>1, <1>2 DEF Others, Rests
  <2> HIDE DEF c
  <2> QED
    BY <1>0, <1>1, <1>2, <2>1, <2>2, CallKeepsList
<1>3. CASE ObserveServerRequest(s)
  <2>1. Submit(s) /\ UNCHANGED requests /\ calls[s].at = "idle"
    BY <1>3 DEF ObserveServerRequest, RelayInv, RelayGood
  <2>2. /\ calls'[s].at = "check" /\ calls'[s].batch = <<>>
        /\ \A x \in Callers \ {s} : calls'[x] = calls[x]
    BY <1>0, <2>1, CallGoes DEF Goes
  <2>3. CallGood(s)'
    BY <2>2, Kinds, AskerGood, NothingAllowed DEF SubmissionGood
  <2>4. Others(s) /\ RequestsGo
    BY <1>1, <2>1, <2>2, RequestsSame DEF Others, Rests
  <2>5. \A q \in Requests : ~Shows(s, q)
    BY <2>1 DEF Shows
  <2> QED
    BY <1>0, <1>1, <2>3, <2>4, <2>5, CallKeepsList
<1>4. CASE \E v \in {"Allowed", "Denied"} : ForwardClientAnswer(s, v)
  <2>1. UNCHANGED <<calls, requests>>
    BY <1>4 DEF ForwardClientAnswer
  <2>2. RequestsGo
    BY <2>1, RequestsSame
  <2> QED
    BY <1>1, <2>1, <2>2, NoCallKeepsList DEF store
<1>5. CASE ObserveClientMessage(s)
  <2>1. UNCHANGED requests
    BY <1>5 DEF ObserveClientMessage
  <2>2. calls'[c].batch \in {<<>>, calls[c].batch} /\ \A x \in Callers \ {c} : calls'[x] = calls[x]
    <3>1. CASE relay[s] = "pending"
      BY <1>0, <1>5, <3>1 DEF ObserveClientMessage, NoCall
    <3>2. CASE relay[s] # "pending"
      BY <1>5, <3>2 DEF ObserveClientMessage
    <3> QED
      BY <3>1, <3>2
  <2>3. RequestsGo
    BY <2>1, RequestsSame
  <2>4. BatchAllowed(requests', calls'[c].batch)
    BY <1>0, <2>1, <2>2, NothingAllowed
  <2> QED
    BY <1>2, <2>2, <2>3, <2>4
<1>6. CASE ToolResolved(s)
  <2>1. CASE MaySettle(requests, r)
    <3>1. /\ requests' = resolve_in_tool(requests, r)
          /\ AppendNext(c, <<approval_event(r, "ApprovalResolved")>>)
      BY <1>6, <2>1 DEF ToolResolved
    <3> HIDE DEF c, r
    <3>2. \A q \in Requests : requests'[q].status
                                = IF q = r THEN "ResolvedInTool" ELSE requests[q].status
      BY <1>0, <3>1, ResolveFacts
    <3>3. RequestsGo /\ requests'[r].status \in DecidedStatuses
      BY <1>0, <2>1, <3>2, RequestSettled DEF DecidedStatuses
    <3>4. BatchAllowed(requests', <<approval_event(r, "ApprovalResolved")>>)
      BY <1>0, <3>3, ApprovalAllowed, OneAllowed
    <3>5. Goes(c, "append", calls[c].request, calls[c].todo,
               <<approval_event(r, "ApprovalResolved")>>)
      BY <1>0, <3>1, CallGoes
    <3> QED
      BY <1>2, <3>3, <3>4, <3>5 DEF Goes
  <2>2. CASE ~MaySettle(requests, r)
    <3>1. Finish(c) /\ UNCHANGED requests
      BY <1>6, <2>2 DEF ToolResolved
    <3> HIDE DEF c, r
    <3>2. Goes(c, "idle", None, <<>>, <<>>)
      BY <1>0, <3>1, CallGoes
    <3>3. RequestsGo
      BY <3>1, RequestsSame
    <3> QED
      BY <1>2, <3>2, <3>3, NothingAllowed DEF Goes
  <2> QED
    BY <2>1, <2>2
<1> QED
  BY <1>3, <1>4, <1>5, <1>6 DEF RelayStep

LEMMA TimerKeepsList ==
    ASSUME OnlyWatched, RelayInv, ListGood, HeldBackGood,
           UNCHANGED vars \/ Tick \/ \E x \in expiries : ExpireCandidate(x) \/ AppendExpired(x)
    PROVE  ListGood'
<1>1. UNCHANGED <<calls, requests, unreported, hooks>>
  BY DEF Tick, ExpireCandidate, AppendExpired, client, vars
<1>2. RequestsGo
  BY <1>1, RequestsSame
<1>3. CASE UNCHANGED <<state, dedupe_keys>>
  BY <1>1, <1>2, <1>3, NoCallKeepsList
<1>4. CASE \E x \in expiries : AppendExpired(x)
  <2>1. PICK x \in expiries : AppendExpired(x)
    BY <1>4
  <2>2. PICK e \in ReportedApprovals : x.batch = <<e>>
    BY <2>1 DEF HeldBackGood, ExpiryGood, AppendExpired
  <2>3. BatchAllowed(requests, x.batch)
    BY <2>2, CandidateAllowed, OneAllowed
  <2>4. Ui \in Callers /\ Ui \notin Hooks \cup Relays
    BY Kinds
  <2>5. Others(Ui) /\ Rests(Ui)
    BY <1>1 DEF Others, Rests
  <2>6. CallGood(Ui)'
    BY <1>1, <1>2, <2>4, <2>5, CallStays DEF RequestsGo
  <2> QED
    BY <1>1, <2>1, <2>3, <2>4, <2>5, <2>6, BatchKeepsList DEF AppendExpired
<1> QED
  BY <1>3, <1>4 DEF Tick, ExpireCandidate, vars, store

LEMMA UiKeepsList ==
    ASSUME OnlyWatched, ListGood, UiStep
    PROVE  ListGood'
<1>1. UiCommands = {} /\ calls[Ui].at # "clear"
  BY Kinds DEF OnlyWatched, ListGood, CallGood
<1> QED
  BY <1>1 DEF UiStep, SetListening, ClearToolState, Reset, DismissActiveBlocker

(* The watchdog hands back finitely many requests.                         *)
LEMMA InSomeOrder ==
    ASSUME NEW S, IsFiniteSet(S)
    PROVE  \E n \in Nat : SetToSeq(S) \in [1..n -> S]
<1> DEFINE n == Cardinality(S)
<1>1. n \in Nat /\ ExistsBijection(1..n, S)
  BY FS_CardinalityType
<1> HIDE DEF n
<1>2. \E f \in [1..n -> S] : IsInjective(f)
  BY <1>1 DEF ExistsBijection, Bijection, Injection, IsInjective
<1>3. SetToSeq(S) \in [1..n -> S]
  BY <1>2 DEF SetToSeq, n
<1> QED
  BY <1>1, <1>3

LEMMA SweepKeepsList ==
    ASSUME RelayInv, ListGood, SweepProxies
    PROVE  ListGood'
<1> DEFINE gone == stale_proxies(requests, now)
           order == SetToSeq(gone)
           b == [i \in DOMAIN order |-> returned_event(order[i])]
<1>0. /\ Watchdog \in Callers \ (Hooks \cup Relays \cup Watchers \cup {Ui})
      /\ requests \in [Requests -> ApprovalRequest]
      /\ now \in Nat
  BY Kinds DEF RelayInv, FlowInv, FlowTypes
<1>1. /\ requests' = return_stale_proxies_to_codex(requests, now)
      /\ AppendNext(Watchdog, b)
      /\ UNCHANGED <<store, unreported, hooks>>
  BY DEF SweepProxies, client
<1>2. RequestsGo
  <2>1. \A q \in Requests : \/ requests'[q].status = requests[q].status
                            \/ /\ requests[q].status = "Pending"
                               /\ requests'[q].status \in {"ReturnedToCodex", "ReturnedToTool"}
    BY <1>0, <1>1, SweepFacts
  <2> QED
    BY <2>1, RequestsReturned
<1>3. gone \subseteq Requests /\ gone \subseteq Stored
  BY DEF stale_proxies, Stored
<1>4. IsFiniteSet(gone)
  BY <1>3, FS_Subset DEF ListGood
<1> HIDE DEF gone
<1>5. PICK n \in Nat : order \in [1..n -> gone]
  BY <1>4, InSomeOrder
<1> HIDE DEF order
<1>6. BatchAllowed(requests', b)
  <2>1. DOMAIN b = 1..n /\ \A i \in 1..n : order[i] \in Requests /\ b[i] = returned_event(order[i])
    BY <1>3, <1>5
  <2> HIDE DEF b
  <2>2. \A e \in ToSet(b) : EventAllowed(requests', e)
    BY <2>1, ReturnedAllowed DEF ToSet
  <2>3. b \in Seq(ToSet(b))
    <3>1. b \in [1..n -> ToSet(b)]
      <4>1. \A i \in 1..n : b[i] \in ToSet(b)
        BY <2>1 DEF ToSet
      <4>2. b = [i \in DOMAIN order |-> returned_event(order[i])]
        BY DEF b
      <4> QED
        BY <2>1, <4>1, <4>2
    <3> QED
      BY <1>5, <3>1
  <2> QED
    BY <2>2, <2>3 DEF BatchAllowed
<1> HIDE DEF b
<1>7. Goes(Watchdog, "append", calls[Watchdog].request, calls[Watchdog].todo, b)
  BY <1>0, <1>1, CallGoes
<1>8. CallGood(Watchdog)'
  BY <1>0, <1>6, <1>7, OtherGood DEF Goes
<1>9. Others(Watchdog)
  BY <1>1, <1>7 DEF Goes, Others, Rests
<1> QED
  BY <1>0, <1>1, <1>2, <1>8, <1>9, CallKeepsList

(* A watcher's call, which moves on through its report.                    *)
LEMMA WatcherGood ==
    ASSUME NEW w \in Watchers, BatchAllowed(requests, calls[w].batch)', ReportGood(w)'
    PROVE  CallGood(w)'
BY Kinds DEF CallGood

LEMMA ReportGoes ==
    ASSUME RelayInv, ListGood, NEW w \in Watchers, UNCHANGED <<store, unreported, hooks>>,
           RequestsGo, NEW at, NEW q, NEW todo, NEW b, Goes(w, at, q, todo, b),
           BatchAllowed(requests', b), ReportGood(w)'
    PROVE  ListGood'
<1>1. w \in Callers /\ w \notin Hooks \cup Relays
  BY Kinds
<1>2. CallGood(w)'
  BY WatcherGood DEF Goes
<1>3. Others(w)
  BY DEF Goes, Others, Rests
<1> QED
  BY <1>1, <1>2, <1>3, CallKeepsList

LEMMA CollectKeepsList ==
    ASSUME RelayInv, ListGood, NEW w \in Watchers, calls[w].at \in {"report", "resolve"},
           calls[w].todo # <<>>, UNCHANGED <<store, unreported, hooks>>, RequestsGo,
           NEW a, BatchAllowed(requests', a), Collect(w, a)
    PROVE  ListGood'
<1>1. /\ w \in Callers
      /\ BatchAllowed(requests, calls[w].batch)
      /\ w \notin unreported /\ calls[w].todo \in Seq(ToSet(ReportOf[w]))
  BY Kinds DEF ListGood, CallGood, ReportGood
<1>2. Tail(calls[w].todo) \in Seq(ToSet(ReportOf[w]))
  <2> DEFINE s == calls[w].todo
             S == ToSet(ReportOf[w])
  <2>1. s \in Seq(S) /\ s # <<>>
    BY <1>1
  <2> HIDE DEF s, S
  <2>2. Tail(s) \in Seq(S)
    BY <2>1
  <2> QED
    BY <2>2 DEF s, S
<1>3. Goes(w, "report", calls[w].request, Tail(calls[w].todo), calls[w].batch \o a)
  BY <1>1, CallGoes
<1>4. BatchAllowed(requests', calls[w].batch \o a)
  <2>1. BatchAllowed(requests', calls[w].batch)
    BY <1>1, AllowedStays DEF RequestsGo
  <2> QED
    BY <2>1, BothAllowed
<1>5. ReportGood(w)'
  BY <1>1, <1>2, <1>3 DEF ReportGood, Goes
<1> QED
  BY <1>3, <1>4, <1>5, ReportGoes

(* An event of a report names a request only when Claude Code went on, and *)
(* then only the one it makes the store resolve.                           *)
LEMMA NamedIsCandidate ==
    ASSUME OnlyWatched, NEW e \in ReportedEvents, NEW r \in Requests, e.key = approval_ref(r)
    PROVE  ClaudeCandidates(e) = IF MaySettle(requests, r) THEN {r} ELSE {}
<1>1. /\ claude_tool_continued(e)
      /\ RequestInfo[r].tool = e.tool /\ RequestInfo[r].session = e.session
  BY DEF OnlyWatched, SessionOf
<1>2. e.tool = ClaudeCode
  BY <1>1 DEF claude_tool_continued
<1>3. \A q \in Requests : e.key = approval_ref(q) => q = r
  BY DEF approval_ref
<1> DEFINE named == {q \in {p \in Requests : /\ RequestInfo[p].tool = ClaudeCode
                                             /\ RequestInfo[p].session = e.session
                                             /\ MaySettle(requests, p)} :
                       e.key = approval_ref(q)}
           continued == claude_tool_continued(e)
           names == \E q \in Requests : e.key = approval_ref(q)
<1>4. continued /\ names
  BY <1>1
<1>5. claude_tool_continued(e) /\ (\E q \in Requests : e.key = approval_ref(q))
        => ClaudeCandidates(e) = named
  BY Zenon DEF ClaudeCandidates
<1>6. ClaudeCandidates(e) = named
  BY <1>4, <1>5
<1> QED
  BY <1>1, <1>2, <1>3, <1>6

LEMMA CandidatesOpen ==
    ASSUME NEW e, NEW r \in ClaudeCandidates(e)
    PROVE  r \in Requests /\ MaySettle(requests, r)
BY DEF ClaudeCandidates

LEMMA WatcherKeepsList ==
    ASSUME OnlyWatched, AskedBeforeAnswered, RelayInv, ListGood, NEW w \in Watchers, WatcherStep(w)
    PROVE  ListGood'
<1> DEFINE e == Head(calls[w].todo)
<1>0. /\ w \in Callers
      /\ CallGood(w)
      /\ BatchAllowed(requests, calls[w].batch)
      /\ ReportGood(w)
      /\ requests \in [Requests -> ApprovalRequest]
      /\ DOMAIN calls = Callers
  BY Kinds DEF ListGood, CallGood, RelayInv, FlowInv, FlowTypes
<1>1. UNCHANGED <<store, hooks>>
  BY DEF WatcherStep, StartReport, ReportUnknownApproval, ReportApproval, ReportActivity,
         ResolveReported, EndReport, client
<1>2. CASE StartReport(w)
  <2>1. w \in unreported /\ unreported' = unreported \ {w} /\ UNCHANGED requests
    BY <1>2 DEF StartReport
  <2>2. /\ calls'[w].at = "report" /\ calls'[w].todo = ReportOf[w] /\ calls'[w].batch = <<>>
        /\ \A x \in Callers \ {w} : calls'[x] = calls[x]
    BY <1>0, <1>2 DEF StartReport, NoCall
  <2>3. ReportGood(w)'
    BY <2>1, <2>2, EventAssumption DEF ReportGood
  <2>4. CallGood(w)'
    BY <2>2, <2>3, WatcherGood, NothingAllowed
  <2>5. Others(w) /\ RequestsGo
    BY <1>1, <2>1, <2>2, RequestsSame DEF Others, Rests
  <2>6. w \notin Hooks \cup Relays /\ unreported' \subseteq unreported
    BY <2>1, Kinds
  <2> QED
    BY <1>0, <1>1, <2>4, <2>5, <2>6, CallKeepsList
<1>3. ASSUME ~StartReport(w)
      PROVE  UNCHANGED unreported
  BY <1>3 DEF WatcherStep, ReportUnknownApproval, ReportApproval, ReportActivity, ResolveReported,
              EndReport, client
<1>4. ASSUME calls[w].at \in {"report", "resolve"}, calls[w].todo # <<>>
      PROVE  /\ e \in ReportedEvents
             /\ \A r \in Requests : e.key = approval_ref(r) => requests[r].status # "Absent"
  <2>1. w \notin unreported /\ calls[w].todo \in Seq(ToSet(ReportOf[w]))
    BY <1>0, <1>4 DEF ReportGood
  <2>2. e \in ToSet(ReportOf[w])
    BY <1>4, <2>1
  <2> QED
    BY <2>1, <2>2 DEF ReportedEvents, AskedBeforeAnswered
<1> HIDE DEF e
<1>5. ASSUME ~StartReport(w), calls[w].at \in {"report", "resolve"}, calls[w].todo # <<>>,
             RequestsGo, NEW a, BatchAllowed(requests', a), Collect(w, a)
      PROVE  ListGood'
  BY <1>1, <1>3, <1>5, CollectKeepsList
<1>6. CASE ~StartReport(w) /\ (ReportUnknownApproval(w) \/ ReportApproval(w))
  <2>1. /\ calls[w].at = "report" /\ calls[w].todo # <<>> /\ e.type = "ApprovalRequested"
        /\ UNCHANGED requests
        /\ Collect(w, <<e>>) \/ Collect(w, <<>>)
    BY <1>6 DEF ReportUnknownApproval, ReportApproval, is_codex_watcher_approval, e
  <2>2. BatchAllowed(requests', <<e>>) /\ BatchAllowed(requests', <<>>)
    <3>1. e \in ReportedApprovals
      BY <1>4, <2>1 DEF ReportedApprovals
    <3> QED
      BY <3>1, CandidateAllowed, OneAllowed, NothingAllowed
  <2>3. RequestsGo
    BY <2>1, RequestsSame
  <2> QED
    BY <1>5, <1>6, <2>1, <2>2, <2>3
<1>7. CASE ~StartReport(w) /\ ReportActivity(w)
  <2>1. /\ calls[w].at = "report" /\ calls[w].todo # <<>> /\ UNCHANGED requests
        /\ IF ClaudeCandidates(e) = {}
           THEN Collect(w, <<e>>)
           ELSE \E r \in ClaudeCandidates(e) :
                  calls' = [calls EXCEPT ![w].at = "resolve", ![w].request = r]
    BY <1>7 DEF ReportActivity, e
  <2>2. e \in ReportedEvents
    BY <1>4, <2>1
  <2>3. RequestsGo
    BY <2>1, RequestsSame
  <2>4. CASE ClaudeCandidates(e) = {}
    <3>1. ASSUME NEW r \in Requests, e.key = approval_ref(r)
          PROVE  requests[r].status \in DecidedStatuses
      <4>1. ~MaySettle(requests, r)
        BY <2>2, <2>4, <3>1, NamedIsCandidate
      <4>2. requests[r].status # "Absent"
        BY <1>4, <2>1, <3>1
      <4> QED
        BY <4>1, <4>2, DecidedOtherwise
    <3>2. BatchAllowed(requests', <<e>>)
      <4>1. EventAllowed(requests, e)
        BY <2>2, <3>1, ReportedAllowed
      <4> QED
        BY <2>1, <4>1, OneAllowed
    <3> QED
      BY <1>5, <1>7, <2>1, <2>3, <2>4, <3>2
  <2>5. CASE ClaudeCandidates(e) # {}
    <3>1. PICK r \in ClaudeCandidates(e) :
             calls' = [calls EXCEPT ![w].at = "resolve", ![w].request = r]
      BY <2>1, <2>5
    <3>2. CallFields
      BY DEF RelayInv, RelayShape
    <3>3. Goes(w, "resolve", r, calls[w].todo, calls[w].batch)
      BY <1>0, <3>1, <3>2 DEF Goes, CallFields
    <3>4. r \in Requests /\ requests[r].status # "Absent"
      BY CandidatesOpen DEF MaySettle, OpenStatuses
    <3>5. \A q \in Requests : e.key = approval_ref(q) => r = q
      BY <2>2, <3>1, NamedIsCandidate
    <3>6. ReportGood(w)'
      <4>1. calls[w].todo \in Seq(ToSet(ReportOf[w])) /\ w \notin unreported'
        BY <1>0, <1>3, <1>7, <2>1 DEF ReportGood
      <4>2. \A q \in Requests : Head(calls'[w].todo).key = approval_ref(q) => r = q
        BY <3>3, <3>5 DEF Goes, e
      <4> QED
        BY <2>1, <3>3, <3>4, <4>1, <4>2 DEF ReportGood, Goes
    <3>7. BatchAllowed(requests', calls[w].batch)
      BY <1>0, <2>1
    <3> QED
      BY <1>1, <1>3, <1>7, <2>3, <3>3, <3>6, <3>7, ReportGoes
  <2> QED
    BY <2>4, <2>5
<1>8. CASE ~StartReport(w) /\ ResolveReported(w)
  <2> DEFINE r == calls[w].request
  <2>1. /\ calls[w].at = "resolve" /\ calls[w].todo # <<>>
        /\ r \in Requests /\ requests[r].status # "Absent"
        /\ \A q \in Requests : e.key = approval_ref(q) => q = r
    BY <1>0, <1>8 DEF ResolveReported, ReportGood, e
  <2>2. e \in ReportedEvents
    BY <1>4, <2>1
  <2>3. CASE MaySettle(requests, r)
    <3>1. /\ requests' = resolve_in_tool(requests, r)
          /\ Collect(w, <<approval_event(r, "ApprovalResolved"), e>>)
      BY <1>8, <2>3 DEF ResolveReported, e
    <3> HIDE DEF r
    <3>2. \A q \in Requests : requests'[q].status
                                = IF q = r THEN "ResolvedInTool" ELSE requests[q].status
      BY <1>0, <3>1, ResolveFacts
    <3>3. RequestsGo /\ requests'[r].status \in DecidedStatuses
      BY <2>1, <2>3, <3>2, RequestSettled DEF DecidedStatuses
    <3>4. EventAllowed(requests', approval_event(r, "ApprovalResolved"))
      BY <2>1, <3>3, ApprovalAllowed
    <3>5. EventAllowed(requests', e)
      BY <2>1, <2>2, <3>3, ReportedAllowed
    <3>6. BatchAllowed(requests', <<approval_event(r, "ApprovalResolved"), e>>)
      <4> DEFINE v == approval_event(r, "ApprovalResolved")
      <4>1. BatchAllowed(requests', <<v>>) /\ BatchAllowed(requests', <<e>>)
        BY <3>4, <3>5, OneAllowed
      <4> HIDE DEF v
      <4>2. <<v, e>> = <<v>> \o <<e>>
        OBVIOUS
      <4>3. BatchAllowed(requests', <<v>> \o <<e>>)
        BY <4>1, BothAllowed
      <4> QED
        BY <4>2, <4>3 DEF v
    <3> QED
      BY <1>5, <1>8, <2>1, <3>1, <3>3, <3>6
  <2>4. CASE ~MaySettle(requests, r)
    <3>1. Collect(w, <<e>>) /\ UNCHANGED requests
      BY <1>8, <2>4 DEF ResolveReported, e
    <3>2. RequestsGo
      BY <3>1, RequestsSame
    <3>3. requests[r].status \in DecidedStatuses
      BY <2>1, <2>4, DecidedOtherwise
    <3> HIDE DEF r
    <3>4. EventAllowed(requests', e)
      BY <2>1, <2>2, <3>1, <3>3, ReportedAllowed
    <3>5. BatchAllowed(requests', <<e>>)
      BY <3>4, OneAllowed
    <3> QED
      BY <1>5, <1>8, <2>1, <3>1, <3>2, <3>5
  <2> QED
    BY <2>3, <2>4
<1>9. CASE ~StartReport(w) /\ EndReport(w)
  <2>1. UNCHANGED requests /\ (Finish(w) \/ Goto(w, "append"))
    BY <1>9 DEF EndReport
  <2>2. RequestsGo
    BY <2>1, RequestsSame
  <2>3. CASE Finish(w)
    <3>1. Goes(w, "idle", None, <<>>, <<>>)
      BY <1>0, <2>3, CallGoes
    <3>2. ReportGood(w)'
      BY <3>1 DEF Goes, ReportGood
    <3> QED
      BY <1>1, <1>3, <1>9, <2>2, <3>1, <3>2, ReportGoes, NothingAllowed
  <2>4. CASE Goto(w, "append")
    <3>1. Goes(w, "append", calls[w].request, calls[w].todo, calls[w].batch)
      BY <1>0, <2>4, CallGoes
    <3>2. ReportGood(w)'
      BY <3>1 DEF Goes, ReportGood
    <3>3. BatchAllowed(requests', calls[w].batch)
      BY <1>0, <2>1
    <3> QED
      BY <1>1, <1>3, <1>9, <2>2, <3>1, <3>2, <3>3, ReportGoes
  <2> QED
    BY <2>1, <2>3, <2>4
<1> QED
  BY <1>2, <1>6, <1>7, <1>8, <1>9 DEF WatcherStep

-----------------------------------------------------------------------------
(* What the arbiter holds back.                                            *)
LEMMA ProxyDropsCandidate ==
    ASSUME NEW arb, ArbiterShape(arb), Candidates(arb), NEW f, NEW source, NEW t
    PROVE  Candidates(on_proxy_approval(arb, f, source, t))
<1> DEFINE pruned == prune_recent(arb, t)
           active == [kind |-> "Active", at |-> t, missed_count |-> 0]
           seen   == [pruned EXCEPT !.pending_candidates[f] = NoCandidate,
                                    !.capabilities[f.project] = active]
           new    == record_emission(seen, f, source, t)
<1>1. ArbiterShape(pruned) /\ pruned.pending_candidates = arb.pending_candidates
  BY PruneFacts
<1> HIDE DEF pruned
<1>2. /\ ArbiterShape(seen)
      /\ \A g \in Fingerprints : seen.pending_candidates[g]
                                   = IF g = f THEN NoCandidate ELSE arb.pending_candidates[g]
  BY <1>1 DEF ArbiterShape, seen
<1> HIDE DEF seen
<1>3. new.pending_candidates = seen.pending_candidates
  BY <1>2, RecordFacts
<1>4. new = on_proxy_approval(arb, f, source, t)
  BY DEF seen, pruned, on_proxy_approval
<1> QED
  BY <1>2, <1>3, <1>4 DEF Candidates

LEMMA WatcherHoldsBack ==
    ASSUME NEW arb, ArbiterShape(arb), Candidates(arb), NEW f, NEW e \in ReportedApprovals,
           e.fingerprint = f, NEW t
    PROVE  Candidates(on_watcher_approval(arb, f, e, t))
<1> DEFINE pruned == prune_recent(arb, t)
           known  == [pruned EXCEPT !.capabilities[f.project] =
                                        capability_for_scope(pruned, f.project, t)]
           new    == on_watcher_approval(arb, f, e, t)
<1>1. ArbiterShape(pruned) /\ pruned.pending_candidates = arb.pending_candidates
  BY PruneFacts
<1>2. ArbiterShape(known) /\ known.pending_candidates = arb.pending_candidates
  BY <1>1 DEF ArbiterShape
<1>3. \/ new = pruned
      \/ new = record_emission(known, f, "Watcher", t)
      \/ new = [known EXCEPT !.pending_candidates[f] = e]
  BY DEF on_watcher_approval, WatcherApprovalDecision
<1> HIDE DEF pruned, known, new
<1>4. CASE new = pruned
  BY <1>1, <1>4 DEF Candidates, new
<1>5. CASE new = record_emission(known, f, "Watcher", t)
  <2>1. new.pending_candidates = known.pending_candidates
    BY <1>2, <1>5, RecordFacts
  <2> QED
    BY <1>2, <2>1 DEF Candidates, new
<1>6. CASE new = [known EXCEPT !.pending_candidates[f] = e]
  <2>1. \A g \in Fingerprints : new.pending_candidates[g]
                                  = IF g = f THEN e ELSE arb.pending_candidates[g]
    BY <1>2, <1>6 DEF ArbiterShape
  <2> QED
    BY <2>1 DEF Candidates, new
<1> QED
  BY <1>3, <1>4, <1>5, <1>6

LEMMA ExpiryDropsCandidate ==
    ASSUME NEW arb, ArbiterShape(arb), Candidates(arb), NEW f, NEW t
    PROVE  Candidates(expire_candidate(arb, f, t))
<1> DEFINE pruned == prune_recent(arb, t)
           new    == expire_candidate(arb, f, t)
<1>1. ArbiterShape(pruned) /\ pruned.pending_candidates = arb.pending_candidates
  BY PruneFacts
<1>2. \/ new = pruned
      \/ \E c : new = record_emission([pruned EXCEPT !.pending_candidates[f] = NoCandidate,
                                                     !.capabilities[f.project] = c], f, "Watcher", t)
  BY DEF expire_candidate
<1> HIDE DEF pruned, new
<1>3. CASE new = pruned
  BY <1>1, <1>3 DEF Candidates, new
<1>4. CASE new # pruned
  <2>1. PICK c : new = record_emission([pruned EXCEPT !.pending_candidates[f] = NoCandidate,
                                                      !.capabilities[f.project] = c], f, "Watcher", t)
    BY <1>2, <1>4
  <2> DEFINE missed == [pruned EXCEPT !.pending_candidates[f] = NoCandidate,
                                      !.capabilities[f.project] = c]
  <2>2. /\ ArbiterShape(missed)
        /\ \A g \in Fingerprints : missed.pending_candidates[g]
                                     = IF g = f THEN NoCandidate ELSE arb.pending_candidates[g]
    BY <1>1 DEF ArbiterShape
  <2>3. new = record_emission(missed, f, "Watcher", t)
    BY <2>1
  <2> HIDE DEF missed
  <2>4. new.pending_candidates = missed.pending_candidates
    BY <2>2, <2>3, RecordFacts
  <2> QED
    BY <2>2, <2>4 DEF Candidates, new
<1> QED
  BY <1>3, <1>4

LEMMA CancelDropsCandidate ==
    ASSUME NEW arb, ArbiterShape(arb), Candidates(arb), NEW key, NEW new \in Cancelled(arb, key)
    PROVE  Candidates(new)
<1>1. CASE new = arb
  BY <1>1
<1>2. CASE \E f \in Fingerprints : new = [arb EXCEPT !.pending_candidates[f] = NoCandidate]
  BY <1>2 DEF ArbiterShape, Candidates
<1> QED
  BY <1>1, <1>2 DEF Cancelled

ReportsTyped ==
    \A w \in Watchers : calls[w].at \in {"report", "resolve"}
                         => calls[w].todo \in Seq(ToSet(ReportOf[w]))

LEMMA ReportHoldsBack ==
    ASSUME ArbiterInv(arbiter), ReportsTyped, HeldBackGood, NEW w \in Watchers, ReportApproval(w)
    PROVE  HeldBackGood'
<1> DEFINE e == Head(calls[w].todo)
           f == e.fingerprint
<1>1. /\ calls[w].at = "report" /\ calls[w].todo # <<>>
      /\ e.type = "ApprovalRequested" /\ f # None
      /\ arbiter' = on_watcher_approval(arbiter, f, e, now)
  BY DEF ReportApproval, is_codex_watcher_approval
<1>2. calls[w].todo \in Seq(ToSet(ReportOf[w]))
  BY <1>1 DEF ReportsTyped
<1>3. e \in ToSet(ReportOf[w]) /\ e.fingerprint = f
  BY <1>1, <1>2
<1>4. \/ expiries' = expiries
      \/ \E by, due : expiries' = expiries \cup {[by |-> by, fingerprint |-> f, batch |-> <<>>,
                                                  due |-> due]}
  BY DEF ReportApproval
<1> HIDE DEF e
<1>5. e \in ReportedApprovals
  BY <1>1, <1>3 DEF ReportedEvents, ReportedApprovals
<1>6. f \in Fingerprints
  <2>1. e \in ReportedEvents
    BY <1>5 DEF ReportedApprovals
  <2> QED
    BY <1>1, <2>1, EventAssumption
<1> HIDE DEF f
<1>7. Candidates(arbiter')
  BY <1>1, <1>3, <1>5, WatcherHoldsBack DEF HeldBackGood, ArbiterInv
<1>8. \A by, due : ExpiryGood([by |-> by, fingerprint |-> f, batch |-> <<>>, due |-> due])
  BY <1>6 DEF ExpiryGood
<1>9. \A x \in expiries' : ExpiryGood(x)
  BY <1>4, <1>8 DEF HeldBackGood
<1> QED
  BY <1>7, <1>9 DEF HeldBackGood, Candidates, ExpiryGood

LEMMA ExpiryHoldsBack ==
    ASSUME ArbiterInv(arbiter), HeldBackGood, NEW x \in expiries, ExpireCandidate(x)
    PROVE  HeldBackGood'
<1> DEFINE e == arbiter.pending_candidates[x.fingerprint]
<1>1. /\ arbiter' = expire_candidate(arbiter, x.fingerprint, now)
      /\ expiries' = (expiries \ {x}) \cup (IF e = NoCandidate THEN {} ELSE {[x EXCEPT !.batch = <<e>>]})
  BY DEF ExpireCandidate
<1>2. Candidates(arbiter')
  BY <1>1, ExpiryDropsCandidate DEF HeldBackGood, ArbiterInv
<1>3. ExpiryGood(x) /\ e \in ReportedApprovals \cup {NoCandidate}
  BY DEF HeldBackGood, ExpiryGood, Candidates
<1> HIDE DEF e
<1>4. e # NoCandidate => ExpiryGood([x EXCEPT !.batch = <<e>>])
  BY <1>3 DEF ExpiryGood
<1>5. \A y \in expiries' : ExpiryGood(y)
  BY <1>1, <1>4 DEF HeldBackGood
<1> QED
  BY <1>2, <1>5 DEF HeldBackGood, Candidates, ExpiryGood

LEMMA HeldBackStep ==
    ASSUME ArbiterInv(arbiter), ReportsTyped, HeldBackGood, [Next]_vars
    PROVE  HeldBackGood'
<1>0. ArbiterShape(arbiter) /\ Candidates(arbiter) /\ \A x \in expiries : ExpiryGood(x)
  BY DEF ArbiterInv, HeldBackGood
<1>1. ASSUME Candidates(arbiter'), expiries' \subseteq expiries
      PROVE  HeldBackGood'
  BY <1>0, <1>1 DEF HeldBackGood, Candidates, ExpiryGood
<1>2. CASE \E c \in Hooks \cup Relays : Arbitrate(c)
  <2>1. PICK c \in Hooks \cup Relays : Arbitrate(c)
    BY <1>2
  <2>2. expiries' = expiries
    BY <2>1 DEF Arbitrate
  <2>3. \/ arbiter' = arbiter
        \/ \E f, source : arbiter' = on_proxy_approval(arbiter, f, source, now)
    BY <2>1 DEF Arbitrate
  <2>4. Candidates(arbiter')
    BY <1>0, <2>3, ProxyDropsCandidate
  <2> QED
    BY <1>1, <2>2, <2>4
<1>3. CASE \E w \in Watchers : ReportApproval(w)
  BY <1>3, ReportHoldsBack
<1>4. CASE \E w \in Watchers : ReportActivity(w)
  <2>1. expiries' = expiries /\ (arbiter' = arbiter \/ \E key : arbiter' \in Cancelled(arbiter, key))
    BY <1>4 DEF ReportActivity
  <2>2. Candidates(arbiter')
    BY <1>0, <2>1, CancelDropsCandidate
  <2> QED
    BY <1>1, <2>1, <2>2
<1>5. CASE \E x \in expiries : ExpireCandidate(x)
  BY <1>5, ExpiryHoldsBack
<1>6. CASE arbiter' = arbiter /\ expiries' \subseteq expiries
  BY <1>0, <1>1, <1>6
<1>7. CASE \E c \in Hooks \cup Relays : CheckExisting(c) \/ UpsertRequest(c) \/ FindWatcherItem(c)
  BY <1>6, <1>7 DEF CheckExisting, UpsertRequest, FindWatcherItem
<1>8. CASE \E c \in Callers : AppendAndReply(c)
  BY <1>6, <1>8 DEF AppendAndReply
<1>9. CASE \E h \in Hooks : HookStep(h)
  BY <1>6, <1>9 DEF HookStep, StartHook, Heartbeat, Poll, TimeOut, Crash
<1>10. CASE \E d \in Deciders : DeciderStep(d)
  BY <1>6, <1>10 DEF DeciderStep, ReadRequest, SendRelayDecision, Decide
<1>11. CASE \E s \in Relays : RelayStep(s)
  BY <1>6, <1>11 DEF RelayStep, ObserveServerRequest, ObserveClientMessage, ForwardClientAnswer,
                     ToolResolved
<1>12. CASE \E w \in Watchers : \/ StartReport(w) \/ ReportUnknownApproval(w)
                                \/ ResolveReported(w) \/ EndReport(w)
  BY <1>6, <1>12 DEF StartReport, ReportUnknownApproval, ResolveReported, EndReport
<1>13. CASE SweepProxies \/ UiStep \/ Tick \/ \E x \in expiries : AppendExpired(x)
  BY <1>6, <1>13 DEF SweepProxies, UiStep, SetListening, ClearToolState, Reset,
                     DismissActiveBlocker, Tick, AppendExpired
<1>14. CASE UNCHANGED vars
  BY <1>6, <1>14 DEF vars
<1> QED
  BY <1>2, <1>3, <1>4, <1>5, <1>7, <1>8, <1>9, <1>10, <1>11, <1>12, <1>13, <1>14
     DEF Next, ServeSubmission, WatcherStep

-----------------------------------------------------------------------------
(* What the watchers hand on.                                              *)

(* Where a watcher's call may stand: a report that makes the store resolve *)
(* a request is not an approval.                                           *)
ReportRead(w) ==
    /\ calls[w].batch \in Seq(ToSet(calls[w].batch))
    /\ calls[w].at \in {"report", "resolve"} => calls[w].todo \in Seq(ToSet(ReportOf[w]))
    /\ calls[w].at = "resolve" => /\ calls[w].todo # <<>>
                                  /\ ~is_codex_watcher_approval(Head(calls[w].todo))

(* The inductive invariant behind HookSilencesWatcher.                     *)
SilenceInv ==
    /\ RelayInv
    /\ ArbiterInv(arbiter)
    /\ HeldBackGood
    /\ \A w \in Watchers : ReportRead(w)

ShownByProxy(f) == EmittedBy(prune_recent(arbiter, now), f, ProxySources)

(* What HookSilencesWatcher says of the post of w, and of the expiries.    *)
PostSilent(w) ==
    \A f \in Fingerprints : ShownByProxy(f) =>
        WatcherApprovals(calls'[w].batch, f) \subseteq WatcherApprovals(calls[w].batch, f)

TimersSilent ==
    \A f \in Fingerprints : ShownByProxy(f) =>
        \A x \in expiries' \ expiries : WatcherApprovals(x.batch, f) = {}

WatchersRest == \A w \in Watchers : calls'[w] = calls[w]

LEMMA RestIsSilent ==
    ASSUME SilenceInv, NEW w \in Watchers, calls'[w] = calls[w]
    PROVE  ReportRead(w)' /\ PostSilent(w)
BY DEF SilenceInv, ReportRead, PostSilent, WatcherApprovals

LEMMA OthersRest ==
    ASSUME RelayInv, NEW c, c \notin Watchers
    PROVE  /\ \A at : Goto(c, at) => WatchersRest
           /\ Finish(c) => WatchersRest
           /\ \A batch : AppendNext(c, batch) => WatchersRest
           /\ Submit(c) => WatchersRest
           /\ UNCHANGED calls => WatchersRest
<1>0. DOMAIN calls = Callers /\ Watchers \subseteq Callers
  BY DEF RelayInv, FlowInv, FlowTypes, Callers
<1>1. \A at : Goto(c, at) => WatchersRest
  BY <1>0 DEF WatchersRest, Goto
<1>2. Finish(c) => WatchersRest
  BY <1>0 DEF WatchersRest, Finish
<1>3. \A batch : AppendNext(c, batch) => WatchersRest
  BY <1>0 DEF WatchersRest, AppendNext
<1>4. Submit(c) => WatchersRest
  BY <1>0 DEF WatchersRest, Submit
<1> QED
  BY <1>1, <1>2, <1>3, <1>4 DEF WatchersRest

(* A post that goes on with events none of which the arbiter holds back.   *)
LEMMA CollectIsSilent ==
    ASSUME SilenceInv, NEW w \in Watchers, calls[w].at \in {"report", "resolve"},
           calls[w].todo # <<>>, NEW a, a \in Seq(ToSet(a)), Collect(w, a),
           \A f \in Fingerprints : ShownByProxy(f) => WatcherApprovals(a, f) = {}
    PROVE  ReportRead(w)' /\ PostSilent(w)
<1>1. /\ calls'[w].at = "report"
      /\ calls'[w].todo = Tail(calls[w].todo)
      /\ calls'[w].batch = calls[w].batch \o a
  BY Kinds, CallGoes DEF SilenceInv, Goes
<1>2. /\ calls[w].batch \in Seq(ToSet(calls[w].batch))
      /\ calls[w].todo \in Seq(ToSet(ReportOf[w]))
  BY DEF SilenceInv, ReportRead
<1>3. /\ calls[w].batch \o a \in Seq(ToSet(calls[w].batch \o a))
      /\ ToSet(calls[w].batch \o a) = ToSet(calls[w].batch) \cup ToSet(a)
  BY <1>2, Joined
<1>4. Tail(calls[w].todo) \in Seq(ToSet(ReportOf[w]))
  <2> DEFINE s == calls[w].todo
             S == ToSet(ReportOf[w])
  <2>1. s \in Seq(S) /\ s # <<>>
    BY <1>2
  <2> HIDE DEF s, S
  <2>2. Tail(s) \in Seq(S)
    BY <2>1
  <2> QED
    BY <2>2 DEF s, S
<1>5. ReportRead(w)'
  BY <1>1, <1>3, <1>4 DEF ReportRead
<1>6. PostSilent(w)
  BY <1>1, <1>3 DEF PostSilent, WatcherApprovals
<1> QED
  BY <1>5, <1>6

LEMMA Single ==
    ASSUME NEW e
    PROVE  /\ <<e>> \in Seq(ToSet(<<e>>)) /\ ToSet(<<e>>) = {e}
           /\ <<>> \in Seq(ToSet(<<>>)) /\ ToSet(<<>>) = {}
<1>1. ToSet(<<e>>) = {e} /\ ToSet(<<>>) = {}
  BY DEF ToSet
<1> QED
  BY <1>1

LEMMA ReportIsSilent ==
    ASSUME SilenceInv, NEW w \in Watchers, ReportApproval(w)
    PROVE  ReportRead(w)' /\ PostSilent(w) /\ TimersSilent
<1> DEFINE e == Head(calls[w].todo)
<1>1. /\ calls[w].at = "report" /\ calls[w].todo # <<>>
      /\ Collect(w, <<>>) \/ Collect(w, <<e>>)
      /\ WatcherApprovalDecision(arbiter, e.fingerprint, now) # "EmitNow" => Collect(w, <<>>)
      /\ \A x \in expiries' \ expiries : x.batch = <<>>
  BY DEF ReportApproval
<1>2. TimersSilent
  BY <1>1, Single DEF TimersSilent, WatcherApprovals
<1> HIDE DEF e
<1>3. CASE Collect(w, <<>>)
  <2>1. \A f : WatcherApprovals(<<>>, f) = {}
    BY Single DEF WatcherApprovals
  <2> QED
    BY <1>1, <1>2, <1>3, <2>1, Single, CollectIsSilent
<1>4. CASE ~Collect(w, <<>>)
  <2>1. ~ShownByProxy(e.fingerprint)
    BY <1>1, <1>4 DEF ShownByProxy, WatcherApprovalDecision
  <2>2. \A f : ShownByProxy(f) => WatcherApprovals(<<e>>, f) = {}
    BY <2>1, Single DEF WatcherApprovals
  <2> QED
    BY <1>1, <1>2, <1>4, <2>2, Single, CollectIsSilent
<1> QED
  BY <1>3, <1>4

LEMMA ExpiryComesTooLate ==
    ASSUME SilenceInv, NEW x \in expiries, ExpireCandidate(x)
    PROVE  TimersSilent
<1> DEFINE e == arbiter.pending_candidates[x.fingerprint]
           p == prune_recent(arbiter, now)
<1>1. /\ x.fingerprint \in Fingerprints
      /\ {"fingerprint", "batch"} \subseteq DOMAIN x
      /\ e = NoCandidate \/ e.fingerprint = x.fingerprint
  BY DEF SilenceInv, HeldBackGood, ExpiryGood, Candidates
<1>2. \A y \in expiries' \ expiries : e # NoCandidate /\ y.batch = <<e>>
  <2>1. expiries' = (expiries \ {x}) \cup (IF e = NoCandidate THEN {} ELSE {[x EXCEPT !.batch = <<e>>]})
    BY DEF ExpireCandidate
  <2> HIDE DEF e
  <2> QED
    BY <1>1, <2>1
<1>3. \A f \in Fingerprints : ShownByProxy(f) => arbiter.pending_candidates[f] = NoCandidate
  <2>1. ArbiterInv(p)
    BY PruningIsSilent DEF SilenceInv
  <2>2. p.pending_candidates = arbiter.pending_candidates
    BY PruneFacts DEF SilenceInv, ArbiterInv
  <2> HIDE DEF p
  <2>3. \A f \in Fingerprints : EmittedBy(p, f, ProxySources) => p.pending_candidates[f] = NoCandidate
    BY <2>1 DEF ArbiterInv, NothingWaits
  <2> QED
    BY <2>2, <2>3 DEF ShownByProxy, p
<1>4. e # NoCandidate => ~ShownByProxy(e.fingerprint)
  BY <1>1, <1>3
<1> HIDE DEF e
<1>5. \A f \in Fingerprints : e # NoCandidate /\ ShownByProxy(f) => WatcherApprovals(<<e>>, f) = {}
  BY <1>4, Single DEF WatcherApprovals
<1> QED
  BY <1>2, <1>5 DEF TimersSilent

LEMMA WatcherStepIsSilent ==
    ASSUME SilenceInv, NEW w \in Watchers, WatcherStep(w)
    PROVE  ReportRead(w)' /\ PostSilent(w) /\ TimersSilent
<1>0. /\ w \in Callers /\ RelayInv
      /\ calls[w].batch \in Seq(ToSet(calls[w].batch))
  BY Kinds DEF SilenceInv, ReportRead
<1> DEFINE e == Head(calls[w].todo)
<1>1. CASE ReportApproval(w)
  BY <1>1, ReportIsSilent
<1>2. ASSUME UNCHANGED expiries PROVE TimersSilent
  BY <1>2 DEF TimersSilent
<1>3. CASE StartReport(w)
  <2>1. /\ calls'[w].at = "report" /\ calls'[w].todo = ReportOf[w] /\ calls'[w].batch = <<>>
        /\ UNCHANGED expiries
    BY <1>0, <1>3 DEF StartReport, NoCall, RelayInv, FlowInv, FlowTypes
  <2>2. ReportRead(w)'
    BY <2>1, Single, EventAssumption DEF ReportRead
  <2>3. PostSilent(w)
    BY <2>1, Single DEF PostSilent, WatcherApprovals
  <2> QED
    BY <1>2, <2>1, <2>2, <2>3
<1>4. CASE ReportUnknownApproval(w)
  <2>1. /\ calls[w].at = "report" /\ calls[w].todo # <<>>
        /\ e.fingerprint = None /\ Collect(w, <<e>>) /\ UNCHANGED expiries
    BY <1>4 DEF ReportUnknownApproval
  <2> HIDE DEF e
  <2>2. \A f \in Fingerprints : WatcherApprovals(<<e>>, f) = {}
    BY <2>1, Single, EventAssumption DEF WatcherApprovals
  <2> QED
    BY <1>2, <2>1, <2>2, Single, CollectIsSilent
<1>5. CASE ReportActivity(w)
  <2>1. /\ calls[w].at = "report" /\ calls[w].todo # <<>> /\ UNCHANGED expiries
        /\ ~is_codex_watcher_approval(e)
        /\ \/ Collect(w, <<e>>)
           \/ \E r : calls' = [calls EXCEPT ![w].at = "resolve", ![w].request = r]
    BY <1>5 DEF ReportActivity
  <2>2. CASE Collect(w, <<e>>)
    <3> HIDE DEF e
    <3>1. \A f : WatcherApprovals(<<e>>, f) = {}
      BY <2>1, Single DEF WatcherApprovals
    <3> QED
      BY <1>2, <2>1, <2>2, <3>1, Single, CollectIsSilent
  <2>3. CASE \E r : calls' = [calls EXCEPT ![w].at = "resolve", ![w].request = r]
    <3>1. /\ calls'[w].at = "resolve" /\ calls'[w].todo = calls[w].todo
          /\ calls'[w].batch = calls[w].batch
      BY <1>0, <2>3 DEF RelayInv, RelayShape, CallFields, FlowInv, FlowTypes
    <3>2. ReportRead(w)'
      BY <1>0, <2>1, <3>1 DEF ReportRead, SilenceInv
    <3>3. PostSilent(w)
      BY <3>1 DEF PostSilent, WatcherApprovals
    <3> QED
      BY <1>2, <2>1, <3>2, <3>3
  <2> QED
    BY <2>1, <2>2, <2>3
<1>6. CASE ResolveReported(w)
  <2> DEFINE resolved == approval_event(calls[w].request, "ApprovalResolved")
  <2>1. /\ calls[w].at = "resolve" /\ UNCHANGED expiries
        /\ Collect(w, <<e>>) \/ Collect(w, <<resolved, e>>)
    BY <1>6 DEF ResolveReported
  <2>2. ~is_codex_watcher_approval(e) /\ calls[w].todo # <<>>
    BY <2>1 DEF SilenceInv, ReportRead
  <2>3. ~is_codex_watcher_approval(resolved)
    BY DEF is_codex_watcher_approval, approval_event
  <2> HIDE DEF e, resolved
  <2>4. ToSet(<<resolved, e>>) = {resolved, e} /\ <<resolved, e>> \in Seq({resolved, e})
    BY DEF ToSet
  <2>5. \A f : WatcherApprovals(<<e>>, f) = {} /\ WatcherApprovals(<<resolved, e>>, f) = {}
    BY <2>2, <2>3, <2>4, Single DEF WatcherApprovals
  <2> QED
    BY <1>2, <2>1, <2>2, <2>4, <2>5, Single, CollectIsSilent
<1>7. CASE EndReport(w)
  <2>1. UNCHANGED expiries /\ (Finish(w) \/ Goto(w, "append"))
    BY <1>7 DEF EndReport
  <2>2. /\ calls'[w].at \notin {"report", "resolve"}
        /\ calls'[w].batch = <<>> \/ calls'[w].batch = calls[w].batch
    BY <1>0, <2>1, CallGoes DEF Goes
  <2>3. ReportRead(w)'
    BY <1>0, <2>2, Single DEF ReportRead
  <2>4. PostSilent(w)
    BY <2>2, Single DEF PostSilent, WatcherApprovals
  <2> QED
    BY <1>2, <2>1, <2>3, <2>4
<1> QED
  BY <1>1, <1>3, <1>4, <1>5, <1>6, <1>7 DEF WatcherStep

(* Of all the steps, only a watcher's own moves its post, and only an      *)
(* expiry takes a candidate on its way.                                    *)
LEMMA SilentStep ==
    ASSUME SilenceInv, [Next]_vars
    PROVE  /\ \A w \in Watchers : ReportRead(w)' /\ PostSilent(w)
           /\ TimersSilent
<1>0. RelayInv
  BY DEF SilenceInv
<1>1. ASSUME WatchersRest, TimersSilent
      PROVE  /\ \A w \in Watchers : ReportRead(w)' /\ PostSilent(w)
             /\ TimersSilent
  BY <1>1, RestIsSilent DEF WatchersRest
<1>2. ASSUME expiries' \subseteq expiries PROVE TimersSilent
  BY <1>2 DEF TimersSilent
<1>3. CASE \E c \in Hooks \cup Relays : ServeSubmission(c)
  <2>1. PICK c \in Hooks \cup Relays : ServeSubmission(c)
    BY <1>3
  <2>2. c \in Callers /\ c \notin Watchers /\ DOMAIN calls = Callers /\ Watchers \subseteq Callers
    BY <1>0, Kinds DEF RelayInv, FlowInv, FlowTypes, Callers
  <2>3. UNCHANGED expiries
    BY <2>1 DEF ServeSubmission, CheckExisting, Arbitrate, UpsertRequest, FindWatcherItem
  <2>4. CASE Arbitrate(c)
    <3>1. \/ Goto(c, "upsert")
          \/ \E todo, replace : calls' = [calls EXCEPT ![c].todo = todo, ![c].replace = replace]
      BY <2>4 DEF Arbitrate
    <3>2. WatchersRest
      BY <1>0, <2>2, <3>1, OthersRest DEF WatchersRest
    <3> QED
      BY <1>1, <1>2, <2>3, <3>2
  <2>5. CASE ~Arbitrate(c)
    <3>1. Finish(c) \/ (\E at : Goto(c, at)) \/ \E batch : AppendNext(c, batch)
      BY <2>1, <2>5 DEF ServeSubmission, CheckExisting, UpsertRequest, FindWatcherItem
    <3>2. WatchersRest
      BY <1>0, <2>2, <3>1, OthersRest
    <3> QED
      BY <1>1, <1>2, <2>3, <3>2
  <2> QED
    BY <2>4, <2>5
<1>4. CASE \E c \in Callers : AppendAndReply(c)
  <2>1. PICK c \in Callers : AppendAndReply(c)
    BY <1>4
  <2>2. Finish(c) /\ UNCHANGED expiries
    BY <2>1 DEF AppendAndReply
  <2>3. \A x \in Callers \ {c} : calls'[x] = calls[x]
    BY <1>0, <2>2, CallGoes DEF Goes
  <2>4. ASSUME NEW w \in Watchers PROVE ReportRead(w)' /\ PostSilent(w)
    <3>1. CASE w # c
      <4>1. calls'[w] = calls[w]
        BY <2>3, <3>1, Kinds
      <4> QED
        BY <4>1, RestIsSilent
    <3>2. CASE w = c
      <4>1. calls'[w].at = "idle" /\ calls'[w].batch = <<>>
        BY <1>0, <2>2, <3>2, CallGoes DEF Goes
      <4> QED
        BY <4>1, Single DEF ReportRead, PostSilent, WatcherApprovals
    <3> QED
      BY <3>1, <3>2
  <2> QED
    BY <1>2, <2>2, <2>4
<1>5. CASE \E h \in Hooks : HookStep(h)
  <2>1. PICK h \in Hooks : HookStep(h)
    BY <1>5
  <2>2. UNCHANGED expiries
    BY <2>1 DEF HookStep, StartHook, Heartbeat, Poll, TimeOut, Crash
  <2>3. UNCHANGED calls \/ Submit(h) \/ \E batch : AppendNext(h, batch)
    BY <2>1 DEF HookStep, StartHook, Heartbeat, Poll, TimeOut, Crash
  <2>4. WatchersRest
    BY <1>0, <2>3, Kinds, OthersRest
  <2> QED
    BY <1>1, <1>2, <2>2, <2>4
<1>6. CASE \E d \in Deciders : DeciderStep(d)
  <2>1. PICK d \in Deciders : DeciderStep(d)
    BY <1>6
  <2>2. UNCHANGED expiries
    BY <2>1 DEF DeciderStep, ReadRequest, SendRelayDecision, Decide
  <2>3. Finish(d) \/ (\E at : Goto(d, at)) \/ \E batch : AppendNext(d, batch)
    BY <2>1 DEF DeciderStep, ReadRequest, SendRelayDecision, Decide
  <2>4. WatchersRest
    BY <1>0, <2>3, Kinds, OthersRest
  <2> QED
    BY <1>1, <1>2, <2>2, <2>4
<1>7. CASE \E s \in Relays : RelayStep(s)
  <2>1. PICK s \in Relays : RelayStep(s)
    BY <1>7
  <2> DEFINE c == <<"tool-resolved", s>>
  <2>2. UNCHANGED expiries
    BY <2>1 DEF RelayStep, ObserveServerRequest, ObserveClientMessage, ForwardClientAnswer,
                ToolResolved, client
  <2>3. s \notin Watchers /\ c \notin Watchers /\ DOMAIN calls = Callers /\ Watchers \subseteq Callers
    BY <1>0, Kinds DEF RelayInv, FlowInv, FlowTypes, Callers
  <2>4. \/ UNCHANGED calls \/ Submit(s) \/ Finish(c) \/ \E batch : AppendNext(c, batch)
        \/ \E call : calls' = [calls EXCEPT ![c] = call]
    BY <2>1 DEF RelayStep, ObserveServerRequest, ObserveClientMessage, ForwardClientAnswer,
                ToolResolved
  <2> HIDE DEF c
  <2>5. WatchersRest
    BY <1>0, <2>3, <2>4, OthersRest DEF WatchersRest
  <2> QED
    BY <1>1, <1>2, <2>2, <2>5
<1>8. CASE \E w \in Watchers : WatcherStep(w)
  <2>1. PICK w \in Watchers : WatcherStep(w)
    BY <1>8
  <2>2. ReportRead(w)' /\ PostSilent(w) /\ TimersSilent
    BY Zenon, <2>1, WatcherStepIsSilent
  <2>3. \A v \in Watchers \ {w} : calls'[v] = calls[v]
    BY Zenon, <1>0, <2>1, Kinds DEF WatcherStep, StartReport, ReportUnknownApproval, ReportApproval,
                ReportActivity, ResolveReported, EndReport, Collect, Finish, Goto,
                RelayInv, FlowInv, FlowTypes
  <2> QED
    BY <2>2, <2>3, RestIsSilent
<1>9. CASE \E x \in expiries : ExpireCandidate(x) \/ AppendExpired(x)
  <2>1. PICK x \in expiries : ExpireCandidate(x) \/ AppendExpired(x)
    BY <1>9
  <2>2. WatchersRest
    BY <2>1 DEF WatchersRest, ExpireCandidate, AppendExpired
  <2>3. TimersSilent
    BY <1>2, <2>1, ExpiryComesTooLate DEF AppendExpired
  <2> QED
    BY <1>1, <2>2, <2>3
<1>10. CASE SweepProxies \/ UiStep \/ Tick \/ UNCHANGED vars
  <2>1. UNCHANGED expiries
    BY <1>10 DEF SweepProxies, UiStep, SetListening, ClearToolState, Reset,
                 DismissActiveBlocker, Tick, vars
  <2>2. /\ Watchdog \notin Watchers /\ Ui \notin Watchers
        /\ DOMAIN calls = Callers /\ Watchers \subseteq Callers
    BY <1>0, Kinds, ProcessAssumption DEF RelayInv, FlowInv, FlowTypes, Callers
  <2>3. \/ UNCHANGED calls \/ Finish(Ui) \/ \E batch : AppendNext(Watchdog, batch)
        \/ \E tool \in Tools : calls' = [calls EXCEPT ![Ui].at = "clear", ![Ui].todo = <<tool>>]
    BY <1>10 DEF SweepProxies, UiStep, SetListening, ClearToolState, Reset,
                 DismissActiveBlocker, Tick, vars
  <2>4. WatchersRest
    BY <1>0, <2>2, <2>3, OthersRest DEF WatchersRest
  <2> QED
    BY <1>1, <1>2, <2>1, <2>4
<1> QED
  BY <1>3, <1>4, <1>5, <1>6, <1>7, <1>8, <1>9, <1>10 DEF Next

LEMMA SilenceInit == Init => SilenceInv
<1> SUFFICES ASSUME Init PROVE SilenceInv
  OBVIOUS
<1>1. RelayInv
  BY RelayInit
<1>2. ArbiterInv(arbiter) /\ HeldBackGood
  BY DEF Init, NewArbiter, ArbiterInv, ArbiterShape, NothingWaits, EmittedBy, HeldBackGood,
         Candidates
<1>3. \A w \in Watchers : ReportRead(w)
  BY Kinds, Single DEF Init, NoCall, ReportRead
<1> QED
  BY <1>1, <1>2, <1>3 DEF SilenceInv

LEMMA SilenceStep == SilenceInv /\ [Next]_vars => SilenceInv'
<1> SUFFICES ASSUME SilenceInv, [Next]_vars PROVE SilenceInv'
  OBVIOUS
<1>1. RelayInv' /\ ArbiterInv(arbiter')
  BY NextKeepsRelay, ArbiterStep DEF SilenceInv
<1>2. HeldBackGood'
  BY HeldBackStep DEF SilenceInv, ReportsTyped, ReportRead
<1>3. \A w \in Watchers : ReportRead(w)'
  BY SilentStep
<1> QED
  BY <1>1, <1>2, <1>3 DEF SilenceInv, ArbiterInv, ArbiterShape, NothingWaits, EmittedBy

(* Once a hook or relay has shown an approval, and while the arbiter       *)
(* remembers it, no watcher's report of it is newly delayed or handed on,  *)
(* by a post or by an expiry, for any number of fingerprints, reporters    *)
(* and reports and all expiry times.  What had been handed on before is    *)
(* not called back (on_watcher_approval, on_proxy_approval,                *)
(* expire_candidate, spawn_watcher_candidate_expiry).                      *)
THEOREM WatcherStaysSilent == Spec => HookSilencesWatcher
<1> DEFINE Silence ==
        \A f \in Fingerprints :
           EmittedBy(prune_recent(arbiter, now), f, ProxySources)
           => /\ arbiter'.pending_candidates[f] \in {arbiter.pending_candidates[f], NoCandidate}
              /\ \A w \in Watchers :
                    WatcherApprovals(calls'[w].batch, f) \subseteq WatcherApprovals(calls[w].batch, f)
              /\ \A x \in expiries' \ expiries : WatcherApprovals(x.batch, f) = {}
<1>1. Init => SilenceInv
  BY SilenceInit
<1>2. SilenceInv /\ [Next]_vars => SilenceInv'
  BY SilenceStep
<1>3. SilenceInv /\ [Next]_vars => [Silence]_vars
  <2> SUFFICES ASSUME SilenceInv, [Next]_vars PROVE Silence
    OBVIOUS
  <2>1. KeepsSilence(arbiter, arbiter', now)
    BY ArbiterStep DEF SilenceInv
  <2>2. (\A w \in Watchers : PostSilent(w)) /\ TimersSilent
    BY SilentStep
  <2> QED
    BY <2>1, <2>2 DEF KeepsSilence, PostSilent, TimersSilent, ShownByProxy
<1> QED
  BY <1>1, <1>2, <1>3, PTL DEF Spec, HookSilencesWatcher

-----------------------------------------------------------------------------
(* The inductive invariant behind OpenIsShown.                             *)
ShownInv == RelayInv /\ ArbiterInv(arbiter) /\ ListGood /\ HeldBackGood

LEMMA ShownInit == OnlyWatched /\ Init => ShownInv
<1> SUFFICES ASSUME OnlyWatched, Init PROVE ShownInv
  OBVIOUS
<1>1. RelayInv
  BY RelayInit
<1>2. ArbiterInv(arbiter)
  BY DEF Init, NewArbiter, ArbiterInv, ArbiterShape, NothingWaits, EmittedBy
<1>3. \A r \in Requests : requests[r].status = "Absent"
  BY NoRequestType DEF Init
<1>4. StoreShows(state, dedupe_keys, requests)
  <2>1. GoodState(FlowIds, state)
    BY DefaultGood DEF Init
  <2>2. \A r \in Requests : ~already_applied(state, asked_event(r))
    BY AskedFacts DEF Init, DefaultState, NoRuntimeState, IdleActivity, already_applied
  <2> QED
    BY <2>1, <2>2 DEF StoreShows, Init
<1>5. Asking
  BY <1>3 DEF Asking, MaySettle, OpenStatuses
<1>6. \A c \in Callers : CallGood(c)
  <2>1. \A c \in Callers : calls[c].at = "idle" /\ calls[c].batch = <<>>
    BY DEF Init, NoCall
  <2> QED
    BY <2>1, Kinds, NothingAllowed DEF CallGood, SubmissionGood, ReportGood
<1>7. IsFiniteSet(Stored)
  <2>1. Stored = {}
    BY <1>3 DEF Stored
  <2> QED
    BY <2>1, FS_EmptySet
<1>8. HeldBackGood
  BY DEF Init, NewArbiter, HeldBackGood, Candidates
<1> QED
  BY <1>1, <1>2, <1>4, <1>5, <1>6, <1>7, <1>8 DEF ShownInv, ListGood

LEMMA ShownStep == OnlyWatched /\ AskedBeforeAnswered /\ ShownInv /\ [Next]_vars => ShownInv'
<1> SUFFICES ASSUME OnlyWatched, AskedBeforeAnswered, ShownInv, [Next]_vars PROVE ShownInv'
  OBVIOUS
<1>0. RelayInv /\ ArbiterInv(arbiter) /\ ListGood /\ HeldBackGood
  BY DEF ShownInv
<1>1. RelayInv' /\ ArbiterInv(arbiter')
  BY <1>0, NextKeepsRelay, ArbiterStep
<1>2. HeldBackGood'
  <2>1. ReportsTyped
    BY <1>0, Kinds DEF ReportsTyped, ListGood, CallGood, ReportGood
  <2> QED
    BY <1>0, <2>1, HeldBackStep
<1>3. ListGood'
  BY <1>0, SubmissionKeepsList, ReplyKeepsList, HookKeepsList, DeciderKeepsList, RelayKeepsList,
     WatcherKeepsList, TimerKeepsList, SweepKeepsList, UiKeepsList DEF Next
<1> QED
  BY <1>1, <1>2, <1>3 DEF ShownInv, ArbiterInv, ArbiterShape, NothingWaits, EmittedBy

LEMMA ShownIsShown == ShownInv => OpenIsShown
<1> SUFFICES ASSUME ShownInv, NEW r \in Requests, MaySettle(requests, r),
                    \A c \in Hooks \cup Relays : calls[c].request # r
             PROVE  \E i \in state.attention_items : i.key = approval_ref(r)
  BY DEF OpenIsShown
<1>1. asked_id(r) \in dedupe_keys
  BY DEF ShownInv, ListGood, Asking, Shows
<1>2. Shown(state, r)
  BY <1>1 DEF ShownInv, ListGood, StoreShows
<1> QED
  BY <1>2 DEF Shown

(* An open approval is in the attention list, and stays there, for any     *)
(* number of hooks, relays, consumers, watchers, requests and reports, as  *)
(* long as nobody dismisses it or switches its tool off, the watchers      *)
(* report what the built-in ones do, and none of them names a request      *)
(* before it is stored (post_approval_request, approval_event,             *)
(* watcher_fallback_resolved_event, claude_watcher_resolution_candidate).  *)
THEOREM OpenIsAlwaysShown == OnlyWatched /\ Spec /\ []AskedBeforeAnswered => []OpenIsShown
<1> SUFFICES ASSUME OnlyWatched PROVE Spec /\ []AskedBeforeAnswered => []OpenIsShown
  OBVIOUS
<1>1. Init => ShownInv
  BY ShownInit
<1>2. AskedBeforeAnswered /\ ShownInv /\ [Next]_vars => ShownInv'
  BY ShownStep
<1>3. ShownInv => OpenIsShown
  BY ShownIsShown
<1> QED
  BY <1>1, <1>2, <1>3, PTL DEF Spec

=============================================================================
