-------------------------- MODULE ApprovalRequests --------------------------
(***************************************************************************)
(* The approval requests of the store (crates/niuma-core/src/approval.rs): *)
(* what each operation does to the requests, as pure operators.            *)
(*                                                                         *)
(* The Vec of requests is a total function over the request ids; a request *)
(* that is not stored has the status Absent.  What a request is about      *)
(* (tool, session, command...) never changes and is a function of its id:  *)
(* hooks compute the id from those fields (hook_payload.rs), the relay from*)
(* the app-server's turn and item.  Who decided and why is left out.       *)
(***************************************************************************)
EXTENDS Integers

CONSTANTS
    Requests,         \* request ids
    RequestInfo,      \* [Requests -> [tool, session, channel, fingerprints, call]]
    Codex,            \* ToolKind::Codex
    ProxyStaleAfter   \* APPROVAL_PROXY_STALE_AFTER

OpenStatuses == {"Pending", "ReturnedToCodex", "ReturnedToTool"}

DecidedStatuses == {"Allowed", "Denied", "ResolvedInTool"}

ApprovalStatuses == OpenStatuses \cup DecidedStatuses \cup {"Absent"}

NoHeartbeat == -1

NoRequest == [status |-> "Absent", proxy_status |-> "None", last_heartbeat_at |-> NoHeartbeat]

ApprovalRequest ==
    [status : ApprovalStatuses, proxy_status : {"None", "Active", "Lost"},
     last_heartbeat_at : Nat \cup {NoHeartbeat}]

(* A request as it is first stored: a relay has no heartbeat.              *)
build_approval_request(r, t) ==
    IF RequestInfo[r].channel = "HookProxy"
    THEN [status |-> "Pending", proxy_status |-> "Active", last_heartbeat_at |-> t]
    ELSE [status |-> "Pending", proxy_status |-> "None", last_heartbeat_at |-> NoHeartbeat]

returned_status_for_tool(tool) == IF tool = Codex THEN "ReturnedToCodex" ELSE "ReturnedToTool"

(* Mutant: a request that is submitted again is stored again.              *)
upsert_always(rs, r, t) == [rs EXCEPT ![r] = build_approval_request(r, t)]

upsert_request(rs, r, t) ==
    IF rs[r].status \in {"Absent", "Pending"}
    THEN [rs EXCEPT ![r] = build_approval_request(r, t)]
    ELSE rs

(* decide and resolve_in_tool accept a request that nobody settled yet.    *)
MaySettle(rs, r) == rs[r].status \in OpenStatuses

decide(rs, r, verdict) == [rs EXCEPT ![r].status = verdict]

resolve_in_tool(rs, r) == [rs EXCEPT ![r].status = "ResolvedInTool"]

MayReturn(rs, r) == rs[r].status = "Pending"

return_to_codex(rs, r) ==
    [rs EXCEPT ![r].status = returned_status_for_tool(RequestInfo[r].tool)]

heartbeat_proxy(rs, r, t) ==
    IF rs[r].status = "Pending"
    THEN [rs EXCEPT ![r].proxy_status = "Active", ![r].last_heartbeat_at = t]
    ELSE rs

(* Mutant: only the requests of other tools than Codex are watched.        *)
stale_other_proxies(rs, t) ==
    {r \in Requests : /\ rs[r].status = "Pending"
                      /\ RequestInfo[r].tool # Codex
                      /\ t - rs[r].last_heartbeat_at > ProxyStaleAfter}

(* The proxies the watchdog gives up on at time t.                         *)
stale_proxies(rs, t) ==
    {r \in Requests : /\ rs[r].status = "Pending"
                      /\ RequestInfo[r].channel = "HookProxy"
                      /\ rs[r].proxy_status = "Active"
                      /\ rs[r].last_heartbeat_at # NoHeartbeat
                      /\ t - rs[r].last_heartbeat_at > ProxyStaleAfter}

return_stale_proxies_to_codex(rs, t) ==
    [r \in Requests |->
        IF r \in stale_proxies(rs, t)
        THEN [rs[r] EXCEPT !.status = returned_status_for_tool(RequestInfo[r].tool),
                           !.proxy_status = "Lost"]
        ELSE rs[r]]

(* The requests a cleared tool leaves behind (clear_tool_state).           *)
clear_tool_requests(rs, tool) ==
    [r \in Requests |-> IF RequestInfo[r].tool = tool THEN NoRequest ELSE rs[r]]

=============================================================================
