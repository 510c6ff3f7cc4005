--------------------------- MODULE MCApprovalFlow ---------------------------
(* Instances of ApprovalFlow for TLC.                                      *)
EXTENDS ApprovalFlow

CONSTANTS codexTool, claudeTool, sess, r1, r2, h1, h2, s1, d1, d2, w1, w2, c1

F1 == [project |-> "p", text |-> "command"]
F2 == [project |-> "p", text |-> "description"]

BothFingerprints == {F1, F2}
OneFingerprint == {F1}

HookInfo(tool, fps, call) == [tool |-> tool, session |-> sess, channel |-> "HookProxy",
                              fingerprints |-> fps, call |-> call]
RelayInfo(fps) == [tool |-> codexTool, session |-> sess, channel |-> "NiumaCodexRelay",
                   fingerprints |-> fps, call |-> None]

Permission(n) == <<"codex_permission", n>>
Keys == ({"approval"} \X Requests) \cup ({"codex_permission"} \X {1, 2, 4})

(* A watcher's event; only approvals have a fingerprint.                   *)
WatcherEvent(n, tool, type, key, f, item_f, call) ==
    [id |-> <<"w", n>>, dedupe_key |-> <<"w", n>>, tool |-> tool, session |-> sess,
     type |-> type, key |-> key, subagent |-> FALSE, at |-> 0,
     fingerprint |-> f, item_fingerprint |-> item_f, call |-> call, interrupted |-> FALSE]
WatcherApproval(n, f) == WatcherEvent(n, codexTool, "ApprovalRequested", Permission(n), f, f, None)
WatcherOutput(n, k) == WatcherEvent(n, codexTool, "SessionActivity", Permission(k), None, None, None)
ClaudeResult(n, call) == WatcherEvent(n, claudeTool, "SessionActivity", None, None, None, call)

Decision(r, v) == [request |-> r, verdict |-> v]

(* One Claude Code permission, asked twice under one id by processes that  *)
(* are alike, a consumer, the tool's own continuation and the user.        *)
ProxyInfo       == (r1 :> HookInfo(claudeTool, <<>>, c1))
ProxyRequestOf  == (h1 :> r1) @@ (h2 :> r1)
ProxyDecisionOf == (d1 :> Decision(r1, "Allowed")) @@ (d2 :> Decision(r1, "Denied"))
ProxyReportOf   == (w1 :> <<ClaudeResult(3, c1)>>)
AskersAlike     == Permutations({h1, h2})

(* One Codex permission that a hook and a watcher report, the watcher      *)
(* twice; the tool goes on.                                                *)
ArbitrationInfo       == (r1 :> HookInfo(codexTool, <<F1>>, None))
ArbitrationRequestOf  == (h1 :> r1)
ArbitrationDecisionOf == <<>>
ArbitrationReportOf   == (w1 :> <<WatcherApproval(1, F1), WatcherApproval(2, F1)>>)
                            @@ (w2 :> <<WatcherOutput(3, 1)>>)

(* One Codex permission that a hook and the relay report, two consumers    *)
(* that disagree, the terminal, and a watcher that reports an approval     *)
(* with neither command nor description.                                   *)
RelayInfos      == (r1 :> HookInfo(codexTool, <<F2, F1>>, None)) @@ (r2 :> RelayInfo(<<F1>>))
RelayRequestOf  == (h1 :> r1) @@ (s1 :> r2)
RelayDecisionOf == (d1 :> Decision(r2, "Allowed")) @@ (d2 :> Decision(r2, "Denied"))
RelayReportOf   == (w1 :> <<WatcherApproval(4, None)>>)

=============================================================================
