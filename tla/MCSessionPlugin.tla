--------------------------- MODULE MCSessionPlugin ---------------------------
(* Instances of SessionPlugin for TLC. *)
EXTENDS SessionPlugin

Planning == <<Line("session_meta", "s1"), Line("plan", "t1"), Line("task_complete", "t1")>>
Torn == <<Line("session_meta", "s2"), Garbage, Line("task_started", "t2")>>
Asking == <<Line("session_meta", "s1"), Line("plan", "t1")>>
Denying == <<Line("user", "s1"), Line("hook_deny", "u1"), Line("tool_error", "u1")>>
Ending == <<Line("user", "s2"), Garbage, Line("end_turn", None)>>

MCScripts == [codex |-> {Asking, Torn}, claude |-> {Ending}]

Start(t, watches, script, len, rewrites, toggles, faults, requests) ==
    [tool |-> t, watches |-> watches,
     script |-> [f \in Files |-> script], len |-> [f \in Files |-> len],
     budget |-> [rewrites |-> rewrites, toggles |-> toggles, faults |-> faults,
                 requests |-> requests]]

\* The watcher alone, with everything that may disturb it; both threads; and
\* the provider alone, with files that are replaced under it.
MCStarts ==
    {Start("codex", TRUE, Asking, 0, 1, 0, 0, 0), Start("codex", TRUE, Planning, 0, 0, 0, 1, 0),
     Start("codex", TRUE, Torn, 3, 0, 2, 0, 0), Start("claude", TRUE, Denying, 0, 0, 0, 1, 0),
     Start("claude", TRUE, Ending, 2, 1, 0, 0, 0), Start("codex", TRUE, Asking, 3, 0, 2, 0, 1),
     Start("codex", FALSE, Asking, 2, 1, 0, 0, 2), Start("claude", FALSE, Ending, 2, 1, 0, 0, 1)}
=============================================================================
