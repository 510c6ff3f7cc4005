---------------------------- MODULE MCNiumaStore ----------------------------
(***************************************************************************)
(* Small instances of NiumaStore: sets of events that make the interesting *)
(* cases meet (keyed and unkeyed blockers of one session, one session name *)
(* in two tools, one occurrence reported twice, late telemetry, old        *)
(* timestamps, a full cache).                                              *)
(***************************************************************************)
EXTENDS NiumaStore

Event(n, dedupe, tool, session, type, key, subagent, at) ==
    [id |-> <<"event", n>>, dedupe_key |-> <<dedupe>>, tool |-> tool, session |-> session,
     type |-> type, key |-> key, subagent |-> subagent, at |-> at]

(* One session with approvals, inputs, failures and their resolution.      *)
BlockerEvents ==
    { Event(1, 1, "codex", "s1", "ApprovalRequested", "approval:1", FALSE, 0),
      Event(2, 2, "codex", "s1", "InputRequested", None, FALSE, 0),
      Event(3, 3, "codex", "s1", "InputRequested", "input:1", FALSE, 1),
      Event(4, 4, "codex", "s1", "TaskFailed", None, FALSE, 1),
      Event(5, 5, "codex", "s1", "SessionActivity", "approval:1", FALSE, 1),
      Event(6, 6, "codex", "s1", "ApprovalReturnedToTool", "approval:1", FALSE, 1),
      Event(7, 7, "codex", "s1", "SessionActivity", None, FALSE, 1) }

(* The same session name in two tools, a duplicate report, session ends.   *)
SharingEvents ==
    { Event(11, 11, "codex", "s1", "SessionStarted", None, FALSE, 0),
      Event(12, 12, "codex", "s1", "ApprovalRequested", None, FALSE, 1),
      Event(13, 12, "codex", "s1", "ApprovalRequested", "approval:1", FALSE, 1),
      Event(14, 13, "claude", "s1", "ApprovalRequested", "approval:1", FALSE, 0),
      Event(15, 14, "claude", "s1", "ApprovalResolved", "approval:1", FALSE, 1),
      Event(16, 15, "claude", "s1", "SessionIdled", None, FALSE, 1),
      Event(17, 16, "codex", "s1", "ManualDismissed", None, FALSE, 1) }

(* A session that is reported again, with an old timestamp, while sweeps   *)
(* are under way.                                                          *)
SilenceEvents ==
    { Event(21, 21, "codex", "s1", "SessionStarted", None, FALSE, 0),
      Event(22, 22, "codex", "s1", "SessionStarted", None, FALSE, 0),
      Event(23, 23, "codex", "s1", "ApprovalResolved", "approval:1", FALSE, 1),
      Event(24, 24, "codex", "s1", "ApprovalRequested", "approval:1", FALSE, 0) }

MCEvents == BlockerEvents \cup SharingEvents \cup SilenceEvents

(* A behaviour takes its events from one of the sets.                      *)
VARIABLE source

Reported(events) == {e.dedupe_key : e \in events}

MCInit == Init /\ source \in {BlockerEvents, SharingEvents, SilenceEvents}
MCNext == Next /\ dedupe_keys' \cap Reported(MCEvents) \subseteq Reported(source)
               /\ UNCHANGED source
MCSpec == MCInit /\ [][MCNext]_<<vars, source>> /\ Fairness

=============================================================================
