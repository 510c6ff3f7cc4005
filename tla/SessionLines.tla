---------------------------- MODULE SessionLines ----------------------------
(***************************************************************************)
(* The JSONL parsers of the two watcher plugins, as operators.  A parser   *)
(* sees one line at a time and keeps what later lines need: the session    *)
(* the file belongs to, an open plan, the last assistant message (Codex);  *)
(* tools called and hook denials (Claude Code).                            *)
(*                                                                         *)
(* A line is [kind, id]: id is the session, turn, call or tool use it      *)
(* names.  An event keeps its type, the session it is reported for and the *)
(* request it settles; texts are left out.                                 *)
(***************************************************************************)
EXTENDS Naturals, Sequences, SequencesExt

None == "none"
Line(kind, id) == [kind |-> kind, id |-> id]
Garbage == Line("bad", None)

Parser == [session |-> None, plan |-> None, message |-> FALSE, tools |-> {}, denied |-> {}]

\* What one line yields: the parser after it and at most one event.
Silent(parser) == [parser |-> parser, type |-> None, key |-> None]
Says(parser, type) == [Silent(parser) EXCEPT !.type = type]
Settles(parser, type, key) == [Says(parser, type) EXCEPT !.key = key]

(***************************************************************************)
(* Codex.                                                                  *)
(***************************************************************************)
\* Only the first session_meta names the session of the file.
session_meta(parser, line) ==
    Silent(IF parser.session = None THEN [parser EXCEPT !.session = line.id] ELSE parser)

\* A plan waits for the user: the end of its own turn does not complete the
\* task, and the plan's text and the token count are no activity.
task_complete(parser, line) ==
    IF parser.plan # None /\ parser.plan = line.id THEN Silent([parser EXCEPT !.plan = None])
    ELSE IF parser.message \/ line.kind = "task_complete_text" THEN Says(parser, "AssistantMessageCompleted")
    ELSE Silent(parser)

assistant_message(parser) ==
    LET heard == [parser EXCEPT !.message = TRUE]
    IN IF parser.plan # None THEN Silent(heard) ELSE Says(heard, "SessionActivity")

codex_parse_line(parser, line) ==
    CASE line.kind = "session_meta" -> session_meta(parser, line)
      [] line.kind = "task_started" ->
             Says([parser EXCEPT !.plan = None, !.message = FALSE], "SessionStarted")
      [] line.kind \in {"task_complete", "task_complete_text"} -> task_complete(parser, line)
      [] line.kind = "plan" -> Says([parser EXCEPT !.plan = line.id], "InputRequested")
      [] line.kind = "message" -> assistant_message(parser)
      [] line.kind = "token_count" ->
             IF parser.plan # None THEN Silent(parser) ELSE Says(parser, "SessionActivity")
      [] line.kind = "agent_message" ->
             Says([parser EXCEPT !.message = TRUE], "SessionActivity")
      [] line.kind \in {"turn_aborted", "thread_rolled_back"} ->
             Says(parser, "AssistantMessageCompleted")
      [] line.kind = "turn_failed" -> Says(parser, "TaskFailed")
      [] line.kind = "input_call" -> Says(parser, "InputRequested")
      [] line.kind = "escalated_call" -> Settles(parser, "ApprovalRequested", line.id)
      [] line.kind = "call_output" -> Settles(parser, "SessionActivity", line.id)
      [] OTHER -> Silent(parser)

(***************************************************************************)
(* Claude Code.                                                            *)
(***************************************************************************)
\* A denial by a hook comes back as a failed tool result: that echo is no event.
tool_result(parser, line) ==
    LET after == [parser EXCEPT !.tools = @ \ {line.id}]
        key == IF line.id \in parser.tools THEN line.id ELSE None
        is_error == line.kind # "tool_result"
    IN IF is_error /\ line.id \in parser.denied
       THEN Silent([after EXCEPT !.denied = @ \ {line.id}])
       ELSE Settles(after,
                IF line.kind = "tool_rejected" THEN "AssistantMessageCompleted"
                ELSE "SessionActivity", key)

claude_parse_line(parser, line) ==
    CASE line.kind = "user" -> Says(parser, "SessionStarted")
      [] line.kind = "tool_use" ->
             Says([parser EXCEPT !.tools = @ \cup {line.id}], "SessionActivity")
      [] line.kind = "hook_deny" -> Silent([parser EXCEPT !.denied = @ \cup {line.id}])
      [] line.kind \in {"tool_result", "tool_error", "tool_rejected"} ->
             tool_result(parser, line)
      [] line.kind = "end_turn" -> Says(parser, "AssistantMessageCompleted")
      [] line.kind \in {"stop_sequence", "api_error"} -> Says(parser, "TaskFailed")
      [] line.kind = "thinking" -> Says(parser, "SessionActivity")
      [] OTHER -> Silent(parser)

parse_line(tool, parser, line) ==
    IF tool = "codex" THEN codex_parse_line(parser, line) ELSE claude_parse_line(parser, line)

(***************************************************************************)
(* A scan parses the lines it read one after the other and gives up at the *)
(* first that does not parse.                                              *)
(***************************************************************************)
Unparsed(parser, before) ==
    [ok |-> TRUE, parser |-> parser, events |-> <<>>, n |-> before]

parse_next(tool, scan, line) ==
    IF ~scan.ok \/ line.kind = "bad" THEN [scan EXCEPT !.ok = FALSE]
    ELSE LET result == parse_line(tool, scan.parser, line)
             event == [n |-> scan.n + 1, type |-> result.type, key |-> result.key,
                       session |-> result.parser.session]
         IN [scan EXCEPT !.parser = result.parser,
                         !.n = @ + 1,
                         !.events = IF result.type = None THEN @ ELSE Append(@, event)]

\* lines follows the first before lines of its file.
parse_lines(tool, parser, before, lines) ==
    FoldLeft(LAMBDA scan, line : parse_next(tool, scan, line), Unparsed(parser, before), lines)

\* prime_event_parser_metadata: read from the top until the session is known;
\* lines that do not parse are skipped.
primed_parser(lines) ==
    LET step(parser, line) ==
            IF parser.session # None \/ line.kind = "bad" THEN parser
            ELSE codex_parse_line(parser, line).parser
    IN FoldLeft(step, Parser, lines)
=============================================================================
