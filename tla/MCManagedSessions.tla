-------------------------- MODULE MCManagedSessions --------------------------
(* An instance of ManagedSessions for TLC: a wrapper that is bound by its   *)
(* first message, one whose terminal names the thread, and one that resumes *)
(* an earlier session and is asked two questions.                           *)
EXTENDS ManagedSessions

MCArgs == [w1 |-> "no args", w2 |-> "option", w3 |-> "resume id"]
MCTarget == [w1 |-> None, w2 |-> None, w3 |-> "t1"]
MCMessage == [w1 |-> "hello", w2 |-> "hello", w3 |-> "go on"]
MCAskedBy == [q1 |-> "w3", q2 |-> "w3"]

Start(wrappers, opens, questions, kinds, turns, commands, exits) ==
    [wrappers |-> wrappers, opens |-> opens, questions |-> questions, kinds |-> kinds,
     turns |-> turns, commands |-> commands, exits |-> exits]

\* Wrappers that begin side by side; questions answered by several clients; and
\* turns that are steered and interrupted while they end.
MCStarts ==
    {Start({"w1", "w2"}, Threads, {}, {}, 1, 0, 1), Start({"w1", "w3"}, {"t2"}, {}, {}, 1, 0, 1),
     Start({"w3"}, {}, {"q1", "q2"}, {"answer"}, 1, 1, 0), Start({"w3"}, {}, {"q1"}, {"answer"}, 1, 2, 1),
     Start({"w3"}, {}, {}, {"instruct", "interrupt"}, 2, 2, 0)}
=============================================================================
