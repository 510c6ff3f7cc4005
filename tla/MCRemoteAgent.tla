---------------------------- MODULE MCRemoteAgent ----------------------------
(* Instances of RemoteAgent for TLC: two connections of one client and one  *)
(* of another.                                                              *)
EXTENDS RemoteAgent

MCClientOf == [c1 |-> "browser", c2 |-> "browser", c3 |-> "phone"]

Start(bound, messages, faults, saves, logins, requests) ==
    [server |-> "s1", bound |-> bound, messages |-> messages, faults |-> faults,
     saves |-> saves, logins |-> logins, requests |-> requests]

\* Logging in while the settings change; connections that replace each other
\* while relays and sockets break; and a relay that serves streams.
MCStarts ==
    {Start(FALSE, 0, 1, 2, 1, 0), Start(TRUE, 0, 2, 1, 1, 0), Start(TRUE, 3, 2, 0, 0, 0),
     Start(TRUE, 1, 1, 0, 0, 3)}

HeldStarts == {Start(TRUE, 2, 1, 0, 0, 0)}
=============================================================================
