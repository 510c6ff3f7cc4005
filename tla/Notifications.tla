--------------------------- MODULE Notifications ---------------------------
(***************************************************************************)
(* The notification plugins Bark and ntfy (builtin-plugins/bark-runtime,   *)
(* ntfy-runtime), the event stream they read (sse.rs: events_stream), the  *)
(* handlers they report to (handlers/plugins.rs), the notification records *)
(* (notification_store.rs) and the test notification of the desktop        *)
(* application (commands.rs).                                              *)
(*                                                                         *)
(* A plugin is one thread in a process of its own: it reads a frame,       *)
(* looks at its configuration and its file of sent events, pushes to the   *)
(* user's phone, reports the result to the host and only then writes the   *)
(* event into the file.  Any error ends the connection; the plugin         *)
(* connects again 3 s later and never sees what was published in between.  *)
(***************************************************************************)
EXTENDS Integers, Sequences, FiniteSets

CONSTANTS
    Plugins,      \* notification plugins
    Running,      \* those whose process the supervisor runs
    Events,       \* ids of the events the host may publish
    Facts,        \* the type, scope and completion reason of each event
    Tests,        \* ids of test notifications
    CacheLimit,   \* public events the host keeps (200 in the code)
    Capacity,     \* events a receiver of the bus holds (128 in the code)
    Socket,       \* frames under way between host and plugin
    MaxPublished, \* bound: events published
    MaxFaults,    \* bound: crashes, failed calls, timeouts
    MaxSaves      \* bound: changes of a plugin's configuration, resets

EventTypes == {"SessionActivity", "ApprovalRequested", "ApprovalResolved",
               "InputRequested", "TaskFailed", "AssistantMessageCompleted"}
Reasons == {"Normal", "AbortedUnknown", "Interrupted", "RolledBack", "none"}
EventFacts == [type : EventTypes, scope : {"Main", "Subagent"}, reason : Reasons]

ASSUME NotificationAssumption ==
    /\ Running \subseteq Plugins
    /\ Facts \in [Events -> EventFacts] /\ Events \cap Tests = {}
    /\ CacheLimit \in Nat \ {0} /\ Capacity \in Nat \ {0} /\ Socket \in Nat \ {0}
    /\ MaxPublished \in Nat /\ MaxFaults \in Nat /\ MaxSaves \in Nat

VARIABLES
    public_events,  \* the host's cache of public events
    streams,        \* per plugin: its receiver of the bus and the frames under way
    procs,          \* per plugin: the event loop of its process
    config,         \* per plugin: what its configuration file holds
    sent_events,    \* per plugin: the keys in sent-events.jsonl
    records,        \* notification_records: plugin, event or test -> status
    pushes,         \* what reached the user's phone, per plugin and event or test
    tester,         \* the test notification the desktop waits for
    budget          \* what is left of the bounds

vars == <<public_events, streams, procs, config, sent_events, records, pushes,
          tester, budget>>
phone == <<sent_events, records, pushes>>

Subjects == Events \cup Tests
Frames == [event : {"event"}, of : Events]
              \cup [event : {"notification_test"}, of : Tests, plugin : Plugins]
NoStream == [receiver |-> <<>>, socket |-> <<>>]
NoFrame == [event |-> "none"]
At(pc) == [pc |-> pc, frame |-> NoFrame, status |-> "none"]
ConfigStates == {"ready", "disabled", "incomplete", "unreadable"}
NoTest == [pc |-> "idle", plugin |-> "none", test |-> "none"]

Connected(p) == procs[p].pc \notin {"down", "connect"}

Fault == budget.faults > 0 /\ budget' = [budget EXCEPT !.faults = @ - 1]

(***************************************************************************)
(* The host.                                                               *)
(***************************************************************************)
\* The bus keeps the newest Capacity events for a receiver; a receiver that
\* lags behind goes on with the oldest one that is left.
Broadcast(frame) ==
    streams' = [p \in Plugins |->
        IF ~Connected(p) THEN streams[p]
        ELSE LET kept == IF Len(streams[p].receiver) < Capacity
                         THEN streams[p].receiver ELSE Tail(streams[p].receiver)
             IN [streams[p] EXCEPT !.receiver = Append(kept, frame)]]

\* An event that is not in the cache is applied, cached and published.  A full
\* cache drops old events, except those the current main state refers to.
PublishEvent(e) ==
    /\ budget.published > 0 /\ e \notin public_events
    /\ budget' = [budget EXCEPT !.published = @ - 1]
    /\ \E kept \in SUBSET public_events :
           /\ kept = public_events \/ Cardinality(public_events) >= CacheLimit
           /\ Cardinality(kept) >= CacheLimit - 1 \/ kept = public_events
           /\ public_events' = kept \cup {e}
    /\ Broadcast([event |-> "event", of |-> e])
    /\ UNCHANGED <<procs, config, phone, tester>>

\* NiumaStore::reset
ResetStore ==
    /\ budget.saves > 0 /\ public_events # {}
    /\ budget' = [budget EXCEPT !.saves = @ - 1]
    /\ public_events' = {}
    /\ UNCHANGED <<streams, procs, config, phone, tester>>

\* events_stream: the next event of the receiver becomes a frame on the socket.
events_stream(p) ==
    /\ Connected(p) /\ streams[p].receiver # <<>> /\ Len(streams[p].socket) < Socket
    /\ streams' = [streams EXCEPT ![p] =
           [receiver |-> Tail(@.receiver), socket |-> Append(@.socket, Head(@.receiver))]]
    /\ UNCHANGED <<public_events, procs, config, phone, tester, budget>>

\* The application restarts: what it kept in memory is gone, and the plugins'
\* watchdogs end their processes before they connect again (2 s against 3 s).
HostRestarts ==
    /\ Fault
    /\ public_events' = {}
    /\ streams' = [p \in Plugins |-> NoStream]
    /\ procs' = [p \in Plugins |-> At("down")]
    /\ tester' = NoTest
    /\ UNCHANGED <<config, phone>>

\* A save truncates the file before it writes; a plugin may read it in between.
save_plugin_config(p) ==
    /\ budget.saves > 0 /\ p \in Running
    /\ budget' = [budget EXCEPT !.saves = @ - 1]
    /\ config' = [config EXCEPT ![p] = "unreadable"]
    /\ UNCHANGED <<public_events, streams, procs, phone, tester>>

write_plugin_config(p) ==
    /\ config[p] = "unreadable"
    /\ \E c \in ConfigStates \ {"unreadable"} : config' = [config EXCEPT ![p] = c]
    /\ UNCHANGED <<public_events, streams, procs, phone, tester, budget>>

(***************************************************************************)
(* Test notifications of the desktop application.                          *)
(***************************************************************************)
\* The command checks the host's own switch and configuration, so a plugin
\* that is shown as running may be down, or may read something else.
request_plugin_test_notification(p, t) ==
    /\ tester.pc = "idle" /\ t \in budget.tests
    /\ budget' = [budget EXCEPT !.tests = @ \ {t}]
    /\ config[p] \notin {"incomplete", "unreadable"}
    /\ tester' = [pc |-> "waiting", plugin |-> p, test |-> t]
    /\ Broadcast([event |-> "notification_test", of |-> t, plugin |-> p])
    /\ UNCHANGED <<public_events, procs, config, phone>>

\* It polls the record for 15 s.
wait_for_plugin_notification_test_result ==
    /\ tester.pc = "waiting"
    /\ LET status == records[tester.plugin][tester.test]
       IN \/ status # "none" /\ tester' = [tester EXCEPT !.pc = status]
          \/ status = "none" /\ tester' = [tester EXCEPT !.pc = "timeout"]
    /\ UNCHANGED <<public_events, streams, procs, config, phone, budget>>

CommandReturns ==
    /\ tester.pc \in {"sent", "failed", "timeout"}
    /\ tester' = [tester EXCEPT !.pc = "idle"]
    /\ UNCHANGED <<public_events, streams, procs, config, phone, budget>>

(***************************************************************************)
(* A plugin process.                                                       *)
(***************************************************************************)
\* The event types the plugins' own enum knows; another one does not parse.
Parses(e) == Facts[e].type # "ApprovalResolved"

notification_decision(e) ==
    \/ Facts[e].type \in {"ApprovalRequested", "InputRequested", "TaskFailed"}
    \/ /\ Facts[e].type = "AssistantMessageCompleted" /\ Facts[e].scope # "Subagent"
       /\ Facts[e].reason \in {"Normal", "AbortedUnknown"}

\* An error leaves consume_events_once; the loop sleeps and connects again.
Disconnect(p) ==
    /\ procs' = [procs EXCEPT ![p] = At("connect")]
    /\ streams' = [streams EXCEPT ![p] = NoStream]

\* The supervisor starts the process.
run_from_env(p) ==
    /\ procs[p].pc = "down" /\ p \in Running
    /\ procs' = [procs EXCEPT ![p] = At("connect")]
    /\ UNCHANGED <<public_events, streams, config, phone, tester, budget>>

consume_events_once(p) ==
    /\ procs[p].pc = "connect"
    /\ procs' = [procs EXCEPT ![p] = At("read")]
    /\ UNCHANGED <<public_events, streams, config, phone, tester, budget>>

\* Mutant: the file of sent events is written but not looked at.
handle_event_undeduped(p, frame) ==
    IF ~notification_decision(frame.of) THEN At("read")
    ELSE CASE config[p] = "unreadable" -> At("connect")
           [] config[p] \in {"disabled", "incomplete"} -> At("read")
           [] OTHER -> [pc |-> "send", frame |-> frame, status |-> "none"]

\* handle_event up to the push: nothing to say, switched off, incomplete, or
\* sent before means that the frame is done.
handle_event(p, frame) ==
    IF ~notification_decision(frame.of) THEN At("read")
    ELSE CASE config[p] = "unreadable" -> At("connect")
           [] config[p] \in {"disabled", "incomplete"} -> At("read")
           [] OTHER -> IF frame.of \in sent_events[p] THEN At("read")
                       ELSE [pc |-> "send", frame |-> frame, status |-> "none"]

\* Mutant: a test that is meant for another plugin is an error.
handle_test_event_not_mine(p, frame) ==
    IF frame.plugin # p THEN At("connect")
    ELSE CASE config[p] = "unreadable" -> At("connect")
           [] config[p] = "disabled" ->
                  [pc |-> "report", frame |-> frame, status |-> "disabled"]
           [] config[p] = "incomplete" -> At("read")
           [] OTHER -> [pc |-> "send", frame |-> frame, status |-> "none"]

\* handle_test_event up to the push.  Only a plugin that is switched off says so.
handle_test_event(p, frame) ==
    IF frame.plugin # p THEN At("read")
    ELSE CASE config[p] = "unreadable" -> At("connect")
           [] config[p] = "disabled" ->
                  [pc |-> "report", frame |-> frame, status |-> "disabled"]
           [] config[p] = "incomplete" -> At("read")
           [] OTHER -> [pc |-> "send", frame |-> frame, status |-> "none"]

\* flush_frame, dispatch_sse_frame
consume_event_lines(p) ==
    /\ procs[p].pc = "read" /\ streams[p].socket # <<>>
    /\ LET frame == Head(streams[p].socket)
           next == IF frame.event = "notification_test" THEN handle_test_event(p, frame)
                   ELSE IF Parses(frame.of) THEN handle_event(p, frame)
                   ELSE At("connect")
       IN IF next.pc = "connect" THEN Disconnect(p)
          ELSE /\ procs' = [procs EXCEPT ![p] = next]
               /\ streams' = [streams EXCEPT ![p].socket = Tail(@)]
    /\ UNCHANGED <<public_events, config, phone, tester, budget>>

Pushed(p) == pushes' = [pushes EXCEPT ![p][procs[p].frame.of] = @ + 1]

\* Mutant: the answer of the service is not looked at.
send_ignores_refusal(p) ==
    /\ procs[p].pc = "send"
    /\ procs' = [procs EXCEPT ![p].pc = "report", ![p].status = "sent"]
    /\ (Pushed(p) /\ UNCHANGED budget) \/ (Fault /\ UNCHANGED pushes)
    /\ UNCHANGED <<public_events, streams, config, sent_events, records, tester>>

\* The push succeeds, is refused, or gets through although the call fails.
send_outbound_request(p) ==
    /\ procs[p].pc = "send"
    /\ \/ Pushed(p) /\ procs' = [procs EXCEPT ![p].pc = "report", ![p].status = "sent"]
          /\ UNCHANGED budget
       \/ /\ procs' = [procs EXCEPT ![p].pc = "report", ![p].status = "failed"]
          /\ Fault
          /\ Pushed(p) \/ UNCHANGED pushes
    /\ UNCHANGED <<public_events, streams, config, sent_events, records, tester>>

\* What the plugin does once the report is over, ok or not.
AfterReport(p, ok) ==
    LET test == procs[p].frame.event = "notification_test"
    IN CASE procs[p].status = "sent" /\ ~test ->
                procs' = [procs EXCEPT ![p].pc = "record"] /\ UNCHANGED streams
         [] test /\ ok /\ procs[p].status # "failed" ->
                procs' = [procs EXCEPT ![p] = At("read")] /\ UNCHANGED streams
         [] OTHER -> Disconnect(p)

\* Mutant: the plugin repeats its report until the host accepts it.
report_until_accepted(p) ==
    /\ procs[p].pc = "report"
    /\ procs[p].frame.of \in Tests \/ procs[p].frame.of \in public_events
    /\ records' = [records EXCEPT ![p][procs[p].frame.of] =
                      IF procs[p].status = "sent" THEN "sent" ELSE "failed"]
    /\ AfterReport(p, TRUE)
    /\ UNCHANGED <<public_events, config, sent_events, pushes, tester, budget>>

\* save_plugin_notification_result refuses an event the cache has dropped.
save_plugin_notification_result(p) ==
    /\ procs[p].pc = "report"
    /\ LET frame == procs[p].frame
           accepted == frame.of \in Tests \/ frame.of \in public_events
           status == IF procs[p].status = "sent" THEN "sent" ELSE "failed"
       IN /\ records' = IF accepted THEN [records EXCEPT ![p][frame.of] = status] ELSE records
          /\ AfterReport(p, accepted)
    /\ UNCHANGED <<public_events, config, sent_events, pushes, tester, budget>>

ReportLost(p) ==
    /\ procs[p].pc = "report" /\ Fault
    /\ AfterReport(p, FALSE)
    /\ UNCHANGED <<public_events, config, phone, tester>>

record_sent(p) ==
    /\ procs[p].pc = "record"
    /\ \/ /\ sent_events' = [sent_events EXCEPT ![p] = @ \cup {procs[p].frame.of}]
          /\ procs' = [procs EXCEPT ![p] = At("read")]
          /\ UNCHANGED <<streams, budget>>
       \/ Fault /\ Disconnect(p) /\ UNCHANGED sent_events
    /\ UNCHANGED <<public_events, config, records, pushes, tester>>

\* The agent's timeout covers the whole response: reading it fails after 60 s.
StreamTimesOut(p) ==
    /\ procs[p].pc = "read" /\ Fault
    /\ Disconnect(p)
    /\ UNCHANGED <<public_events, config, phone, tester>>

PluginCrashes(p) ==
    /\ procs[p].pc # "down" /\ Fault
    /\ procs' = [procs EXCEPT ![p] = At("down")]
    /\ streams' = [streams EXCEPT ![p] = NoStream]
    /\ UNCHANGED <<public_events, config, phone, tester>>

(***************************************************************************)
(* Specification.                                                          *)
(***************************************************************************)
Init ==
    /\ public_events = {}
    /\ streams = [p \in Plugins |-> NoStream]
    /\ procs = [p \in Plugins |-> At("down")]
    /\ config = [p \in Plugins |-> "ready"]
    /\ sent_events = [p \in Plugins |-> {}]
    /\ records = [p \in Plugins |-> [s \in Subjects |-> "none"]]
    /\ pushes = [p \in Plugins |-> [s \in Subjects |-> 0]]
    /\ tester = NoTest
    /\ budget = [published |-> MaxPublished, faults |-> MaxFaults, saves |-> MaxSaves,
                 tests |-> Tests]

PluginStep(p) ==
    \/ run_from_env(p) \/ consume_events_once(p) \/ consume_event_lines(p)
    \/ send_outbound_request(p) \/ save_plugin_notification_result(p) \/ record_sent(p)

HostStep(p) == events_stream(p) \/ write_plugin_config(p)

Faults(p) == ReportLost(p) \/ StreamTimesOut(p) \/ PluginCrashes(p)

Next ==
    \/ \E e \in Events : PublishEvent(e)
    \/ ResetStore \/ HostRestarts
    \/ \E p \in Plugins :
           \/ PluginStep(p) \/ HostStep(p) \/ Faults(p) \/ save_plugin_config(p)
           \/ \E t \in Tests : request_plugin_test_notification(p, t)
    \/ wait_for_plugin_notification_test_result \/ CommandReturns

Spec == Init /\ [][Next]_vars

\* The processes and the host's tasks run; nothing forces a user or a fault.
FairSpec ==
    /\ Spec
    /\ \A p \in Plugins : WF_vars(PluginStep(p)) /\ WF_vars(HostStep(p))

(***************************************************************************)
(* Properties.                                                             *)
(***************************************************************************)
\* What the notification history, the plugin's own file or the answer to a test
\* calls sent has reached the phone, whatever crashed and whichever report was
\* lost or came late (handle_event sends before it reports and records).
SentIsPushed ==
    /\ \A p \in Plugins, s \in Subjects :
           records[p][s] = "sent" \/ s \in sent_events[p] => pushes[p][s] > 0
    /\ tester.pc = "sent" => pushes[tester.plugin][tester.test] > 0

\* Each repeated push of an event costs a fault of its own: a crash, a failed
\* call or a restart.  Publishing an event again after a reset, an eviction from
\* the cache or a reconnection repeats nothing (sent-events.jsonl).
RepeatsCostFaults ==
    \A p \in Plugins, e \in Events : pushes[p][e] <= 1 + MaxFaults - budget.faults

\* An event that waits in a plugin's stream is pushed once nothing goes wrong
\* any more: the plugin is configured, no frame before it ends the connection,
\* and its receiver has not dropped it.
Queue(p) == streams[p].socket \o streams[p].receiver
Quiet(p) == /\ budget.faults = 0 /\ budget.saves = 0 /\ budget.published = 0
            /\ budget.tests = {} /\ config[p] = "ready"
WaitsBehind(p, e, good(_)) ==
    \E n \in 1..Len(Queue(p)) :
        /\ Queue(p)[n].of = e
        /\ \A i \in 1..n : Queue(p)[i].event = "event" => good(Queue(p)[i].of)
Endures(p) == procs[p].status \notin {"failed", "disabled"}
WaitingIsPushed ==
    \A p \in Plugins : \A e \in {x \in Events : notification_decision(x)} :
        (Quiet(p) /\ Endures(p) /\ WaitsBehind(p, e, Parses)) ~> (e \in sent_events[p])

\* Whatever ended a connection, the plugin comes back to reading the stream
\* (run_event_stream_loop never leaves its loop).
ReadsAgain == \A p \in Running : []<>(procs[p].pc = "read")

\* docs/integration/plugin-api-reference_zh.md, on a frame that does not parse:
\* it is dropped and must not block the frames behind it.
BadFrameBlocksNothing ==
    \A p \in Plugins : \A e \in {x \in Events : notification_decision(x)} :
        LET any(x) == TRUE
        IN (Quiet(p) /\ Endures(p) /\ WaitsBehind(p, e, any)) ~> (e \in sent_events[p])
=============================================================================
