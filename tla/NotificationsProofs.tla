-------------------------- MODULE NotificationsProofs --------------------------
(***************************************************************************)
(* For any number of plugins and events, whatever the caches hold and      *)
(* however often things fail: what is called sent has reached the phone,   *)
(* and a repeated push of an event costs a fault of its own.               *)
(*                                                                         *)
(* Neither is inductive.  A plugin pushes first, reports then and only     *)
(* then writes the event into its file: while it is on the way, its        *)
(* program counter and the status it reports stand for the push (Carries). *)
(* The push is paid for by a fault, or the event is in the file or on its  *)
(* way into it (Accounted); and what is about to be pushed is not there.   *)
(***************************************************************************)
EXTENDS Notifications, TLAPS

Statuses == {"none", "sent", "failed", "disabled"}

ProcessTyped(proc) ==
    /\ proc \in [pc : {"down", "connect", "read", "send", "report", "record"},
                 frame : Frames \cup {NoFrame}, status : Statuses]
    /\ proc.pc \in {"send", "report", "record"} => proc.frame \in Frames
    /\ proc.pc = "send" => proc.status = "none"
    /\ proc.pc = "record" => proc.frame.event = "event" /\ proc.status = "sent"

StreamsTyped ==
    /\ streams \in [Plugins -> [receiver : Seq(Frames), socket : Seq(Frames)]]
    /\ \A p \in Plugins : ProcessTyped(procs[p])
    /\ DOMAIN procs = Plugins

PhoneTyped ==
    /\ sent_events \in [Plugins -> SUBSET Events]
    /\ records \in [Plugins -> [Subjects -> {"none", "sent", "failed"}]]
    /\ pushes \in [Plugins -> [Subjects -> Nat]]

TesterTyped ==
    /\ tester \in [pc : {"idle", "waiting", "sent", "failed", "timeout"},
                   plugin : Plugins \cup {"none"}, test : Tests \cup {"none"}]
    /\ tester.pc # "idle" => tester.plugin \in Plugins /\ tester.test \in Tests
    /\ budget \in [published : Nat, faults : 0..MaxFaults, saves : Nat, tests : SUBSET Tests]

Typed == StreamsTyped /\ PhoneTyped /\ TesterTyped

(* The plugin has pushed this and not yet written it down.                 *)
Carries(proc, s) ==
    proc.pc \in {"report", "record"} /\ proc.status = "sent" /\ proc.frame.of = s

CarriedIsPushed ==
    \A p \in Plugins, s \in Subjects : Carries(procs[p], s) => pushes[p][s] > 0

UnsentIsSent ==
    \A p \in Plugins : procs[p].pc = "send" => procs[p].frame.of \notin sent_events[p]

Credit(p, e) == IF e \in sent_events[p] \/ Carries(procs[p], e) THEN 1 ELSE 0

Accounted ==
    \A p \in Plugins, e \in Events : pushes[p][e] <= MaxFaults - budget.faults + Credit(p, e)

IInv == Typed /\ SentIsPushed /\ CarriedIsPushed /\ UnsentIsSent /\ Accounted

LEMMA InitEstablishes == Init => IInv
<1> SUFFICES ASSUME Init PROVE IInv
  OBVIOUS
<1> USE NotificationAssumption DEF Init
<1>1. StreamsTyped
  <2>1. ProcessTyped(At("down"))
    BY DEF ProcessTyped, At, Statuses
  <2>2. NoStream \in [receiver : Seq(Frames), socket : Seq(Frames)]
    BY DEF NoStream
  <2> QED BY <2>1, <2>2 DEF StreamsTyped
<1>2. PhoneTyped /\ TesterTyped
  BY DEF PhoneTyped, TesterTyped, NoTest
<1>3. SentIsPushed /\ CarriedIsPushed /\ UnsentIsSent
  BY DEF SentIsPushed, CarriedIsPushed, UnsentIsSent, Carries, At, NoTest, Subjects
<1>4. Accounted
  BY DEF Accounted, Credit, Carries, At, Subjects
<1> QED BY <1>1, <1>2, <1>3, <1>4 DEF IInv, Typed

(* What one process does that pushes nothing and writes nothing down: it   *)
(* carries nothing new, and loses what it carries to a fault only.         *)
LEMMA MoveKeeps ==
    ASSUME IInv, Typed', UNCHANGED <<sent_events, pushes>>, NEW p \in Plugins,
           \A o \in Plugins \ {p} : procs'[o] = procs[o],
           \A s : Carries(procs'[p], s) => Carries(procs[p], s),
           procs'[p].pc = "send" => procs'[p].frame.of \notin sent_events[p],
           \/ budget'.faults = budget.faults - 1
           \/ /\ budget'.faults = budget.faults
              /\ \A e \in Events : Carries(procs[p], e) => Carries(procs'[p], e)
    PROVE  CarriedIsPushed' /\ UnsentIsSent' /\ Accounted'
<1>1. CarriedIsPushed'
  BY DEF IInv, CarriedIsPushed
<1>2. UnsentIsSent'
  BY DEF IInv, UnsentIsSent
<1>3. Accounted'
  <2> SUFFICES ASSUME NEW o \in Plugins, NEW e \in Events
               PROVE  pushes[o][e] <= MaxFaults - budget'.faults + Credit(o, e)'
    BY DEF Accounted
  <2>1. pushes[o][e] <= MaxFaults - budget.faults + Credit(o, e)
    BY DEF IInv, Accounted
  <2>2. /\ pushes[o][e] \in Nat /\ Credit(o, e) \in {0, 1} /\ Credit(o, e)' \in {0, 1}
        /\ MaxFaults \in Nat /\ budget.faults \in Nat /\ budget'.faults \in Nat
    BY NotificationAssumption DEF IInv, Typed, PhoneTyped, TesterTyped, Credit, Subjects
  <2>3. CASE budget'.faults = budget.faults - 1
    BY <2>1, <2>2, <2>3
  <2>4. CASE /\ budget'.faults = budget.faults
             /\ \A x \in Events : Carries(procs[p], x) => Carries(procs'[p], x)
    <3>1. Credit(o, e)' = Credit(o, e)
      BY <2>4 DEF Credit
    <3> QED BY <2>1, <2>4, <3>1
  <2> QED BY <2>3, <2>4
<1> QED BY <1>1, <1>2, <1>3

(* Steps that leave the processes and what reached the phone alone.        *)
LEMMA BystanderKeeps ==
    ASSUME IInv, Typed', UNCHANGED <<procs, phone>>, budget'.faults = budget.faults,
           (tester.pc = "sent" => pushes[tester.plugin][tester.test] > 0)'
    PROVE  IInv'
<1>1. CarriedIsPushed' /\ UnsentIsSent' /\ Accounted'
  BY DEF IInv, CarriedIsPushed, UnsentIsSent, Accounted, Credit, phone
<1>2. SentIsPushed'
  BY DEF IInv, SentIsPushed, phone
<1> QED BY <1>1, <1>2 DEF IInv
-----------------------------------------------------------------------------
Streams == [receiver : Seq(Frames), socket : Seq(Frames)]

LEMMA BroadcastTyped ==
    ASSUME StreamsTyped, NEW f \in Frames, Broadcast(f)
    PROVE  streams' \in [Plugins -> Streams]
<1> SUFFICES ASSUME NEW p \in Plugins PROVE streams'[p] \in Streams
  BY DEF Broadcast
<1> DEFINE receiver == streams[p].receiver
           kept == IF Len(receiver) < Capacity THEN receiver ELSE Tail(receiver)
<1>1. streams[p] \in Streams /\ receiver \in Seq(Frames)
  BY DEF StreamsTyped, Streams
<1>2. kept \in Seq(Frames)
  <2>1. CASE receiver = <<>>
    BY <2>1, NotificationAssumption
  <2>2. CASE receiver # <<>>
    BY <1>1, <2>2
  <2> QED BY <2>1, <2>2
<1> HIDE DEF kept
<1>3. Append(kept, f) \in Seq(Frames)
  BY <1>2
<1>4. streams'[p] \in {streams[p], [streams[p] EXCEPT !.receiver = Append(kept, f)]}
  BY DEF Broadcast, kept
<1> QED BY <1>1, <1>3, <1>4 DEF Streams

LEMMA FaultTyped ==
    ASSUME TesterTyped, Fault
    PROVE  /\ budget' \in [published : Nat, faults : 0..MaxFaults, saves : Nat, tests : SUBSET Tests]
           /\ budget'.faults = budget.faults - 1
<1>1. budget.faults - 1 \in 0..MaxFaults
  BY NotificationAssumption DEF TesterTyped, Fault
<1> QED BY <1>1 DEF TesterTyped, Fault

(* The host's own steps: events, a reset, configurations, the stream's     *)
(* sender and the desktop's test.                                          *)
LEMMA HostKeeps ==
    ASSUME IInv,
           \/ \E e \in Events : PublishEvent(e)
           \/ ResetStore \/ wait_for_plugin_notification_test_result \/ CommandReturns
           \/ \E p \in Plugins : \/ HostStep(p) \/ save_plugin_config(p)
                                 \/ \E t \in Tests : request_plugin_test_notification(p, t)
    PROVE  IInv'
<1> USE DEF IInv, Typed
<1>1. ASSUME streams' \in [Plugins -> Streams], UNCHANGED <<procs, phone>>, TesterTyped',
             budget'.faults = budget.faults,
             (tester.pc = "sent" => pushes[tester.plugin][tester.test] > 0)'
      PROVE  IInv'
  <2>1. StreamsTyped' /\ PhoneTyped'
    BY <1>1 DEF StreamsTyped, PhoneTyped, Streams, phone
  <2> QED BY <1>1, <2>1, BystanderKeeps
<1>2. streams \in [Plugins -> Streams]
  BY DEF StreamsTyped, Streams
<1>3. (UNCHANGED <<tester, pushes>>) => (tester.pc = "sent" => pushes[tester.plugin][tester.test] > 0)'
  BY DEF SentIsPushed
<1>4. ASSUME NEW e \in Events, PublishEvent(e) PROVE IInv'
  <2>1. [event |-> "event", of |-> e] \in Frames
    BY DEF Frames
  <2>2. streams' \in [Plugins -> Streams]
    BY <1>4, <2>1, BroadcastTyped DEF PublishEvent
  <2>3. TesterTyped' /\ budget'.faults = budget.faults
    BY <1>4 DEF PublishEvent, TesterTyped
  <2> QED BY <1>1, <1>3, <1>4, <2>2, <2>3 DEF PublishEvent, phone
<1>5. CASE ResetStore
  <2>1. TesterTyped' /\ budget'.faults = budget.faults
    BY <1>5 DEF ResetStore, TesterTyped
  <2> QED BY <1>1, <1>2, <1>3, <1>5, <2>1 DEF ResetStore, phone
<1>6. CASE wait_for_plugin_notification_test_result
  <2>1. UNCHANGED <<streams, procs, phone, budget>> /\ tester.pc = "waiting"
    BY <1>6 DEF wait_for_plugin_notification_test_result
  <2>2. tester.plugin \in Plugins /\ tester.test \in Tests
    BY <2>1 DEF TesterTyped
  <2>3. records[tester.plugin][tester.test] \in {"none", "sent", "failed"}
    BY <2>2 DEF PhoneTyped, Subjects
  <2>4. \/ tester' = [tester EXCEPT !.pc = records[tester.plugin][tester.test]]
           /\ records[tester.plugin][tester.test] # "none"
        \/ tester' = [tester EXCEPT !.pc = "timeout"]
    BY <1>6 DEF wait_for_plugin_notification_test_result
  <2>5. TesterTyped'
    BY <2>1, <2>2, <2>3, <2>4 DEF TesterTyped
  <2>6. tester'.pc = "sent" => pushes[tester'.plugin][tester'.test] > 0
    BY <2>2, <2>4 DEF TesterTyped, SentIsPushed, Subjects
  <2> QED BY <1>1, <1>2, <2>1, <2>5, <2>6 DEF phone
<1>7. CASE CommandReturns
  <2>1. TesterTyped' /\ tester'.pc # "sent"
    BY <1>7 DEF CommandReturns, TesterTyped
  <2> QED BY <1>1, <1>2, <1>7, <2>1 DEF CommandReturns
<1>8. ASSUME NEW p \in Plugins, save_plugin_config(p) PROVE IInv'
  <2>1. TesterTyped' /\ budget'.faults = budget.faults
    BY <1>8 DEF save_plugin_config, TesterTyped
  <2> QED BY <1>1, <1>2, <1>3, <1>8, <2>1 DEF save_plugin_config, phone
<1>9. ASSUME NEW p \in Plugins, write_plugin_config(p) PROVE IInv'
  <2>1. TesterTyped'
    BY <1>9 DEF write_plugin_config, TesterTyped
  <2> QED BY <1>1, <1>2, <1>3, <1>9, <2>1 DEF write_plugin_config, phone
<1>10. ASSUME NEW p \in Plugins, events_stream(p) PROVE IInv'
  <2>1. TesterTyped'
    BY <1>10 DEF events_stream, TesterTyped
  <2>2. streams' \in [Plugins -> Streams]
    <3> DEFINE s == streams[p]
               moved == [receiver |-> Tail(s.receiver), socket |-> Append(s.socket, Head(s.receiver))]
    <3>1. s.receiver \in Seq(Frames) /\ s.socket \in Seq(Frames) /\ s.receiver # <<>>
      BY <1>2, <1>10 DEF events_stream, Streams
    <3>2. Tail(s.receiver) \in Seq(Frames) /\ Append(s.socket, Head(s.receiver)) \in Seq(Frames)
      BY <3>1
    <3>3. moved \in Streams
      BY <3>2 DEF Streams
    <3>4. streams' = [streams EXCEPT ![p] = moved]
      BY <1>10 DEF events_stream
    <3> QED BY <1>2, <3>3, <3>4
  <2> QED BY <1>1, <1>3, <1>10, <2>1, <2>2 DEF events_stream, phone
<1>11. ASSUME NEW p \in Plugins, NEW t \in Tests, request_plugin_test_notification(p, t) PROVE IInv'
  <2>1. [event |-> "notification_test", of |-> t, plugin |-> p] \in Frames
    BY DEF Frames
  <2>2. streams' \in [Plugins -> Streams]
    BY <1>11, <2>1, BroadcastTyped DEF request_plugin_test_notification
  <2>3. budget' = [budget EXCEPT !.tests = @ \ {t}]
        /\ tester' = [pc |-> "waiting", plugin |-> p, test |-> t]
    BY <1>11 DEF request_plugin_test_notification
  <2>4. budget' \in [published : Nat, faults : 0..MaxFaults, saves : Nat, tests : SUBSET Tests]
        /\ budget'.faults = budget.faults
    BY <2>3 DEF TesterTyped
  <2>5. TesterTyped' /\ tester'.pc = "waiting"
    BY <2>3, <2>4 DEF TesterTyped
  <2> QED BY <1>1, <1>11, <2>2, <2>4, <2>5 DEF request_plugin_test_notification, phone
<1> QED BY <1>4, <1>5, <1>6, <1>7, <1>8, <1>9, <1>10, <1>11 DEF HostStep

LEMMA RestartKeeps ==
    ASSUME IInv, HostRestarts
    PROVE  IInv'
<1> USE DEF IInv, Typed
<1>1. /\ budget.faults > 0 /\ budget' = [budget EXCEPT !.faults = @ - 1]
      /\ streams' = [p \in Plugins |-> NoStream] /\ procs' = [p \in Plugins |-> At("down")]
      /\ tester' = NoTest /\ UNCHANGED phone
  BY DEF HostRestarts, Fault
<1>2. Typed'
  <2>1. ProcessTyped(At("down")) /\ NoStream \in [receiver : Seq(Frames), socket : Seq(Frames)]
    BY DEF ProcessTyped, At, Statuses, NoStream
  <2>2. StreamsTyped'
    BY <1>1, <2>1 DEF StreamsTyped
  <2>3. Fault
    BY <1>1 DEF Fault
  <2>4. TesterTyped'
    BY <1>1, <2>3, FaultTyped DEF TesterTyped, NoTest
  <2>5. PhoneTyped'
    BY <1>1 DEF PhoneTyped, phone
  <2> QED BY <2>2, <2>4, <2>5
<1>3. \A p \in Plugins : procs'[p].pc = "down"
  BY <1>1 DEF At
<1>4. SentIsPushed' /\ CarriedIsPushed' /\ UnsentIsSent'
  BY <1>1, <1>3 DEF SentIsPushed, CarriedIsPushed, UnsentIsSent, Carries, NoTest, phone
<1>5. Accounted'
  <2> SUFFICES ASSUME NEW p \in Plugins, NEW e \in Events
               PROVE  pushes'[p][e] <= MaxFaults - budget'.faults + Credit(p, e)'
    BY DEF Accounted
  <2>1. pushes'[p][e] <= MaxFaults - budget.faults + Credit(p, e)
    BY <1>1 DEF Accounted, phone
  <2>2. /\ pushes'[p][e] \in Nat /\ Credit(p, e) \in {0, 1} /\ Credit(p, e)' \in {0, 1}
        /\ MaxFaults \in Nat /\ budget.faults \in Nat /\ budget'.faults = budget.faults - 1
    BY <1>1, <1>2, NotificationAssumption DEF PhoneTyped, TesterTyped, Credit, Subjects
  <2> QED BY <2>1, <2>2
<1> QED BY <1>2, <1>4, <1>5
-----------------------------------------------------------------------------
(* A process steps: what it is in and the frames under way keep their      *)
(* shape, and no report is touched.                                        *)
LEMMA ProcessKeeps ==
    ASSUME IInv, NEW p \in Plugins, NEW q, procs' = [procs EXCEPT ![p] = q], ProcessTyped(q),
           \A s : Carries(q, s) => Carries(procs[p], s),
           q.pc = "send" => q.frame.of \notin sent_events[p],
           NEW stream \in Streams, streams' = [streams EXCEPT ![p] = stream],
           UNCHANGED <<phone, tester>>,
           \/ Fault
           \/ UNCHANGED budget /\ \A s : Carries(procs[p], s) => Carries(q, s)
    PROVE  IInv'
<1> USE DEF IInv, Typed
<1>1. procs'[p] = q /\ \A o \in Plugins \ {p} : procs'[o] = procs[o]
  BY DEF StreamsTyped
<1>2. StreamsTyped'
  BY <1>1 DEF StreamsTyped, Streams
<1>3. PhoneTyped' /\ TesterTyped'
  BY FaultTyped DEF PhoneTyped, TesterTyped, phone
<1>4. SentIsPushed'
  BY DEF SentIsPushed, phone
<1>5. budget'.faults = budget.faults - 1
      \/ (budget'.faults = budget.faults /\ \A s : Carries(procs[p], s) => Carries(procs'[p], s))
  BY <1>1, FaultTyped
<1>6. Typed'
  BY <1>2, <1>3
<1>7. CarriedIsPushed' /\ UnsentIsSent' /\ Accounted'
  BY <1>1, <1>5, <1>6, MoveKeeps DEF phone
<1> QED BY <1>4, <1>6, <1>7

LEMMA AtTyped ==
    ASSUME NEW pc \in {"down", "connect", "read"}
    PROVE  ProcessTyped(At(pc)) /\ \A s : ~Carries(At(pc), s)
BY DEF ProcessTyped, At, Statuses, Carries

LEMMA StreamTyped ==
    ASSUME IInv, NEW p \in Plugins
    PROVE  /\ NoStream \in Streams /\ streams[p] \in Streams
           /\ streams = [streams EXCEPT ![p] = streams[p]]
BY DEF IInv, Typed, StreamsTyped, NoStream, Streams

(* What a frame makes of a process that reads.                             *)
LEMMA FrameHandled ==
    ASSUME IInv, NEW p \in Plugins, NEW frame \in Frames,
           NEW q,
           \/ q = At("connect")
           \/ frame.event = "notification_test" /\ q = handle_test_event(p, frame)
           \/ frame.event = "event" /\ q = handle_event(p, frame)
    PROVE  /\ ProcessTyped(q) /\ \A s : ~Carries(q, s)
           /\ q.pc = "send" => q.frame.of \notin sent_events[p]
<1>1. \/ q \in {At("read"), At("connect")}
      \/ q = [pc |-> "report", frame |-> frame, status |-> "disabled"]
      \/ /\ q = [pc |-> "send", frame |-> frame, status |-> "none"]
         /\ frame.of \notin sent_events[p]
  <2>1. sent_events[p] \subseteq Events
    BY DEF IInv, Typed, PhoneTyped
  <2>2. CASE frame.event = "notification_test" /\ q = handle_test_event(p, frame)
    <3>1. frame.of \in Tests
      BY <2>2 DEF Frames
    <3> QED BY <2>1, <2>2, <3>1, NotificationAssumption DEF handle_test_event
  <2>3. CASE q = handle_event(p, frame)
    BY <2>3 DEF handle_event
  <2> QED BY <2>2, <2>3
<1>2. CASE q \in {At("read"), At("connect")}
  BY <1>2, AtTyped DEF At
<1>3. CASE q = [pc |-> "report", frame |-> frame, status |-> "disabled"]
  BY <1>3 DEF ProcessTyped, Statuses, Carries
<1>4. CASE /\ q = [pc |-> "send", frame |-> frame, status |-> "none"]
           /\ frame.of \notin sent_events[p]
  BY <1>4 DEF ProcessTyped, Statuses, Carries
<1> QED BY <1>1, <1>2, <1>3, <1>4

(* Starting, connecting, reading a frame, and the ways a process or its    *)
(* connection ends.                                                        *)
LEMMA ReadingKeeps ==
    ASSUME IInv, NEW p \in Plugins,
           \/ run_from_env(p) \/ consume_events_once(p) \/ consume_event_lines(p)
           \/ StreamTimesOut(p) \/ PluginCrashes(p)
    PROVE  IInv'
<1>1. CASE run_from_env(p) \/ consume_events_once(p)
  <2>1. PICK pc \in {"connect", "read"} : procs' = [procs EXCEPT ![p] = At(pc)]
    BY <1>1 DEF run_from_env, consume_events_once
  <2>2. \A s : ~Carries(procs[p], s)
    BY <1>1 DEF run_from_env, consume_events_once, Carries
  <2>3. At(pc).pc # "send"
    BY DEF At
  <2>4. UNCHANGED <<streams, phone, tester, budget>>
    BY <1>1 DEF run_from_env, consume_events_once
  <2>5. streams[p] \in Streams /\ streams' = [streams EXCEPT ![p] = streams[p]]
    BY <2>4, StreamTyped
  <2> QED BY <2>1, <2>2, <2>3, <2>4, <2>5, AtTyped, ProcessKeeps
<1>2. CASE consume_event_lines(p)
  <2> DEFINE frame == Head(streams[p].socket)
             q == IF frame.event = "notification_test" THEN handle_test_event(p, frame)
                  ELSE IF Parses(frame.of) THEN handle_event(p, frame)
                  ELSE At("connect")
  <2>1. /\ procs[p].pc = "read" /\ streams[p].socket # <<>>
        /\ IF q.pc = "connect" THEN Disconnect(p)
           ELSE /\ procs' = [procs EXCEPT ![p] = q]
                /\ streams' = [streams EXCEPT ![p].socket = Tail(@)]
        /\ UNCHANGED <<public_events, config, phone, tester, budget>>
    BY <1>2 DEF consume_event_lines
  <2>2. streams[p].socket \in Seq(Frames)
    BY StreamTyped DEF Streams
  <2>3. frame \in Frames /\ Tail(streams[p].socket) \in Seq(Frames)
    BY <2>1, <2>2
  <2>4. frame.event \in {"event", "notification_test"}
    BY <2>3 DEF Frames
  <2>5. ProcessTyped(q) /\ (\A s : ~Carries(q, s))
        /\ (q.pc = "send" => q.frame.of \notin sent_events[p])
    <3> HIDE DEF frame
    <3>1. CASE frame.event = "notification_test"
      BY <2>3, <3>1, FrameHandled
    <3>2. CASE frame.event = "event"
      BY <2>3, <3>2, FrameHandled, AtTyped DEF At
    <3> QED BY <2>4, <3>1, <3>2
  <2> HIDE DEF q
  <2>6. \A s : ~Carries(procs[p], s)
    BY <2>1 DEF Carries
  <2>7. CASE q.pc = "connect"
    BY <2>1, <2>6, <2>7, AtTyped, StreamTyped, ProcessKeeps DEF Disconnect, At
  <2>8. CASE q.pc # "connect"
    <3>1. [streams[p] EXCEPT !.socket = Tail(@)] \in Streams
      BY <2>3, StreamTyped DEF Streams
    <3> QED BY <2>1, <2>5, <2>6, <2>8, <3>1, ProcessKeeps
  <2> QED BY <2>7, <2>8
<1>3. CASE StreamTimesOut(p) \/ PluginCrashes(p)
  <2>1. PICK pc \in {"connect", "down"} : procs' = [procs EXCEPT ![p] = At(pc)]
    BY <1>3 DEF StreamTimesOut, PluginCrashes, Disconnect
  <2>2. At(pc).pc # "send"
    BY DEF At
  <2> QED BY <1>3, <2>1, <2>2, AtTyped, StreamTyped, ProcessKeeps
      DEF StreamTimesOut, PluginCrashes, Disconnect
<1> QED BY <1>1, <1>2, <1>3
-----------------------------------------------------------------------------
(* The push: the event is in no file yet, so the push that succeeds is the *)
(* first that no fault has paid for, and one that fails pays for itself.   *)
LEMMA PushKeeps ==
    ASSUME IInv, NEW p \in Plugins, send_outbound_request(p)
    PROVE  IInv'
<1> USE DEF IInv, Typed
<1> DEFINE frame == procs[p].frame
           s == frame.of
           q(status) == [procs[p] EXCEPT !.pc = "report", !.status = status]
<1>1. /\ procs[p].pc = "send" /\ UNCHANGED <<streams, sent_events, records, tester>>
      /\ \/ procs' = [procs EXCEPT ![p] = q("sent")] /\ Pushed(p) /\ UNCHANGED budget
         \/ procs' = [procs EXCEPT ![p] = q("failed")] /\ Fault /\ (Pushed(p) \/ UNCHANGED pushes)
  BY DEF send_outbound_request, StreamsTyped
<1>2. ProcessTyped(procs[p]) /\ frame \in Frames /\ s \in Subjects
  BY <1>1 DEF StreamsTyped, ProcessTyped, Frames, Subjects
<1>3. \A status \in {"sent", "failed"} :
         /\ ProcessTyped(q(status)) /\ q(status).pc = "report"
         /\ q(status).frame = frame /\ q(status).status = status
  BY <1>2 DEF ProcessTyped, Statuses
<1>4. s \notin sent_events[p] /\ \A e : ~Carries(procs[p], e)
  BY <1>1 DEF UnsentIsSent, Carries
<1> HIDE DEF q
<1>5. PICK status \in {"sent", "failed"} :
         /\ procs' = [procs EXCEPT ![p] = q(status)]
         /\ status = "sent" => Pushed(p) /\ UNCHANGED budget
         /\ status = "failed" => Fault /\ (Pushed(p) \/ UNCHANGED pushes)
  BY <1>1
<1>6. procs'[p] = q(status) /\ \A o \in Plugins \ {p} : procs'[o] = procs[o]
  BY <1>5 DEF StreamsTyped
<1>7. pushes \in [Plugins -> [Subjects -> Nat]] /\ pushes' \in [Plugins -> [Subjects -> Nat]]
      /\ (Pushed(p) => pushes'[p][s] = pushes[p][s] + 1)
      /\ \A o \in Plugins, e \in Subjects :
            \/ pushes'[o][e] = pushes[o][e]
            \/ o = p /\ e = s /\ Pushed(p)
  <2>1. pushes \in [Plugins -> [Subjects -> Nat]] /\ pushes[p][s] + 1 \in Nat
    BY <1>2 DEF PhoneTyped
  <2>2. CASE Pushed(p)
    <3>1. pushes' = [pushes EXCEPT ![p] = [pushes[p] EXCEPT ![s] = pushes[p][s] + 1]]
      BY <2>2 DEF Pushed
    <3>2. [pushes[p] EXCEPT ![s] = pushes[p][s] + 1] \in [Subjects -> Nat]
      BY <2>1
    <3> QED BY <1>2, <2>1, <2>2, <3>1, <3>2
  <2>3. CASE UNCHANGED pushes /\ ~Pushed(p)
    BY <2>1, <2>3
  <2> QED BY <1>5, <2>2, <2>3
<1>8. \A o \in Plugins, e \in Subjects :
         /\ pushes[o][e] \in Nat /\ pushes'[o][e] \in Nat
         /\ pushes[o][e] > 0 => pushes'[o][e] > 0
  <2> TAKE o \in Plugins, e \in Subjects
  <2>1. pushes[o][e] \in Nat /\ pushes'[o][e] \in Nat
    BY <1>7
  <2> QED BY <1>7, <2>1
<1>9. Typed'
  <2>1. StreamsTyped'
    BY <1>1, <1>3, <1>5, <1>6 DEF StreamsTyped
  <2>2. PhoneTyped'
    BY <1>1, <1>7 DEF PhoneTyped
  <2>3. TesterTyped'
    BY <1>1, <1>5, FaultTyped DEF TesterTyped
  <2> QED BY <2>1, <2>2, <2>3
<1>10. SentIsPushed'
  <2>1. \A o \in Plugins, e \in Subjects :
           records'[o][e] = "sent" \/ e \in sent_events'[o] => pushes'[o][e] > 0
    BY <1>1, <1>8 DEF SentIsPushed
  <2>2. tester'.pc = "sent" => pushes'[tester'.plugin][tester'.test] > 0
    BY <1>1, <1>8 DEF SentIsPushed, TesterTyped, Subjects
  <2> QED BY <2>1, <2>2 DEF SentIsPushed
<1>11. \A e : Carries(procs'[p], e) <=> status = "sent" /\ e = s
  BY <1>3, <1>6 DEF Carries
<1>12. CarriedIsPushed'
  <2> SUFFICES ASSUME NEW o \in Plugins, NEW e \in Subjects, Carries(procs'[o], e)
               PROVE  pushes'[o][e] > 0
    BY DEF CarriedIsPushed
  <2>1. CASE o = p
    <3>1. e = s /\ Pushed(p)
      BY <1>5, <1>11, <2>1
    <3> QED BY <1>7, <1>8, <2>1, <3>1
  <2>2. CASE o # p
    BY <1>6, <1>8, <2>2 DEF CarriedIsPushed
  <2> QED BY <2>1, <2>2
<1>13. UnsentIsSent'
  BY <1>1, <1>3, <1>6 DEF UnsentIsSent
<1>14. Accounted'
  <2> SUFFICES ASSUME NEW o \in Plugins, NEW e \in Events
               PROVE  pushes'[o][e] <= MaxFaults - budget'.faults + Credit(o, e)'
    BY DEF Accounted
  <2>1. /\ pushes[o][e] <= MaxFaults - budget.faults + Credit(o, e)
        /\ pushes[o][e] \in Nat /\ pushes'[o][e] \in Nat
        /\ Credit(o, e) \in {0, 1} /\ Credit(o, e)' \in {0, 1}
        /\ MaxFaults \in Nat /\ budget.faults \in Nat /\ budget'.faults \in Nat
    BY <1>8, <1>9, NotificationAssumption DEF Accounted, TesterTyped, Credit, Subjects
  <2>2. Credit(o, e) <= Credit(o, e)'
    <3>1. e \in sent_events[o] \/ Carries(procs[o], e)
              => e \in sent_events'[o] \/ Carries(procs'[o], e)
      BY <1>1, <1>4, <1>6
    <3> QED BY <3>1 DEF Credit
  <2>3. pushes'[o][e] <= pushes[o][e] + 1
    BY <1>7, <2>1 DEF Subjects
  <2>4. CASE status = "failed"
    <3>1. budget'.faults = budget.faults - 1
      BY <1>5, <2>4, FaultTyped
    <3> QED BY <2>1, <2>2, <2>3, <3>1
  <2>5. CASE status = "sent"
    <3>1. budget'.faults = budget.faults
      BY <1>5, <2>5
    <3>2. CASE o = p /\ e = s
      <4>1. Credit(o, e) = 0 /\ Credit(o, e)' = 1
        BY <1>4, <1>11, <2>5, <3>2 DEF Credit
      <4> QED BY <2>1, <2>3, <3>1, <4>1
    <3>3. CASE ~(o = p /\ e = s)
      <4>1. pushes'[o][e] = pushes[o][e]
        BY <1>7, <3>3 DEF Subjects
      <4> QED BY <2>1, <2>2, <3>1, <4>1
    <3> QED BY <3>2, <3>3
  <2> QED BY <2>4, <2>5
<1> QED BY <1>9, <1>10, <1>12, <1>13, <1>14

(* A report ends the frame, or leaves a pushed event to be written down.   *)
LEMMA AfterReportKeeps ==
    ASSUME IInv, NEW p \in Plugins, NEW ok \in BOOLEAN, AfterReport(p, ok), procs[p].pc = "report",
           UNCHANGED <<sent_events, pushes, tester>>, PhoneTyped', SentIsPushed',
           Fault \/ UNCHANGED budget
    PROVE  IInv'
<1> USE DEF IInv, Typed
<1> DEFINE recording == [procs[p] EXCEPT !.pc = "record"]
<1>1. ProcessTyped(procs[p]) /\ procs[p].frame \in Frames
  BY DEF StreamsTyped, ProcessTyped
<1>2. PICK q, stream :
         /\ procs' = [procs EXCEPT ![p] = q] /\ streams' = [streams EXCEPT ![p] = stream]
         /\ stream \in {NoStream, streams[p]}
         /\ \/ q = recording /\ procs[p].status = "sent" /\ procs[p].frame.event = "event"
            \/ /\ q \in {At("read"), At("connect")}
               /\ procs[p].status # "sent" \/ procs[p].frame.event = "notification_test"
  <2>1. procs[p].frame.event \in {"event", "notification_test"}
    BY <1>1 DEF Frames
  <2>2. procs' = [procs EXCEPT ![p].pc = "record"] => procs' = [procs EXCEPT ![p] = recording]
    BY DEF StreamsTyped
  <2> HIDE DEF recording
  <2>3. streams' \in {[streams EXCEPT ![p] = NoStream], [streams EXCEPT ![p] = streams[p]]}
    BY StreamTyped DEF AfterReport, Disconnect
  <2> QED BY <2>1, <2>2, <2>3 DEF AfterReport, Disconnect
<1>3. procs'[p] = q /\ \A o \in Plugins \ {p} : procs'[o] = procs[o]
  BY <1>2 DEF StreamsTyped
<1>4. /\ ProcessTyped(q) /\ q.pc # "send"
      /\ \A s : Carries(q, s) => Carries(procs[p], s)
      /\ \A e \in Events : Carries(procs[p], e) => Carries(q, e)
  <2>1. CASE q = recording /\ procs[p].status = "sent" /\ procs[p].frame.event = "event"
    BY <1>1, <2>1 DEF ProcessTyped, Carries
  <2>2. CASE /\ q \in {At("read"), At("connect")}
             /\ procs[p].status # "sent" \/ procs[p].frame.event = "notification_test"
    <3>1. ASSUME NEW e \in Events PROVE ~Carries(procs[p], e)
      BY <1>1, <2>2, NotificationAssumption DEF Carries, Frames
    <3> QED BY <2>2, <3>1, AtTyped DEF At
  <2> QED BY <1>2, <2>1, <2>2
<1>5. TesterTyped'
  BY FaultTyped DEF TesterTyped
<1>6. Typed'
  <2>1. StreamsTyped'
    BY <1>2, <1>3, <1>4, StreamTyped DEF StreamsTyped, Streams
  <2> QED BY <1>5, <2>1
<1>7. CarriedIsPushed' /\ UnsentIsSent' /\ Accounted'
  <2>1. budget'.faults = budget.faults - 1 \/ budget'.faults = budget.faults
    BY FaultTyped
  <2> QED BY <1>3, <1>4, <1>6, <2>1, MoveKeeps
<1> QED BY <1>6, <1>7

LEMMA ReportKeeps ==
    ASSUME IInv, NEW p \in Plugins, save_plugin_notification_result(p) \/ ReportLost(p)
    PROVE  IInv'
<1> USE DEF IInv, Typed
<1>1. CASE save_plugin_notification_result(p)
  <2> DEFINE s == procs[p].frame.of
             accepted == s \in Tests \/ s \in public_events
             status == IF procs[p].status = "sent" THEN "sent" ELSE "failed"
  <2>1. /\ procs[p].pc = "report" /\ AfterReport(p, accepted)
        /\ records' \in {records, [records EXCEPT ![p][s] = status]}
        /\ UNCHANGED <<sent_events, pushes, tester, budget>>
    BY <1>1 DEF save_plugin_notification_result
  <2>2. s \in Subjects
    BY <2>1 DEF StreamsTyped, ProcessTyped, Frames, Subjects
  <2>3. records' \in [Plugins -> [Subjects -> {"none", "sent", "failed"}]]
        /\ \A o \in Plugins, e \in Subjects :
              records'[o][e] = "sent" => records[o][e] = "sent" \/ Carries(procs[o], e)
    <3>1. CASE records' = records
      BY <3>1 DEF PhoneTyped
    <3>2. CASE records' = [records EXCEPT ![p][s] = status]
      <4>1. [records[p] EXCEPT ![s] = status] \in [Subjects -> {"none", "sent", "failed"}]
        BY <2>2 DEF PhoneTyped
      <4>2. records' = [records EXCEPT ![p] = [records[p] EXCEPT ![s] = status]]
        BY <3>2
      <4>3. status = "sent" => Carries(procs[p], s)
        BY <2>1 DEF Carries
      <4> HIDE DEF status
      <4> QED BY <2>2, <4>1, <4>2, <4>3 DEF PhoneTyped
    <3> QED BY <2>1, <3>1, <3>2
  <2>4. PhoneTyped' /\ SentIsPushed'
    BY <2>1, <2>3 DEF PhoneTyped, SentIsPushed, CarriedIsPushed
  <2> HIDE DEF accepted
  <2>5. CASE accepted
    <3>1. AfterReport(p, TRUE)
      BY <2>1, <2>5 DEF AfterReport
    <3> QED BY <2>1, <2>4, <3>1, AfterReportKeeps
  <2>6. CASE ~accepted
    <3>1. AfterReport(p, FALSE)
      BY <2>1, <2>6 DEF AfterReport
    <3> QED BY <2>1, <2>4, <3>1, AfterReportKeeps
  <2> QED BY <2>5, <2>6
<1>2. CASE ReportLost(p)
  <2>1. /\ procs[p].pc = "report" /\ Fault /\ AfterReport(p, FALSE)
        /\ UNCHANGED <<sent_events, records, pushes, tester>>
    BY <1>2 DEF ReportLost, phone
  <2>2. PhoneTyped' /\ SentIsPushed'
    BY <2>1 DEF PhoneTyped, SentIsPushed
  <2> QED BY <2>1, <2>2, AfterReportKeeps
<1> QED BY <1>1, <1>2

(* Writing the event down: the file takes over what the process carried.   *)
LEMMA RecordKeeps ==
    ASSUME IInv, NEW p \in Plugins, record_sent(p)
    PROVE  IInv'
<1> USE DEF IInv, Typed
<1> DEFINE e == procs[p].frame.of
<1>1. procs[p].pc = "record" /\ UNCHANGED <<records, pushes, tester>>
  BY DEF record_sent
<1>2. e \in Events /\ Carries(procs[p], e) /\ pushes[p][e] > 0
  <2>1. e \in Events /\ Carries(procs[p], e)
    BY <1>1, NotificationAssumption DEF StreamsTyped, ProcessTyped, Frames, Carries
  <2> QED BY <2>1 DEF CarriedIsPushed, Subjects
<1>3. CASE Fault /\ Disconnect(p) /\ UNCHANGED sent_events
  <2>1. At("connect").pc # "send"
    BY DEF At
  <2> QED BY <1>1, <1>3, <2>1, AtTyped, StreamTyped, ProcessKeeps DEF Disconnect, phone
<1>4. CASE /\ sent_events' = [sent_events EXCEPT ![p] = @ \cup {e}]
           /\ procs' = [procs EXCEPT ![p] = At("read")]
           /\ UNCHANGED <<streams, budget>>
  <2>1. /\ sent_events'[p] = sent_events[p] \cup {e} /\ procs'[p] = At("read")
        /\ \A o \in Plugins \ {p} : sent_events'[o] = sent_events[o] /\ procs'[o] = procs[o]
    BY <1>4 DEF PhoneTyped, StreamsTyped
  <2>2. Typed'
    <3>1. PhoneTyped'
      BY <1>1, <1>2, <1>4 DEF PhoneTyped
    <3>2. StreamsTyped' /\ TesterTyped'
      BY <1>1, <1>4, <2>1, AtTyped DEF StreamsTyped, TesterTyped
    <3> QED BY <3>1, <3>2
  <2>3. SentIsPushed'
    BY <1>1, <1>2, <2>1 DEF SentIsPushed
  <2>4. At("read").pc = "read" /\ \A s : ~Carries(procs'[p], s)
    BY <2>1, AtTyped DEF At
  <2>5. CarriedIsPushed' /\ UnsentIsSent'
    BY <1>1, <2>1, <2>4 DEF CarriedIsPushed, UnsentIsSent
  <2>6. Accounted'
    <3>1. \A o \in Plugins, x \in Events : Credit(o, x)' = Credit(o, x)
      <4> TAKE o \in Plugins, x \in Events
      <4>1. x \in sent_events'[o] \/ Carries(procs'[o], x)
                <=> x \in sent_events[o] \/ Carries(procs[o], x)
        BY <1>2, <2>1, <2>4 DEF Carries
      <4> QED BY <4>1 DEF Credit
    <3> QED BY <1>1, <1>4, <3>1 DEF Accounted
  <2> QED BY <2>2, <2>3, <2>5, <2>6
<1> QED BY <1>3, <1>4 DEF record_sent

LEMMA StepKeeps == IInv /\ [Next]_vars => IInv'
<1> SUFFICES ASSUME IInv, [Next]_vars PROVE IInv'
  OBVIOUS
<1>1. CASE UNCHANGED vars
  BY <1>1 DEF vars, phone, IInv, Typed, StreamsTyped, PhoneTyped, TesterTyped, SentIsPushed,
              CarriedIsPushed, UnsentIsSent, Accounted, Credit
<1>2. CASE Next
  BY <1>2, HostKeeps, RestartKeeps, ReadingKeeps, PushKeeps, ReportKeeps, RecordKeeps
     DEF Next, PluginStep, Faults
<1> QED BY <1>1, <1>2

(* What the history, the plugin's file or the answer to a test calls sent  *)
(* has reached the phone, whatever crashes, is refused or comes late       *)
(* between the push, the report and the file (handle_event).               *)
THEOREM SentHasReached == Spec => []SentIsPushed
<1>1. IInv => SentIsPushed
  BY DEF IInv
<1> QED BY <1>1, InitEstablishes, StepKeeps, PTL DEF Spec

(* An event is pushed again only at the price of a fault: resets, evictions*)
(* from the cache, connections that come back and events published twice   *)
(* repeat nothing (sent-events.jsonl).                                     *)
THEOREM RepeatsAreFaults == Spec => []RepeatsCostFaults
<1>1. IInv => RepeatsCostFaults
  <2> SUFFICES ASSUME IInv, NEW p \in Plugins, NEW e \in Events
               PROVE  pushes[p][e] <= 1 + MaxFaults - budget.faults
    BY DEF RepeatsCostFaults
  <2>1. pushes[p][e] <= MaxFaults - budget.faults + Credit(p, e) /\ Credit(p, e) \in {0, 1}
    BY DEF IInv, Accounted, Credit
  <2>2. pushes[p][e] \in Nat /\ budget.faults \in Nat /\ MaxFaults \in Nat
    BY NotificationAssumption DEF IInv, Typed, PhoneTyped, TesterTyped, Subjects
  <2> QED BY <2>1, <2>2
<1> QED BY <1>1, InitEstablishes, StepKeeps, PTL DEF Spec
=============================================================================
