-------------------------- MODULE RemoteAgentProofs --------------------------
(***************************************************************************)
(* For any number of servers, connections, relays and streams: the remote  *)
(* agent keeps one session at a time, a relay runs for that session only   *)
(* and the status shows no other, no client takes over another's, the      *)
(* device belongs to the server in the settings, and the frames of a relay *)
(* come in order.  WebRTC peers that left the manager's table are not in   *)
(* the model, and nothing is said of them.                                 *)
(*                                                                         *)
(* RelaysServeSession is not inductive: that the relays of other           *)
(* connections are gone when an invitation is accepted depends on the      *)
(* socket's table.                                                         *)
(* Served strengthens it: a relay runs only while the socket is open, is   *)
(* entered in the table under its connection, and the table has one entry. *)
(***************************************************************************)
EXTENDS RemoteAgent, FiniteSetTheorems, TLAPS

Messages == [kind : {"event", "closed"}, stream : Streams]

Frames == [seq : Nat, kind : {"response", "event", "closed"}, stream : Streams \cup {"none"}]

RelayRecord ==
    [pc : {"none", "connecting", "open", "calling", "ended", "aborted"},
     connection : Connections \cup {"none"}, next : Nat, channel : Seq(Messages),
     streams : [Streams -> {"unused", "running", "aborted", "ended"}],
     delivered : [Streams -> Nat], answer : Streams \cup {"none"}, wire : Seq(Frames)]

SettingsTyped ==
    /\ config \in [server : Servers, access : BOOLEAN, control : BOOLEAN,
                   device : Servers \cup {None}]
    /\ server \in [issued : Nat, revoked : SUBSET Nat]
    /\ credentials \in [Servers -> 0..server.issued]
    /\ login \in [pc : {"none", "started", "polling", "confirmed", "saved"},
                  server : Servers \cup {None}, polled : Servers \cup {None}]
    /\ login.pc \in {"polling", "confirmed", "saved"} => login.polled \in Servers

AgentTyped ==
    /\ agent \in [pc : {"load", "connect", "socket", "offer", "sleep", "ended"},
                  config : [server : Servers, access : BOOLEAN, control : BOOLEAN,
                            device : Servers \cup {None}],
                  token : Nat, offer : Connections \cup {None}]
    /\ agent.pc \in {"connect", "socket", "offer"} => agent.config.access
    /\ agent.pc = "offer" => agent.offer \in Connections

ConnectionsTyped ==
    /\ sessions \in SUBSET Connections /\ webrtc \in SUBSET Connections
    /\ relay_tasks \in [Connections -> Relays \cup {0}]
    /\ relays \in [Relays -> RelayRecord]

StatusTyped ==
    status \in [state : {"NotConfigured", "Disabled", "Connecting", "Online", "Reconnecting",
                         "Error", "TokenRevoked"},
                active : Connections \cup {None}, selected : {"relay", "webrtc", None},
                available : SUBSET {"relay", "webrtc"}]

Typed == SettingsTyped /\ AgentTyped /\ ConnectionsTyped /\ StatusTyped

Served ==
    /\ \A c, d \in sessions : c = d
    /\ \A c, d \in Connections : relay_tasks[c] # 0 /\ relay_tasks[d] # 0 => c = d
    /\ \A k \in Relays : Live(relays[k]) =>
          /\ relays[k].connection \in sessions
          /\ relay_tasks[relays[k].connection] = k
          /\ agent.pc \in {"socket", "offer"}

IInv == Typed /\ Served /\ StatusNamesSession /\ DeviceOfServer

(* What the relay's own steps leave of it.                                 *)
Keeps(q, r) == /\ q \in RelayRecord /\ q.connection = r.connection
               /\ Live(q) => Live(r)
               /\ q.pc = "aborted" => r.pc = "aborted"

(* A message in the channel, a frame on the wire and a stream that changes *)
(* leave the connection alone, and whether the relay runs.                 *)
LEMMA PartsKeep ==
    ASSUME NEW r \in RelayRecord, NEW s \in Streams, NEW n \in Nat,
           NEW st \in {"unused", "running", "aborted", "ended"},
           NEW ch \in Seq(Messages), NEW w \in Seq(Frames)
    PROVE  /\ Keeps([r EXCEPT !.channel = ch, !.delivered[s] = n], r)
           /\ Keeps([r EXCEPT !.streams[s] = st], r)
           /\ Keeps([r EXCEPT !.next = n, !.wire = w], r)
BY DEF Keeps, RelayRecord, Live

LEMMA KeepsTransitive ==
    ASSUME NEW p, NEW q, NEW r, Keeps(p, q), Keeps(q, r)
    PROVE  Keeps(p, r)
BY DEF Keeps

LEMMA FramesKeep ==
    ASSUME NEW r \in RelayRecord, NEW kind \in {"response", "event", "closed"},
           NEW s \in Streams \cup {"none"}
    PROVE  Keeps(send_frame(r, kind, s), r)
<1> DEFINE frame == [seq |-> r.next, kind |-> kind, stream |-> s]
<1>1. r.next \in Nat /\ r.wire \in Seq(Frames)
  BY DEF RelayRecord
<1>2. frame \in Frames
  BY <1>1 DEF Frames
<1> HIDE DEF frame
<1>3. Append(r.wire, frame) \in Seq(Frames) /\ r.next + 1 \in Nat
  BY <1>1, <1>2
<1>4. send_frame(r, kind, s) = [r EXCEPT !.next = r.next + 1, !.wire = Append(r.wire, frame)]
  BY DEF send_frame, frame
<1>5. Keeps([r EXCEPT !.next = r.next + 1, !.wire = Append(r.wire, frame)], r)
  BY <1>3 DEF Keeps, RelayRecord, Live
<1> QED BY <1>4, <1>5

(* A request that is answered at once.                                     *)
LEMMA RequestsKeep ==
    ASSUME NEW r \in RelayRecord, NEW s \in Streams
    PROVE  /\ Keeps(respond(r), r)
           /\ Keeps(handle_local_api_stream_close(r, s), r)
<1>1. Keeps(respond(r), r)
  BY FramesKeep DEF respond
<1>2. Keeps(handle_local_api_stream_close(r, s), r)
  <2> DEFINE st == IF r.streams[s] = "running" THEN "aborted" ELSE r.streams[s]
             q == [r EXCEPT !.streams[s] = st]
  <2>1. st \in {"unused", "running", "aborted", "ended"}
    <3>1. r.streams[s] \in {"unused", "running", "aborted", "ended"}
      BY DEF RelayRecord
    <3> QED BY <3>1
  <2> HIDE DEF st
  <2>2. Keeps(q, r)
    BY <2>1, PartsKeep DEF RelayRecord
  <2>3. handle_local_api_stream_close(r, s) = respond(q)
    BY DEF handle_local_api_stream_close, st
  <2> HIDE DEF q
  <2>0. q \in RelayRecord
    BY <2>2 DEF Keeps
  <2>4. Keeps(respond(q), q)
    BY <2>0, FramesKeep DEF respond
  <2> QED BY <2>2, <2>3, <2>4, KeepsTransitive
<1> QED BY <1>1, <1>2

(* A request that waits for the Local API, a stream that is spawned, and   *)
(* the response that is written later.                                     *)
LEMMA CallsKeep ==
    ASSUME NEW r \in RelayRecord
    PROVE  /\ r.pc = "open" => Keeps(handle_local_api_request(r), r)
           /\ r.pc = "open" => \A s \in Streams : Keeps(handle_local_api_stream(r, s), r)
           /\ r.pc = "calling" => Keeps(LocalApiAnswers(r), r)
<1>0. r.answer \in Streams \cup {"none"}
  BY DEF RelayRecord
<1>1. Keeps(send_frame(r, "response", r.answer), r)
  BY <1>0, FramesKeep
<1>2. ASSUME NEW q \in RelayRecord
      PROVE  /\ [q EXCEPT !.pc = "open", !.answer = "none"] \in RelayRecord
             /\ [q EXCEPT !.pc = "open", !.answer = "none"].pc = "open"
             /\ [q EXCEPT !.pc = "open", !.answer = "none"].connection = q.connection
  BY DEF RelayRecord
<1>3. r.pc = "calling" => Keeps(LocalApiAnswers(r), r)
  BY <1>1, <1>2 DEF Keeps, LocalApiAnswers, Live
<1>4. r.pc = "open" => Keeps(handle_local_api_request(r), r)
  BY DEF Keeps, handle_local_api_request, RelayRecord, Live
<1>5. ASSUME NEW s \in Streams, r.pc = "open"
      PROVE  Keeps(handle_local_api_stream(r, s), r)
  BY <1>5 DEF Keeps, handle_local_api_stream, RelayRecord, Live
<1> QED BY <1>3, <1>4, <1>5

(* What a stream's task does to its relay.                                 *)
LEMMA StreamsKeep ==
    ASSUME NEW r \in RelayRecord, NEW s \in Streams
    PROVE  /\ Keeps(run_local_api_stream(r, s), r)
           /\ Keeps(spawn_local_api_stream(r, s), r)
<1> DEFINE Sent(kind) == Append(r.channel, [kind |-> kind, stream |-> s])
           ended == [r EXCEPT !.streams[s] = "ended"]
<1>1. \A kind \in {"event", "closed"} : Sent(kind) \in Seq(Messages)
  <2>1. r.channel \in Seq(Messages)
    BY DEF RelayRecord
  <2>2. \A kind \in {"event", "closed"} : [kind |-> kind, stream |-> s] \in Messages
    BY DEF Messages
  <2> QED BY <2>1, <2>2
<1>2. Keeps(ended, r) /\ ended.channel = r.channel
  <2>1. ended.channel = r.channel
    BY DEF RelayRecord
  <2>2. ended \in RelayRecord /\ ended.connection = r.connection /\ ended.pc = r.pc
    BY DEF RelayRecord
  <2> QED BY <2>1, <2>2 DEF Keeps, Live
<1>3. r.delivered[s] + 1 \in Nat
  BY DEF RelayRecord
<1>4. Keeps(run_local_api_stream(r, s), r)
  <2>1. Keeps([r EXCEPT !.channel = Sent("event"), !.delivered[s] = r.delivered[s] + 1], r)
    BY <1>1, <1>3, PartsKeep DEF RelayRecord
  <2>2. run_local_api_stream(r, s) \in
            {ended, [r EXCEPT !.channel = Sent("event"), !.delivered[s] = r.delivered[s] + 1]}
    BY DEF run_local_api_stream
  <2> QED BY <1>2, <2>1, <2>2
<1>5. Keeps(spawn_local_api_stream(r, s), r)
  <2> HIDE DEF Sent, ended
  <2>1. spawn_local_api_stream(r, s) \in {ended, [ended EXCEPT !.channel = Sent("closed")]}
    BY <1>2 DEF spawn_local_api_stream, ended, Sent
  <2>2. Keeps([ended EXCEPT !.channel = Sent("closed")], ended)
    <3>1. ended \in RelayRecord /\ Sent("closed") \in Seq(Messages)
      BY <1>1, <1>2 DEF Keeps
    <3> QED BY <3>1 DEF Keeps, RelayRecord, Live
  <2> QED BY <1>2, <2>1, <2>2, KeepsTransitive
<1> QED BY <1>4, <1>5

LEMMA NotificationKeeps ==
    ASSUME NEW r \in RelayRecord, r.channel # <<>>
    PROVE  Keeps(relay_notification(r), r)
<1> DEFINE q == [r EXCEPT !.channel = Tail(r.channel)]
           n == Head(r.channel)
<1>1. r.channel \in Seq(Messages)
  BY DEF RelayRecord
<1>2. n \in Messages /\ Tail(r.channel) \in Seq(Messages)
  BY <1>1
<1>3. Keeps(q, r)
  BY <1>2 DEF Keeps, RelayRecord, Live
<1> HIDE DEF q, n
<1>4. n.kind \in {"event", "closed"} /\ n.stream \in Streams
  BY <1>2 DEF Messages
<1>0. q \in RelayRecord
  BY <1>3 DEF Keeps
<1>5. Keeps(send_frame(q, n.kind, n.stream), q)
  BY <1>0, <1>4, FramesKeep
<1>6. relay_notification(r) = send_frame(q, n.kind, n.stream)
  BY DEF relay_notification, q, n
<1> QED BY <1>3, <1>5, <1>6, KeepsTransitive

(* The inductive invariant gives the properties.                           *)
LEMMA Implied == IInv => TypeOK /\ RelaysServeSession
<1> SUFFICES ASSUME IInv PROVE TypeOK /\ RelaysServeSession
  OBVIOUS
<1> USE DEF IInv, Typed, Served
<1>1. TypeOK
  BY DEF TypeOK, SettingsTyped, AgentTyped, ConnectionsTyped, StatusTyped
<1>2. Cardinality(sessions) <= 1
  <2>1. CASE sessions = {}
    BY <2>1, FS_EmptySet
  <2>2. CASE sessions # {}
    <3>1. PICK c \in sessions : TRUE
      BY <2>2
    <3>2. sessions = {c}
      BY <3>1
    <3> QED BY <3>2, FS_Singleton
  <2> QED BY <2>1, <2>2
<1>3. \A j, k \in Relays : Live(relays[j]) /\ Live(relays[k]) => j = k
  OBVIOUS
<1> QED BY <1>1, <1>2, <1>3 DEF RelaysServeSession

LEMMA InitEstablishes == Init => IInv
<1> SUFFICES ASSUME Init PROVE IInv
  OBVIOUS
<1> USE RemoteAssumption DEF Init
<1>1. budget.server \in Servers /\ budget.bound \in BOOLEAN
  OBVIOUS
<1>2. SettingsTyped
  BY <1>1 DEF SettingsTyped, NoLogin
<1>3. AgentTyped
  BY <1>1 DEF AgentTyped
<1>4. NoRelay \in RelayRecord /\ ~Live(NoRelay)
  <2>1. <<>> \in Seq(Messages) /\ <<>> \in Seq(Frames)
    OBVIOUS
  <2> QED BY <2>1 DEF NoRelay, RelayRecord, Live
<1>5. ConnectionsTyped /\ StatusTyped
  BY <1>4 DEF ConnectionsTyped, StatusTyped
<1>6. Served
  BY <1>4 DEF Served
<1> QED BY <1>1, <1>2, <1>3, <1>5, <1>6 DEF IInv, Typed, StatusNamesSession, DeviceOfServer
-----------------------------------------------------------------------------
(* The relays after some of them were aborted.                             *)
LEMMA AbortFacts ==
    ASSUME ConnectionsTyped, NEW T
    PROVE  /\ Abort(T) \in [Relays -> RelayRecord]
           /\ \A k \in Relays : /\ Abort(T)[k].connection = relays[k].connection
                                /\ Live(Abort(T)[k]) => Live(relays[k]) /\ k \notin T
                                /\ Live(relays[k]) /\ Abort(T)[k].pc = "aborted" => k \in T
<1>1. ASSUME NEW r \in RelayRecord
      PROVE  /\ Stop(r, "aborted") \in RelayRecord
             /\ Stop(r, "aborted").connection = r.connection
             /\ ~Live(Stop(r, "aborted"))
  <2>1. <<>> \in Seq(Messages)
    OBVIOUS
  <2> QED BY <2>1 DEF Stop, RelayRecord, Live
<1>2. \A k \in Relays : relays[k] \in RelayRecord
  BY DEF ConnectionsTyped
<1>3. \A k \in Relays : Abort(T)[k] = IF k \in T /\ Live(relays[k])
                                      THEN Stop(relays[k], "aborted") ELSE relays[k]
  BY DEF Abort
<1>4. \A k \in Relays : Live(relays[k]) => relays[k].pc # "aborted"
  BY DEF Live
<1>5. \A k \in Relays : Abort(T)[k] \in RelayRecord
  BY <1>1, <1>2, <1>3
<1> QED BY <1>1, <1>2, <1>3, <1>4, <1>5 DEF Abort

LEMMA LiveInTable ==
    ASSUME ConnectionsTyped, Served
    PROVE  \A k \in Relays : Live(relays[k]) => k \in Tasks
BY RemoteAssumption DEF Served, ConnectionsTyped, Tasks

LEMMA NewRelayFacts ==
    ASSUME NEW c \in Connections
    PROVE  NewRelay(c) \in RelayRecord /\ NewRelay(c).connection = c
<1>1. <<>> \in Seq(Messages) /\ <<>> \in Seq(Frames)
  OBVIOUS
<1> QED BY <1>1 DEF NewRelay, NoRelay, RelayRecord

(* The user's commands and the server's revocation leave the connections   *)
(* alone.                                                                  *)
LEMMA CommandsKeep ==
    ASSUME IInv, CommandStep \/ Revoke
    PROVE  IInv' /\ StaysWithClient
<1> USE DEF IInv, Typed
<1>1. UNCHANGED <<agent, signaling, relay_tasks, relays, status>>
  BY DEF CommandStep, Revoke, save_remote_settings, clear_remote_binding, start_remote_login,
         poll_remote_login, PollAgain, poll_remote_login_session, save_credential,
         apply_remote_binding_result, BindingFails
<1>2. AgentTyped' /\ ConnectionsTyped' /\ StatusTyped' /\ Served' /\ StatusNamesSession'
  BY <1>1 DEF AgentTyped, ConnectionsTyped, StatusTyped, Served, StatusNamesSession, signaling
<1>3. StaysWithClient
  BY <1>1 DEF StaysWithClient, Live, signaling
<1>4. SettingsTyped' /\ DeviceOfServer'
  <2> USE DEF SettingsTyped, DeviceOfServer
  <2>1. ASSUME NEW s \in Servers, NEW access \in BOOLEAN, NEW control \in BOOLEAN,
               save_remote_settings(s, access, control)
        PROVE  SettingsTyped' /\ DeviceOfServer'
    BY <2>1 DEF save_remote_settings
  <2>2. CASE clear_remote_binding
    BY <2>2 DEF clear_remote_binding
  <2>3. CASE start_remote_login
    BY <2>3 DEF start_remote_login, NoLogin
  <2>4. CASE poll_remote_login
    BY <2>4 DEF poll_remote_login
  <2>5. CASE PollAgain
    BY <2>5 DEF PollAgain
  <2>6. CASE poll_remote_login_session
    BY <2>6 DEF poll_remote_login_session
  <2>7. CASE save_credential
    BY <2>7 DEF save_credential
  <2>8. CASE apply_remote_binding_result
    BY <2>8 DEF apply_remote_binding_result, NoLogin
  <2>9. CASE BindingFails
    BY <2>9 DEF BindingFails, NoLogin
  <2>10. CASE Revoke
    BY <2>10 DEF Revoke
  <2> QED BY <2>1, <2>2, <2>3, <2>4, <2>5, <2>6, <2>7, <2>8, <2>9, <2>10 DEF CommandStep
<1> QED BY <1>2, <1>3, <1>4
(* No relay runs unless the socket is open: the loop's other steps have    *)
(* nothing to lose.                                                        *)
LEMMA AgentKeeps ==
    ASSUME IInv, AgentStep \/ LoadFails \/ ConnectFails
    PROVE  IInv' /\ StaysWithClient
<1> USE DEF IInv, Typed
<1>1. UNCHANGED <<user, sessions, relays>>
  BY DEF AgentStep, LoadFails, ConnectFails, load_config, sleep_or_wake, connect_async,
         create_webrtc_answer, signaling
<1>2. SettingsTyped' /\ DeviceOfServer'
  BY <1>1 DEF SettingsTyped, DeviceOfServer, user
<1>3. StaysWithClient
  BY <1>1 DEF StaysWithClient, Live
<1>4. AgentTyped' /\ ConnectionsTyped' /\ StatusTyped' /\ Served' /\ StatusNamesSession'
  <2> USE DEF AgentTyped, ConnectionsTyped, StatusTyped, Served, StatusNamesSession, signaling
  <2>1. CASE load_config
    BY <2>1 DEF load_config, SetState, startup_state, SettingsTyped
  <2>2. CASE sleep_or_wake
    BY <2>2 DEF sleep_or_wake, Goto
  <2>3. CASE connect_async
    BY <2>3 DEF connect_async, Goto, SetState
  <2>4. CASE create_webrtc_answer
    <3>1. agent' = [agent EXCEPT !.pc = "socket", !.offer = None] /\ agent.pc = "offer"
          /\ UNCHANGED <<sessions, relay_tasks, relays>>
      BY <2>4 DEF create_webrtc_answer
    <3>2. AgentTyped' /\ Served'
      BY <3>1
    <3>3. webrtc' \in SUBSET Connections
      BY <2>4 DEF create_webrtc_answer
    <3>4. StatusTyped' /\ status'.active = status.active
      <4>1. CASE UNCHANGED status
        BY <4>1
      <4>2. CASE status' = [status EXCEPT !.available = @ \cup {"webrtc"}, !.selected = "webrtc"]
        <5>1. status.available \cup {"webrtc"} \in SUBSET {"relay", "webrtc"}
          OBVIOUS
        <5> QED BY <4>2, <5>1
      <4> QED BY <2>4, <4>1, <4>2 DEF create_webrtc_answer
    <3> QED BY <3>1, <3>2, <3>3, <3>4
  <2>5. CASE LoadFails
    BY <2>5 DEF LoadFails, Goto, SetState
  <2>6. CASE ConnectFails
    BY <2>6 DEF ConnectFails, Goto, SetState
  <2> QED BY <2>1, <2>2, <2>3, <2>4, <2>5, <2>6 DEF AgentStep
<1> QED BY <1>2, <1>3, <1>4

(* Every relay that runs is in the table and is aborted with the socket.   *)
LEMMA SocketKeeps ==
    ASSUME IInv, NEW s \in {"Reconnecting", "Error", "TokenRevoked"}, SocketCloses(s)
    PROVE  IInv' /\ StaysWithClient
<1> USE DEF IInv, Typed
<1>1. /\ UNCHANGED <<config, server, login, sessions, webrtc, relay_tasks>>
      /\ relays' = Abort(Tasks) /\ agent' = [agent EXCEPT !.pc = state_after_socket_result(s)]
      /\ status' = [status EXCEPT !.state = s]
  BY DEF SocketCloses, signaling, abort_all_relays, SetState, Goto
<1>2. \A k \in Relays : Live(relays[k]) => k \in Tasks
  BY LiveInTable
<1>3. \A k \in Relays : ~Live(relays'[k])
  BY <1>1, <1>2, AbortFacts
<1>4. SettingsTyped' /\ DeviceOfServer'
  BY <1>1 DEF SocketCloses, SettingsTyped, DeviceOfServer, AgentTyped
<1>5. AgentTyped' /\ StatusTyped' /\ StatusNamesSession'
  BY <1>1 DEF AgentTyped, StatusTyped, StatusNamesSession, state_after_socket_result
<1>6. ConnectionsTyped' /\ Served'
  BY <1>1, <1>3, AbortFacts DEF ConnectionsTyped, Served
<1>7. StaysWithClient
  BY <1>1 DEF StaysWithClient, Served
<1> QED BY <1>4, <1>5, <1>6, <1>7
(* What an accepted invitation leaves: its own connection is the only one, *)
(* and the relays of all others are aborted.                               *)
LEMMA InviteKeeps ==
    ASSUME IInv, NEW c \in Connections, NEW transport \in {"webrtc", "relay"},
           NEW token \in BOOLEAN, handle_invite(c, transport, token)
    PROVE  IInv' /\ StaysWithClient
<1> USE DEF IInv, Typed
<1>1. UNCHANGED <<config, credentials, server, login, agent>> /\ agent.pc = "socket"
  BY DEF handle_invite, user, Receive
<1>2. SettingsTyped' /\ AgentTyped' /\ DeviceOfServer'
  BY <1>1 DEF SettingsTyped, AgentTyped, DeviceOfServer
<1>3. CASE UNCHANGED <<signaling, relay_tasks, relays, status>>
  BY <1>1, <1>2, <1>3
     DEF ConnectionsTyped, StatusTyped, Served, StatusNamesSession, StaysWithClient, signaling, Live
<1>4. CASE /\ c \in sessions \/ may_replace(c)
           /\ accept_invite(c, transport)
           /\ apply_connection_invite_relay_lifecycle(c, transport, token)
  <2>1. /\ sessions' \in SUBSET Connections /\ webrtc' \in SUBSET Connections
        /\ c \in sessions' /\ \A d, e \in sessions' : d = e
        /\ c \in sessions => sessions' = sessions
    BY <1>4 DEF accept_invite, Served, ConnectionsTyped
  <2>2. StatusTyped' /\ status'.active = c
    <3> DEFINE available == IF transport = "relay" THEN status.available \cup {"relay"}
                            ELSE status.available
    <3>1. available \in SUBSET {"relay", "webrtc"}
      BY DEF StatusTyped
    <3> HIDE DEF available
    <3>2. status' = [status EXCEPT !.active = c, !.available = available,
                         !.selected = IF transport = "relay" THEN "relay" ELSE @]
      BY <1>4 DEF accept_invite, available
    <3> QED BY <3>1, <3>2 DEF StatusTyped
  <2>3. \A d \in sessions, e \in sessions' : ClientOf[d] = ClientOf[e]
    <3>1. CASE c \in sessions
      BY <2>1, <3>1 DEF Served
    <3>2. CASE may_replace(c)
      BY <2>1, <3>2 DEF may_replace
    <3> QED BY <1>4, <3>1, <3>2
  <2>4. \A k \in Relays : Live(relays[k]) => k \in Tasks
    BY LiveInTable
  <2>5. CASE transport = "webrtc" /\ relay_tasks[c] # 0 /\ UNCHANGED <<relay_tasks, relays>>
    <3>1. \A k \in Relays : Live(relays[k]) => relays[k].connection = c
      BY <2>5, RemoteAssumption DEF Served, ConnectionsTyped
    <3>2. ConnectionsTyped' /\ Served'
      BY <1>1, <2>1, <2>5, <3>1 DEF ConnectionsTyped, Served
    <3>3. StaysWithClient
      BY <2>3, <2>5 DEF StaysWithClient, Live
    <3> QED BY <1>2, <2>1, <2>2, <3>2, <3>3 DEF StatusNamesSession
  <2>6. CASE abort_all_relays /\ relay_tasks' = [d \in Connections |-> 0]
    <3>1. \A k \in Relays : ~Live(relays'[k])
      BY <2>4, <2>6, AbortFacts DEF abort_all_relays
    <3>2. ConnectionsTyped' /\ Served'
      BY <2>1, <2>6, <3>1, AbortFacts DEF ConnectionsTyped, Served, abort_all_relays
    <3>3. StaysWithClient
      BY <2>3 DEF StaysWithClient, Served
    <3> QED BY <1>2, <2>1, <2>2, <3>2, <3>3 DEF StatusNamesSession
  <2>7. ASSUME NEW k \in Relays, replace_relay_task(c, k)
        PROVE  IInv' /\ StaysWithClient
    <3>1. relays' = [Abort(Tasks) EXCEPT ![k] = NewRelay(c)]
          /\ relay_tasks' = [d \in Connections |-> IF d = c THEN k ELSE 0]
      BY <2>7 DEF replace_relay_task
    <3>2. relays' \in [Relays -> RelayRecord] /\ relays'[k] = NewRelay(c)
          /\ \A j \in Relays \ {k} : relays'[j] = Abort(Tasks)[j]
      BY <3>1, AbortFacts, NewRelayFacts
    <3>3. \A j \in Relays \ {k} : ~Live(relays'[j])
      BY <2>4, <3>2, AbortFacts
    <3>4. relay_tasks'[c] = k /\ relay_tasks' \in [Connections -> Relays \cup {0}]
          /\ \A d \in Connections : relay_tasks'[d] # 0 => d = c
      BY <3>1
    <3>5. ConnectionsTyped' /\ Served'
      BY <1>1, <2>1, <3>2, <3>3, <3>4, NewRelayFacts DEF ConnectionsTyped, Served
    <3>6. StaysWithClient
      BY <2>3 DEF StaysWithClient, Served
    <3> QED BY <1>2, <2>1, <2>2, <3>5, <3>6 DEF StatusNamesSession
  <2> QED BY <1>4, <2>5, <2>6, <2>7 DEF apply_connection_invite_relay_lifecycle
<1> QED BY <1>3, <1>4 DEF handle_invite

(* An offer waits for its answer; a cancelled connection goes with its     *)
(* relay.                                                                  *)
LEMMA SignalsKeep ==
    ASSUME IInv, NEW c \in Connections, handle_offer_async(c) \/ handle_cancel(c)
    PROVE  IInv' /\ StaysWithClient
<1> USE DEF IInv, Typed
<1>1. SettingsTyped' /\ DeviceOfServer'
  BY DEF handle_offer_async, handle_cancel, user, SettingsTyped, DeviceOfServer
<1>2. CASE handle_offer_async(c)
  <2>1. UNCHANGED <<signaling, relay_tasks, relays, status>> /\ agent.pc = "socket"
        /\ agent' \in {agent, [agent EXCEPT !.pc = "offer", !.offer = c]}
    BY <1>2 DEF handle_offer_async, Receive
  <2>2. AgentTyped' /\ agent'.pc \in {"socket", "offer"}
    BY <2>1 DEF AgentTyped
  <2> QED BY <1>1, <2>1, <2>2
      DEF ConnectionsTyped, StatusTyped, Served, StatusNamesSession, StaysWithClient, signaling, Live
<1>3. CASE handle_cancel(c)
  <2>1. /\ UNCHANGED agent /\ relays' = Abort({relay_tasks[c]})
        /\ relay_tasks' = [relay_tasks EXCEPT ![c] = 0]
        /\ sessions' = sessions \ {c} /\ webrtc' = webrtc \ {c}
        /\ status' = [status EXCEPT !.active = None, !.selected = None, !.available = {}]
    BY <1>3 DEF handle_cancel
  <2>2. AgentTyped' /\ StatusTyped' /\ StatusNamesSession'
    BY <2>1 DEF AgentTyped, StatusTyped, StatusNamesSession
  <2>3. \A k \in Relays : Live(relays'[k]) => Live(relays[k]) /\ relays[k].connection # c
    BY <2>1, AbortFacts DEF Served
  <2>4. relays' \in [Relays -> RelayRecord]
        /\ \A k \in Relays : relays'[k].connection = relays[k].connection
    BY <2>1, AbortFacts
  <2>5. ConnectionsTyped' /\ Served'
    BY <2>1, <2>3, <2>4 DEF ConnectionsTyped, Served
  <2>6. StaysWithClient
    BY <2>1 DEF StaysWithClient, Served
  <2> QED BY <1>1, <2>2, <2>5, <2>6
<1> QED BY <1>2, <1>3
-----------------------------------------------------------------------------
(* A step by which a relay goes on leaves the connections alone.           *)
LEMMA GoingOnKeeps ==
    ASSUME IInv, NEW k \in Relays, NEW r, relays' = [relays EXCEPT ![k] = r],
           Keeps(r, relays[k]), UNCHANGED <<user, agent, wake, signaling, relay_tasks, status>>
    PROVE  IInv' /\ StaysWithClient
<1> USE DEF IInv, Typed
<1>1. SettingsTyped' /\ DeviceOfServer' /\ AgentTyped' /\ StatusTyped' /\ StatusNamesSession'
  BY DEF SettingsTyped, DeviceOfServer, AgentTyped, StatusTyped, StatusNamesSession, user, signaling
<1>2. relays \in [Relays -> RelayRecord] /\ relays'[k] = r
      /\ \A j \in Relays \ {k} : relays'[j] = relays[j]
  BY DEF ConnectionsTyped
<1>3. ConnectionsTyped'
  BY <1>2 DEF ConnectionsTyped, Keeps, signaling
<1>4. Served'
  BY <1>2 DEF Served, Keeps, signaling
<1>5. StaysWithClient
  BY <1>2 DEF StaysWithClient, Keeps, signaling, Live
<1> QED BY <1>1, <1>3, <1>4, <1>5

(* A relay that ends by itself releases its session.                       *)
LEMMA EndingKeeps ==
    ASSUME IInv, NEW k \in Relays, RelayEnds(k)
    PROVE  IInv' /\ StaysWithClient
<1> USE DEF IInv, Typed
<1> DEFINE c == relays[k].connection
<1>1. /\ UNCHANGED <<config, credentials, server, login, agent, relay_tasks>> /\ Live(relays[k])
      /\ relays' = [relays EXCEPT ![k] = Stop(relays[k], "ended")] /\ clear_session(c)
  BY DEF RelayEnds, Relay, Step, user
<1>2. SettingsTyped' /\ DeviceOfServer' /\ AgentTyped'
  BY <1>1 DEF SettingsTyped, DeviceOfServer, AgentTyped
<1>3. c \in sessions /\ \A j \in Relays : Live(relays[j]) => j = k
  BY <1>1 DEF Served
<1>4. sessions' = {} /\ webrtc' = webrtc \ {c}
      /\ status' = IF status.active # c THEN status
                   ELSE [status EXCEPT !.active = None, !.selected = None, !.available = {}]
  BY <1>1, <1>3 DEF clear_session, Served
<1>5. StatusTyped' /\ StatusNamesSession'
  <2> HIDE DEF c
  <2>1. CASE status.active = c
    BY <1>4, <2>1 DEF StatusTyped, StatusNamesSession
  <2>2. CASE status.active # c
    <3>1. status.active = None
      BY <1>3, <2>2 DEF StatusNamesSession, Served
    <3> QED BY <1>4, <2>2, <3>1 DEF StatusTyped, StatusNamesSession
  <2> QED BY <2>1, <2>2
<1>6. relays' \in [Relays -> RelayRecord] /\ \A j \in Relays : ~Live(relays'[j])
  <2>1. Stop(relays[k], "ended") \in RelayRecord /\ ~Live(Stop(relays[k], "ended"))
    <3>1. <<>> \in Seq(Messages) /\ relays[k] \in RelayRecord
      BY DEF ConnectionsTyped
    <3> QED BY <3>1 DEF Stop, RelayRecord, Live
  <2> QED BY <1>1, <1>3, <2>1 DEF ConnectionsTyped
<1>7. ConnectionsTyped' /\ Served'
  BY <1>1, <1>4, <1>6 DEF ConnectionsTyped, Served
<1>8. StaysWithClient
  BY <1>4 DEF StaysWithClient
<1> QED BY <1>2, <1>5, <1>7, <1>8

LEMMA RelaysKeep ==
    ASSUME IInv, NEW k \in Relays, RelayStep(k)
    PROVE  IInv' /\ StaysWithClient
<1>0. relays[k] \in RelayRecord
  BY DEF IInv, Typed, ConnectionsTyped
<1>1. CASE RelayEnds(k)
  BY <1>1, EndingKeeps
<1>2. CASE RelayOpens(k)
  <2>1. Keeps([relays[k] EXCEPT !.pc = "open"], relays[k])
    BY <1>0, <1>2 DEF RelayOpens, Relay, Keeps, RelayRecord, Live
  <2> QED BY <1>2, <2>1, GoingOnKeeps DEF RelayOpens, Relay, Step, RelayOnly
<1>3. CASE RelayRequest(k)
  <2>1. RelayOnly /\ relays[k].pc = "open"
    BY <1>3 DEF RelayRequest, Serves, Relay
  <2>2. CASE Step(k, respond(relays[k]))
    BY <1>0, <2>1, <2>2, FramesKeep, GoingOnKeeps DEF Step, RelayOnly, respond
  <2>3. CASE Step(k, handle_local_api_request(relays[k]))
    BY <1>0, <2>1, <2>3, CallsKeep, GoingOnKeeps DEF Step, RelayOnly
  <2>4. ASSUME NEW s \in Streams, Step(k, handle_local_api_stream(relays[k], s))
        PROVE  IInv' /\ StaysWithClient
    BY <1>0, <2>1, <2>4, CallsKeep, GoingOnKeeps DEF Step, RelayOnly
  <2>5. ASSUME NEW s \in Streams, Step(k, handle_local_api_stream_close(relays[k], s))
        PROVE  IInv' /\ StaysWithClient
    BY <1>0, <2>1, <2>5, RequestsKeep, GoingOnKeeps DEF Step, RelayOnly
  <2> QED BY <1>3, <2>2, <2>3, <2>4, <2>5 DEF RelayRequest, Relay
<1>4. CASE RequestAnswered(k)
  BY <1>0, <1>4, CallsKeep, GoingOnKeeps DEF RequestAnswered, Relay, Step, RelayOnly
<1>5. CASE RelayNotifies(k)
  BY <1>0, <1>5, NotificationKeeps, GoingOnKeeps DEF RelayNotifies, Relay, Step, RelayOnly
<1>6. ASSUME NEW s \in Streams, Delivers(k, s) \/ StreamEnds(k, s)
      PROVE  IInv' /\ StaysWithClient
  BY <1>0, <1>6, StreamsKeep, GoingOnKeeps DEF Delivers, StreamEnds, Relay, Step, RelayOnly
<1> QED BY <1>1, <1>2, <1>3, <1>4, <1>5, <1>6 DEF RelayStep

LEMMA StepKeeps == IInv /\ [Next]_vars => IInv' /\ (StaysWithClient \/ UNCHANGED vars)
<1> SUFFICES ASSUME IInv, [Next]_vars PROVE IInv' /\ (StaysWithClient \/ UNCHANGED vars)
  OBVIOUS
<1>1. CASE UNCHANGED vars
  BY <1>1 DEF vars, IInv, Typed, SettingsTyped, AgentTyped, ConnectionsTyped, StatusTyped, Served,
              StatusNamesSession, DeviceOfServer
<1>2. CASE Next
  BY <1>2, CommandsKeep, AgentKeeps, SocketKeeps, InviteKeeps, SignalsKeep, RelaysKeep
     DEF Next, SignalStep
<1> QED BY <1>1, <1>2

(* The state keeps its shape, and the agent connects only while remote     *)
(* access is on (startup_state, run_agent_loop).                           *)
THEOREM TypeCorrect == Spec => []TypeOK
BY InitEstablishes, StepKeeps, Implied, PTL DEF Spec

(* One session is kept at a time, one relay runs at most, it is that of    *)
(* the session's connection, and the status shows no other connection,     *)
(* whichever way invitations, offers, cancellations, broken relays and     *)
(* broken sockets interleave (replace_relay_task,                          *)
(* abort_relay_for_connection, clear_session).                             *)
THEOREM OneRelayServes == Spec => []RelaysServeSession
BY InitEstablishes, StepKeeps, Implied, PTL DEF Spec

(* Saving the settings, logging in and polling interleave; the device stays*)
(* one of the server in the settings (save_remote_settings_to_store,       *)
(* apply_remote_binding_result).                                           *)
THEOREM DeviceBelongs == Spec => []DeviceOfServer
<1>1. IInv => DeviceOfServer
  BY DEF IInv
<1> QED BY <1>1, InitEstablishes, StepKeeps, PTL DEF Spec

(* No client loses its session or relay to another client (handle_invite). *)
THEOREM NobodyTakesOver == Spec => NotTakenOver
<1>1. IInv /\ [Next]_vars => [StaysWithClient]_vars
  BY StepKeeps
<1> QED BY <1>1, InitEstablishes, StepKeeps, PTL DEF Spec, NotTakenOver
-----------------------------------------------------------------------------
(* The order of a relay's frames (WireInOrder).  It is not inductive: what *)
(* a relay sends was put into its channel earlier by a stream that may     *)
(* have ended since, and the stream may run before its response is         *)
(* written.  Wired relates the four: a stream that was opened has its      *)
(* response on the wire or it is the one being written, a channel holds    *)
(* messages of opened streams only and is read when no response is due,    *)
(* the end of a stream is its last message in the channel, and once it is  *)
(* on the wire nothing of the stream waits or will be asked for.           *)
Named(r, s) == \E j \in 1..Len(r.wire) : r.wire[j].kind = "response" /\ r.wire[j].stream = s

Over(r, s) == \E i \in 1..Len(r.wire) : r.wire[i].kind = "closed" /\ r.wire[i].stream = s

Waits(r, s) == \E i \in 1..Len(r.channel) : r.channel[i].stream = s

EndWaits(r, s) == \E i \in 1..Len(r.channel) : r.channel[i].kind = "closed" /\ r.channel[i].stream = s

WireWired(r) ==
    /\ r.next = Len(r.wire) + 1
    /\ Numbered(r) /\ Announced(r) /\ ClosedLast(r)

ChannelWired(r) ==
    /\ \A i, j \in 1..Len(r.channel) :
          i < j /\ r.channel[i].kind = "closed" => r.channel[j].stream # r.channel[i].stream
    /\ \A s \in Streams : /\ Waits(r, s) => r.streams[s] # "unused"
                          /\ EndWaits(r, s) => r.streams[s] = "ended"

StreamsWired(r) ==
    /\ \A s \in Streams : /\ r.streams[s] # "unused" => Named(r, s) \/ r.answer = s
                          /\ Over(r, s) => r.streams[s] = "ended" /\ ~Waits(r, s)
    /\ ~Over(r, "none") /\ ~Over(r, r.answer)

AnswerWired(r) == r.pc \in {"none", "connecting", "open"} => r.answer = "none"

Wired(r) == WireWired(r) /\ ChannelWired(r) /\ StreamsWired(r) /\ AnswerWired(r)

(* Nothing but the frames, the channel, the streams and the answer matters. *)
LEMMA WiredParts ==
    ASSUME NEW r, NEW q, Wired(r), q.next = r.next, q.wire = r.wire, q.channel = r.channel,
           q.streams = r.streams, q.answer = r.answer, AnswerWired(q)
    PROVE  Wired(q)
BY DEF Wired, WireWired, ChannelWired, StreamsWired, Numbered, Announced, ClosedLast, Named, Over,
       Waits, EndWaits

LEMMA EmptyWired ==
    ASSUME NEW r, r.next = 1, r.wire = <<>>, r.channel = <<>>, r.answer = "none",
           \A s \in Streams : r.streams[s] = "unused"
    PROVE  Wired(r)
BY DEF Wired, WireWired, ChannelWired, StreamsWired, AnswerWired, Numbered, Announced, ClosedLast, Named, Over,
       Waits, EndWaits

(* A relay that is stopped drops what waits.                               *)
LEMMA StopWired ==
    ASSUME NEW r \in RelayRecord, Wired(r), NEW how \in {"ended", "aborted"}
    PROVE  Wired(Stop(r, how))
<1> DEFINE q == Stop(r, how)
<1>1. /\ q.next = r.next /\ q.wire = r.wire /\ q.channel = <<>> /\ q.streams = r.streams
      /\ q.answer = r.answer /\ q.pc = how
  BY DEF Stop, RelayRecord
<1> HIDE DEF q
<1>2. WireWired(q) /\ ChannelWired(q) /\ StreamsWired(q) /\ AnswerWired(q)
  BY <1>1 DEF Wired, WireWired, ChannelWired, StreamsWired, AnswerWired, Numbered, Announced, ClosedLast, Named,
             Over, Waits, EndWaits
<1> QED BY <1>2 DEF Wired, q

(* A frame: of a stream that is not over, and announced unless it is a     *)
(* response; the end of a stream when nothing of it waits.                 *)
LEMMA FrameWired ==
    ASSUME NEW r \in RelayRecord, Wired(r), NEW kind \in {"response", "event", "closed"},
           NEW s \in Streams \cup {"none"}, ~Over(r, s),
           kind # "response" => s \in Streams /\ Named(r, s) /\ s # r.answer,
           kind = "closed" => r.streams[s] = "ended" /\ ~Waits(r, s)
    PROVE  Wired(send_frame(r, kind, s))
<1> DEFINE frame == [seq |-> r.next, kind |-> kind, stream |-> s]
           q == send_frame(r, kind, s)
           n == Len(r.wire)
<1>1. /\ q.next = r.next + 1 /\ q.wire = Append(r.wire, frame)
      /\ q.channel = r.channel /\ q.streams = r.streams
      /\ q.answer = r.answer /\ q.pc = r.pc
  BY DEF send_frame, RelayRecord
<1>2. r.wire \in Seq(Frames) /\ r.next = n + 1 /\ n \in Nat
  BY DEF RelayRecord, Wired, WireWired
<1>3. Len(q.wire) = n + 1 /\ q.wire[n + 1] = frame /\ \A i \in 1..n : q.wire[i] = r.wire[i]
  BY <1>1, <1>2
<1>4. frame.seq = n + 1 /\ frame.kind = kind /\ frame.stream = s
  BY <1>2
<1> HIDE DEF q, frame
<1>5. \A t : Named(r, t) => Named(q, t)
  BY <1>2, <1>3 DEF Named, n
<1>6. \A t : Over(q, t) => Over(r, t) \/ (kind = "closed" /\ t = s)
  <2> SUFFICES ASSUME NEW t, NEW i \in 1..(n + 1), q.wire[i].kind = "closed", q.wire[i].stream = t
               PROVE  Over(r, t) \/ (kind = "closed" /\ t = s)
    BY <1>3 DEF Over
  <2> QED BY <1>2, <1>3, <1>4 DEF Over
<1>7. WireWired(q)
  <2>1. Numbered(q)
    BY <1>2, <1>3, <1>4 DEF Wired, WireWired, Numbered
  <2>2. Announced(q)
    <3> SUFFICES ASSUME NEW i \in 1..(n + 1), q.wire[i].kind \in {"event", "closed"}
                 PROVE  \E j \in 1..(i - 1) : q.wire[j].kind = "response"
                                              /\ q.wire[j].stream = q.wire[i].stream
      BY <1>3 DEF Announced
    <3>1. CASE i \in 1..n
      <4>1. PICK j \in 1..(i - 1) : r.wire[j].kind = "response" /\ r.wire[j].stream = r.wire[i].stream
        BY <1>3, <3>1 DEF Wired, WireWired, Announced
      <4>2. j \in 1..n
        BY <3>1, <1>2
      <4> QED BY <1>3, <3>1, <4>1, <4>2
    <3>2. CASE i = n + 1
      <4>1. PICK j \in 1..n : r.wire[j].kind = "response" /\ r.wire[j].stream = s
        BY <1>3, <1>4, <3>2 DEF Named
      <4> QED BY <1>2, <1>3, <1>4, <3>2, <4>1
    <3> QED BY <1>2, <3>1, <3>2
  <2>3. ClosedLast(q)
    <3> SUFFICES ASSUME NEW i \in 1..(n + 1), NEW j \in 1..(n + 1), i < j, q.wire[i].kind = "closed"
                 PROVE  q.wire[j].stream # q.wire[i].stream
      BY <1>3 DEF ClosedLast
    <3>1. i \in 1..n
      BY <1>2
    <3>2. CASE j \in 1..n
      BY <1>3, <3>1, <3>2 DEF Wired, WireWired, ClosedLast
    <3>3. CASE j = n + 1
      BY <1>3, <1>4, <3>1, <3>3 DEF Over
    <3> QED BY <1>2, <3>2, <3>3
  <2> QED BY <1>1, <1>2, <1>3, <2>1, <2>2, <2>3 DEF WireWired
<1>8. ChannelWired(q)
  BY <1>1 DEF Wired, ChannelWired, Waits, EndWaits
<1>9. StreamsWired(q)
  <2>1. \A t : Waits(q, t) <=> Waits(r, t)
    BY <1>1 DEF Waits
  <2>2. kind = "closed" => s # "none"
    BY RpcAssumption
  <2> QED BY <1>1, <1>5, <1>6, <2>1, <2>2 DEF Wired, StreamsWired
<1>10. AnswerWired(q)
  BY <1>1 DEF Wired, AnswerWired
<1> QED BY <1>7, <1>8, <1>9, <1>10 DEF Wired, q

(* A stream changes: it was announced or is about to be, and one that has  *)
(* ended stays so.                                                         *)
LEMMA StreamWired ==
    ASSUME NEW r \in RelayRecord, Wired(r), NEW s \in Streams,
           NEW st \in {"unused", "running", "aborted", "ended"},
           st # "unused" => Named(r, s) \/ r.answer = s,
           r.streams[s] # "unused" => st # "unused",
           r.streams[s] = "ended" => st = "ended"
    PROVE  Wired([r EXCEPT !.streams[s] = st])
<1> DEFINE q == [r EXCEPT !.streams[s] = st]
<1>1. /\ q.next = r.next /\ q.wire = r.wire /\ q.channel = r.channel
      /\ q.answer = r.answer /\ q.pc = r.pc
      /\ q.streams = [r.streams EXCEPT ![s] = st]
  BY DEF RelayRecord
<1>2. q.streams[s] = st /\ \A t \in Streams \ {s} : q.streams[t] = r.streams[t]
  BY <1>1 DEF RelayRecord
<1> HIDE DEF q
<1>3. WireWired(q)
  BY <1>1 DEF Wired, WireWired, Numbered, Announced, ClosedLast
<1>4. \A t : /\ Named(q, t) = Named(r, t) /\ Over(q, t) = Over(r, t)
             /\ Waits(q, t) = Waits(r, t) /\ EndWaits(q, t) = EndWaits(r, t)
  BY <1>1 DEF Named, Over, Waits, EndWaits
<1>5. ChannelWired(q)
  BY <1>1, <1>2, <1>4 DEF Wired, ChannelWired
<1>6. StreamsWired(q) /\ AnswerWired(q)
  BY <1>1, <1>2, <1>4 DEF Wired, StreamsWired, AnswerWired
<1> QED BY <1>3, <1>5, <1>6 DEF Wired, q

(* A message enters the channel: the stream's end is not yet in it.        *)
LEMMA MessageWired ==
    ASSUME NEW r \in RelayRecord, Wired(r), NEW s \in Streams, NEW kind \in {"event", "closed"},
           NEW q, q.next = r.next, q.wire = r.wire, q.streams = r.streams,
           q.answer = r.answer, q.pc = r.pc,
           q.channel = Append(r.channel, [kind |-> kind, stream |-> s]),
           r.streams[s] # "unused", ~Over(r, s), ~EndWaits(r, s),
           kind = "closed" => r.streams[s] = "ended"
    PROVE  Wired(q)
<1> DEFINE n == Len(r.channel)
           m == [kind |-> kind, stream |-> s]
<1>1. r.channel \in Seq(Messages) /\ n \in Nat
  BY DEF RelayRecord
<1>2. Len(q.channel) = n + 1 /\ q.channel[n + 1] = m /\ \A i \in 1..n : q.channel[i] = r.channel[i]
  BY <1>1
<1>3. m.kind = kind /\ m.stream = s
  OBVIOUS
<1> HIDE DEF m
<1>4. WireWired(q)
  BY DEF Wired, WireWired, Numbered, Announced, ClosedLast
<1>5. \A t : Waits(q, t) => Waits(r, t) \/ t = s
  <2> SUFFICES ASSUME NEW i \in 1..(n + 1) PROVE Waits(r, q.channel[i].stream) \/ q.channel[i].stream = s
    BY <1>2 DEF Waits
  <2> QED BY <1>1, <1>2, <1>3 DEF Waits
<1>6. \A t : EndWaits(q, t) => EndWaits(r, t) \/ (kind = "closed" /\ t = s)
  <2> SUFFICES ASSUME NEW i \in 1..(n + 1), q.channel[i].kind = "closed"
               PROVE  EndWaits(r, q.channel[i].stream) \/ (kind = "closed" /\ q.channel[i].stream = s)
    BY <1>2 DEF EndWaits
  <2> QED BY <1>1, <1>2, <1>3 DEF EndWaits
<1>7. ASSUME NEW i \in 1..(n + 1), NEW j \in 1..(n + 1), i < j, q.channel[i].kind = "closed"
      PROVE  q.channel[j].stream # q.channel[i].stream
  <2>1. i \in 1..n
    BY <1>1, <1>7
  <2>2. CASE j \in 1..n
    BY <1>2, <1>7, <2>1, <2>2 DEF Wired, ChannelWired
  <2>3. CASE j = n + 1
    BY <1>2, <1>3, <1>7, <2>1, <2>3 DEF EndWaits
  <2> QED BY <1>1, <2>2, <2>3
<1>8. ChannelWired(q)
  <2>1. \A t \in Streams : /\ Waits(q, t) => q.streams[t] # "unused"
                           /\ EndWaits(q, t) => q.streams[t] = "ended"
    BY <1>5, <1>6 DEF Wired, ChannelWired
  <2> QED BY <1>2, <1>7, <2>1 DEF ChannelWired
<1>9. StreamsWired(q)
  <2>1. \A t : Named(q, t) = Named(r, t) /\ Over(q, t) = Over(r, t)
    BY DEF Named, Over
  <2> QED BY <1>5, <2>1 DEF Wired, StreamsWired
<1>10. AnswerWired(q)
  BY DEF Wired, AnswerWired
<1> QED BY <1>4, <1>8, <1>9, <1>10 DEF Wired

(* Requests: the answers, a stream that is opened and one that is closed.  *)
LEMMA RespondWired ==
    ASSUME NEW r \in RelayRecord, Wired(r)
    PROVE  Wired(respond(r))
BY FrameWired DEF respond, Wired, StreamsWired

(* The response that was due is written; the loop reads the channel again. *)
LEMMA AnswerWritten ==
    ASSUME NEW r \in RelayRecord, Wired(r)
    PROVE  Wired(LocalApiAnswers(r))
<1> DEFINE q == send_frame(r, "response", r.answer)
           p == [q EXCEPT !.pc = "open", !.answer = "none"]
           n == Len(r.wire)
<1>0. r.answer \in Streams \cup {"none"}
  BY DEF RelayRecord
<1>1. Wired(q)
  BY <1>0, FrameWired DEF Wired, StreamsWired
<1>2. q \in RelayRecord
  BY <1>0, FramesKeep DEF Keeps
<1>3. Named(q, r.answer) /\ q.answer = r.answer
  <2>1. r.wire \in Seq(Frames) /\ n \in Nat
    BY DEF RelayRecord
  <2>2. /\ q.wire = Append(r.wire, [seq |-> r.next, kind |-> "response", stream |-> r.answer])
        /\ q.answer = r.answer
    BY DEF send_frame, RelayRecord
  <2>3. Len(q.wire) = n + 1 /\ q.wire[n + 1].kind = "response" /\ q.wire[n + 1].stream = r.answer
    BY <2>1, <2>2
  <2> QED BY <2>1, <2>2, <2>3 DEF Named
<1> HIDE DEF q
<1>4. /\ p.next = q.next /\ p.wire = q.wire /\ p.channel = q.channel /\ p.streams = q.streams
      /\ p.answer = "none"
  BY <1>2 DEF RelayRecord
<1>5. LocalApiAnswers(r) = p
  BY DEF LocalApiAnswers, q
<1> HIDE DEF p
<1>6. \A t : /\ Named(p, t) = Named(q, t) /\ Over(p, t) = Over(q, t)
             /\ Waits(p, t) = Waits(q, t) /\ EndWaits(p, t) = EndWaits(q, t)
  BY <1>4 DEF Named, Over, Waits, EndWaits
<1>7. WireWired(p)
  BY <1>1, <1>4 DEF Wired, WireWired, Numbered, Announced, ClosedLast
<1>8. ChannelWired(p)
  BY <1>1, <1>4, <1>6 DEF Wired, ChannelWired
<1>9. StreamsWired(p) /\ AnswerWired(p)
  BY <1>1, <1>3, <1>4, <1>6 DEF Wired, StreamsWired, AnswerWired
<1> QED BY <1>5, <1>7, <1>8, <1>9 DEF Wired

(* A stream is spawned when no response is due; its own is from now on.    *)
LEMMA OpenedWired ==
    ASSUME NEW r \in RelayRecord, Wired(r), r.pc = "open", NEW s \in Streams,
           r.streams[s] = "unused"
    PROVE  Wired(handle_local_api_stream(r, s))
<1> DEFINE q == handle_local_api_stream(r, s)
<1>1. /\ q.next = r.next /\ q.wire = r.wire /\ q.channel = r.channel /\ q.pc = "calling"
      /\ q.answer = s /\ q.streams = [r.streams EXCEPT ![s] = "running"]
  BY DEF handle_local_api_stream, RelayRecord
<1>2. q.streams[s] = "running" /\ \A t \in Streams \ {s} : q.streams[t] = r.streams[t]
  BY <1>1 DEF RelayRecord
<1>3. r.answer = "none"
  BY DEF Wired, AnswerWired
<1>4. ~Over(r, s) /\ ~EndWaits(r, s)
  BY DEF Wired, StreamsWired, ChannelWired
<1> HIDE DEF q
<1>5. \A t : /\ Named(q, t) = Named(r, t) /\ Over(q, t) = Over(r, t)
             /\ Waits(q, t) = Waits(r, t) /\ EndWaits(q, t) = EndWaits(r, t)
  BY <1>1 DEF Named, Over, Waits, EndWaits
<1>6. WireWired(q)
  BY <1>1 DEF Wired, WireWired, Numbered, Announced, ClosedLast
<1>7. ChannelWired(q)
  BY <1>1, <1>2, <1>4, <1>5 DEF Wired, ChannelWired
<1>8. StreamsWired(q) /\ AnswerWired(q)
  BY <1>1, <1>2, <1>3, <1>4, <1>5, RpcAssumption DEF Wired, StreamsWired, AnswerWired
<1> QED BY <1>6, <1>7, <1>8 DEF Wired, q

LEMMA ClosedWired ==
    ASSUME NEW r \in RelayRecord, Wired(r), NEW s \in Streams
    PROVE  Wired(handle_local_api_stream_close(r, s))
<1> DEFINE st == IF r.streams[s] = "running" THEN "aborted" ELSE r.streams[s]
           q == [r EXCEPT !.streams[s] = st]
<1>1. st \in {"unused", "running", "aborted", "ended"} /\ st \in {"aborted", r.streams[s]}
      /\ (st = "aborted" => r.streams[s] \in {"running", "aborted"})
  BY DEF RelayRecord
<1>2. handle_local_api_stream_close(r, s) = respond(q)
  BY DEF handle_local_api_stream_close
<1>0. /\ st # "unused" => Named(r, s) \/ r.answer = s
      /\ r.streams[s] # "unused" => st # "unused"
      /\ r.streams[s] = "ended" => st = "ended"
  BY DEF Wired, StreamsWired
<1> HIDE DEF st
<1>3. Wired(q)
  BY <1>0, <1>1, StreamWired
<1>4. q \in RelayRecord
  BY <1>1 DEF RelayRecord
<1> HIDE DEF q
<1> QED BY <1>2, <1>3, <1>4, RespondWired

(* What a stream's task delivers.                                          *)
LEMMA DeliveredWired ==
    ASSUME NEW r \in RelayRecord, Wired(r), NEW s \in Streams, r.streams[s] = "running"
    PROVE  Wired(run_local_api_stream(r, s)) /\ Wired(spawn_local_api_stream(r, s))
<1> DEFINE ended == [r EXCEPT !.streams[s] = "ended"]
<1>1. (Named(r, s) \/ r.answer = s) /\ ~Over(r, s) /\ ~EndWaits(r, s)
  BY DEF Wired, StreamsWired, ChannelWired
<1>2. Wired(ended)
  BY <1>1, StreamWired
<1>3. ended \in RelayRecord
  BY DEF RelayRecord
<1>4. /\ ended.next = r.next /\ ended.wire = r.wire /\ ended.channel = r.channel
      /\ ended.answer = r.answer /\ ended.pc = r.pc /\ ended.streams[s] = "ended"
  BY DEF RelayRecord
<1>5. Wired(run_local_api_stream(r, s))
  <2> DEFINE q == [r EXCEPT !.channel = Append(@, [kind |-> "event", stream |-> s]),
                            !.delivered[s] = @ + 1]
  <2>1. /\ q.next = r.next /\ q.wire = r.wire /\ q.streams = r.streams
        /\ q.answer = r.answer /\ q.pc = r.pc
        /\ q.channel = Append(r.channel, [kind |-> "event", stream |-> s])
    BY DEF RelayRecord
  <2>2. run_local_api_stream(r, s) \in {q, ended}
    BY DEF run_local_api_stream
  <2> HIDE DEF q
  <2>3. Wired(q)
    BY <1>1, <2>1, MessageWired
  <2> QED BY <1>2, <2>2, <2>3
<1>6. Wired(spawn_local_api_stream(r, s))
  <2> DEFINE q == [ended EXCEPT !.channel = Append(@, [kind |-> "closed", stream |-> s])]
  <2>1. spawn_local_api_stream(r, s) \in {q, ended}
    BY DEF spawn_local_api_stream
  <2>2. ~Over(ended, s) /\ ~EndWaits(ended, s)
    BY <1>1, <1>4 DEF Over, EndWaits
  <2> HIDE DEF ended
  <2>3. /\ q.next = ended.next /\ q.wire = ended.wire /\ q.streams = ended.streams
        /\ q.answer = ended.answer /\ q.pc = ended.pc
        /\ q.channel = Append(ended.channel, [kind |-> "closed", stream |-> s])
    BY <1>3 DEF RelayRecord
  <2> HIDE DEF q
  <2>4. Wired(q)
    BY <1>2, <1>3, <1>4, <2>2, <2>3, MessageWired
  <2> QED BY <1>2, <2>1, <2>4
<1> QED BY <1>5, <1>6

(* The first message of the channel goes on the wire.                      *)
LEMMA NotifiedWired ==
    ASSUME NEW r \in RelayRecord, Wired(r), r.pc = "open", r.channel # <<>>
    PROVE  Wired(relay_notification(r))
<1> DEFINE q == [r EXCEPT !.channel = Tail(r.channel)]
           m == Head(r.channel)
           n == Len(r.channel)
<1>1. r.channel \in Seq(Messages) /\ n \in Nat \ {0} /\ m = r.channel[1]
  BY DEF RelayRecord
<1>2. /\ q.next = r.next /\ q.wire = r.wire /\ q.streams = r.streams
      /\ q.channel = Tail(r.channel) /\ q.answer = r.answer /\ q.pc = r.pc
  BY DEF RelayRecord
<1>3. relay_notification(r) = send_frame(q, m.kind, m.stream)
  BY DEF relay_notification
<1>4. q \in RelayRecord
  <2>1. Tail(r.channel) \in Seq(Messages)
    BY <1>1
  <2> QED BY <2>1 DEF RelayRecord
<1>5. m.kind \in {"event", "closed"} /\ m.stream \in Streams
  <2>1. r.channel[1] \in Messages
    BY <1>1
  <2> QED BY <1>1, <2>1 DEF Messages
<1> HIDE DEF q
<1>6. Len(q.channel) = n - 1 /\ \A i \in 1..(n - 1) : q.channel[i] = r.channel[i + 1]
  BY <1>1, <1>2
<1>7. \A t : /\ Named(q, t) = Named(r, t) /\ Over(q, t) = Over(r, t)
             /\ Waits(q, t) => Waits(r, t)
             /\ EndWaits(q, t) => EndWaits(r, t)
  BY <1>1, <1>2, <1>6 DEF Named, Over, Waits, EndWaits
<1>8. Wired(q)
  <2>1. WireWired(q)
    BY <1>2 DEF Wired, WireWired, Numbered, Announced, ClosedLast
  <2>2. ASSUME NEW i \in 1..(n - 1), NEW j \in 1..(n - 1), i < j, q.channel[i].kind = "closed"
        PROVE  q.channel[j].stream # q.channel[i].stream
    <3>1. i + 1 \in 1..n /\ j + 1 \in 1..n /\ i + 1 < j + 1
      BY <1>1, <2>2
    <3> QED BY <1>6, <2>2, <3>1 DEF Wired, ChannelWired
  <2>3. ChannelWired(q)
    BY <1>2, <1>6, <1>7, <2>2 DEF Wired, ChannelWired
  <2>4. StreamsWired(q) /\ AnswerWired(q)
    BY <1>2, <1>7 DEF Wired, StreamsWired, AnswerWired
  <2> QED BY <2>1, <2>3, <2>4 DEF Wired
<1>9. Named(q, m.stream) /\ ~Over(q, m.stream) /\ m.stream # q.answer
  <2>1. Waits(r, m.stream)
    BY <1>1 DEF Waits
  <2>2. r.answer = "none" /\ m.stream # "none"
    BY <1>5, RpcAssumption DEF Wired, AnswerWired
  <2> QED BY <1>2, <1>5, <1>7, <2>1, <2>2 DEF Wired, ChannelWired, StreamsWired
<1>10. m.kind = "closed" => q.streams[m.stream] = "ended" /\ ~Waits(q, m.stream)
  <2> SUFFICES ASSUME m.kind = "closed" PROVE q.streams[m.stream] = "ended" /\ ~Waits(q, m.stream)
    OBVIOUS
  <2>1. EndWaits(r, m.stream)
    BY <1>1 DEF EndWaits
  <2>2. \A i \in 1..(n - 1) : q.channel[i].stream # m.stream
    <3> TAKE i \in 1..(n - 1)
    <3>1. i + 1 \in 1..n /\ 1 < i + 1 /\ 1 \in 1..n
      BY <1>1
    <3> QED BY <1>1, <1>6, <3>1 DEF Wired, ChannelWired
  <2> QED BY <1>2, <1>5, <1>6, <2>1, <2>2 DEF Wired, ChannelWired, Waits
<1> HIDE DEF m
<1> QED BY <1>3, <1>4, <1>5, <1>8, <1>9, <1>10, FrameWired

LEMMA RelayWired ==
    ASSUME IInv, NEW k \in Relays, RelayStep(k), Wired(relays[k])
    PROVE  Wired(relays'[k]) /\ \A j \in Relays \ {k} : relays'[j] = relays[j]
<1>0. relays[k] \in RelayRecord /\ relays \in [Relays -> RelayRecord]
  BY DEF IInv, Typed, ConnectionsTyped
<1> DEFINE To(r) == Step(k, r) /\ Wired(r)
<1>1. ASSUME NEW r, To(r)
      PROVE  Wired(relays'[k]) /\ \A j \in Relays \ {k} : relays'[j] = relays[j]
  BY <1>0, <1>1 DEF Step
<1>2. CASE RelayOpens(k)
  <2>1. Wired([relays[k] EXCEPT !.pc = "open"])
    BY <1>0, <1>2, WiredParts DEF RelayOpens, Relay, RelayRecord, Wired, AnswerWired
  <2> QED BY <1>1, <1>2, <2>1 DEF RelayOpens, Relay
<1>3. CASE RelayEnds(k)
  BY <1>0, <1>1, <1>3, StopWired DEF RelayEnds, Relay
<1>4. CASE RelayRequest(k)
  <2>0. relays[k].pc = "open"
    BY <1>4 DEF RelayRequest, Serves, Relay
  <2>1. CASE Step(k, respond(relays[k]))
    BY <1>0, <1>1, <2>1, RespondWired
  <2>2. CASE Step(k, handle_local_api_request(relays[k]))
    <3>1. Wired(handle_local_api_request(relays[k]))
      BY <1>0, WiredParts DEF handle_local_api_request, RelayRecord, AnswerWired
    <3> QED BY <1>1, <2>2, <3>1
  <2>3. ASSUME NEW s \in Streams, relays[k].streams[s] = "unused",
               Step(k, handle_local_api_stream(relays[k], s))
        PROVE  To(handle_local_api_stream(relays[k], s))
    BY <1>0, <2>0, <2>3, OpenedWired
  <2>4. ASSUME NEW s \in Streams, Step(k, handle_local_api_stream_close(relays[k], s))
        PROVE  To(handle_local_api_stream_close(relays[k], s))
    BY <1>0, <2>4, ClosedWired
  <2> HIDE DEF To
  <2> QED BY <1>1, <1>4, <2>1, <2>2, <2>3, <2>4 DEF RelayRequest, Relay
<1>5. CASE RequestAnswered(k)
  BY <1>0, <1>1, <1>5, AnswerWritten DEF RequestAnswered, Relay
<1>6. CASE RelayNotifies(k)
  BY <1>0, <1>1, <1>6, NotifiedWired DEF RelayNotifies, Serves, Relay
<1>7. ASSUME NEW s \in Streams, Delivers(k, s) \/ StreamEnds(k, s)
      PROVE  Wired(relays'[k]) /\ \A j \in Relays \ {k} : relays'[j] = relays[j]
  BY <1>0, <1>1, <1>7, DeliveredWired DEF Delivers, StreamEnds, Relay
<1> QED BY <1>2, <1>3, <1>4, <1>5, <1>6, <1>7 DEF RelayStep

(* The other steps stop relays, start one afresh or leave them alone.      *)
AllWired == \A k \in Relays : Wired(relays[k])

LEMMA AbortWired ==
    ASSUME ConnectionsTyped, AllWired, NEW T
    PROVE  \A k \in Relays : Wired(Abort(T)[k])
BY StopWired DEF Abort, AllWired, ConnectionsTyped

LEMMA NewWired == \A c : Wired(NewRelay(c))
<1> TAKE c
<1>1. /\ NewRelay(c).next = 1 /\ NewRelay(c).wire = <<>> /\ NewRelay(c).channel = <<>>
      /\ NewRelay(c).answer = "none" /\ \A s \in Streams : NewRelay(c).streams[s] = "unused"
  BY DEF NewRelay, NoRelay
<1> QED BY <1>1, EmptyWired

LEMMA WiredKept == IInv /\ AllWired /\ [Next]_vars => AllWired'
<1> SUFFICES ASSUME IInv, AllWired, [Next]_vars PROVE AllWired'
  OBVIOUS
<1>0. ConnectionsTyped
  BY DEF IInv, Typed
<1>1. ASSUME UNCHANGED relays PROVE AllWired'
  BY <1>1 DEF AllWired
<1>2. ASSUME NEW T, relays' = Abort(T) PROVE AllWired'
  BY <1>0, <1>2, AbortWired DEF AllWired
<1>3. CASE UNCHANGED vars
  BY <1>1, <1>3 DEF vars
<1>4. CASE CommandStep \/ Revoke
  BY <1>1, <1>4 DEF CommandStep, Revoke, save_remote_settings, clear_remote_binding,
         start_remote_login, poll_remote_login, PollAgain, poll_remote_login_session,
         save_credential, apply_remote_binding_result, BindingFails
<1>5. CASE AgentStep \/ LoadFails \/ ConnectFails
  BY <1>1, <1>5 DEF AgentStep, LoadFails, ConnectFails, load_config, sleep_or_wake, connect_async,
         create_webrtc_answer
<1>6. ASSUME NEW s \in {"Reconnecting", "Error", "TokenRevoked"}, SocketCloses(s) PROVE AllWired'
  BY <1>2, <1>6 DEF SocketCloses, abort_all_relays
<1>7. ASSUME NEW c \in Connections, NEW transport \in {"webrtc", "relay"}, NEW token \in BOOLEAN,
             handle_invite(c, transport, token)
      PROVE  AllWired'
  <2>1. ASSUME NEW k \in Relays, replace_relay_task(c, k) PROVE AllWired'
    <3>1. relays' = [Abort(Tasks) EXCEPT ![k] = NewRelay(c)]
      BY <2>1 DEF replace_relay_task
    <3>2. \A j \in Relays : relays'[j] \in {NewRelay(c), Abort(Tasks)[j]}
      BY <3>1 DEF Abort
    <3> QED BY <1>0, <3>2, AbortWired, NewWired DEF AllWired
  <2> QED BY <1>1, <1>2, <1>7, <2>1
      DEF handle_invite, apply_connection_invite_relay_lifecycle, abort_all_relays
<1>8. ASSUME NEW c \in Connections, handle_offer_async(c) \/ handle_cancel(c) PROVE AllWired'
  BY <1>1, <1>2, <1>8 DEF handle_offer_async, handle_cancel
<1>9. ASSUME NEW k \in Relays, RelayStep(k) PROVE AllWired'
  BY <1>9, RelayWired DEF AllWired
<1> QED BY <1>3, <1>4, <1>5, <1>6, <1>7, <1>8, <1>9 DEF Next, SignalStep

LEMMA WiredInit == Init => AllWired
<1> SUFFICES ASSUME Init, NEW k \in Relays PROVE Wired(relays[k])
  BY DEF AllWired
<1>1. relays[k] = NoRelay
  BY DEF Init
<1>2. /\ NoRelay.next = 1 /\ NoRelay.wire = <<>> /\ NoRelay.channel = <<>>
      /\ NoRelay.answer = "none" /\ \A s \in Streams : NoRelay.streams[s] = "unused"
  BY DEF NoRelay
<1> QED BY <1>1, <1>2, EmptyWired

(* However requests, streams that end by themselves or on request, and     *)
(* aborts interleave, a relay's frames are numbered without a gap, a stream*)
(* is named before it delivers, and nothing of it follows its end          *)
(* (run_device_relay_once, run_local_api_stream).                          *)
THEOREM FramesInOrder == Spec => []WireInOrder
<1>1. AllWired => WireInOrder
  BY DEF AllWired, Wired, WireWired, WireInOrder
<1> QED BY <1>1, InitEstablishes, StepKeeps, WiredInit, WiredKept, PTL DEF Spec
=============================================================================
