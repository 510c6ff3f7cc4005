----------------------------- MODULE RemoteAgent -----------------------------
(***************************************************************************)
(* The remote agent of the desktop app: a thread that holds a WebSocket to *)
(* the remote server while remote access is on, takes invitations of       *)
(* remote clients, and keeps the session of one connection at a time,      *)
(* which goes over a relay or over WebRTC; and the commands by which the   *)
(* user changes the settings and binds the device.                         *)
(*                                                                         *)
(* The agent and its tasks share one runtime thread: they interleave where *)
(* they wait.  The remote server and its clients are external.  Of WebRTC  *)
(* only the manager's table is modelled: a peer that leaves it is not      *)
(* closed by the code, and neither its data channels nor the calls over    *)
(* them are here (the relay's calls are in module RemoteRpc).              *)
(***************************************************************************)
EXTENDS RemoteRpc, FiniteSets

CONSTANTS
    Servers,      \* server_url
    Connections,  \* connection_id
    ClientOf,     \* client_id of each connection
    Relays,       \* bound: relay tasks that may be started, 1..n
    MaxFrames,    \* bound: frames one relay sends
    Starts,       \* bound: initial settings, and how often things happen
    None

ASSUME RemoteAssumption ==
    /\ None \notin Servers \cup Connections
    /\ Relays \subseteq Nat \ {0} /\ MaxFrames \in Nat
    /\ \A b \in Starts : /\ b.server \in Servers /\ b.bound \in BOOLEAN
                        /\ {b.messages, b.faults, b.saves, b.logins, b.requests} \subseteq Nat

VARIABLES
    config,       \* RemoteConfig on disk
    credentials,  \* device token on disk for each server, 0: none
    server,       \* external: tokens issued and revoked
    login,        \* the login the user is in
    agent,        \* run_agent_loop, and the config it connected with
    wake,         \* RemoteAgentWake
    sessions,     \* sessions of the RemoteSignalingManager
    webrtc,       \* its webrtc_sessions
    relay_tasks,  \* the socket's table of relays
    relays,       \* the relay tasks
    status,       \* RemoteAgentStatus
    budget,       \* what is left of the bounds
    log           \* history

vars == <<config, credentials, server, login, agent, wake, sessions, webrtc, relay_tasks,
          relays, status, budget, log>>
user == <<config, credentials, server, login>>
signaling == <<sessions, webrtc>>

NoLogin == [pc |-> "none", server |-> None, polled |-> None]

Spend(what) == budget[what] > 0 /\ budget' = [budget EXCEPT ![what] = @ - 1]
Goto(pc) == agent' = [agent EXCEPT !.pc = pc]
SetState(s) == status' = [status EXCEPT !.state = s]

(***************************************************************************)
(* Settings and binding (commands of the desktop app).                     *)
(***************************************************************************)
\* Mutant: the device stays when the server changes.
save_settings_keeping_device(s, access, control) ==
    /\ Spend("saves")
    /\ config' = [config EXCEPT !.server = s, !.access = access, !.control = control]
    /\ UNCHANGED <<credentials, server, login, agent, wake, signaling, relay_tasks, relays,
                   status, log>>

save_remote_settings(s, access, control) ==
    /\ Spend("saves")
    /\ config' = [server |-> s, access |-> access, control |-> control,
                  device |-> IF config.server # s THEN None ELSE config.device]
    /\ UNCHANGED <<credentials, server, login, agent, wake, signaling, relay_tasks, relays,
                   status, log>>

clear_remote_binding ==
    /\ Spend("saves")
    /\ config' = [config EXCEPT !.device = None]
    /\ UNCHANGED <<credentials, server, login, agent, wake, signaling, relay_tasks, relays,
                   status, log>>

start_remote_login ==
    /\ config.access /\ login.pc = "none" /\ Spend("logins")
    /\ login' = [NoLogin EXCEPT !.pc = "started", !.server = config.server]
    /\ UNCHANGED <<config, credentials, server, agent, wake, signaling, relay_tasks, relays,
                   status, log>>

poll_remote_login ==
    /\ login.pc = "started"
    /\ login' = [login EXCEPT !.pc = "polling", !.polled = config.server]
    /\ UNCHANGED <<config, credentials, server, agent, wake, signaling, relay_tasks, relays,
                   status, budget, log>>

\* Not yet confirmed, or a server that does not know the request.
PollAgain ==
    /\ login.pc = "polling"
    /\ login' = [login EXCEPT !.pc = "started"]
    /\ UNCHANGED <<config, credentials, server, agent, wake, signaling, relay_tasks, relays,
                   status, budget, log>>

\* The user confirmed: the secret is taken, the token is a new one.
poll_remote_login_session ==
    /\ login.pc = "polling" /\ login.polled = login.server
    /\ login' = [login EXCEPT !.pc = "confirmed"]
    /\ server' = [server EXCEPT !.issued = @ + 1]
    /\ UNCHANGED <<config, credentials, agent, wake, signaling, relay_tasks, relays, status,
                   budget, log>>

save_credential ==
    /\ login.pc = "confirmed"
    /\ credentials' = [credentials EXCEPT ![login.polled] = server.issued]
    /\ login' = [login EXCEPT !.pc = "saved"]
    /\ UNCHANGED <<config, server, agent, wake, signaling, relay_tasks, relays, status, budget,
                   log>>

apply_remote_binding_result ==
    /\ login.pc = "saved"
    /\ config' = [config EXCEPT !.server = login.polled, !.device = login.polled]
    /\ login' = NoLogin
    /\ wake' = TRUE
    /\ UNCHANGED <<credentials, server, agent, signaling, relay_tasks, relays, status, budget,
                   log>>

\* The token or the config cannot be written.
BindingFails ==
    /\ login.pc \in {"confirmed", "saved"} /\ Spend("faults")
    /\ login' = NoLogin
    /\ UNCHANGED <<config, credentials, server, agent, wake, signaling, relay_tasks, relays,
                   status, log>>

Revoke ==
    /\ server.issued \notin server.revoked /\ Spend("faults")
    /\ server' = [server EXCEPT !.revoked = @ \cup {server.issued}]
    /\ UNCHANGED <<config, credentials, login, agent, wake, signaling, relay_tasks, relays,
                   status, log>>

(***************************************************************************)
(* The agent's loop.                                                       *)
(***************************************************************************)
\* Mutant: a bound device connects whether or not remote access is on.
startup_state_of_binding ==
    IF credentials[config.server] = 0 \/ config.device = None THEN "NotConfigured"
    ELSE "Connecting"

startup_state ==
    IF ~config.access THEN "Disabled"
    ELSE IF credentials[config.server] = 0 \/ config.device = None THEN "NotConfigured"
    ELSE "Connecting"

load_config ==
    /\ agent.pc = "load"
    /\ SetState(startup_state)
    /\ agent' = IF startup_state = "Connecting"
                THEN [pc |-> "connect", config |-> config, token |-> credentials[config.server],
                      offer |-> None]
                ELSE [agent EXCEPT !.pc = "sleep"]
    /\ UNCHANGED <<user, wake, signaling, relay_tasks, relays, budget, log>>

LoadFails ==
    /\ agent.pc = "load" /\ Spend("faults")
    /\ SetState("Error") /\ Goto("sleep")
    /\ UNCHANGED <<user, wake, signaling, relay_tasks, relays, log>>

\* Its time is over, or it was woken.
sleep_or_wake ==
    /\ agent.pc = "sleep"
    /\ Goto("load") /\ wake' \in {wake, FALSE}
    /\ UNCHANGED <<user, signaling, relay_tasks, relays, status, budget, log>>

connect_async ==
    /\ agent.pc = "connect"
    /\ Goto("socket") /\ SetState("Online")
    /\ relay_tasks' = [c \in Connections |-> 0]
    /\ UNCHANGED <<user, wake, signaling, relays, budget, log>>

ConnectFails ==
    /\ agent.pc = "connect" /\ Spend("faults")
    /\ Goto("sleep") /\ SetState("Reconnecting")
    /\ UNCHANGED <<user, wake, signaling, relay_tasks, relays, log>>

\* Relays a step stops, each with its streams' receiver.
Abort(tasks) == [k \in Relays |-> IF k \in tasks /\ Live(relays[k])
                                  THEN Stop(relays[k], "aborted") ELSE relays[k]]
Tasks == {relay_tasks[c] : c \in Connections} \ {0}
abort_all_relays == relays' = Abort(Tasks)

classify_device_socket_close ==
    {"Reconnecting", "Error"} \cup IF agent.token \in server.revoked THEN {"TokenRevoked"} ELSE {}

\* Mutant: a broken connection ends the loop.
state_after_any_close(s) == "ended"

state_after_socket_result(s) == IF s = "TokenRevoked" THEN "ended" ELSE "sleep"

SocketCloses(s) ==
    /\ agent.pc = "socket" /\ s \in classify_device_socket_close
    /\ IF s = "TokenRevoked" THEN UNCHANGED budget ELSE Spend("faults")
    /\ abort_all_relays
    /\ SetState(s) /\ Goto(state_after_socket_result(s))
    /\ credentials' = IF s = "TokenRevoked"
                      THEN [credentials EXCEPT ![agent.config.server] = 0] ELSE credentials
    /\ UNCHANGED <<config, server, login, wake, signaling, relay_tasks, log>>

(***************************************************************************)
(* Signals of the remote server (run_device_socket_once,                   *)
(* RemoteSignalingManager).  ICE candidates, answers and unknown messages  *)
(* change nothing here.                                                    *)
(***************************************************************************)
Receive == agent.pc = "socket" /\ Spend("messages")
RelayOver(c) ==
    /\ c \notin webrtc
    /\ \E k \in Relays : relays[k].connection = c
    /\ \A k \in Relays : relays[k].connection = c => ~Live(relays[k])

\* Mutant: relays of other connections go on.
replace_own_relay_task(c, k) ==
    /\ relays' = [Abort({relay_tasks[c]}) EXCEPT ![k] = NewRelay(c)]
    /\ relay_tasks' = [relay_tasks EXCEPT ![c] = k]

replace_relay_task(c, k) ==
    /\ relays' = [Abort(Tasks) EXCEPT ![k] = NewRelay(c)]
    /\ relay_tasks' = [d \in Connections |-> IF d = c THEN k ELSE 0]

\* A relay that is still entered stays when its connection goes on to WebRTC.
apply_connection_invite_relay_lifecycle(c, transport, token) ==
    \/ /\ transport = "webrtc" /\ relay_tasks[c] # 0
       /\ UNCHANGED <<relay_tasks, relays>>
    \/ /\ \/ transport = "webrtc" /\ relay_tasks[c] = 0
          \/ transport = "relay" /\ ~token
       /\ abort_all_relays
       /\ relay_tasks' = [d \in Connections |-> 0]
    \/ /\ transport = "relay" /\ token
       /\ \E k \in Relays :
             /\ relays[k] = NoRelay /\ \A j \in Relays : j < k => relays[j] # NoRelay
             /\ replace_relay_task(c, k)

\* Mutant: any new invitation replaces the old connection.
replaces_always(c) == TRUE

\* No connection but this one, or only connections of the same client.
may_replace(c) == \A d \in sessions : ClientOf[d] = ClientOf[c]

accept_invite(c, transport) ==
    /\ sessions' = IF c \in sessions THEN sessions ELSE {c}
    /\ webrtc' = IF sessions # {} /\ c \notin sessions THEN {} ELSE webrtc
    /\ status' = [status EXCEPT !.active = c,
                      !.available = IF transport = "relay" THEN @ \cup {"relay"} ELSE @,
                      !.selected = IF transport = "relay" THEN "relay" ELSE @]

handle_invite(c, transport, token) ==
    /\ Receive
    /\ IF ~agent.config.control
       THEN UNCHANGED <<signaling, relay_tasks, relays, status, log>>
       ELSE IF c \in sessions \/ may_replace(c)
       THEN /\ accept_invite(c, transport)
            /\ apply_connection_invite_relay_lifecycle(c, transport, token)
            /\ UNCHANGED log
       ELSE /\ log' = [log EXCEPT !.busy = @ \cup {<<c, RelayOver(d)>> : d \in sessions}]
            /\ UNCHANGED <<signaling, relay_tasks, relays, status>>
    /\ UNCHANGED <<user, agent, wake>>

\* The answer is worked out while the tasks of the runtime go on.
handle_offer_async(c) ==
    /\ Receive
    /\ agent' = IF c \in sessions /\ agent.config.control
                THEN [agent EXCEPT !.pc = "offer", !.offer = c] ELSE agent
    /\ UNCHANGED <<user, wake, signaling, relay_tasks, relays, status, log>>

create_webrtc_answer ==
    /\ agent.pc = "offer"
    /\ agent' = [agent EXCEPT !.pc = "socket", !.offer = None]
    /\ \/ /\ webrtc' = webrtc \cup {agent.offer}
          /\ status' = [status EXCEPT !.available = @ \cup {"webrtc"}, !.selected = "webrtc"]
       \/ UNCHANGED <<webrtc, status>>
    /\ UNCHANGED <<user, wake, sessions, relay_tasks, relays, budget, log>>

handle_cancel(c) ==
    /\ Receive
    /\ relays' = Abort({relay_tasks[c]})
    /\ relay_tasks' = [relay_tasks EXCEPT ![c] = 0]
    /\ sessions' = sessions \ {c} /\ webrtc' = webrtc \ {c}
    /\ status' = [status EXCEPT !.active = None, !.selected = None, !.available = {}]
    /\ UNCHANGED <<user, agent, wake, log>>

(***************************************************************************)
(* The relay tasks.                                                        *)
(***************************************************************************)
Relay(k) == relays[k]
Step(k, r) == relays' = [relays EXCEPT ![k] = r]
RelayOnly == UNCHANGED <<user, agent, wake, signaling, relay_tasks, status, log>>

clear_session(c) ==
    IF c \notin sessions THEN UNCHANGED <<signaling, status>>
    ELSE /\ sessions' = sessions \ {c} /\ webrtc' = webrtc \ {c}
         /\ status' = IF status.active # c THEN status
                      ELSE [status EXCEPT !.active = None, !.selected = None, !.available = {}]

RelayOpens(k) ==
    /\ Relay(k).pc = "connecting"
    /\ Step(k, [Relay(k) EXCEPT !.pc = "open"])
    /\ RelayOnly /\ UNCHANGED budget

\* Closed, broken, or a frame or request envelope it cannot read.
RelayEnds(k) ==
    /\ Live(Relay(k)) /\ Spend("faults")
    /\ Step(k, Stop(Relay(k), "ended"))
    /\ clear_session(Relay(k).connection)
    /\ UNCHANGED <<user, agent, wake, relay_tasks, log>>

Serves(k) == Relay(k).pc = "open" /\ Len(Relay(k).wire) < MaxFrames

RelayRequest(k) ==
    /\ Serves(k) /\ Spend("requests")
    /\ \/ Step(k, respond(Relay(k)))
       \/ Step(k, handle_local_api_request(Relay(k)))
       \/ \E s \in Streams : /\ Relay(k).streams[s] = "unused"
                             /\ Step(k, handle_local_api_stream(Relay(k), s))
       \/ \E s \in Streams : Step(k, handle_local_api_stream_close(Relay(k), s))
    /\ RelayOnly

RequestAnswered(k) ==
    /\ Relay(k).pc = "calling" /\ Len(Relay(k).wire) < MaxFrames
    /\ Step(k, LocalApiAnswers(Relay(k)))
    /\ RelayOnly /\ UNCHANGED budget

\* Mutant: notifications are sent by a task of their own, beside the requests.
notifies_beside_requests(k) ==
    /\ Relay(k).pc \in {"open", "calling"} /\ Len(Relay(k).wire) + 1 < MaxFrames
    /\ Relay(k).channel # <<>>
    /\ Step(k, relay_notification(Relay(k)))
    /\ RelayOnly /\ UNCHANGED budget

RelayNotifies(k) ==
    /\ Serves(k) /\ Relay(k).channel # <<>>
    /\ Step(k, relay_notification(Relay(k)))
    /\ RelayOnly /\ UNCHANGED budget

Delivers(k, s) ==
    /\ Relay(k).streams[s] = "running"
    /\ Live(Relay(k)) => Relay(k).delivered[s] < MaxFrames
    /\ Step(k, run_local_api_stream(Relay(k), s))
    /\ RelayOnly /\ UNCHANGED budget

StreamEnds(k, s) ==
    /\ Relay(k).streams[s] = "running"
    /\ Step(k, spawn_local_api_stream(Relay(k), s))
    /\ RelayOnly /\ UNCHANGED budget

(***************************************************************************)
(* Specification.                                                          *)
(***************************************************************************)
Init ==
    /\ budget \in Starts
    /\ config = [server |-> budget.server, access |-> TRUE, control |-> TRUE,
                 device |-> IF budget.bound THEN budget.server ELSE None]
    /\ credentials = [s \in Servers |-> IF budget.bound /\ s = budget.server THEN 1 ELSE 0]
    /\ server = [issued |-> IF budget.bound THEN 1 ELSE 0, revoked |-> {}]
    /\ login = NoLogin
    /\ agent = [pc |-> "load", config |-> config, token |-> 0, offer |-> None]
    /\ wake = FALSE
    /\ sessions = {} /\ webrtc = {}
    /\ relay_tasks = [c \in Connections |-> 0]
    /\ relays = [k \in Relays |-> NoRelay]
    /\ status = [state |-> "NotConfigured", active |-> None, selected |-> None, available |-> {}]
    /\ log = [busy |-> {}]

CommandStep ==
    \/ \E s \in Servers, access, control \in BOOLEAN : save_remote_settings(s, access, control)
    \/ clear_remote_binding \/ start_remote_login \/ poll_remote_login \/ PollAgain
    \/ poll_remote_login_session \/ save_credential \/ apply_remote_binding_result
    \/ BindingFails

SignalStep ==
    \/ \E c \in Connections, transport \in {"webrtc", "relay"}, token \in BOOLEAN :
           handle_invite(c, transport, token)
    \/ \E c \in Connections : handle_offer_async(c) \/ handle_cancel(c)

AgentStep ==
    \/ load_config \/ sleep_or_wake \/ connect_async \/ create_webrtc_answer

RelayStep(k) ==
    \/ RelayOpens(k) \/ RelayEnds(k) \/ RelayRequest(k) \/ RequestAnswered(k) \/ RelayNotifies(k)
    \/ \E s \in Streams : Delivers(k, s) \/ StreamEnds(k, s)

Next ==
    \/ CommandStep \/ Revoke
    \/ AgentStep \/ LoadFails \/ ConnectFails
    \/ \E s \in {"Reconnecting", "Error", "TokenRevoked"} : SocketCloses(s)
    \/ SignalStep
    \/ \E k \in Relays : RelayStep(k)

\* The runtime thread runs, and an open stream delivers a keep-alive every few
\* seconds (KeepAlive of the Local API's streams).
Fairness ==
    /\ WF_vars(AgentStep)
    /\ \A k \in Relays, s \in Streams : WF_vars(Delivers(k, s))

Spec == Init /\ [][Next]_vars
FairSpec == Spec /\ Fairness

(***************************************************************************)
(* Properties.                                                             *)
(***************************************************************************)
TypeOK ==
    /\ config \in [server : Servers, access : BOOLEAN, control : BOOLEAN,
                   device : Servers \cup {None}]
    /\ credentials \in [Servers -> 0..server.issued]
    /\ login.pc \in {"none", "started", "polling", "confirmed", "saved"}
    /\ agent.pc \in {"load", "connect", "socket", "offer", "sleep", "ended"}
    /\ agent.pc \in {"connect", "socket", "offer"} => agent.config.access
    /\ sessions \subseteq Connections /\ webrtc \subseteq Connections
    /\ relay_tasks \in [Connections -> Relays \cup {0}]
    /\ status.available \subseteq {"relay", "webrtc"}

StatusNamesSession == status.active # None => status.active \in sessions

\* The agent keeps one session at most, every relay that runs is of the connection
\* of that session, one relay runs at most, and the status shows no connection but
\* the session's, however connections were replaced, cancelled or cut
\* (replace_relay_task, abort_relay_for_connection, clear_session).  It says nothing
\* of WebRTC peers, which outlive their session.
RelaysServeSession ==
    /\ StatusNamesSession
    /\ Cardinality(sessions) <= 1
    /\ \A k \in Relays : Live(relays[k]) => relays[k].connection \in sessions
    /\ \A j, k \in Relays : Live(relays[j]) /\ Live(relays[k]) => j = k

StaysWithClient ==
    /\ \A c \in sessions, d \in sessions' : c \notin sessions' => ClientOf[c] = ClientOf[d]
    /\ \A k \in Relays, d \in sessions' :
          Live(relays[k]) /\ relays'[k].pc = "aborted"
              => ClientOf[relays[k].connection] = ClientOf[d]

\* Another client's invitation never costs a client its connection, where each
\* connection is of one client (ClientOf): neither the session nor the relay that
\* serves it goes to anyone but the same client
\* (handle_invite, apply_connection_invite_relay_lifecycle).
NotTakenOver == [][StaysWithClient]_vars

\* The device in the settings is one of the server in the settings, however
\* saving and logging in interleave (save_remote_settings_to_store,
\* apply_remote_binding_result).
DeviceOfServer == config.device \in {config.server, None}

\* The frames of a relay come in order: numbered without a gap, each stream
\* named before it delivers, and nothing after its end (run_device_relay_once).
WireInOrder == \A k \in Relays : Numbered(relays[k]) /\ Announced(relays[k]) /\ ClosedLast(relays[k])

\* A device that is bound and whose token is good comes online again after every
\* failure, unless the user changes the settings or an earlier token was revoked
\* (run_agent_loop).
Bound == /\ config.access /\ config.device # None /\ credentials[config.server] # 0
         /\ credentials[config.server] \notin server.revoked /\ status.state # "TokenRevoked"
ComesOnline == Bound ~> status.state = "Online" \/ ~Bound

\* The streams of a relay end after it (run_local_api_stream).
StreamsEnd ==
    \A k \in Relays : relays[k].pc \in {"ended", "aborted"}
        ~> \A s \in Streams : relays[k].streams[s] # "running"

\* Another client is told busy only while the connection is in use: its session
\* is released when its relay ends.
BusyMeansInUse == \A x \in log.busy : ~x[2]
=============================================================================
