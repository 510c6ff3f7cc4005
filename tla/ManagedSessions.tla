--------------------------- MODULE ManagedSessions ---------------------------
(***************************************************************************)
(* Managed Codex sessions (niuma codex).  A wrapper process starts a Codex *)
(* app-server and puts a relay between it and the terminal; it is entered  *)
(* in a registry, and the Codex plugin binds the entry to a session file.  *)
(* A bound wrapper takes commands over its control socket: instructions,   *)
(* interrupts and answers to questions (the approvals it relays are in     *)
(* module ApprovalFlow).                                                   *)
(*                                                                         *)
(* Codex itself (threads, turns, questions) is external.  What the relay   *)
(* and the Codex watcher report goes through the transitions of the store  *)
(* (module StoreTransitions).  All first messages are taken to lie within  *)
(* the binding window of ten seconds of each other, and all wrappers to    *)
(* run in one directory: the case in which only message and id tell them   *)
(* apart.                                                                  *)
(***************************************************************************)
EXTENDS StoreTransitions, Sequences

CONSTANTS
    Wrappers,    \* wrapper_session_id
    Threads,     \* thread and session ids of Codex
    Args,        \* how each wrapper is started
    Target,      \* the session a wrapper is told to resume
    Message,     \* the first message typed into each wrapper's terminal
    Identified,  \* wrappers whose terminal names the thread in turn/start
    Requests,    \* questions the app-servers may ask
    AskedBy,     \* the wrapper whose app-server asks each
    Clients,     \* consumers of the Local API and niuma on the command line
    Starts       \* bound: who takes part, and how often things happen

\* What is typed first differs from what instructions and earlier sessions say.
ASSUME WrapperAssumption ==
    /\ SessionIds = Wrappers \cup Threads /\ Wrappers \cap Threads = {}
    /\ InputKeys = Requests /\ AskedBy \in [Requests -> Wrappers] /\ "codex" \in Tools
    /\ Target \in [Wrappers -> Threads \cup {None}]
    /\ \A w \in Wrappers : Message[w] \notin {None, "earlier", "instruction"}
    /\ None \notin {"answer"} \X Clients \X Requests
    /\ Starts \subseteq
         [wrappers : SUBSET Wrappers, opens : SUBSET Threads, questions : SUBSET Requests,
          kinds : SUBSET {"answer", "instruct", "interrupt"},
          turns : Nat, commands : Nat, exits : Nat]

VARIABLES
    process,   \* each wrapper: process, loaded threads, relay
    registry,  \* the registry file
    threads,   \* external: who runs each thread, its first message and its turn
    inputs,    \* external: each question of an app-server
    jobs,      \* background threads of the relays, and lines not yet watched
    store,     \* StoredState of the host
    offered,   \* the channels the last snapshot calls available
    clients,   \* commands under way, with the relay's handler of each
    budget,    \* the start, with what is left of its bounds
    log        \* history

vars == <<process, registry, threads, inputs, jobs, store, offered, clients, budget, log>>
codex == <<threads, inputs>>

NotRegistered == [state |-> "none", session |-> None, hash |-> None]
Unstarted == [pc |-> "none", loaded |-> {}, recorded |-> FALSE, pending |-> {},
              asked |-> {}, answered |-> {}]
Idle == [pc |-> "idle", kind |-> None, session |-> None, wrapper |-> None, input |-> None,
         thread |-> None, turn |-> 0, waits |-> FALSE, ok |-> FALSE]

Alive(w) == process[w].pc \in {"starting", "ready", "running", "closing", "exiting"}
SocketUp(w) == process[w].pc \in {"ready", "running"}

(***************************************************************************)
(* A wrapper's life (run_app_control).                                     *)
(***************************************************************************)
classify_codex_args(args) ==
    IF args \in {"no args", "option", "resume", "resume id"} THEN "Managed" ELSE "Passthrough"

resume_target_session_id(w) == IF Args[w] = "resume id" THEN Target[w] ELSE None

managed_session_initial_binding(w) ==
    LET id == resume_target_session_id(w)
    IN [state |-> IF id # None THEN "BindingPending" ELSE "WaitingFirstUserMessage",
        session |-> id, hash |-> None]

run_app_control(w) ==
    /\ process[w].pc = "none" /\ w \in budget.wrappers
    /\ classify_codex_args(Args[w]) = "Managed"
    /\ process' = [process EXCEPT ![w].pc = "starting"]
    /\ registry' = [registry EXCEPT ![w] = managed_session_initial_binding(w)]
    /\ UNCHANGED <<codex, jobs, store, offered, clients, budget, log>>

start_sockets(w) ==
    /\ process[w].pc = "starting"
    /\ process' = [process EXCEPT ![w].pc = "ready"]
    /\ UNCHANGED <<registry, codex, jobs, store, offered, clients, budget, log>>

SpendExit == budget.exits > 0 /\ budget' = [budget EXCEPT !.exits = @ - 1]

\* The app-server, a socket or the registry fails before the terminal starts; the
\* terminal cannot be started, or a socket not be removed, afterwards.
mark_session_exited_after_failure(w) ==
    /\ \/ process[w].pc \in {"starting", "ready"} /\ SpendExit
       \/ process[w].pc = "closing" /\ UNCHANGED budget
    /\ process' = [process EXCEPT ![w].pc = "exiting"]
    /\ registry' = [registry EXCEPT ![w].state = "Exited"]
    /\ UNCHANGED <<codex, jobs, store, offered, clients, log>>

mark_resume_session_bound(w) ==
    /\ process[w].pc = "ready"
    /\ process' = [process EXCEPT ![w].pc = "running",
                       ![w].loaded = {resume_target_session_id(w)} \ {None}]
    /\ registry' = [registry EXCEPT ![w].state =
           IF registry[w].session # None /\ @ # "Exited" THEN "Bound" ELSE @]
    /\ UNCHANGED <<codex, jobs, store, offered, clients, budget, log>>

\* The terminal ends, and with it app-server and sockets; the entry stays.
remote_exits(w) ==
    /\ process[w].pc = "running" /\ SpendExit
    /\ process' = [process EXCEPT ![w].pc = "closing"]
    /\ UNCHANGED <<registry, codex, jobs, store, offered, clients, log>>

\* The process ends, or is killed: its threads and handlers end with it.
ProcessEnds(w) ==
    /\ \/ process[w].pc \in {"starting", "ready", "running"} /\ SpendExit
       \/ process[w].pc \in {"closing", "exiting"} /\ UNCHANGED budget
    /\ process' = [process EXCEPT ![w] = [Unstarted EXCEPT !.pc = "ended"]]
    /\ jobs' = {j \in jobs : j.wrapper # w}
    /\ clients' = [c \in Clients |->
           IF clients[c].wrapper # w \/ clients[c].pc = "append" THEN clients[c]
           ELSE IF clients[c].waits
           THEN [clients[c] EXCEPT !.pc = "respond", !.ok = FALSE] ELSE Idle]
    /\ UNCHANGED <<registry, codex, store, offered, log>>

(***************************************************************************)
(* Codex (external): threads, turns and questions.  Each message passes    *)
(* the relay first and is looked at afterwards.                            *)
(***************************************************************************)
Running(w) == process[w].pc = "running"

\* A new conversation; the app-server may keep the one before loaded.
OpenThread(w, t) ==
    /\ Running(w) /\ threads[t].wrapper = None /\ t \in budget.opens
    /\ threads' = [threads EXCEPT ![t].wrapper = w]
    /\ \E kept \in {{}, process[w].loaded} :
          process' = [process EXCEPT ![w].loaded = kept \cup {t}]
    /\ UNCHANGED <<registry, inputs, jobs, store, offered, clients, budget, log>>

StartTurn(t, message) ==
    threads' = [threads EXCEPT ![t].turn = @ + 1, ![t].active = TRUE,
                               ![t].message = IF @ = None THEN message ELSE @]

first_user_message_submission(w, t) ==
    [kind |-> "mark", wrapper |-> w, what |-> Message[w],
     session |-> IF w \in Identified THEN t ELSE None]

\* observe_first_user_message_submission: only the first turn/start counts.
observe_client_data(w, t) ==
    /\ Running(w) /\ t \in process[w].loaded
    /\ ~threads[t].active /\ threads[t].turn < budget.turns
    /\ StartTurn(t, Message[w])
    /\ process' = [process EXCEPT ![w].recorded = TRUE]
    /\ jobs' = IF process[w].recorded THEN jobs
               ELSE jobs \cup {first_user_message_submission(w, t)}
    /\ UNCHANGED <<registry, inputs, store, offered, clients, budget, log>>

\* The session's file, which the plugin reads, is written later.
WriteFile(t) ==
    /\ threads[t].message # None /\ ~threads[t].written
    /\ threads' = [threads EXCEPT ![t].written = TRUE]
    /\ UNCHANGED <<process, registry, inputs, jobs, store, offered, clients, budget, log>>

EndTurn(t) ==
    /\ threads' = [threads EXCEPT ![t].active = FALSE]
    /\ \E type \in {"AssistantMessageCompleted", "TaskFailed"} :
          jobs' = jobs \cup {[kind |-> "line", wrapper |-> None, session |-> t,
                             what |-> <<type, threads[t].turn>>]}

TurnEnds(t) ==
    /\ threads[t].active /\ threads[t].wrapper # None /\ Running(threads[t].wrapper)
    /\ EndTurn(t)
    /\ UNCHANGED <<process, registry, inputs, store, offered, clients, budget, log>>

ServerAsks(q, t) ==
    LET w == AskedBy[q]
    IN /\ Running(w) /\ t \in process[w].loaded /\ threads[t].active /\ inputs[q] = "new"
       /\ q \in budget.questions
       /\ inputs' = [inputs EXCEPT ![q] = "open"]
       /\ process' = [process EXCEPT ![w].asked = @ \cup {q}]
       /\ UNCHANGED <<registry, threads, jobs, store, offered, clients, budget, log>>

TerminalAnswers(q) ==
    LET w == AskedBy[q]
    IN /\ Running(w) /\ inputs[q] = "open"
       /\ inputs' = [inputs EXCEPT ![q] = "answered"]
       /\ process' = [process EXCEPT ![w].answered = @ \cup {q}]
       /\ UNCHANGED <<registry, threads, jobs, store, offered, clients, budget, log>>

(***************************************************************************)
(* The relay.                                                              *)
(***************************************************************************)
observe_input_request(q) ==
    LET w == AskedBy[q]
    IN /\ q \in process[w].asked
       /\ process' = [process EXCEPT ![w].asked = @ \ {q}, ![w].pending = @ \cup {q}]
       /\ jobs' = jobs \cup {[kind |-> "input", wrapper |-> w, what |-> q, session |-> None]}
       /\ UNCHANGED <<registry, codex, store, offered, clients, budget, log>>

observe_client_message(q) ==
    LET w == AskedBy[q]
    IN /\ q \in process[w].answered
       /\ process' = [process EXCEPT ![w].answered = @ \ {q}, ![w].pending = @ \ {q}]
       /\ UNCHANGED <<registry, codex, jobs, store, offered, clients, budget, log>>

\* Mutant: the entry does not become pending.
mark_first_message_keeps_state(j) ==
    /\ j \in jobs /\ j.kind = "mark"
    /\ jobs' = jobs \ {j}
    /\ registry' = [registry EXCEPT ![j.wrapper].hash = j.what, ![j.wrapper].session = j.session]
    /\ UNCHANGED <<process, codex, store, offered, clients, budget, log>>

mark_first_user_message_submitted(j) ==
    /\ j \in jobs /\ j.kind = "mark"
    /\ jobs' = jobs \ {j}
    /\ registry' = IF registry[j.wrapper].hash # None THEN registry
                   ELSE [registry EXCEPT ![j.wrapper] =
                            [state |-> "BindingPending", session |-> j.session, hash |-> j.what]]
    /\ UNCHANGED <<process, codex, store, offered, clients, budget, log>>

Event(id, session, type, key) ==
    [id |-> id, tool |-> "codex", session |-> session, type |-> type, key |-> key,
     subagent |-> FALSE, at |-> 0]

\* (Each dedupe key is used once here.)
append_events(e) ==
    store' = IF already_applied(store, e) \/ is_late_terminal_activity(store, e) THEN store
             ELSE apply_event(store, e)

managed_bound_codex_session_id(w) ==
    IF registry[w].state = "Bound" THEN registry[w].session ELSE None

\* Before the session is bound a question is filed under the wrapper's id.
relay_input_session(w) ==
    LET id == managed_bound_codex_session_id(w) IN IF id # None THEN id ELSE w

\* The registry is read, and the event posted to the Local API after it.
relay_input_event_body(j) ==
    /\ j \in jobs /\ j.kind = "input"
    /\ LET body == [j EXCEPT !.kind = "post", !.session = relay_input_session(j.wrapper)]
       IN jobs' = (jobs \ {j}) \cup {body}
    /\ UNCHANGED <<process, registry, codex, store, offered, clients, budget, log>>

submit_relay_input_event(j) ==
    /\ j \in jobs /\ j.kind = "post"
    /\ jobs' = jobs \ {j}
    /\ append_events(Event(<<"relay", j.session, j.what>>, j.session, "InputRequested", j.what))
    /\ UNCHANGED <<process, registry, codex, offered, clients, budget, log>>

\* A background thread fails at the registry or at the Local API: it writes to
\* standard error and tries nothing again, so that a first message is lost for ever.
BackgroundFails(j) ==
    /\ j \in jobs /\ j.kind # "line"
    /\ jobs' = jobs \ {j}
    /\ log' = IF j.kind = "mark" THEN [log EXCEPT !.lost = @ \cup {j.wrapper}] ELSE log
    /\ UNCHANGED <<process, registry, codex, store, offered, clients, budget>>

\* The watcher reports what it read (module SessionPlugin).
WatcherReports(j) ==
    /\ j \in jobs /\ j.kind = "line"
    /\ jobs' = jobs \ {j}
    /\ append_events(Event(<<"line", j.session, j.what>>, j.session, j.what[1], None))
    /\ UNCHANGED <<process, registry, codex, offered, clients, budget, log>>

(***************************************************************************)
(* The plugin's snapshot: bind what is pending, then offer channels.       *)
(***************************************************************************)
Candidates == {t \in Threads : threads[t].written}

\* Mutant: any session of the directory will do.
match_in_directory(s) == IF s.session # None THEN {s.session} \cap Candidates ELSE Candidates

\* By id when the terminal named it, by the first message otherwise.
match_managed_session(s) ==
    IF s.session # None THEN {s.session} \cap Candidates
    ELSE {t \in Candidates : s.hash # None /\ threads[t].message = s.hash}

bind_managed_session(s) ==
    LET matches == match_managed_session(s)
    IN IF s.state # "BindingPending" \/ matches = {} THEN s
       ELSE IF Cardinality(matches) = 1
       THEN [s EXCEPT !.state = "Bound", !.session = CHOOSE t \in matches : TRUE]
       ELSE [s EXCEPT !.state = "Ambiguous"]

control_for_session(t, entries) ==
    {w \in Wrappers : entries[w].session = t /\ entries[w].state = "Bound" /\ Alive(w)}

build_snapshot_refresh ==
    LET bound == [w \in Wrappers |-> bind_managed_session(registry[w])]
    IN /\ registry' = IF Candidates = {} THEN registry ELSE bound
       /\ offered' = [t \in Threads |->
              IF t \in Candidates THEN control_for_session(t, bound) ELSE {}]
    /\ UNCHANGED <<process, codex, jobs, store, clients, budget, log>>

(***************************************************************************)
(* A command: the caller looks the channel up and connects; a handler of   *)
(* the relay works while the caller waits, five seconds at most.           *)
(***************************************************************************)
managed_session_for_control(w, session) ==
    /\ registry[w].session = session /\ registry[w].state = "Bound"
    /\ Alive(w)

Command(c, kind, w, session, q) ==
    /\ clients[c] = Idle /\ kind \in budget.kinds /\ budget.commands > 0
    /\ budget' = [budget EXCEPT !.commands = @ - 1]
    /\ clients' = [clients EXCEPT ![c] =
           IF SocketUp(w)
           THEN [Idle EXCEPT !.pc = "handle", !.kind = kind, !.wrapper = w, !.session = session,
                             !.input = q, !.waits = TRUE]
           ELSE Idle]
    /\ UNCHANGED <<process, registry, codex, jobs, store, offered, log>>

post_session_send_instruction(c, t, w) ==
    w \in offered[t] /\ managed_session_for_control(w, t) /\ Command(c, "instruct", w, t, None)

post_session_interrupt(c, t, w) ==
    w \in offered[t] /\ managed_session_for_control(w, t) /\ Command(c, "interrupt", w, t, None)

\* A question is answered where it is shown.
post_session_answer_input(c, q) ==
    \E i \in store.attention_items :
        /\ i.key = q
        /\ managed_session_for_control(AskedBy[q], i.session)
        /\ Command(c, "answer", AskedBy[q], i.session, q)

\* niuma codex-send and codex-interrupt name the wrapper; it need not be bound.
codex_send(c, w, kind) ==
    /\ registry[w].state \notin {"none", "Exited"} /\ Alive(w)
    /\ Command(c, kind, w, None, None)

Handler(c, pc) == clients[c].pc = pc
GoOn(c, record) == clients' = [clients EXCEPT ![c] = record]
Respond(c, ok) ==
    GoOn(c, IF clients[c].waits THEN [clients[c] EXCEPT !.pc = "respond", !.ok = ok] ELSE Idle)

\* Mutant: the question stays pending.
resolve_keeps_pending(c) ==
    /\ Handler(c, "handle") /\ clients[c].kind = "answer"
    /\ IF clients[c].input \in process[clients[c].wrapper].pending
       THEN GoOn(c, [clients[c] EXCEPT !.pc = "write"])
       ELSE Respond(c, FALSE)
    /\ UNCHANGED <<process, registry, codex, jobs, store, offered, budget, log>>

\* Under the lock of the relay's state; the frame is written after it.
resolve_input_answer_frame(c) ==
    LET w == clients[c].wrapper
        q == clients[c].input
    IN /\ Handler(c, "handle") /\ clients[c].kind = "answer"
       /\ process' = [process EXCEPT ![w].pending = @ \ {q}]
       /\ IF q \in process[w].pending
          THEN GoOn(c, [clients[c] EXCEPT !.pc = "write"])
          ELSE Respond(c, FALSE)
       /\ UNCHANGED <<registry, codex, jobs, store, offered, budget, log>>

write_control_response_frame(c) ==
    LET q == clients[c].input
        written == Running(clients[c].wrapper)
    IN /\ Handler(c, "write")
       /\ inputs' = IF written THEN [inputs EXCEPT ![q] = "answered"] ELSE inputs
       /\ log' = IF written THEN [log EXCEPT !.answers[q] = @ + 1] ELSE log
       /\ Respond(c, written)
       /\ UNCHANGED <<process, registry, threads, jobs, store, offered, budget>>

\* thread/loaded/list and thread/read: the first loaded thread, its last turn.
read_loaded_thread(c) ==
    /\ Handler(c, "handle") /\ clients[c].kind \in {"instruct", "interrupt"}
    /\ \/ \E t \in process[clients[c].wrapper].loaded :
             IF clients[c].kind = "interrupt" /\ ~threads[t].active
             THEN Respond(c, FALSE)
             ELSE GoOn(c, [clients[c] EXCEPT !.pc = "act", !.thread = t,
                              !.turn = IF threads[t].active THEN threads[t].turn ELSE 0])
       \/ process[clients[c].wrapper].loaded = {} /\ Respond(c, FALSE)
    /\ UNCHANGED <<process, registry, codex, jobs, store, offered, budget, log>>

Still(c, t) == Running(clients[c].wrapper) /\ t \in process[clients[c].wrapper].loaded

\* turn/start for an idle thread, turn/steer with the turn it saw otherwise.
instruction_request(c) ==
    LET t == clients[c].thread
    IN IF clients[c].turn # 0 THEN threads[t].active /\ threads[t].turn = clients[c].turn
       ELSE ~threads[t].active /\ threads[t].turn < budget.turns

send_instruction_to_app_server(c) ==
    LET t == clients[c].thread
    IN /\ Handler(c, "act") /\ clients[c].kind = "instruct"
       /\ IF Still(c, t) /\ instruction_request(c)
          THEN /\ IF clients[c].turn = 0 THEN StartTurn(t, "instruction") ELSE UNCHANGED threads
               /\ Respond(c, TRUE)
          ELSE Respond(c, FALSE) /\ UNCHANGED threads
       /\ UNCHANGED <<process, registry, inputs, jobs, store, offered, budget, log>>

\* turn/interrupt names the turn it saw.
interrupt_request(c) ==
    LET t == clients[c].thread IN threads[t].active /\ threads[t].turn = clients[c].turn

interrupt_app_server_turn(c) ==
    LET t == clients[c].thread
    IN /\ Handler(c, "act") /\ clients[c].kind = "interrupt"
       /\ IF Still(c, t) /\ interrupt_request(c)
          THEN EndTurn(t) /\ Respond(c, TRUE)
          ELSE Respond(c, FALSE) /\ UNCHANGED <<threads, jobs>>
       /\ UNCHANGED <<process, registry, inputs, store, offered, budget, log>>

\* The caller gives up; the handler goes on.
ControlTimesOut(c) ==
    /\ clients[c].pc \in {"handle", "write", "act"} /\ clients[c].waits
    /\ clients' = [clients EXCEPT ![c].waits = FALSE]
    /\ UNCHANGED <<process, registry, codex, jobs, store, offered, budget, log>>

relay_control_command(c) ==
    /\ Handler(c, "respond")
    /\ IF clients[c].ok /\ clients[c].kind = "answer"
       THEN GoOn(c, [clients[c] EXCEPT !.pc = "append"])
       ELSE GoOn(c, Idle)
    /\ UNCHANGED <<process, registry, codex, jobs, store, offered, budget, log>>

\* Mutant: the event does not name the question.
answer_resolved_unkeyed(c) ==
    LET q == clients[c].input
    IN /\ Handler(c, "append")
       /\ append_events(Event(<<"answer", c, q>>, clients[c].session, "SessionActivity", None))
       /\ log' = [log EXCEPT !.reported = @ \cup {q}]
       /\ GoOn(c, Idle)
       /\ UNCHANGED <<process, registry, codex, jobs, offered, budget>>

\* Mutant: the event is about the wrapper, not its session.
answer_resolved_of_wrapper(c) ==
    LET q == clients[c].input
    IN /\ Handler(c, "append")
       /\ append_events(Event(<<"answer", c, q>>, clients[c].wrapper, "SessionActivity", q))
       /\ log' = [log EXCEPT !.reported = @ \cup {q}]
       /\ GoOn(c, Idle)
       /\ UNCHANGED <<process, registry, codex, jobs, offered, budget>>

append_answer_input_resolved_event(c) ==
    LET q == clients[c].input
    IN /\ Handler(c, "append")
       /\ append_events(Event(<<"answer", c, q>>, clients[c].session, "SessionActivity", q))
       /\ log' = [log EXCEPT !.reported = @ \cup {q}]
       /\ GoOn(c, Idle)
       /\ UNCHANGED <<process, registry, codex, jobs, offered, budget>>

(***************************************************************************)
(* Specification.                                                          *)
(***************************************************************************)
Init ==
    /\ process = [w \in Wrappers |-> Unstarted]
    /\ registry = [w \in Wrappers |-> NotRegistered]
    /\ threads = [t \in Threads |->
           LET by == {w \in Wrappers : resume_target_session_id(w) = t}
           IN [wrapper |-> IF by = {} THEN None ELSE CHOOSE w \in by : TRUE,
               message |-> IF by = {} THEN None ELSE "earlier",
               written |-> by # {}, turn |-> 0, active |-> FALSE]]
    /\ inputs = [q \in Requests |-> "new"]
    /\ jobs = {}
    /\ store = DefaultState
    /\ offered = [t \in Threads |-> {}]
    /\ clients = [c \in Clients |-> Idle]
    /\ budget \in Starts
    /\ log = [answers |-> [q \in Requests |-> 0], reported |-> {}, lost |-> {}]

WrapperStep(w) ==
    \/ run_app_control(w) \/ start_sockets(w) \/ mark_session_exited_after_failure(w)
    \/ mark_resume_session_bound(w) \/ remote_exits(w) \/ ProcessEnds(w)

CodexStep ==
    \/ \E w \in Wrappers, t \in Threads : OpenThread(w, t) \/ observe_client_data(w, t)
    \/ \E t \in Threads : WriteFile(t) \/ TurnEnds(t) \/ \E q \in Requests : ServerAsks(q, t)
    \/ \E q \in Requests : TerminalAnswers(q)

RelayStep == \E q \in Requests : observe_input_request(q) \/ observe_client_message(q)

JobStep(j) ==
    \/ mark_first_user_message_submitted(j) \/ relay_input_event_body(j)
    \/ submit_relay_input_event(j) \/ BackgroundFails(j) \/ WatcherReports(j)

ClientStep(c) ==
    \/ \E t \in Threads, w \in Wrappers :
           post_session_send_instruction(c, t, w) \/ post_session_interrupt(c, t, w)
    \/ \E q \in Requests : post_session_answer_input(c, q)
    \/ \E w \in Wrappers, kind \in {"instruct", "interrupt"} : codex_send(c, w, kind)

HandlerStep(c) ==
    \/ resolve_input_answer_frame(c) \/ write_control_response_frame(c)
    \/ read_loaded_thread(c) \/ send_instruction_to_app_server(c)
    \/ interrupt_app_server_turn(c) \/ relay_control_command(c)
    \/ append_answer_input_resolved_event(c)

Next ==
    \/ \E w \in Wrappers : WrapperStep(w)
    \/ CodexStep \/ RelayStep
    \/ \E j \in jobs : JobStep(j)
    \/ build_snapshot_refresh
    \/ \E c \in Clients : ClientStep(c) \/ HandlerStep(c) \/ ControlTimesOut(c)

\* Background threads run, Codex writes its files, and the plugin refreshes
\* every two seconds.
Fairness ==
    /\ \A t \in Threads : WF_vars(WriteFile(t))
    /\ WF_vars(build_snapshot_refresh)
    /\ \A w \in Wrappers :
          WF_vars(\E j \in jobs : j.wrapper = w /\ mark_first_user_message_submitted(j))

Spec == Init /\ [][Next]_vars
FairSpec == Spec /\ Fairness

(***************************************************************************)
(* Properties.                                                             *)
(***************************************************************************)
\* A wrapper is bound to a thread of its own app-server, when its terminal names
\* the thread or no other wrapper was given the same first message
\* (match_managed_session, mark_first_user_message_submitted).
Distinct(w) == w \in Identified \/ \A v \in budget.wrappers \ {w} : Message[v] # Message[w]
BoundToOwnThread ==
    \A w \in Wrappers : registry[w].state = "Bound" /\ Distinct(w) =>
        \/ threads[registry[w].session].wrapper = w
        \/ registry[w].session = resume_target_session_id(w)

\* Niuma answers a question once, whatever number of callers try and give up
\* (resolve_input_answer_frame takes it out of pending_inputs under the lock).
AnswersOnce == \A q \in Requests : log.answers[q] <= 1

\* A question whose answer was reported as taken is not shown any more, and
\* nothing shows it again, unless a failure of its session is shown with it
\* (append_answer_input_resolved_event, is_late_terminal_activity).
AnsweredIsCleared ==
    \A i \in store.attention_items :
        i.key \in log.reported =>
            \E f \in store.attention_items : SessionOf(f) = SessionOf(i) /\ f.status = "Error"

\* Answering one question leaves the others of its session waiting.
OthersKeepWaiting ==
    [][\A c \in Clients : append_answer_input_resolved_event(c) =>
          {i.key : i \in store.attention_items \ store'.attention_items}
              \subseteq {clients[c].input}]_vars

\* A wrapper whose terminal named its thread is bound in the end, if it lives and
\* the registry took its first message, which is offered to it only once
\* (mark_first_user_message_submitted, bind_managed_registry_sessions).
IdentifiedIsBound ==
    \A w \in Identified :
        Running(w) /\ process[w].recorded
            ~> registry[w].state = "Bound" \/ ~Running(w) \/ w \in log.lost
=============================================================================
