------------------------- MODULE ManagedSessionsProofs -------------------------
(***************************************************************************)
(* For any number of wrappers, threads, questions and clients: niuma       *)
(* answers a question once, an answered question is not shown again, the   *)
(* others of its session stay, and a wrapper is bound to its own thread.   *)
(*                                                                         *)
(* A question passes from the app-server to the relay, to the store and to *)
(* the handlers of the clients; Passing says where it may be at one time.  *)
(* A binding is right because every message and every name on the way to   *)
(* it comes from the wrapper's own terminal (Binding).                     *)
(***************************************************************************)
EXTENDS ManagedSessions, StoreTransitionsProofs

Texts == {Message[w] : w \in Wrappers} \cup {None, "earlier", "instruction"}

ProcessType ==
    [pc : {"none", "starting", "ready", "running", "closing", "exiting", "ended"}, loaded : SUBSET Threads,
     recorded : BOOLEAN, pending : SUBSET Requests, asked : SUBSET Requests,
     answered : SUBSET Requests]

RegistryType ==
    [state : {"none", "WaitingFirstUserMessage", "BindingPending", "Bound", "Ambiguous", "Exited"},
     session : Threads \cup {None}, hash : Texts]

ThreadType == [wrapper : Wrappers \cup {None}, message : Texts, written : BOOLEAN, turn : Nat,
               active : BOOLEAN]

ClientType ==
    [pc : {"idle", "handle", "write", "act", "respond", "append"},
     kind : {None, "answer", "instruct", "interrupt"}, session : SessionIds \cup {None},
     wrapper : Wrappers \cup {None}, input : Requests \cup {None}, thread : Threads \cup {None},
     turn : Nat, waits : BOOLEAN, ok : BOOLEAN]

Marks == [kind : {"mark"}, wrapper : Wrappers, what : Texts, session : Threads \cup {None}]
LineKinds == {"AssistantMessageCompleted", "TaskFailed"}
Lines == [kind : {"line"}, wrapper : {None}, session : Threads, what : LineKinds \X Nat]
Questions == [kind : {"input"}, wrapper : Wrappers, what : Requests, session : {None}]
             \cup [kind : {"post"}, wrapper : Wrappers, what : Requests, session : SessionIds]

StartType ==
    [wrappers : SUBSET Wrappers, opens : SUBSET Threads, questions : SUBSET Requests,
     kinds : SUBSET {"answer", "instruct", "interrupt"}, turns : Nat, commands : Nat, exits : Nat]

LogType == [answers : [Requests -> Nat], reported : SUBSET Requests, lost : SUBSET Wrappers]

TypeOK ==
    /\ process \in [Wrappers -> ProcessType] /\ registry \in [Wrappers -> RegistryType]
    /\ threads \in [Threads -> ThreadType] /\ inputs \in [Requests -> {"new", "open", "answered"}]
    /\ jobs \subseteq Marks \cup Lines \cup Questions
    /\ clients \in [Clients -> ClientType]
    /\ budget \in StartType
    /\ log \in LogType

(* A client that answers a question does so in its app-server's wrapper.   *)
ClientsTyped ==
    \A c \in Clients :
        IF clients[c].pc = "idle" THEN clients[c] = Idle
        ELSE /\ clients[c].kind = "answer" =>
                   /\ clients[c].input \in Requests /\ clients[c].session \in SessionIds
                   /\ clients[c].wrapper = AskedBy[clients[c].input]
             /\ clients[c].kind # "answer" => clients[c].input = None
             /\ clients[c].pc \in {"write", "append"} => clients[c].kind = "answer"
             /\ clients[c].pc \in {"handle", "write", "act"} => clients[c].wrapper \in Wrappers
             /\ clients[c].pc = "act" => clients[c].thread \in Threads
                                         /\ clients[c].kind \in {"instruct", "interrupt"}

-----------------------------------------------------------------------------
Asked(q) == q \in process[AskedBy[q]].asked
Pending(q) == q \in process[AskedBy[q]].pending
Carries(j) == j.kind \in {"input", "post"}
Filed(q) == \E j \in jobs : Carries(j) /\ j.what = q
Serves(c, q) == clients[c].pc # "idle" /\ clients[c].input = q
Writes(c, q) == clients[c].pc = "write" /\ clients[c].input = q

(* A question that has not come to the store yet.                          *)
Early(q) == inputs[q] = "new" \/ Asked(q) \/ Filed(q)

(* A question is at one place of its way: nobody serves it before the store*)
(* shows it, and who takes it out of the pending ones is the only one to   *)
(* write the answer.                                                       *)
OnItsWay(q) ==
    /\ inputs[q] = "new" => ~Asked(q) /\ ~Filed(q) /\ ~Pending(q)
    /\ Asked(q) => ~Filed(q) /\ ~Pending(q)
    /\ Early(q) => /\ log.answers[q] = 0 /\ q \notin log.reported
                   /\ \A c \in Clients : ~Serves(c, q)
                   /\ \A i \in store.attention_items : i.key # q
    /\ Pending(q) => log.answers[q] = 0 /\ \A c \in Clients : ~Writes(c, q)
    /\ \A c \in Clients : Writes(c, q) =>
          log.answers[q] = 0 /\ \A d \in Clients : Writes(d, q) => c = d
    /\ log.answers[q] <= 1

Passing == \A q \in Requests : OnItsWay(q)

(* One background thread at a time carries a question to the store.        *)
FiledOnce == \A i, j \in jobs : Carries(i) /\ Carries(j) /\ i.what = j.what => i = j

-----------------------------------------------------------------------------
Own(w, t) == threads[t].wrapper = w \/ t = resume_target_session_id(w)

(* A message typed into a terminal is of a thread of that terminal.        *)
Typed(t) ==
    threads[t].message \notin {None, "earlier", "instruction"} =>
        \E v \in budget.wrappers : threads[t].message = Message[v] /\ Own(v, t)

Registered(w) ==
    LET r == registry[w]
    IN /\ r.hash # None => r.hash = Message[w]
       /\ r.hash # None /\ r.session = None => w \notin Identified
       /\ r.session # None /\ Distinct(w) => Own(w, r.session)
       /\ r.state = "Bound" => r.session # None

Binding ==
    /\ \A w \in Wrappers : /\ process[w].pc # "none" => w \in budget.wrappers
                           /\ \A t \in process[w].loaded : Own(w, t)
    /\ \A t \in Threads : Typed(t)
    /\ \A j \in jobs : j.kind = "mark" =>
          /\ j.what = Message[j.wrapper]
          /\ j.session = None => j.wrapper \notin Identified
          /\ j.session # None => Own(j.wrapper, j.session)
    /\ \A w \in Wrappers : Registered(w)

-----------------------------------------------------------------------------
StoreIds == ({"relay"} \X SessionIds \X Requests) \cup ({"line"} \X Threads \X (LineKinds \X Nat))
            \cup ({"answer"} \X Clients \X Requests)

(* The attention list holds the questions of relays and failed tasks.      *)
ItemsKnown(st) ==
    \A i \in st.attention_items : /\ i.tool = "codex"
                                  /\ \/ i.key \in Requests /\ i.status = "WaitingInput"
                                     \/ i.key = None /\ i.status = "Error"

(* A session that has failed says so in the attention list.                *)
FailureShown(st) ==
    \A k \in Sessions : st.runtime_states[k].status = "Error" =>
        \E i \in st.attention_items : SessionOf(i) = k /\ i.status = "Error"

(* A question is shown in one session, the one its clients speak of.       *)
OneSession ==
    \A i \in store.attention_items : i.key # None =>
        /\ \A j \in store.attention_items : j.key = i.key => j.session = i.session
        /\ \A c \in Clients : Serves(c, i.key) => clients[c].session = i.session

(* The id of an answer is in the store only after it was reported.         *)
Visible(st, id) == \/ \E k \in Sessions : st.runtime_states[k].last_event_id = id
                   \/ \E i \in st.attention_items : i.event_id = id
                   \/ st.latest_activity.event_id = id
AnswersAreReported ==
    \A c \in Clients, q \in Requests : Visible(store, <<"answer", c, q>>) => q \in log.reported

Showing ==
    /\ GoodState(StoreIds, store) /\ ItemsKnown(store) /\ FailureShown(store)
    /\ OneSession /\ AnswersAreReported /\ AnsweredIsCleared

IInv == TypeOK /\ ClientsTyped /\ Passing /\ FiledOnce /\ Binding /\ Showing
-----------------------------------------------------------------------------
(* What the events of this module do to the stored state.                  *)
LEMMA EventTyped ==
    ASSUME NEW id \in StoreIds, NEW session \in SessionIds, NEW type \in EventTypes,
           NEW key \in Requests \cup {None}, NEW e, e = Event(id, session, type, key)
    PROVE  /\ IsEvent(e, StoreIds) /\ e.id = id /\ e.type = type /\ e.key = key
           /\ e.tool = "codex" /\ e.session = session
BY WrapperAssumption DEF Event, IsEvent, ResolveKeys

(* Restoring keeps the event ids, and takes a status from an item.         *)
LEMMA RestoreKeepsIds ==
    ASSUME NEW ids, NEW st \in StoredState(ids), NEW k \in Sessions,
           NEW r, r = restore_session_attention_status(st, k)
    PROVE  /\ \A j \in Sessions : r.runtime_states[j].last_event_id = st.runtime_states[j].last_event_id
           /\ \/ r.runtime_states[k].status = st.runtime_states[k].status
              \/ \E i \in st.attention_items : SessionOf(i) = k /\ i.status = r.runtime_states[k].status
<1> DEFINE mine  == {i \in st.attention_items : SessionOf(i) = k}
           first == CHOOSE i \in mine : IsFirst(i, mine)
<1>1. CASE mine = {} \/ st.runtime_states[k].status = "Absent"
  BY <1>1 DEF restore_session_attention_status
<1>2. CASE mine # {} /\ st.runtime_states[k].status # "Absent"
  <2>1. \A i \in mine : i.ord \in Nat
    BY DEF StoredState, AttentionItem
  <2>2. r = [st EXCEPT !.runtime_states[k].status = first.status]
    BY <1>2 DEF restore_session_attention_status
  <2>3. first \in mine
    <3> HIDE DEF mine
    <3> QED BY <1>2, <2>1, FirstIsItem
  <2>4. first \in st.attention_items /\ SessionOf(first) = k
    BY <2>3
  <2> HIDE DEF first, mine
  <2>5. r.runtime_states = [st.runtime_states EXCEPT ![k].status = first.status]
    BY <2>2 DEF StoredState
  <2>6. \A j \in Sessions : r.runtime_states[j].last_event_id = st.runtime_states[j].last_event_id
        /\ r.runtime_states[k].status = first.status
    BY <2>5 DEF StoredState, RuntimeStateItem
  <2> QED BY <2>4, <2>6
<1> QED BY <1>1, <1>2

(* The event is entered as the last one of its session.                    *)
LEMMA UpsertIds ==
    ASSUME NEW ids, NEW st \in StoredState(ids), NEW e, IsEvent(e, ids)
    PROVE  \A j \in Sessions : upsert_runtime_state(st, e).runtime_states[j].last_event_id
                                   \in {st.runtime_states[j].last_event_id, e.id}
<1>1. SessionOf(e) \in Sessions
  BY DEF IsEvent, SessionOf, Sessions
<1> DEFINE entry == [status |-> status_from_event(e.type), last_event_id |-> e.id,
                     last_activity_at |-> e.at]
<1>2. entry.last_event_id = e.id
  OBVIOUS
<1>3. upsert_runtime_state(st, e) = [st EXCEPT !.runtime_states[SessionOf(e)] = entry]
  BY DEF upsert_runtime_state
<1> HIDE DEF entry
<1>4. upsert_runtime_state(st, e).runtime_states = [st.runtime_states EXCEPT ![SessionOf(e)] = entry]
  BY <1>3 DEF StoredState
<1> QED BY <1>1, <1>2, <1>4 DEF StoredState

(* A question or a failure adds an item.                                   *)
LEMMA BlockerApplied ==
    ASSUME NEW st, GoodState(StoreIds, st), ItemsKnown(st), NEW e, IsEvent(e, StoreIds),
           \/ e.type = "InputRequested" /\ e.key \in Requests
           \/ e.type = "TaskFailed" /\ e.key = None,
           NEW r, r = apply_event(st, e)
    PROVE  /\ \E n : /\ r.attention_items = st.attention_items \cup {n}
                     /\ n.event_id = e.id /\ n.tool = e.tool /\ n.session = e.session /\ n.key = e.key
                     /\ n.status = IF e.type = "TaskFailed" THEN "Error" ELSE "WaitingInput"
           /\ r.latest_activity = st.latest_activity
           /\ \A j \in Sessions : r.runtime_states[j].last_event_id
                                     \in {st.runtime_states[j].last_event_id, e.id}
           /\ \A j \in Sessions \ {SessionOf(e)} : r.runtime_states[j] = st.runtime_states[j]
           /\ r.runtime_states[SessionOf(e)].status
                 = IF e.type = "TaskFailed" THEN "Error" ELSE "WaitingInput"
<1> DEFINE u == upsert_runtime_state(st, e)
           n == [ord |-> NextOrd(u.attention_items), event_id |-> e.id, tool |-> e.tool,
                 session |-> e.session, status |-> status_from_event(e.type), key |-> e.key]
<1>1. st \in StoredState(StoreIds)
  BY DEF GoodState
<1>2. /\ u \in StoredState(StoreIds) /\ u.attention_items = st.attention_items
      /\ u.latest_activity = st.latest_activity
      /\ \A j \in Sessions \ {SessionOf(e)} : u.runtime_states[j] = st.runtime_states[j]
      /\ \A j \in Sessions : u.runtime_states[j].last_event_id
                                \in {st.runtime_states[j].last_event_id, e.id}
      /\ u.runtime_states[SessionOf(e)].status = status_from_event(e.type)
  BY <1>1, UpsertFacts, UpsertIds
<1>3. r = add_blocker(u, e)
  BY DEF apply_event, apply_attention_transition
<1> HIDE DEF u
<1>4. ~should_skip_unkeyed_input_fallback(u, e)
  BY WrapperAssumption, KeyAssumption DEF should_skip_unkeyed_input_fallback
<1>5. {i \in u.attention_items : ~(SessionOf(i) = SessionOf(e) /\ is_unkeyed_input(i))}
         = u.attention_items
  BY <1>2, WrapperAssumption, KeyAssumption DEF ItemsKnown, is_unkeyed_input
<1>6. r = [u EXCEPT !.attention_items = push_attention_item(u.attention_items, e)]
  BY <1>3, <1>4, <1>5 DEF add_blocker
<1>7. r.attention_items = u.attention_items \cup {n} /\ r.latest_activity = u.latest_activity
      /\ r.runtime_states = u.runtime_states
  BY <1>2, <1>6 DEF StoredState, push_attention_item
<1>8. n.status = IF e.type = "TaskFailed" THEN "Error" ELSE "WaitingInput"
  BY DEF status_from_event
<1> QED BY <1>2, <1>7, <1>8

(* An answer and the end of a turn take items away.                        *)
LEMMA SettleApplied ==
    ASSUME NEW st, GoodState(StoreIds, st), ItemsKnown(st), NEW e, IsEvent(e, StoreIds),
           \/ e.type = "SessionActivity" /\ e.key \in Requests
           \/ e.type = "AssistantMessageCompleted" /\ e.key = None,
           NEW r, r = apply_event(st, e)
    PROVE  /\ r.attention_items =
                {i \in st.attention_items : SessionOf(i) # SessionOf(e)
                                            \/ (e.key # None /\ i.key # e.key)}
           /\ r.latest_activity.event_id \in {st.latest_activity.event_id, e.id}
           /\ \A j \in Sessions : r.runtime_states[j].last_event_id
                                     \in {st.runtime_states[j].last_event_id, e.id}
           /\ \A j \in Sessions \ {SessionOf(e)} : r.runtime_states[j] = st.runtime_states[j]
           /\ r.runtime_states[SessionOf(e)].status = "Error" =>
                 \E i \in r.attention_items : SessionOf(i) = SessionOf(e) /\ i.status = "Error"
<1> DEFINE k == SessionOf(e)
           u == upsert_runtime_state(st, e)
           left == u.attention_items \ resolved_items(u.attention_items, e)
           settled == [u EXCEPT !.attention_items = left]
           restored == restore_session_attention_status(settled, k)
<1>1. st \in StoredState(StoreIds)
  BY DEF GoodState
<1>2. /\ u \in StoredState(StoreIds) /\ u.attention_items = st.attention_items
      /\ u.latest_activity = st.latest_activity /\ k \in Sessions
      /\ \A j \in Sessions \ {k} : u.runtime_states[j] = st.runtime_states[j]
      /\ \A j \in Sessions : u.runtime_states[j].last_event_id
                                \in {st.runtime_states[j].last_event_id, e.id}
      /\ u.runtime_states[k].status = status_from_event(e.type)
  BY <1>1, UpsertFacts, UpsertIds
<1>3. r = settle_blockers(u, e)
  BY DEF apply_event, apply_attention_transition
<1>4. left = {i \in st.attention_items : SessionOf(i) # k \/ (e.key # None /\ i.key # e.key)}
  BY <1>2, WrapperAssumption, KeyAssumption
     DEF ItemsKnown, resolved_items, attention_item_resolved_by_key, is_unkeyed_approval,
         is_unkeyed_input, is_keyed_approval
<1> HIDE DEF u
<1>5. r \in {restored, [restored EXCEPT !.latest_activity = LatestActivityOf(e)]}
  BY <1>3 DEF settle_blockers
<1> HIDE DEF left
<1>6. settled \in StoredState(StoreIds) /\ settled.attention_items = left
      /\ settled.runtime_states = u.runtime_states /\ settled.latest_activity = u.latest_activity
  BY <1>2, <1>4 DEF StoredState
<1> HIDE DEF settled
<1>7. /\ restored \in StoredState(StoreIds) /\ restored.attention_items = left
      /\ restored.latest_activity = u.latest_activity
      /\ \A j \in Sessions \ {k} : restored.runtime_states[j] = u.runtime_states[j]
      /\ \A j \in Sessions : restored.runtime_states[j].last_event_id = u.runtime_states[j].last_event_id
      /\ \/ restored.runtime_states[k].status = u.runtime_states[k].status
         \/ \E i \in left : SessionOf(i) = k /\ i.status = restored.runtime_states[k].status
  BY <1>2, <1>6, RestoreFacts, RestoreKeepsIds
<1> HIDE DEF restored
<1>8. /\ r.attention_items = left /\ r.runtime_states = restored.runtime_states
      /\ r.latest_activity \in {restored.latest_activity, LatestActivityOf(e)}
  BY <1>5, <1>7 DEF StoredState
<1>9. LatestActivityOf(e).event_id = e.id
  BY DEF LatestActivityOf
<1>10. status_from_event(e.type) # "Error"
  BY DEF status_from_event
<1> QED BY <1>2, <1>4, <1>7, <1>8, <1>9, <1>10
-----------------------------------------------------------------------------
(* Types, and what a client's step may do to its command.                  *)
LEMMA IdleTyped == Idle \in ClientType /\ Idle.pc = "idle" /\ Idle.input = None
BY DEF Idle, ClientType

Continues(c, x) ==
    /\ x \in ClientType /\ clients[c].pc # "idle"
    /\ IF x.pc = "idle" THEN x = Idle
       ELSE /\ x.kind = clients[c].kind /\ x.input = clients[c].input
            /\ x.wrapper = clients[c].wrapper /\ x.session = clients[c].session
    /\ x.pc \in {"handle", "write", "act"} => clients[c].pc \in {"handle", "write", "act"}
    /\ x.pc \in {"write", "append"} => clients[c].kind = "answer"
    /\ x.pc = "write" => clients[c].pc = "write" \/ resolve_input_answer_frame(c)
    /\ x.pc = "act" => x.thread \in Threads /\ x.kind \in {"instruct", "interrupt"}

LEMMA RespondContinues ==
    ASSUME TypeOK, NEW c \in Clients, clients[c].pc # "idle", NEW ok \in BOOLEAN, Respond(c, ok)
    PROVE  \E x : clients' = [clients EXCEPT ![c] = x] /\ Continues(c, x)
<1> DEFINE answered == [clients[c] EXCEPT !.pc = "respond", !.ok = ok]
<1>1. clients[c] \in ClientType
  BY DEF TypeOK
<1>2. /\ answered \in ClientType /\ answered.pc = "respond" /\ answered.kind = clients[c].kind
      /\ answered.input = clients[c].input /\ answered.wrapper = clients[c].wrapper
      /\ answered.session = clients[c].session
  BY <1>1 DEF ClientType
<1>3. clients' = [clients EXCEPT ![c] = answered] \/ clients' = [clients EXCEPT ![c] = Idle]
  BY DEF Respond, GoOn
<1> HIDE DEF answered
<1>4. Continues(c, answered) /\ Continues(c, Idle)
  BY <1>2, IdleTyped DEF Continues
<1> QED BY <1>3, <1>4

LEMMA HandlerContinues ==
    ASSUME TypeOK, ClientsTyped, NEW c \in Clients, HandlerStep(c) \/ ControlTimesOut(c)
    PROVE  \E x : clients' = [clients EXCEPT ![c] = x] /\ Continues(c, x)
<1> DEFINE Goal == \E x : clients' = [clients EXCEPT ![c] = x] /\ Continues(c, x)
<1> SUFFICES Goal
  OBVIOUS
<1>1. clients[c] \in ClientType
  BY DEF TypeOK
<1>2. clients' = [clients EXCEPT ![c] = Idle] /\ clients[c].pc # "idle" => Goal
  BY IdleTyped DEF Continues
<1>3. ASSUME clients[c].pc # "idle", NEW ok \in BOOLEAN, Respond(c, ok)
      PROVE  Goal
  BY <1>3, RespondContinues
<1> HIDE DEF Goal
<1>4. CASE resolve_input_answer_frame(c)
  <2> DEFINE x == [clients[c] EXCEPT !.pc = "write"]
  <2>1. CASE clients' = [clients EXCEPT ![c] = x]
    <3>1. /\ x \in ClientType /\ x.pc = "write" /\ x.kind = clients[c].kind
          /\ x.input = clients[c].input /\ x.wrapper = clients[c].wrapper
          /\ x.session = clients[c].session
      BY <1>1 DEF ClientType
    <3>2. Continues(c, x)
      BY <1>4, <3>1 DEF Continues, resolve_input_answer_frame, Handler
    <3> QED BY <2>1, <3>2 DEF Goal
  <2>2. clients[c].pc # "idle" /\ (clients' = [clients EXCEPT ![c] = x] \/ Respond(c, FALSE))
    BY <1>4 DEF resolve_input_answer_frame, Handler, GoOn
  <2> QED BY <1>3, <2>1, <2>2
<1>5. CASE write_control_response_frame(c)
  <2>1. /\ clients[c].pc # "idle" /\ Running(clients[c].wrapper) \in BOOLEAN
        /\ Respond(c, Running(clients[c].wrapper))
    BY <1>5 DEF write_control_response_frame, Handler, Running
  <2> QED BY <1>3, <2>1
<1>6. CASE read_loaded_thread(c)
  <2>1. clients[c].pc = "handle" /\ clients[c].kind \in {"instruct", "interrupt"}
    BY <1>6 DEF read_loaded_thread, Handler
  <2>2. CASE Respond(c, FALSE)
    BY <1>3, <2>1, <2>2
  <2>3. ASSUME NEW t \in process[clients[c].wrapper].loaded, NEW turn \in Nat,
               clients' = [clients EXCEPT ![c] = [clients[c] EXCEPT !.pc = "act", !.thread = t,
                                                                    !.turn = turn]]
        PROVE  Goal
    <3> DEFINE x == [clients[c] EXCEPT !.pc = "act", !.thread = t, !.turn = turn]
    <3>1. t \in Threads
      BY <2>1 DEF TypeOK, ClientsTyped, ProcessType
    <3>2. /\ x \in ClientType /\ x.pc = "act" /\ x.kind = clients[c].kind
          /\ x.input = clients[c].input /\ x.wrapper = clients[c].wrapper
          /\ x.session = clients[c].session /\ x.thread = t
      BY <1>1, <3>1 DEF ClientType
    <3>3. clients' = [clients EXCEPT ![c] = x]
      BY <2>3
    <3> HIDE DEF x
    <3>4. Continues(c, x)
      BY <2>1, <3>1, <3>2 DEF Continues
    <3> QED BY <3>3, <3>4 DEF Goal
  <2>4. CASE \E t \in process[clients[c].wrapper].loaded :
               clients' = [clients EXCEPT ![c] =
                   [clients[c] EXCEPT !.pc = "act", !.thread = t,
                                      !.turn = IF threads[t].active THEN threads[t].turn ELSE 0]]
    <3>1. PICK t \in process[clients[c].wrapper].loaded :
               clients' = [clients EXCEPT ![c] =
                   [clients[c] EXCEPT !.pc = "act", !.thread = t,
                                      !.turn = IF threads[t].active THEN threads[t].turn ELSE 0]]
      BY <2>4
    <3>2. t \in Threads
      BY <2>1 DEF TypeOK, ClientsTyped, ProcessType
    <3>3. (IF threads[t].active THEN threads[t].turn ELSE 0) \in Nat
      BY <3>2 DEF TypeOK, ThreadType
    <3> QED BY <2>3, <3>1, <3>3
  <2> QED BY <1>6, <2>2, <2>4 DEF read_loaded_thread, GoOn
<1>7. CASE send_instruction_to_app_server(c)
  <2>1. clients[c].pc # "idle" /\ (Respond(c, TRUE) \/ Respond(c, FALSE))
    BY <1>7 DEF send_instruction_to_app_server, Handler
  <2> QED BY <1>3, <2>1
<1>8. CASE interrupt_app_server_turn(c)
  <2>1. clients[c].pc # "idle" /\ (Respond(c, TRUE) \/ Respond(c, FALSE))
    BY <1>8 DEF interrupt_app_server_turn, Handler
  <2> QED BY <1>3, <2>1
<1>9. CASE relay_control_command(c)
  <2> DEFINE x == [clients[c] EXCEPT !.pc = "append"]
  <2>1. CASE clients[c].kind = "answer" /\ clients' = [clients EXCEPT ![c] = x]
    <3>1. /\ x \in ClientType /\ x.pc = "append" /\ x.kind = clients[c].kind
          /\ x.input = clients[c].input /\ x.wrapper = clients[c].wrapper
          /\ x.session = clients[c].session
      BY <1>1 DEF ClientType
    <3>2. Continues(c, x)
      BY <1>9, <2>1, <3>1 DEF Continues, relay_control_command, Handler
    <3> QED BY <2>1, <3>2 DEF Goal
  <2> QED BY <1>2, <1>9, <2>1 DEF relay_control_command, Handler, GoOn
<1>10. CASE append_answer_input_resolved_event(c)
  BY <1>2, <1>10 DEF append_answer_input_resolved_event, Handler, GoOn
<1>11. CASE ControlTimesOut(c)
  <2> DEFINE x == [clients[c] EXCEPT !.waits = FALSE]
  <2>1. /\ x \in ClientType /\ x.pc = clients[c].pc /\ x.kind = clients[c].kind
        /\ x.input = clients[c].input /\ x.wrapper = clients[c].wrapper
        /\ x.session = clients[c].session /\ x.thread = clients[c].thread
    BY <1>1 DEF ClientType
  <2>2. clients' = [clients EXCEPT ![c] = x] /\ clients[c].pc \in {"handle", "write", "act"}
    BY <1>11 DEF ControlTimesOut
  <2> HIDE DEF x
  <2>3. Continues(c, x)
    BY <2>1, <2>2 DEF Continues, ClientsTyped
  <2> QED BY <2>2, <2>3 DEF Goal
<1> QED BY <1>4, <1>5, <1>6, <1>7, <1>8, <1>9, <1>10, <1>11 DEF HandlerStep
LEMMA ContinuesTyped ==
    ASSUME TypeOK, ClientsTyped, NEW c \in Clients, NEW x, clients' = [clients EXCEPT ![c] = x],
           Continues(c, x)
    PROVE  clients' \in [Clients -> ClientType] /\ ClientsTyped'
BY DEF TypeOK, ClientsTyped, Continues

LEMMA WrapperTyped ==
    ASSUME TypeOK, ClientsTyped, NEW w \in Wrappers, WrapperStep(w)
    PROVE  TypeOK' /\ ClientsTyped'
<1>1. process[w] \in ProcessType /\ registry[w] \in RegistryType /\ budget \in StartType
      /\ resume_target_session_id(w) \in Threads \cup {None}
  BY WrapperAssumption DEF TypeOK, resume_target_session_id
<1>2. process' \in [Wrappers -> ProcessType]
  <2>1. \A pc \in {"starting", "ready", "closing", "exiting", "ended"} :
           [process EXCEPT ![w].pc = pc] \in [Wrappers -> ProcessType]
    BY <1>1 DEF TypeOK, ProcessType
  <2>2. [process EXCEPT ![w].pc = "running", ![w].loaded = {resume_target_session_id(w)} \ {None}]
           \in [Wrappers -> ProcessType]
    BY <1>1 DEF TypeOK, ProcessType
  <2>3. [Unstarted EXCEPT !.pc = "ended"] \in ProcessType
    BY DEF Unstarted, ProcessType
  <2>4. [process EXCEPT ![w] = [Unstarted EXCEPT !.pc = "ended"]] \in [Wrappers -> ProcessType]
    BY <2>3 DEF TypeOK
  <2> QED BY <2>1, <2>2, <2>4 DEF WrapperStep, run_app_control, start_sockets,
             mark_session_exited_after_failure, mark_resume_session_bound, remote_exits, ProcessEnds
<1>3. registry' \in [Wrappers -> RegistryType]
  <2>1. managed_session_initial_binding(w) \in RegistryType
    BY <1>1 DEF managed_session_initial_binding, RegistryType, Texts
  <2>2. \A s \in {"Exited", "Bound", registry[w].state} :
           [registry EXCEPT ![w].state = s] \in [Wrappers -> RegistryType]
    BY <1>1 DEF TypeOK, RegistryType
  <2>3. [registry EXCEPT ![w] = managed_session_initial_binding(w)] \in [Wrappers -> RegistryType]
    BY <2>1 DEF TypeOK
  <2>4. registry' \in {registry, [registry EXCEPT ![w] = managed_session_initial_binding(w)]}
                     \cup {[registry EXCEPT ![w].state = s] : s \in {"Exited", "Bound", registry[w].state}}
    BY DEF WrapperStep, run_app_control, start_sockets,
       mark_session_exited_after_failure, mark_resume_session_bound, remote_exits, ProcessEnds
  <2> QED BY <2>2, <2>3, <2>4 DEF TypeOK
<1>4. budget' \in StartType
  <2>1. budget.exits > 0 => [budget EXCEPT !.exits = @ - 1] \in StartType
    BY <1>1 DEF StartType
  <2> QED BY <1>1, <2>1 DEF WrapperStep, run_app_control, start_sockets, SpendExit,
       mark_session_exited_after_failure, mark_resume_session_bound, remote_exits, ProcessEnds
<1>5. jobs' \subseteq jobs /\ UNCHANGED <<threads, inputs, log>>
  BY DEF WrapperStep, run_app_control, start_sockets, codex,
       mark_session_exited_after_failure, mark_resume_session_bound, remote_exits, ProcessEnds
<1>6. clients' \in [Clients -> ClientType] /\ ClientsTyped'
  <2>1. CASE UNCHANGED clients
    BY <2>1 DEF TypeOK, ClientsTyped
  <2>2. CASE ProcessEnds(w)
    <3>1. \A c \in Clients : [clients[c] EXCEPT !.pc = "respond", !.ok = FALSE] \in ClientType
      <4> TAKE c \in Clients
      <4>1. clients[c] \in ClientType
        BY DEF TypeOK
      <4> QED BY <4>1 DEF ClientType
    <3>2. DOMAIN clients' = Clients /\ clients' = [c \in Clients |-> clients'[c]]
      <4> DEFINE left(c) == IF clients[c].wrapper # w \/ clients[c].pc = "append" THEN clients[c]
                            ELSE IF clients[c].waits
                            THEN [clients[c] EXCEPT !.pc = "respond", !.ok = FALSE] ELSE Idle
      <4>1. clients' = [c \in Clients |-> left(c)]
        BY <2>2 DEF ProcessEnds
      <4> HIDE DEF left
      <4> QED BY <4>1
    <3>3. \A c \in Clients : clients'[c] \in {clients[c], Idle,
              [clients[c] EXCEPT !.pc = "respond", !.ok = FALSE]}
          /\ (clients[c].pc = "idle" => clients'[c] = Idle)
      <4> TAKE c \in Clients
      <4>1. clients'[c] = IF clients[c].wrapper # w \/ clients[c].pc = "append" THEN clients[c]
                          ELSE IF clients[c].waits
                          THEN [clients[c] EXCEPT !.pc = "respond", !.ok = FALSE] ELSE Idle
        BY <2>2 DEF ProcessEnds
      <4>2. clients[c].pc = "idle" => clients[c] = Idle
        BY DEF ClientsTyped
      <4>3. Idle.wrapper # w
        BY WrapperAssumption, NoneAssumption DEF Idle
      <4> QED BY <4>1, <4>2, <4>3
    <3>4. \A c \in Clients : clients'[c] # clients[c] /\ clients'[c] # Idle =>
             /\ clients[c].pc # "idle" /\ clients'[c].pc = "respond"
             /\ clients'[c].kind = clients[c].kind /\ clients'[c].input = clients[c].input
             /\ clients'[c].wrapper = clients[c].wrapper
             /\ clients'[c].session = clients[c].session
      <4> TAKE c \in Clients
      <4> DEFINE x == [clients[c] EXCEPT !.pc = "respond", !.ok = FALSE]
      <4>1. clients[c] \in ClientType
        BY DEF TypeOK
      <4>2. /\ x.pc = "respond" /\ x.kind = clients[c].kind /\ x.input = clients[c].input
            /\ x.wrapper = clients[c].wrapper /\ x.session = clients[c].session
        BY <4>1 DEF ClientType
      <4>3. clients'[c] \in {clients[c], Idle, x} /\ (clients[c].pc = "idle" => clients'[c] = Idle)
        BY <3>3
      <4> HIDE DEF x
      <4> QED BY <4>2, <4>3
    <3>5. clients' \in [Clients -> ClientType]
      <4>1. ASSUME NEW c \in Clients PROVE clients'[c] \in ClientType
        BY <3>1, <3>3, IdleTyped DEF TypeOK
      <4> QED BY <3>2, <4>1
    <3>6. ClientsTyped'
      BY <3>4, IdleTyped DEF ClientsTyped
    <3> QED BY <3>5, <3>6
  <2> QED BY <2>1, <2>2 DEF WrapperStep, run_app_control, start_sockets,
       mark_session_exited_after_failure, mark_resume_session_bound, remote_exits
<1> QED BY <1>2, <1>3, <1>4, <1>5, <1>6 DEF TypeOK

LEMMA StartTurnTyped ==
    ASSUME TypeOK, NEW t \in Threads, NEW message \in Texts, StartTurn(t, message)
    PROVE  /\ threads' \in [Threads -> ThreadType]
           /\ \A u \in Threads : threads'[u].wrapper = threads[u].wrapper
           /\ \A u \in Threads : threads'[u].message # threads[u].message
                                     => u = t /\ threads'[u].message = message
<1> DEFINE m == IF threads[t].message = None THEN message ELSE threads[t].message
           x == [threads[t] EXCEPT !.turn = threads[t].turn + 1, !.active = TRUE, !.message = m]
<1>1. threads[t] \in ThreadType
  BY DEF TypeOK
<1>2. m \in Texts /\ m \in {threads[t].message, message}
  BY <1>1 DEF ThreadType
<1>3. threads' = [threads EXCEPT ![t].turn = @ + 1, ![t].active = TRUE, ![t].message = m]
  BY <1>1 DEF StartTurn, TypeOK, ThreadType
<1> HIDE DEF m
<1>4. x \in ThreadType /\ x.wrapper = threads[t].wrapper /\ x.message = m
  <2> DEFINE n == threads[t].turn + 1
             z == [threads[t] EXCEPT !.turn = n]
             y == [z EXCEPT !.active = TRUE]
  <2>1. n \in Nat
    BY <1>1 DEF ThreadType
  <2> HIDE DEF n
  <2>2. z \in ThreadType /\ z.wrapper = threads[t].wrapper
    BY <1>1, <2>1 DEF ThreadType
  <2> HIDE DEF z
  <2>3. y \in ThreadType /\ y.wrapper = threads[t].wrapper
    BY <2>2 DEF ThreadType
  <2>4. x = [y EXCEPT !.message = m]
    BY DEF n, z
  <2> HIDE DEF y, x
  <2> QED BY <1>2, <2>3, <2>4 DEF ThreadType
<1>5. /\ DOMAIN threads' = Threads /\ threads' = [u \in Threads |-> threads'[u]]
      /\ \A u \in Threads \ {t} : threads'[u] = threads[u]
  BY <1>3 DEF TypeOK
<1>6. threads'[t] = x
  BY <1>1, <1>3 DEF TypeOK
<1> HIDE DEF x
<1>7. threads' \in [Threads -> ThreadType]
  <2>1. \A u \in Threads : threads'[u] \in ThreadType
    BY <1>4, <1>5, <1>6 DEF TypeOK
  <2> QED BY <1>5, <2>1
<1> QED BY <1>2, <1>4, <1>5, <1>6, <1>7

LEMMA EndTurnTyped ==
    ASSUME TypeOK, NEW t \in Threads, EndTurn(t)
    PROVE  /\ threads' \in [Threads -> ThreadType]
           /\ \A u \in Threads : /\ threads'[u].wrapper = threads[u].wrapper
                                 /\ threads'[u].message = threads[u].message
           /\ \E j \in Lines : jobs' = jobs \cup {j}
<1>1. threads[t] \in ThreadType
  BY DEF TypeOK
<1>2. threads' = [threads EXCEPT ![t].active = FALSE]
  BY DEF EndTurn
<1>3. /\ threads' \in [Threads -> ThreadType]
      /\ \A u \in Threads : /\ threads'[u].wrapper = threads[u].wrapper
                            /\ threads'[u].message = threads[u].message
  BY <1>1, <1>2 DEF TypeOK, ThreadType
<1>4. PICK type \in LineKinds :
         jobs' = jobs \cup {[kind |-> "line", wrapper |-> None, session |-> t,
                             what |-> <<type, threads[t].turn>>]}
  BY DEF EndTurn, LineKinds
<1>5. threads[t].turn \in Nat
  BY <1>1 DEF ThreadType
<1>6. [kind |-> "line", wrapper |-> None, session |-> t, what |-> <<type, threads[t].turn>>] \in Lines
  BY <1>5 DEF Lines
<1> QED BY <1>3, <1>4, <1>6

LEMMA OpenThreadFacts ==
    ASSUME TypeOK, NEW w \in Wrappers, NEW t \in Threads, OpenThread(w, t)
    PROVE  /\ threads' \in [Threads -> ThreadType] /\ process' \in [Wrappers -> ProcessType]
           /\ threads[t].wrapper = None /\ threads'[t].wrapper = w
           /\ \A u \in Threads \ {t} : threads'[u].wrapper = threads[u].wrapper
           /\ \A u \in Threads : threads'[u].message = threads[u].message
           /\ process'[w].loaded \subseteq process[w].loaded \cup {t} /\ process'[w].pc = process[w].pc
           /\ process'[w].asked = process[w].asked /\ process'[w].pending = process[w].pending
           /\ \A v \in Wrappers \ {w} : process'[v] = process[v]
<1>1. process[w] \in ProcessType /\ threads[t] \in ThreadType
  BY DEF TypeOK
<1>2. threads' = [threads EXCEPT ![t].wrapper = w] /\ threads[t].wrapper = None
  BY DEF OpenThread
<1>3. PICK kept \in {{}, process[w].loaded} : process' = [process EXCEPT ![w].loaded = kept \cup {t}]
  BY DEF OpenThread
<1>4. kept \subseteq process[w].loaded /\ kept \subseteq Threads
  BY <1>1, <1>3 DEF ProcessType
<1> DEFINE x == [process[w] EXCEPT !.loaded = kept \cup {t}]
<1>5. /\ x \in ProcessType /\ x.loaded = kept \cup {t} /\ x.pc = process[w].pc
      /\ x.asked = process[w].asked /\ x.pending = process[w].pending
  BY <1>1, <1>4 DEF ProcessType
<1>6. process' = [process EXCEPT ![w] = x]
  BY <1>3
<1> HIDE DEF x
<1>7. /\ process' \in [Wrappers -> ProcessType] /\ process'[w] = x
      /\ \A v \in Wrappers \ {w} : process'[v] = process[v]
  BY <1>5, <1>6 DEF TypeOK
<1>8. /\ threads' \in [Threads -> ThreadType] /\ threads'[t].wrapper = w
      /\ \A u \in Threads \ {t} : threads'[u].wrapper = threads[u].wrapper
      /\ \A u \in Threads : threads'[u].message = threads[u].message
  BY <1>1, <1>2 DEF TypeOK, ThreadType
<1> QED BY <1>2, <1>4, <1>5, <1>7, <1>8

(* What the steps of a question change of a wrapper's process.             *)
SameProcesses(w) ==
    /\ \A v \in Wrappers \ {w} : process'[v] = process[v]
    /\ process'[w].pc = process[w].pc /\ process'[w].loaded = process[w].loaded

LEMMA ProcessField ==
    ASSUME TypeOK, NEW w \in Wrappers, NEW x \in ProcessType, process' = [process EXCEPT ![w] = x]
    PROVE  /\ process' \in [Wrappers -> ProcessType] /\ process'[w] = x
           /\ \A v \in Wrappers \ {w} : process'[v] = process[v]
BY DEF TypeOK

LEMMA RecordFacts ==
    ASSUME TypeOK, NEW w \in Wrappers, process' = [process EXCEPT ![w].recorded = TRUE]
    PROVE  /\ process' \in [Wrappers -> ProcessType] /\ SameProcesses(w)
           /\ process'[w].asked = process[w].asked /\ process'[w].pending = process[w].pending
<1> DEFINE x == [process[w] EXCEPT !.recorded = TRUE]
<1>1. process[w] \in ProcessType
  BY DEF TypeOK
<1>2. /\ x \in ProcessType /\ x.pc = process[w].pc /\ x.loaded = process[w].loaded
      /\ x.asked = process[w].asked /\ x.pending = process[w].pending
  BY <1>1 DEF ProcessType
<1>3. process' = [process EXCEPT ![w] = x]
  OBVIOUS
<1> HIDE DEF x
<1> QED BY <1>2, <1>3, ProcessField DEF SameProcesses

LEMMA AskFacts ==
    ASSUME TypeOK, NEW t \in Threads, NEW q \in Requests, ServerAsks(q, t)
    PROVE  /\ process' \in [Wrappers -> ProcessType] /\ SameProcesses(AskedBy[q])
           /\ process'[AskedBy[q]].asked = process[AskedBy[q]].asked \cup {q}
           /\ process'[AskedBy[q]].pending = process[AskedBy[q]].pending
           /\ inputs[q] = "new" /\ inputs' = [inputs EXCEPT ![q] = "open"]
<1> DEFINE w == AskedBy[q]
           x == [process[w] EXCEPT !.asked = process[w].asked \cup {q}]
<1>1. w \in Wrappers /\ process[w] \in ProcessType
  BY WrapperAssumption DEF TypeOK
<1>2. /\ x \in ProcessType /\ x.pc = process[w].pc /\ x.loaded = process[w].loaded
      /\ x.asked = process[w].asked \cup {q} /\ x.pending = process[w].pending
  BY <1>1 DEF ProcessType
<1>3. /\ process' = [process EXCEPT ![w] = x]
      /\ inputs[q] = "new" /\ inputs' = [inputs EXCEPT ![q] = "open"]
  BY DEF ServerAsks
<1> HIDE DEF x
<1> QED BY <1>1, <1>2, <1>3, ProcessField DEF SameProcesses

LEMMA TerminalFacts ==
    ASSUME TypeOK, NEW q \in Requests, TerminalAnswers(q)
    PROVE  /\ process' \in [Wrappers -> ProcessType] /\ SameProcesses(AskedBy[q])
           /\ process'[AskedBy[q]].asked = process[AskedBy[q]].asked
           /\ process'[AskedBy[q]].pending = process[AskedBy[q]].pending
           /\ inputs[q] = "open" /\ inputs' = [inputs EXCEPT ![q] = "answered"]
<1> DEFINE w == AskedBy[q]
           x == [process[w] EXCEPT !.answered = process[w].answered \cup {q}]
<1>1. w \in Wrappers /\ process[w] \in ProcessType
  BY WrapperAssumption DEF TypeOK
<1>2. /\ x \in ProcessType /\ x.pc = process[w].pc /\ x.loaded = process[w].loaded
      /\ x.asked = process[w].asked /\ x.pending = process[w].pending
  BY <1>1 DEF ProcessType
<1>3. /\ process' = [process EXCEPT ![w] = x]
      /\ inputs[q] = "open" /\ inputs' = [inputs EXCEPT ![q] = "answered"]
  BY DEF TerminalAnswers
<1> HIDE DEF x
<1> QED BY <1>1, <1>2, <1>3, ProcessField DEF SameProcesses

LEMMA ObserveFacts ==
    ASSUME TypeOK, NEW q \in Requests, observe_input_request(q)
    PROVE  /\ process' \in [Wrappers -> ProcessType] /\ SameProcesses(AskedBy[q])
           /\ q \in process[AskedBy[q]].asked
           /\ process'[AskedBy[q]].asked = process[AskedBy[q]].asked \ {q}
           /\ process'[AskedBy[q]].pending = process[AskedBy[q]].pending \cup {q}
           /\ \E j \in Questions : j.what = q /\ jobs' = jobs \cup {j}
<1> DEFINE w == AskedBy[q]
           x == [process[w] EXCEPT !.asked = process[w].asked \ {q},
                                   !.pending = process[w].pending \cup {q}]
           j == [kind |-> "input", wrapper |-> w, what |-> q, session |-> None]
<1>1. w \in Wrappers /\ process[w] \in ProcessType
  BY WrapperAssumption DEF TypeOK
<1>2. /\ x \in ProcessType /\ x.pc = process[w].pc /\ x.loaded = process[w].loaded
      /\ x.asked = process[w].asked \ {q} /\ x.pending = process[w].pending \cup {q}
  BY <1>1 DEF ProcessType
<1>3. process' = [process EXCEPT ![w] = x]
  BY <1>1 DEF observe_input_request, ProcessType, TypeOK
<1>4. j \in Questions /\ j.what = q
  BY <1>1 DEF Questions
<1>5. jobs' = jobs \cup {j} /\ q \in process[w].asked
  BY DEF observe_input_request
<1> HIDE DEF x, j
<1>6. \E i \in Questions : i.what = q /\ jobs' = jobs \cup {i}
  BY <1>4, <1>5
<1>7. /\ process' \in [Wrappers -> ProcessType] /\ process'[w] = x
      /\ \A v \in Wrappers \ {w} : process'[v] = process[v]
  BY <1>1, <1>2, <1>3, ProcessField
<1> QED BY <1>2, <1>5, <1>6, <1>7 DEF SameProcesses

LEMMA TerminalSeenFacts ==
    ASSUME TypeOK, NEW q \in Requests, observe_client_message(q)
    PROVE  /\ process' \in [Wrappers -> ProcessType] /\ SameProcesses(AskedBy[q])
           /\ process'[AskedBy[q]].asked = process[AskedBy[q]].asked
           /\ process'[AskedBy[q]].pending \subseteq process[AskedBy[q]].pending
<1> DEFINE w == AskedBy[q]
           x == [process[w] EXCEPT !.answered = process[w].answered \ {q},
                                   !.pending = process[w].pending \ {q}]
<1>1. w \in Wrappers /\ process[w] \in ProcessType
  BY WrapperAssumption DEF TypeOK
<1>2. /\ x \in ProcessType /\ x.pc = process[w].pc /\ x.loaded = process[w].loaded
      /\ x.asked = process[w].asked /\ x.pending = process[w].pending \ {q}
  BY <1>1 DEF ProcessType
<1>3. process' = [process EXCEPT ![w] = x]
  BY <1>1 DEF observe_client_message, ProcessType, TypeOK
<1> HIDE DEF x
<1>4. /\ process' \in [Wrappers -> ProcessType] /\ process'[w] = x
      /\ \A v \in Wrappers \ {w} : process'[v] = process[v]
  BY <1>1, <1>2, <1>3, ProcessField
<1> QED BY <1>2, <1>4 DEF SameProcesses

LEMMA TakeFacts ==
    ASSUME TypeOK, ClientsTyped, NEW c \in Clients, resolve_input_answer_frame(c)
    PROVE  /\ process' \in [Wrappers -> ProcessType] /\ clients[c].pc = "handle"
           /\ clients[c].input \in Requests /\ clients[c].wrapper = AskedBy[clients[c].input]
           /\ SameProcesses(clients[c].wrapper)
           /\ process'[clients[c].wrapper].asked = process[clients[c].wrapper].asked
           /\ process'[clients[c].wrapper].pending
                 = process[clients[c].wrapper].pending \ {clients[c].input}
           /\ clients[c].input \notin process[clients[c].wrapper].pending => clients'[c].pc # "write"
<1> DEFINE w == clients[c].wrapper
           q == clients[c].input
           x == [process[w] EXCEPT !.pending = process[w].pending \ {q}]
<1>1. clients[c].pc = "handle" /\ clients[c].kind = "answer" /\ clients[c] \in ClientType
  BY DEF resolve_input_answer_frame, Handler, TypeOK
<1>2. q \in Requests /\ w = AskedBy[q] /\ w \in Wrappers
  BY <1>1 DEF ClientsTyped
<1>3. process[w] \in ProcessType
  BY <1>2 DEF TypeOK
<1>4. /\ x \in ProcessType /\ x.pc = process[w].pc /\ x.loaded = process[w].loaded
      /\ x.asked = process[w].asked /\ x.pending = process[w].pending \ {q}
  BY <1>3 DEF ProcessType
<1>5. process' = [process EXCEPT ![w] = x]
  BY DEF resolve_input_answer_frame
<1>6. q \notin process[w].pending => clients'[c].pc # "write"
  <2> SUFFICES ASSUME q \notin process[w].pending PROVE clients'[c].pc # "write"
    OBVIOUS
  <2> DEFINE a == [clients[c] EXCEPT !.pc = "respond", !.ok = FALSE]
  <2>1. clients' \in {[clients EXCEPT ![c] = a], [clients EXCEPT ![c] = Idle]}
    BY DEF resolve_input_answer_frame, Respond, GoOn
  <2>2. a.pc = "respond"
    BY <1>1 DEF ClientType
  <2> HIDE DEF a
  <2> QED BY <2>1, <2>2, IdleTyped DEF TypeOK
<1> HIDE DEF x
<1>7. /\ process' \in [Wrappers -> ProcessType] /\ process'[w] = x
      /\ \A v \in Wrappers \ {w} : process'[v] = process[v]
  BY <1>2, <1>4, <1>5, ProcessField
<1> QED BY <1>1, <1>2, <1>4, <1>6, <1>7 DEF SameProcesses

LEMMA CodexTyped ==
    ASSUME TypeOK, ClientsTyped, CodexStep
    PROVE  TypeOK' /\ ClientsTyped'
<1>1. UNCHANGED <<registry, clients, budget, log>>
  BY DEF CodexStep, OpenThread, observe_client_data, WriteFile, TurnEnds, ServerAsks, TerminalAnswers,
     codex
<1>2. ClientsTyped' /\ registry' \in [Wrappers -> RegistryType] /\ clients' \in [Clients -> ClientType]
      /\ budget' \in StartType /\ log' \in LogType
  BY <1>1 DEF TypeOK, ClientsTyped
<1> SUFFICES /\ process' \in [Wrappers -> ProcessType] /\ threads' \in [Threads -> ThreadType]
             /\ inputs' \in [Requests -> {"new", "open", "answered"}]
             /\ jobs' \subseteq Marks \cup Lines \cup Questions
  BY <1>2 DEF TypeOK
<1> USE DEF TypeOK
<1>3. ASSUME NEW w \in Wrappers, NEW t \in Threads, OpenThread(w, t)
      PROVE  /\ process' \in [Wrappers -> ProcessType] /\ threads' \in [Threads -> ThreadType]
             /\ UNCHANGED <<inputs, jobs>>
  BY <1>3, OpenThreadFacts DEF OpenThread
<1>4. ASSUME NEW w \in Wrappers, NEW t \in Threads, observe_client_data(w, t)
      PROVE  /\ process' \in [Wrappers -> ProcessType] /\ threads' \in [Threads -> ThreadType]
             /\ UNCHANGED inputs /\ jobs' \subseteq jobs \cup Marks
  <2>1. Message[w] \in Texts
    BY DEF Texts
  <2>2. threads' \in [Threads -> ThreadType]
    BY <1>4, <2>1, StartTurnTyped DEF observe_client_data
  <2>3. process' \in [Wrappers -> ProcessType]
    BY <1>4, RecordFacts DEF observe_client_data
  <2>4. first_user_message_submission(w, t) \in Marks
    BY <2>1 DEF first_user_message_submission, Marks
  <2>5. UNCHANGED inputs /\ jobs' \subseteq jobs \cup {first_user_message_submission(w, t)}
    BY <1>4 DEF observe_client_data
  <2> QED BY <2>2, <2>3, <2>4, <2>5
<1>5. ASSUME NEW t \in Threads, WriteFile(t)
      PROVE  UNCHANGED <<process, inputs, jobs>> /\ threads' \in [Threads -> ThreadType]
  BY <1>5 DEF WriteFile, ThreadType
<1>6. ASSUME NEW t \in Threads, TurnEnds(t)
      PROVE  /\ UNCHANGED <<process, inputs>> /\ threads' \in [Threads -> ThreadType]
             /\ jobs' \subseteq jobs \cup Lines
  BY <1>6, EndTurnTyped DEF TurnEnds
<1>7. ASSUME NEW t \in Threads, NEW q \in Requests, ServerAsks(q, t)
      PROVE  /\ process' \in [Wrappers -> ProcessType] /\ UNCHANGED <<threads, jobs>>
             /\ inputs' \in [Requests -> {"new", "open", "answered"}]
  BY <1>7, AskFacts DEF ServerAsks
<1>8. ASSUME NEW q \in Requests, TerminalAnswers(q)
      PROVE  /\ process' \in [Wrappers -> ProcessType] /\ UNCHANGED <<threads, jobs>>
             /\ inputs' \in [Requests -> {"new", "open", "answered"}]
  BY <1>8, TerminalFacts DEF TerminalAnswers
<1> QED BY <1>3, <1>4, <1>5, <1>6, <1>7, <1>8 DEF CodexStep

(* A background thread: it takes its question on, to the store, or ends.    *)
LEMMA JobFacts ==
    ASSUME TypeOK, NEW j \in jobs, JobStep(j)
    PROVE  /\ UNCHANGED <<process, threads, inputs, clients, budget>>
           /\ log' \in LogType /\ log'.answers = log.answers /\ log'.reported = log.reported
           /\ jobs' \subseteq Marks \cup Lines \cup Questions
           /\ \A i \in jobs' \ jobs : Carries(i) /\ i.what = j.what /\ UNCHANGED store
           /\ j \notin jobs' /\ \A i \in jobs' \ jobs, k \in jobs' \ jobs : i = k
           /\ jobs' \subseteq jobs \/ Carries(j)
           /\ \/ submit_relay_input_event(j) \/ WatcherReports(j)
              \/ UNCHANGED store
<1>1. UNCHANGED <<process, threads, inputs, clients, budget>>
  BY DEF JobStep, mark_first_user_message_submitted, relay_input_event_body,
     submit_relay_input_event, BackgroundFails, WatcherReports, codex
<1>2. log' \in LogType /\ log'.answers = log.answers /\ log'.reported = log.reported
  <2>1. CASE BackgroundFails(j)
    <3>1. j.kind = "mark" => j.wrapper \in Wrappers
      BY DEF TypeOK, Marks, Lines, Questions
    <3>2. \/ log' = log
          \/ j.kind = "mark" /\ log' = [log EXCEPT !.lost = @ \cup {j.wrapper}]
      BY <2>1 DEF BackgroundFails
    <3>3. log \in LogType
      BY DEF TypeOK
    <3> QED BY <3>1, <3>2, <3>3 DEF LogType
  <2>2. CASE log' = log
    BY <2>2 DEF TypeOK
  <2> QED BY <2>1, <2>2 DEF JobStep, mark_first_user_message_submitted, relay_input_event_body,
       submit_relay_input_event, WatcherReports
<1>3. CASE relay_input_event_body(j)
  <2> DEFINE session == relay_input_session(j.wrapper)
             body == [j EXCEPT !.kind = "post", !.session = session]
  <2>1. j.kind = "input" /\ jobs' = (jobs \ {j}) \cup {body} /\ UNCHANGED store
    BY <1>3 DEF relay_input_event_body
  <2>2. j \in [kind : {"input"}, wrapper : Wrappers, what : Requests, session : {None}]
    BY <2>1 DEF TypeOK, Marks, Lines, Questions
  <2>3. session \in SessionIds
    BY <2>2, WrapperAssumption
       DEF relay_input_session, managed_bound_codex_session_id, TypeOK, RegistryType
  <2> HIDE DEF session
  <2>4. body \in Questions /\ body.kind = "post" /\ body.what = j.what
    BY <2>2, <2>3 DEF Questions
  <2> HIDE DEF body
  <2> QED BY <1>1, <1>2, <2>1, <2>4 DEF TypeOK, Carries
<1>4. CASE jobs' = jobs \ {j}
  <2>1. submit_relay_input_event(j) \/ WatcherReports(j) \/ UNCHANGED store
    BY DEF JobStep, mark_first_user_message_submitted, relay_input_event_body, BackgroundFails
  <2> QED BY <1>1, <1>2, <1>4, <2>1 DEF TypeOK
<1> QED BY <1>3, <1>4 DEF JobStep, mark_first_user_message_submitted, submit_relay_input_event,
     BackgroundFails, WatcherReports

(* Relays, background threads and the plugin.                              *)
LEMMA RelayTyped ==
    ASSUME TypeOK, ClientsTyped,
           RelayStep \/ (\E j \in jobs : JobStep(j)) \/ build_snapshot_refresh
    PROVE  TypeOK' /\ ClientsTyped'
<1>1. ASSUME NEW q \in Requests, observe_input_request(q) \/ observe_client_message(q)
      PROVE  TypeOK' /\ ClientsTyped'
  <2>1. process' \in [Wrappers -> ProcessType]
    BY <1>1, ObserveFacts, TerminalSeenFacts
  <2>2. [kind |-> "input", wrapper |-> AskedBy[q], what |-> q, session |-> None] \in Questions
    BY WrapperAssumption DEF Questions
  <2>3. jobs' \subseteq jobs \cup {[kind |-> "input", wrapper |-> AskedBy[q], what |-> q, session |-> None]}
        /\ UNCHANGED <<registry, threads, inputs, clients, budget, log>>
    BY <1>1 DEF observe_input_request, observe_client_message, codex
  <2> QED BY <2>1, <2>2, <2>3 DEF TypeOK, ClientsTyped
<1>2. ASSUME NEW j \in jobs, JobStep(j)
      PROVE  TypeOK' /\ ClientsTyped'
  <2>1. UNCHANGED <<process, threads, inputs, clients, budget>> /\ log' \in LogType
        /\ jobs' \subseteq Marks \cup Lines \cup Questions
    BY <1>2, JobFacts DEF TypeOK
  <2>2. registry' \in [Wrappers -> RegistryType]
    <3>1. CASE UNCHANGED registry
      BY <3>1 DEF TypeOK
    <3>2. CASE mark_first_user_message_submitted(j)
      <4>1. j \in Marks
        BY <3>2 DEF TypeOK, mark_first_user_message_submitted, Lines, Questions
      <4>2. [state |-> "BindingPending", session |-> j.session, hash |-> j.what] \in RegistryType
            /\ j.wrapper \in Wrappers
        BY <4>1 DEF Marks, RegistryType
      <4>3. registry' \in {registry, [registry EXCEPT ![j.wrapper] =
                [state |-> "BindingPending", session |-> j.session, hash |-> j.what]]}
        BY <3>2 DEF mark_first_user_message_submitted
      <4> QED BY <4>2, <4>3 DEF TypeOK
    <3> QED BY <1>2, <3>1, <3>2 DEF JobStep, relay_input_event_body, submit_relay_input_event,
         BackgroundFails, WatcherReports
  <2> QED BY <2>1, <2>2 DEF TypeOK, ClientsTyped
<1>3. ASSUME build_snapshot_refresh
      PROVE  TypeOK' /\ ClientsTyped'
  <2>1. UNCHANGED <<process, threads, inputs, jobs, clients, budget, log>>
    BY <1>3 DEF build_snapshot_refresh, codex
  <2>2. ASSUME NEW s \in RegistryType PROVE bind_managed_session(s) \in RegistryType
    <3>1. match_managed_session(s) \subseteq Threads
      BY DEF match_managed_session, Candidates
    <3>2. \A t \in Threads : [s EXCEPT !.state = "Bound", !.session = t] \in RegistryType
      BY DEF RegistryType
    <3>3. [s EXCEPT !.state = "Ambiguous"] \in RegistryType
      BY DEF RegistryType
    <3> DEFINE t == CHOOSE u \in match_managed_session(s) : TRUE
    <3>4. match_managed_session(s) # {} => t \in Threads
      BY <3>1
    <3>5. \/ bind_managed_session(s) = s
          \/ match_managed_session(s) # {}
             /\ bind_managed_session(s) \in {[s EXCEPT !.state = "Bound", !.session = t],
                                             [s EXCEPT !.state = "Ambiguous"]}
      BY DEF bind_managed_session
    <3> HIDE DEF t
    <3> QED BY <3>2, <3>3, <3>4, <3>5
  <2>3. registry' \in [Wrappers -> RegistryType]
    BY <1>3, <2>2 DEF build_snapshot_refresh, TypeOK
  <2> QED BY <2>1, <2>3 DEF TypeOK, ClientsTyped
<1> QED BY <1>1, <1>2, <1>3 DEF RelayStep

(* A command: it answers a question of the wrapper's app-server, or it     *)
(* names none.                                                             *)
LEMMA CommandTyped ==
    ASSUME TypeOK, ClientsTyped, NEW c \in Clients, NEW kind \in {"answer", "instruct", "interrupt"},
           NEW w \in Wrappers, NEW session \in SessionIds \cup {None}, NEW q,
           kind = "answer" => q \in Requests /\ w = AskedBy[q] /\ session \in SessionIds,
           kind # "answer" => q = None,
           Command(c, kind, w, session, q)
    PROVE  /\ TypeOK' /\ ClientsTyped'
           /\ UNCHANGED <<process, registry, threads, inputs, jobs, store, log>>
           /\ budget' = [budget EXCEPT !.commands = @ - 1]
           /\ \A d \in Clients : clients'[d].pc # "idle" =>
                 \/ clients'[d] = clients[d]
                 \/ d = c /\ clients'[d].pc = "handle" /\ clients'[d].input = q
                      /\ clients'[d].session = session
<1> DEFINE x == [Idle EXCEPT !.pc = "handle", !.kind = kind, !.wrapper = w, !.session = session,
                             !.input = q, !.waits = TRUE]
<1>1. x \in ClientType /\ x.pc = "handle" /\ x.kind = kind /\ x.wrapper = w /\ x.input = q
      /\ x.session = session
  BY DEF Idle, ClientType
<1>2. /\ clients' \in {[clients EXCEPT ![c] = x], [clients EXCEPT ![c] = Idle]}
      /\ UNCHANGED <<process, registry, threads, inputs, jobs, store, log>>
      /\ budget' = [budget EXCEPT !.commands = @ - 1] /\ budget.commands > 0
  BY DEF Command, codex
<1> HIDE DEF x
<1>3. budget' \in StartType
  BY <1>2 DEF TypeOK, StartType
<1>4. clients' \in [Clients -> ClientType]
  BY <1>1, <1>2, IdleTyped DEF TypeOK
<1>5. ClientsTyped'
  BY <1>1, <1>2, IdleTyped DEF TypeOK, ClientsTyped
<1>6. \A d \in Clients : clients'[d].pc # "idle" =>
         \/ clients'[d] = clients[d]
         \/ d = c /\ clients'[d].pc = "handle" /\ clients'[d].input = q
              /\ clients'[d].session = session
  BY <1>1, <1>2, IdleTyped DEF TypeOK
<1> QED BY <1>2, <1>3, <1>4, <1>5, <1>6 DEF TypeOK

LEMMA ClientTyped ==
    ASSUME TypeOK, ClientsTyped, store \in StoredState(StoreIds), NEW c \in Clients, ClientStep(c)
    PROVE  /\ TypeOK' /\ ClientsTyped'
           /\ UNCHANGED <<process, registry, threads, inputs, jobs, store, log>>
           /\ budget'.wrappers = budget.wrappers
           /\ \A d \in Clients : clients'[d].pc # "idle" =>
                 \/ clients'[d] = clients[d]
                 \/ d = c /\ clients'[d].pc = "handle" /\ clients'[d].input = None
                 \/ /\ d = c /\ clients'[d].pc = "handle"
                    /\ \E i \in store.attention_items :
                          clients'[d].input = i.key /\ clients'[d].session = i.session
<1>1. ASSUME NEW kind \in {"answer", "instruct", "interrupt"},
             NEW w \in Wrappers, NEW session \in SessionIds \cup {None}, NEW q,
             kind = "answer" => q \in Requests /\ w = AskedBy[q] /\ session \in SessionIds,
             kind # "answer" => q = None,
             Command(c, kind, w, session, q)
      PROVE  /\ TypeOK' /\ ClientsTyped'
             /\ UNCHANGED <<process, registry, threads, inputs, jobs, store, log>>
             /\ budget'.wrappers = budget.wrappers
             /\ \A d \in Clients : clients'[d].pc # "idle" =>
                   \/ clients'[d] = clients[d]
                   \/ d = c /\ clients'[d].pc = "handle" /\ clients'[d].input = q
                        /\ clients'[d].session = session
  <2>1. /\ TypeOK' /\ ClientsTyped'
        /\ UNCHANGED <<process, registry, threads, inputs, jobs, store, log>>
        /\ budget' = [budget EXCEPT !.commands = @ - 1]
        /\ \A d \in Clients : clients'[d].pc # "idle" =>
              \/ clients'[d] = clients[d]
              \/ d = c /\ clients'[d].pc = "handle" /\ clients'[d].input = q
                   /\ clients'[d].session = session
    BY <1>1, CommandTyped
  <2>2. budget'.wrappers = budget.wrappers
    BY <2>1 DEF TypeOK, StartType
  <2> QED BY <2>1, <2>2
<1>2. ASSUME NEW t \in Threads, NEW w \in Wrappers,
             post_session_send_instruction(c, t, w) \/ post_session_interrupt(c, t, w)
      PROVE  \E kind \in {"instruct", "interrupt"} : Command(c, kind, w, t, None) /\ t \in SessionIds
  BY <1>2, WrapperAssumption DEF post_session_send_instruction, post_session_interrupt
<1>3. ASSUME NEW q \in Requests, post_session_answer_input(c, q)
      PROVE  \E i \in store.attention_items : /\ i.key = q /\ i.session \in SessionIds
                                              /\ AskedBy[q] \in Wrappers
                                              /\ Command(c, "answer", AskedBy[q], i.session, q)
  <2>1. PICK i \in store.attention_items : i.key = q /\ Command(c, "answer", AskedBy[q], i.session, q)
    BY <1>3 DEF post_session_answer_input
  <2>2. i.session \in SessionIds /\ AskedBy[q] \in Wrappers
    BY WrapperAssumption DEF StoredState, AttentionItem
  <2> QED BY <2>1, <2>2
<1>4. ASSUME NEW w \in Wrappers, NEW kind \in {"instruct", "interrupt"}, codex_send(c, w, kind)
      PROVE  Command(c, kind, w, None, None)
  BY <1>4 DEF codex_send
<1>5. CASE \E t \in Threads, w \in Wrappers :
              post_session_send_instruction(c, t, w) \/ post_session_interrupt(c, t, w)
  BY <1>1, <1>2, <1>5
<1>6. CASE \E q \in Requests : post_session_answer_input(c, q)
  <2>1. PICK q \in Requests : post_session_answer_input(c, q)
    BY <1>6
  <2>2. PICK i \in store.attention_items : /\ i.key = q /\ i.session \in SessionIds
                                           /\ AskedBy[q] \in Wrappers
                                           /\ Command(c, "answer", AskedBy[q], i.session, q)
    BY <1>3, <2>1
  <2> QED BY <1>1, <2>2
<1>7. CASE \E w \in Wrappers, kind \in {"instruct", "interrupt"} : codex_send(c, w, kind)
  BY <1>1, <1>4, <1>7
<1> QED BY <1>5, <1>6, <1>7 DEF ClientStep

LEMMA HandlerTyped ==
    ASSUME TypeOK, ClientsTyped, NEW c \in Clients, HandlerStep(c) \/ ControlTimesOut(c)
    PROVE  TypeOK' /\ ClientsTyped'
<1> DEFINE q == clients[c].input
<1>1. clients' \in [Clients -> ClientType] /\ ClientsTyped'
  BY HandlerContinues, ContinuesTyped
<1>2. clients[c].pc \in {"write", "append"} => q \in Requests
  BY Zenon DEF ClientsTyped
<1>3. process' \in [Wrappers -> ProcessType] /\ UNCHANGED <<registry, budget>>
  BY TakeFacts, Zenon DEF HandlerStep, ControlTimesOut, resolve_input_answer_frame, write_control_response_frame,
     read_loaded_thread, send_instruction_to_app_server, interrupt_app_server_turn,
     relay_control_command, append_answer_input_resolved_event, codex, TypeOK
<1>4. inputs' \in [Requests -> {"new", "open", "answered"}]
      /\ log' \in LogType
  <2>1. CASE write_control_response_frame(c)
    <3>1. q \in Requests
      BY <1>2, <2>1 DEF write_control_response_frame, Handler
    <3>2. inputs' \in {inputs, [inputs EXCEPT ![q] = "answered"]}
          /\ log' \in {log, [log EXCEPT !.answers[q] = @ + 1]}
      BY <2>1 DEF write_control_response_frame
    <3> QED BY <3>1, <3>2 DEF TypeOK, LogType
  <2>2. CASE append_answer_input_resolved_event(c)
    <3>1. q \in Requests
      BY <1>2, <2>2 DEF append_answer_input_resolved_event, Handler
    <3> QED BY <2>2, <3>1 DEF append_answer_input_resolved_event, TypeOK, codex, LogType
  <2> QED BY <2>1, <2>2 DEF HandlerStep, ControlTimesOut, resolve_input_answer_frame,
     read_loaded_thread, send_instruction_to_app_server, interrupt_app_server_turn,
     relay_control_command, codex, TypeOK
<1>5. threads' \in [Threads -> ThreadType] /\ jobs' \subseteq Marks \cup Lines \cup Questions
  <2>1. CASE UNCHANGED <<threads, jobs>>
    BY <2>1 DEF TypeOK
  <2>2. CASE send_instruction_to_app_server(c)
    <3>1. clients[c].thread \in Threads
      BY <2>2 DEF send_instruction_to_app_server, Handler, ClientsTyped
    <3>2. "instruction" \in Texts
      BY DEF Texts
    <3>3. UNCHANGED jobs /\ (StartTurn(clients[c].thread, "instruction") \/ UNCHANGED threads)
      BY <2>2 DEF send_instruction_to_app_server
    <3> QED BY <3>1, <3>2, <3>3, StartTurnTyped DEF TypeOK
  <2>3. CASE interrupt_app_server_turn(c)
    <3>1. clients[c].thread \in Threads
      BY <2>3 DEF interrupt_app_server_turn, Handler, ClientsTyped
    <3>2. EndTurn(clients[c].thread) \/ UNCHANGED <<threads, jobs>>
      BY <2>3 DEF interrupt_app_server_turn
    <3> QED BY <3>1, <3>2, EndTurnTyped DEF TypeOK
  <2> QED BY <2>1, <2>2, <2>3 DEF HandlerStep, ControlTimesOut, resolve_input_answer_frame,
     write_control_response_frame, read_loaded_thread, relay_control_command,
     append_answer_input_resolved_event, codex
<1> QED BY <1>1, <1>3, <1>4, <1>5 DEF TypeOK
-----------------------------------------------------------------------------
(* What each kind of step leaves of the way of a question: only the steps  *)
(* that the case distinctions below name move one on.                      *)
Keeps(c) ==
    clients'[c].pc # "idle" =>
        /\ clients[c].pc # "idle"
        /\ clients'[c].input = clients[c].input /\ clients'[c].session = clients[c].session
        /\ clients'[c].pc = "write" => clients[c].pc = "write"

(* Nothing about question q moves on.                                      *)
Rests(q) ==
    /\ inputs'[q] = "new" => inputs[q] = "new"
    /\ Asked(q)' => Asked(q)
    /\ Pending(q)' => Pending(q)
    /\ Filed(q)' => Filed(q)
    /\ log'.answers[q] = log.answers[q]

LEMMA RestsPasses ==
    ASSUME TypeOK, Passing, NEW q \in Requests, Rests(q),
           \A c \in Clients : /\ Writes(c, q)' => Writes(c, q)
                              /\ Serves(c, q)' => Serves(c, q) \/ ~Early(q),
           q \in log'.reported => q \in log.reported \/ ~Early(q),
           \A i \in store'.attention_items :
               i.key = q => i \in store.attention_items \/ ~Early(q)
    PROVE  OnItsWay(q)'
<1>1. Early(q)' => Early(q)
  BY DEF Early, Rests
<1> QED BY <1>1 DEF Passing, OnItsWay, Rests

(* The same for a step that moves no question at all.                      *)
LEMMA AllRest ==
    ASSUME TypeOK, Passing, \A q \in Requests : Rests(q), \A c \in Clients : Keeps(c),
           log'.reported = log.reported, store' = store
    PROVE  Passing'
<1>1. ASSUME NEW q \in Requests, NEW c \in Clients
      PROVE  (Writes(c, q)' => Writes(c, q)) /\ (Serves(c, q)' => Serves(c, q))
  BY DEF Keeps, Writes, Serves
<1> QED BY <1>1, RestsPasses DEF Passing, OnItsWay

LEMMA WrapperFacts ==
    ASSUME TypeOK, ClientsTyped, NEW w \in Wrappers, WrapperStep(w)
    PROVE  /\ \A v \in Wrappers :
                 /\ process'[v].asked \subseteq process[v].asked
                 /\ process'[v].pending \subseteq process[v].pending
                 /\ process'[v].loaded \subseteq
                       process[v].loaded \cup ({resume_target_session_id(v)} \ {None})
                 /\ process'[v].pc # "none" => process[v].pc # "none" \/ v \in budget.wrappers
           /\ jobs' \subseteq jobs /\ UNCHANGED <<threads, inputs, store, log>>
           /\ budget'.wrappers = budget.wrappers
           /\ \A c \in Clients : Keeps(c)
           /\ \/ registry' = [registry EXCEPT ![w] = managed_session_initial_binding(w)]
              \/ \E s \in {"Exited", "Bound", registry[w].state} :
                    /\ registry' = [registry EXCEPT ![w].state = s]
                    /\ s = "Bound" => registry[w].session # None \/ registry[w].state = "Bound"
<1>1. process[w] \in ProcessType /\ registry[w] \in RegistryType /\ budget \in StartType
  BY DEF TypeOK
<1>2. ASSUME NEW x \in ProcessType, process' = [process EXCEPT ![w] = x],
             x.asked \subseteq process[w].asked, x.pending \subseteq process[w].pending,
             x.loaded \subseteq process[w].loaded \cup ({resume_target_session_id(w)} \ {None}),
             process[w].pc # "none" \/ w \in budget.wrappers
      PROVE  \A v \in Wrappers :
                 /\ process'[v].asked \subseteq process[v].asked
                 /\ process'[v].pending \subseteq process[v].pending
                 /\ process'[v].loaded \subseteq
                       process[v].loaded \cup ({resume_target_session_id(v)} \ {None})
                 /\ process'[v].pc # "none" => process[v].pc # "none" \/ v \in budget.wrappers
  BY <1>2, ProcessField
<1>3. \A v \in Wrappers :
                 /\ process'[v].asked \subseteq process[v].asked
                 /\ process'[v].pending \subseteq process[v].pending
                 /\ process'[v].loaded \subseteq
                       process[v].loaded \cup ({resume_target_session_id(v)} \ {None})
                 /\ process'[v].pc # "none" => process[v].pc # "none" \/ v \in budget.wrappers
  <2>1. ASSUME NEW pc \in {"starting", "ready", "closing", "exiting", "ended"},
               process' = [process EXCEPT ![w].pc = pc],
               process[w].pc # "none" \/ w \in budget.wrappers
        PROVE  \E x \in ProcessType :
                  /\ process' = [process EXCEPT ![w] = x]
                  /\ x.asked = process[w].asked /\ x.pending = process[w].pending
                  /\ x.loaded = process[w].loaded
    <3> DEFINE x == [process[w] EXCEPT !.pc = pc]
    <3>1. /\ x \in ProcessType /\ x.asked = process[w].asked /\ x.pending = process[w].pending
          /\ x.loaded = process[w].loaded
      BY <1>1 DEF ProcessType
    <3>2. process' = [process EXCEPT ![w] = x]
      BY <2>1
    <3> HIDE DEF x
    <3> QED BY <3>1, <3>2
  <2>2. CASE mark_resume_session_bound(w)
    <3> DEFINE l == {resume_target_session_id(w)} \ {None}
               x == [process[w] EXCEPT !.pc = "running", !.loaded = l]
    <3>1. l \subseteq Threads
      BY WrapperAssumption DEF resume_target_session_id
    <3>2. process[w].pc # "none" /\ process' = [process EXCEPT ![w].pc = "running", ![w].loaded = l]
      BY <2>2 DEF mark_resume_session_bound
    <3> HIDE DEF l
    <3>3. /\ x \in ProcessType /\ x.asked = process[w].asked /\ x.pending = process[w].pending
          /\ x.loaded = l
      BY <1>1, <3>1 DEF ProcessType
    <3>4. process' = [process EXCEPT ![w] = x]
      BY <1>1, <3>2 DEF TypeOK, ProcessType
    <3> HIDE DEF x
    <3> QED BY <1>2, <3>2, <3>3, <3>4 DEF l
  <2>3. CASE ProcessEnds(w)
    <3> DEFINE x == [Unstarted EXCEPT !.pc = "ended"]
    <3>1. x \in ProcessType /\ x.asked = {} /\ x.pending = {} /\ x.loaded = {}
      BY DEF Unstarted, ProcessType
    <3>2. process' = [process EXCEPT ![w] = x] /\ process[w].pc # "none"
      BY <2>3 DEF ProcessEnds
    <3> HIDE DEF x
    <3> QED BY <1>2, <3>1, <3>2
  <2>4. ASSUME run_app_control(w) \/ start_sockets(w) \/ mark_session_exited_after_failure(w)
               \/ remote_exits(w)
        PROVE  \E pc \in {"starting", "ready", "closing", "exiting", "ended"} :
                  /\ process' = [process EXCEPT ![w].pc = pc]
                  /\ process[w].pc # "none" \/ w \in budget.wrappers
    BY <2>4 DEF run_app_control, start_sockets, mark_session_exited_after_failure, remote_exits
  <2>5. ASSUME run_app_control(w) \/ start_sockets(w) \/ mark_session_exited_after_failure(w)
               \/ remote_exits(w)
        PROVE  \E x \in ProcessType :
                  /\ process' = [process EXCEPT ![w] = x]
                  /\ x.asked = process[w].asked /\ x.pending = process[w].pending
                  /\ x.loaded = process[w].loaded
                  /\ process[w].pc # "none" \/ w \in budget.wrappers
    BY <2>1, <2>4, <2>5
  <2> QED BY <1>2, <2>2, <2>3, <2>5 DEF WrapperStep
<1>4. jobs' \subseteq jobs /\ UNCHANGED <<threads, inputs, store, log>>
  BY DEF WrapperStep, run_app_control, start_sockets, codex,
       mark_session_exited_after_failure, mark_resume_session_bound, remote_exits, ProcessEnds
<1>5. budget'.wrappers = budget.wrappers
  BY <1>1 DEF StartType, WrapperStep, run_app_control, start_sockets, SpendExit,
       mark_session_exited_after_failure, mark_resume_session_bound, remote_exits, ProcessEnds
<1>6. ASSUME NEW c \in Clients PROVE Keeps(c)
  <2>1. CASE UNCHANGED clients
    BY <2>1 DEF Keeps
  <2>2. CASE ProcessEnds(w)
    <3> DEFINE x == [clients[c] EXCEPT !.pc = "respond", !.ok = FALSE]
    <3>1. clients[c] \in ClientType
      BY DEF TypeOK
    <3>2. x.pc = "respond" /\ x.input = clients[c].input /\ x.session = clients[c].session
      BY <3>1 DEF ClientType
    <3>3. clients'[c] \in {clients[c], Idle} \/ (clients[c].waits /\ clients'[c] = x)
      BY <2>2 DEF ProcessEnds
    <3>4. clients[c].pc = "idle" => ~clients[c].waits
      BY DEF ClientsTyped, Idle
    <3> HIDE DEF x
    <3> QED BY <3>2, <3>3, <3>4, IdleTyped DEF Keeps
  <2> QED BY <2>1, <2>2 DEF WrapperStep, run_app_control, start_sockets,
       mark_session_exited_after_failure, mark_resume_session_bound, remote_exits
<1>7. \/ registry' = [registry EXCEPT ![w] = managed_session_initial_binding(w)]
      \/ \E s \in {"Exited", "Bound", registry[w].state} :
            /\ registry' = [registry EXCEPT ![w].state = s]
            /\ s = "Bound" => registry[w].session # None \/ registry[w].state = "Bound"
  <2>1. registry = [registry EXCEPT ![w].state = registry[w].state]
    BY <1>1 DEF TypeOK, RegistryType
  <2>2. CASE mark_resume_session_bound(w)
    BY <2>2 DEF mark_resume_session_bound
  <2>3. CASE UNCHANGED registry
    BY <2>1, <2>3
  <2>4. CASE run_app_control(w) \/ mark_session_exited_after_failure(w)
    BY <2>4 DEF run_app_control, mark_session_exited_after_failure
  <2> QED BY <2>2, <2>3, <2>4 DEF WrapperStep, start_sockets, remote_exits, ProcessEnds
<1> QED BY <1>3, <1>4, <1>5, <1>6, <1>7

(* A handler moves its own command on.                                     *)
LEMMA HandlerFacts ==
    ASSUME TypeOK, ClientsTyped, NEW c \in Clients, HandlerStep(c) \/ ControlTimesOut(c)
    PROVE  /\ \A d \in Clients : d # c => clients'[d] = clients[d]
           /\ Keeps(c) \/ resolve_input_answer_frame(c)
           /\ clients'[c].pc # "idle" =>
                 /\ clients[c].pc # "idle" /\ clients'[c].input = clients[c].input
                 /\ clients'[c].session = clients[c].session
           /\ UNCHANGED <<registry, budget>>
<1>1. PICK x : clients' = [clients EXCEPT ![c] = x] /\ Continues(c, x)
  BY HandlerContinues
<1>2. clients'[c] = x /\ \A d \in Clients : d # c => clients'[d] = clients[d]
  BY <1>1 DEF TypeOK
<1>3. UNCHANGED <<registry, budget>>
  BY DEF HandlerStep, ControlTimesOut, resolve_input_answer_frame, write_control_response_frame,
     read_loaded_thread, send_instruction_to_app_server, interrupt_app_server_turn,
     relay_control_command, append_answer_input_resolved_event, codex
<1> QED BY <1>1, <1>2, <1>3 DEF Continues, Keeps

-----------------------------------------------------------------------------
(* Passing.                                                                *)
LEMMA WrapperPasses ==
    ASSUME TypeOK, ClientsTyped, Passing, NEW w \in Wrappers, WrapperStep(w)
    PROVE  Passing'
<1>1. /\ \A v \in Wrappers : /\ process'[v].asked \subseteq process[v].asked
                             /\ process'[v].pending \subseteq process[v].pending
      /\ jobs' \subseteq jobs /\ UNCHANGED <<threads, inputs, store, log>>
      /\ \A c \in Clients : Keeps(c)
  BY WrapperFacts
<1>2. ASSUME NEW q \in Requests PROVE Rests(q)
  <2>1. AskedBy[q] \in Wrappers
    BY WrapperAssumption
  <2> QED BY <1>1, <2>1 DEF Rests, Asked, Pending, Filed
<1> QED BY <1>1, <1>2, AllRest

(* Only the relay adds a thread that carries a question, and only when the *)
(* question has come from the app-server.                                  *)
LEMMA FiledOnceStays ==
    ASSUME FiledOnce, \A j \in jobs' \ jobs : ~Carries(j)
    PROVE  FiledOnce'
BY DEF FiledOnce

LEMMA RelayFilesOnce ==
    ASSUME TypeOK, Passing, FiledOnce, RelayStep
    PROVE  FiledOnce'
<1>1. ASSUME NEW q \in Requests, observe_client_message(q)
      PROVE  jobs' = jobs
  BY <1>1 DEF observe_client_message
<1>2. ASSUME NEW q \in Requests, observe_input_request(q)
      PROVE  FiledOnce'
  <2>1. PICK j \in Questions : j.what = q /\ jobs' = jobs \cup {j}
    BY <1>2, ObserveFacts
  <2>2. ~Filed(q)
    BY <1>2, ObserveFacts DEF Passing, OnItsWay, Asked
  <2> QED BY <2>1, <2>2 DEF FiledOnce, Filed
<1> QED BY <1>1, <1>2, FiledOnceStays DEF RelayStep

LEMMA JobFilesOnce ==
    ASSUME TypeOK, FiledOnce, NEW j \in jobs, JobStep(j)
    PROVE  FiledOnce'
<1>1. /\ j \notin jobs' /\ (jobs' \subseteq jobs \/ Carries(j))
      /\ \A i \in jobs' \ jobs : Carries(i) /\ i.what = j.what
      /\ \A i \in jobs' \ jobs, k \in jobs' \ jobs : i = k
  BY JobFacts
<1> QED BY <1>1 DEF FiledOnce

LEMMA HandlerFilesOnce ==
    ASSUME TypeOK, ClientsTyped, FiledOnce, NEW c \in Clients, HandlerStep(c) \/ ControlTimesOut(c)
    PROVE  FiledOnce'
<1>1. CASE interrupt_app_server_turn(c)
  <2>1. clients[c].thread \in Threads
    BY <1>1 DEF interrupt_app_server_turn, Handler, ClientsTyped
  <2>2. EndTurn(clients[c].thread) \/ UNCHANGED jobs
    BY <1>1 DEF interrupt_app_server_turn
  <2>3. \A j \in jobs' \ jobs : ~Carries(j)
    BY <2>1, <2>2, EndTurnTyped DEF Lines, Carries
  <2> QED BY <2>3, FiledOnceStays
<1>2. CASE UNCHANGED jobs
  BY <1>2, FiledOnceStays
<1> QED BY <1>1, <1>2 DEF HandlerStep, ControlTimesOut, resolve_input_answer_frame,
     write_control_response_frame, read_loaded_thread, send_instruction_to_app_server,
     relay_control_command, append_answer_input_resolved_event

LEMMA CodexFilesOnce ==
    ASSUME TypeOK, FiledOnce, CodexStep
    PROVE  FiledOnce'
<1>1. ASSUME NEW w \in Wrappers, NEW t \in Threads, observe_client_data(w, t)
      PROVE  \A j \in jobs' \ jobs : ~Carries(j)
  BY <1>1 DEF observe_client_data, first_user_message_submission, Carries
<1>2. ASSUME NEW t \in Threads, TurnEnds(t)
      PROVE  \A j \in jobs' \ jobs : ~Carries(j)
  BY <1>2, EndTurnTyped DEF TurnEnds, Lines, Carries
<1>3. CASE UNCHANGED jobs
  BY <1>3, FiledOnceStays
<1> QED BY <1>1, <1>2, <1>3, FiledOnceStays DEF CodexStep, OpenThread, WriteFile, ServerAsks,
     TerminalAnswers

(* A step that leaves the processes' questions alone.                      *)
LEMMA ProcessesRest ==
    ASSUME TypeOK, Passing, UNCHANGED <<inputs, store, log>>,
           \A v \in Wrappers : /\ process'[v].asked = process[v].asked
                               /\ process'[v].pending = process[v].pending,
           \A j \in jobs' \ jobs : ~Carries(j), \A c \in Clients : Keeps(c)
    PROVE  Passing'
<1>1. ASSUME NEW q \in Requests PROVE Rests(q)
  <2>1. AskedBy[q] \in Wrappers
    BY WrapperAssumption
  <2> QED BY <2>1 DEF Rests, Asked, Pending, Filed
<1> QED BY <1>1, AllRest

LEMMA CodexPasses ==
    ASSUME TypeOK, ClientsTyped, Passing, CodexStep
    PROVE  Passing'
<1>1. UNCHANGED <<registry, clients, budget, log, store>>
  BY DEF CodexStep, OpenThread, observe_client_data, WriteFile, TurnEnds, ServerAsks, TerminalAnswers,
     codex
<1>2. \A c \in Clients : Keeps(c)
  BY <1>1 DEF Keeps
<1>3. ASSUME NEW w \in Wrappers, NEW t \in Threads, OpenThread(w, t)
      PROVE  Passing'
  <2>1. UNCHANGED <<inputs, store, log, jobs>>
    BY <1>3 DEF OpenThread
  <2>2. \A v \in Wrappers : /\ process'[v].asked = process[v].asked
                            /\ process'[v].pending = process[v].pending
    BY <1>3, OpenThreadFacts
  <2> QED BY <1>2, <2>1, <2>2, ProcessesRest
<1>4. ASSUME NEW w \in Wrappers, NEW t \in Threads, observe_client_data(w, t)
      PROVE  Passing'
  <2>1. UNCHANGED <<inputs, store, log>> /\ jobs' \subseteq jobs \cup {first_user_message_submission(w, t)}
    BY <1>4 DEF observe_client_data
  <2>2. \A j \in jobs' \ jobs : ~Carries(j)
    BY <2>1 DEF first_user_message_submission, Carries
  <2>3. \A v \in Wrappers : /\ process'[v].asked = process[v].asked
                            /\ process'[v].pending = process[v].pending
    BY <1>4, RecordFacts DEF observe_client_data, SameProcesses
  <2> QED BY <1>2, <2>1, <2>2, <2>3, ProcessesRest
<1>5. ASSUME NEW t \in Threads, WriteFile(t) \/ TurnEnds(t)
      PROVE  Passing'
  <2>1. UNCHANGED <<process, inputs, store, log>>
    BY <1>5 DEF WriteFile, TurnEnds
  <2>2. \A j \in jobs' \ jobs : ~Carries(j)
    BY <1>5, EndTurnTyped DEF WriteFile, TurnEnds, Lines, Carries
  <2> QED BY <1>2, <2>1, <2>2, ProcessesRest
<1>6. ASSUME NEW t \in Threads, NEW r \in Requests, ServerAsks(r, t)
      PROVE  Passing'
  <2>1. /\ SameProcesses(AskedBy[r]) /\ process'[AskedBy[r]].asked = process[AskedBy[r]].asked \cup {r}
        /\ process'[AskedBy[r]].pending = process[AskedBy[r]].pending
        /\ inputs[r] = "new" /\ inputs' = [inputs EXCEPT ![r] = "open"] /\ AskedBy[r] \in Wrappers
    BY <1>6, AskFacts, WrapperAssumption
  <2>2. UNCHANGED jobs
    BY <1>6 DEF ServerAsks
  <2>3. ASSUME NEW q \in Requests
        PROVE  /\ Pending(q)' = Pending(q) /\ Filed(q)' = Filed(q)
               /\ IF q = r THEN inputs'[q] = "open" ELSE inputs'[q] = inputs[q] /\ Asked(q)' = Asked(q)
    <3>1. AskedBy[q] \in Wrappers
      BY WrapperAssumption
    <3> QED BY <2>1, <2>2, <3>1 DEF SameProcesses, Asked, Pending, Filed, TypeOK
  <2>4. \A q \in Requests, c \in Clients : Writes(c, q)' = Writes(c, q) /\ Serves(c, q)' = Serves(c, q)
    BY <1>1 DEF Writes, Serves
  <2>5. \A q \in Requests : q = r => Early(q)
    BY <2>1 DEF Early
  <2>6. ASSUME NEW q \in Requests PROVE Early(q)' => Early(q)
    BY <2>3, <2>5 DEF Early
  <2> QED BY <1>1, <2>1, <2>3, <2>4, <2>5, <2>6 DEF Passing, OnItsWay
<1>7. ASSUME NEW r \in Requests, TerminalAnswers(r)
      PROVE  Passing'
  <2>1. /\ SameProcesses(AskedBy[r]) /\ process'[AskedBy[r]].asked = process[AskedBy[r]].asked
        /\ process'[AskedBy[r]].pending = process[AskedBy[r]].pending
        /\ inputs' = [inputs EXCEPT ![r] = "answered"]
    BY <1>7, TerminalFacts
  <2>2. UNCHANGED jobs
    BY <1>7 DEF TerminalAnswers
  <2>3. ASSUME NEW q \in Requests PROVE Rests(q)
    <3>1. AskedBy[q] \in Wrappers
      BY WrapperAssumption
    <3> QED BY <1>1, <2>1, <2>2, <3>1 DEF SameProcesses, Asked, Pending, Filed, TypeOK, Rests
  <2> QED BY <1>1, <1>2, <2>3, AllRest
<1> QED BY <1>3, <1>4, <1>5, <1>6, <1>7 DEF CodexStep

LEMMA RelayPasses ==
    ASSUME TypeOK, ClientsTyped, Passing, RelayStep
    PROVE  Passing'
<1>1. ASSUME NEW r \in Requests, observe_client_message(r)
      PROVE  Passing'
  <2>1. UNCHANGED <<clients, inputs, jobs, store, log>>
    BY <1>1 DEF observe_client_message, codex
  <2>2. /\ SameProcesses(AskedBy[r]) /\ process'[AskedBy[r]].asked = process[AskedBy[r]].asked
        /\ process'[AskedBy[r]].pending \subseteq process[AskedBy[r]].pending
    BY <1>1, TerminalSeenFacts
  <2>3. ASSUME NEW q \in Requests PROVE Rests(q)
    <3>1. AskedBy[q] \in Wrappers
      BY WrapperAssumption
    <3> QED BY <2>1, <2>2, <3>1 DEF SameProcesses, Asked, Pending, Filed, Rests
  <2>4. \A c \in Clients : Keeps(c)
    BY <2>1 DEF Keeps
  <2> QED BY <2>1, <2>3, <2>4, AllRest
<1>2. ASSUME NEW r \in Requests, observe_input_request(r)
      PROVE  Passing'
  <2>1. UNCHANGED <<clients, inputs, store, log>>
    BY <1>2 DEF observe_input_request, codex
  <2>2. /\ SameProcesses(AskedBy[r]) /\ r \in process[AskedBy[r]].asked
        /\ process'[AskedBy[r]].asked = process[AskedBy[r]].asked \ {r}
        /\ process'[AskedBy[r]].pending = process[AskedBy[r]].pending \cup {r}
        /\ \E j \in Questions : j.what = r /\ jobs' = jobs \cup {j}
    BY <1>2, ObserveFacts
  <2>3. ASSUME NEW q \in Requests
        PROVE  IF q = r THEN Asked(q) /\ ~Asked(q)'
               ELSE Asked(q)' = Asked(q) /\ Pending(q)' = Pending(q) /\ Filed(q)' = Filed(q)
    <3>1. AskedBy[q] \in Wrappers
      BY WrapperAssumption
    <3> QED BY <2>1, <2>2, <3>1 DEF SameProcesses, Asked, Pending, Filed
  <2>4. \A q \in Requests, c \in Clients : Writes(c, q)' = Writes(c, q) /\ Serves(c, q)' = Serves(c, q)
    BY <2>1 DEF Writes, Serves
  <2>5. \A q \in Requests : q = r => Early(q) /\ inputs[q] # "new"
    BY <2>3 DEF Early, Passing, OnItsWay
  <2>6. ASSUME NEW q \in Requests PROVE Early(q)' => Early(q)
    BY <2>1, <2>3, <2>5 DEF Early
  <2>7. \A q \in Requests, c \in Clients : Early(q) => ~Writes(c, q)
    BY DEF Passing, OnItsWay, Writes, Serves
  <2> QED BY <2>1, <2>3, <2>4, <2>5, <2>6, <2>7 DEF Passing, OnItsWay
<1> QED BY <1>1, <1>2 DEF RelayStep

LEMMA JobPasses ==
    ASSUME TypeOK, ClientsTyped, Passing, FiledOnce, NEW j \in jobs, JobStep(j),
           \A i \in store'.attention_items \ store.attention_items :
               i.key \in Requests => Carries(j) /\ j.what = i.key
    PROVE  Passing'
<1>1. /\ UNCHANGED <<process, inputs, clients>> /\ log'.answers = log.answers
      /\ log'.reported = log.reported /\ j \notin jobs' /\ (jobs' \subseteq jobs \/ Carries(j))
      /\ \A i \in jobs' \ jobs : Carries(i) /\ i.what = j.what /\ UNCHANGED store
  BY JobFacts
<1>2. ASSUME NEW q \in Requests PROVE Rests(q)
  <2>1. Filed(q)' => Filed(q)
    BY <1>1 DEF Filed
  <2> QED BY <1>1, <2>1 DEF Rests, Asked, Pending
<1>3. ASSUME NEW q \in Requests, Carries(j), j.what = q, store' # store
      PROVE  ~Early(q)'
  <2>1. Filed(q)
    BY <1>3 DEF Filed
  <2>2. inputs[q] # "new" /\ ~Asked(q)
    BY <2>1 DEF Passing, OnItsWay
  <2>3. \A i \in jobs : Carries(i) /\ i.what = q => i = j
    BY <1>3 DEF FiledOnce
  <2>4. jobs' \subseteq jobs
    BY <1>1, <1>3
  <2> QED BY <1>1, <2>2, <2>3, <2>4 DEF Early, Asked, Filed
<1>4. ASSUME NEW q \in Requests, Early(q)' PROVE \A i \in store'.attention_items : i.key # q
  <2>1. Early(q)
    BY <1>2, <1>4 DEF Early, Rests
  <2> QED BY <1>3, <1>4, <2>1 DEF Passing, OnItsWay
<1>5. \A q \in Requests, c \in Clients : Writes(c, q)' = Writes(c, q) /\ Serves(c, q)' = Serves(c, q)
  BY <1>1 DEF Writes, Serves
<1>6. ASSUME NEW q \in Requests PROVE Early(q)' => Early(q)
  BY <1>2 DEF Early, Rests
<1> QED BY <1>1, <1>2, <1>4, <1>5, <1>6 DEF Passing, OnItsWay, Rests

LEMMA ClientPasses ==
    ASSUME TypeOK, ClientsTyped, store \in StoredState(StoreIds), Passing, NEW c \in Clients,
           ClientStep(c)
    PROVE  Passing'
<1>1. /\ UNCHANGED <<process, registry, threads, inputs, jobs, store, log>>
      /\ \A d \in Clients : clients'[d].pc # "idle" =>
                 \/ clients'[d] = clients[d]
                 \/ d = c /\ clients'[d].pc = "handle" /\ clients'[d].input = None
                 \/ /\ d = c /\ clients'[d].pc = "handle"
                    /\ \E i \in store.attention_items :
                          clients'[d].input = i.key /\ clients'[d].session = i.session
  BY ClientTyped
<1>2. ASSUME NEW q \in Requests PROVE Rests(q)
  BY <1>1 DEF Rests, Asked, Pending, Filed
<1>3. None \notin Requests
  BY KeyAssumption, WrapperAssumption
<1>4. ASSUME NEW q \in Requests, NEW d \in Clients
      PROVE  (Writes(d, q)' => Writes(d, q)) /\ (Serves(d, q)' => Serves(d, q) \/ ~Early(q))
  BY <1>1, <1>3 DEF Writes, Serves, Passing, OnItsWay
<1> QED BY <1>1, <1>2, <1>4, RestsPasses DEF Passing, OnItsWay

LEMMA HandlerPasses ==
    ASSUME TypeOK, ClientsTyped, Passing, NEW c \in Clients, HandlerStep(c) \/ ControlTimesOut(c),
           store'.attention_items \subseteq store.attention_items
    PROVE  Passing'
<1>1. /\ \A d \in Clients : d # c => clients'[d] = clients[d]
      /\ Keeps(c) \/ resolve_input_answer_frame(c)
      /\ clients'[c].pc # "idle" =>
            /\ clients[c].pc # "idle" /\ clients'[c].input = clients[c].input
  BY HandlerFacts
<1>2. \A d \in Clients : d # c => Keeps(d)
  BY <1>1 DEF Keeps
<1>3. \A q \in Requests, d \in Clients : Serves(d, q)' => Serves(d, q)
  BY <1>1 DEF Serves
<1>4. CASE resolve_input_answer_frame(c)
  <2>0. PICK r \in Requests : clients[c].input = r
    BY <1>4, TakeFacts
  <2>1. /\ clients[c].pc = "handle" /\ SameProcesses(AskedBy[r])
        /\ process'[AskedBy[r]].asked = process[AskedBy[r]].asked
        /\ process'[AskedBy[r]].pending = process[AskedBy[r]].pending \ {r}
        /\ r \notin process[AskedBy[r]].pending => clients'[c].pc # "write"
    BY <1>4, <2>0, TakeFacts
  <2>2. UNCHANGED <<inputs, jobs, store, log>>
    BY <1>4 DEF resolve_input_answer_frame, codex
  <2>3. ASSUME NEW q \in Requests PROVE Rests(q)
    <3>1. AskedBy[q] \in Wrappers
      BY WrapperAssumption
    <3> QED BY <2>1, <2>2, <3>1 DEF SameProcesses, Asked, Pending, Filed, Rests
  <2>4. ASSUME NEW q \in Requests, q # r
        PROVE  \A d \in Clients : Writes(d, q)' => Writes(d, q)
    BY <1>1, <2>0, <2>1, <2>4 DEF Writes
  <2>5. CASE Writes(c, r)'
    <3>1. Pending(r) /\ ~Pending(r)'
      BY <2>1, <2>5 DEF Pending, Writes
    <3>2. ~Early(r)
      BY <2>0, <2>1 DEF Passing, OnItsWay, Serves
    <3>3. ~Early(r)'
      BY <2>1, <2>3, <3>2 DEF Early, Rests
    <3>4. \A d \in Clients : Writes(d, r)' => d = c
      <4>1. \A d \in Clients : ~Writes(d, r)
        BY <2>1, <3>1 DEF Passing, OnItsWay
      <4> QED BY <1>1, <4>1 DEF Writes
    <3>5. log'.answers[r] = 0
      BY <2>1, <2>2, <3>1 DEF Passing, OnItsWay
    <3>6. ~Asked(r)' /\ inputs'[r] # "new"
      BY <3>3 DEF Early
    <3>7. ASSUME NEW q \in Requests, q # r
          PROVE  OnItsWay(q)'
      BY <1>3, <2>2, <2>3, <2>4, <3>7, RestsPasses
    <3> QED BY <2>1, <3>1, <3>3, <3>4, <3>5, <3>6, <3>7 DEF Passing, OnItsWay
  <2>6. CASE ~Writes(c, r)'
    <3>1. \A q \in Requests, d \in Clients : Writes(d, q)' => Writes(d, q)
      BY <1>1, <2>4, <2>6 DEF Writes
    <3> QED BY <1>3, <2>2, <2>3, <3>1, RestsPasses DEF Passing, OnItsWay
  <2> QED BY <2>5, <2>6
<1>5. CASE write_control_response_frame(c)
  <2>0. PICK r \in Requests : clients[c].input = r
    BY <1>5 DEF write_control_response_frame, Handler, ClientsTyped
  <2>1. /\ UNCHANGED <<process, jobs, store>> /\ clients[c].pc = "write"
        /\ \/ UNCHANGED <<inputs, log>>
           \/ inputs' = [inputs EXCEPT ![r] = "answered"]
              /\ log' = [log EXCEPT !.answers[r] = @ + 1]
        /\ Respond(c, Running(clients[c].wrapper))
    BY <1>5, <2>0 DEF write_control_response_frame, Handler
  <2>2. Writes(c, r) /\ clients[c] \in ClientType
    BY <2>0, <2>1 DEF Writes, TypeOK
  <2>3. clients'[c].pc # "write"
    <3> DEFINE x == [clients[c] EXCEPT !.pc = "respond", !.ok = Running(clients[c].wrapper)]
    <3>1. clients' \in {[clients EXCEPT ![c] = x], [clients EXCEPT ![c] = Idle]}
      BY <2>1 DEF Respond, GoOn
    <3>2. x.pc = "respond"
      BY <2>2 DEF ClientType
    <3> HIDE DEF x
    <3> QED BY <3>1, <3>2, IdleTyped DEF TypeOK
  <2>4. \A q \in Requests, d \in Clients : Writes(d, q)' => Writes(d, q) /\ d # c
    BY <1>1, <2>3 DEF Writes
  <2>5. log.answers[r] = 0 /\ \A d \in Clients : Writes(d, r) => d = c
    BY <2>2 DEF Passing, OnItsWay
  <2>6. ~Early(r) /\ ~Pending(r)
    BY <2>1, <2>2 DEF Passing, OnItsWay, Serves, Writes
  <2>7. \A d \in Clients : ~Writes(d, r)'
    BY <2>4, <2>5
  <2>8. /\ log'.answers[r] \in {0, 1} /\ log'.reported = log.reported
        /\ \A q \in Requests : q # r => log'.answers[q] = log.answers[q]
    BY <2>1, <2>2, <2>5 DEF TypeOK, LogType
  <2>9. \A q \in Requests : inputs'[q] = "new" => inputs[q] = "new"
    BY <2>1, <2>2 DEF TypeOK
  <2>10. ASSUME NEW q \in Requests, q # r PROVE Rests(q)
    BY <2>1, <2>8, <2>9, <2>10 DEF Rests, Asked, Pending, Filed
  <2>11. ~Early(r)' /\ ~Pending(r)'
    BY <2>1, <2>2, <2>6, <2>9 DEF Early, Asked, Pending, Filed
  <2>12. inputs'[r] # "new" /\ ~Asked(r)'
    BY <2>11 DEF Early
  <2>13. log'.answers[r] <= 1
    BY <2>8
  <2>14. ASSUME NEW q \in Requests, q # r
         PROVE  OnItsWay(q)'
    BY <1>3, <2>1, <2>4, <2>8, <2>10, <2>14, RestsPasses
  <2> QED BY <2>2, <2>7, <2>11, <2>12, <2>13, <2>14 DEF Passing, OnItsWay
<1>6. CASE append_answer_input_resolved_event(c)
  <2>0. PICK r \in Requests : clients[c].input = r
    BY <1>6 DEF append_answer_input_resolved_event, Handler, ClientsTyped
  <2>1. /\ UNCHANGED <<process, inputs, jobs>> /\ clients[c].pc = "append"
        /\ log' = [log EXCEPT !.reported = @ \cup {r}] /\ clients' = [clients EXCEPT ![c] = Idle]
    BY <1>6, <2>0 DEF append_answer_input_resolved_event, Handler, codex, GoOn
  <2>2. Serves(c, r)
    BY <2>0, <2>1 DEF Serves
  <2>3. log'.answers = log.answers /\ log'.reported = log.reported \cup {r}
    BY <2>1 DEF TypeOK
  <2>4. ASSUME NEW q \in Requests PROVE Rests(q)
    BY <2>1, <2>3 DEF Rests, Asked, Pending, Filed
  <2>5. ~Early(r)
    BY <2>2 DEF Passing, OnItsWay
  <2>6. \A q \in Requests, d \in Clients : Writes(d, q)' => Writes(d, q)
    BY <2>1, IdleTyped DEF Writes, TypeOK
  <2> QED BY <1>3, <2>2, <2>3, <2>4, <2>5, <2>6, RestsPasses DEF Passing, OnItsWay
<1>7. CASE UNCHANGED <<process, inputs, jobs, store, log>> /\ \A d \in Clients : Keeps(d)
  <2>1. ASSUME NEW q \in Requests PROVE Rests(q)
    BY <1>7 DEF Rests, Asked, Pending, Filed
  <2> QED BY <1>7, <2>1, AllRest
<1>8. CASE interrupt_app_server_turn(c)
  <2>1. UNCHANGED <<process, inputs, store, log>>
    BY <1>8 DEF interrupt_app_server_turn
  <2>2. clients[c].thread \in Threads
    BY <1>8 DEF interrupt_app_server_turn, Handler, ClientsTyped
  <2>3. EndTurn(clients[c].thread) \/ UNCHANGED jobs
    BY <1>8 DEF interrupt_app_server_turn
  <2>4. \A j \in jobs' \ jobs : ~Carries(j)
    BY <2>2, <2>3, EndTurnTyped DEF Lines, Carries
  <2>5. \A d \in Clients : Keeps(d)
    BY <1>1, <1>2, <1>8, <2>1 DEF interrupt_app_server_turn, resolve_input_answer_frame, Handler, ClientsTyped
  <2> QED BY <2>1, <2>4, <2>5, ProcessesRest
<1>9. ASSUME read_loaded_thread(c) \/ send_instruction_to_app_server(c) \/ relay_control_command(c)
             \/ ControlTimesOut(c)
      PROVE  UNCHANGED <<process, inputs, jobs, store, log>>
  BY <1>9 DEF read_loaded_thread, send_instruction_to_app_server, relay_control_command,
     ControlTimesOut, codex
<1> QED BY <1>1, <1>2, <1>4, <1>5, <1>6, <1>7, <1>8, <1>9 DEF HandlerStep

-----------------------------------------------------------------------------
(* Binding.                                                                *)
RightMark(j) ==
    j.kind = "mark" =>
        /\ j.what = Message[j.wrapper]
        /\ j.session = None => j.wrapper \notin Identified
        /\ j.session # None => Own(j.wrapper, j.session)

LEMMA BindingStays ==
    ASSUME TypeOK, TypeOK', Binding, budget'.wrappers = budget.wrappers,
           \A t \in Threads :
               /\ threads[t].wrapper \in {threads'[t].wrapper, None}
               /\ \/ threads'[t].message \in {threads[t].message, None, "earlier", "instruction"}
                  \/ \E v \in budget.wrappers : threads'[t].message = Message[v] /\ Own(v, t),
           \A v \in Wrappers :
               /\ process'[v].pc # "none" => process[v].pc # "none" \/ v \in budget.wrappers
               /\ \A t \in process'[v].loaded : t \in process[v].loaded \/ Own(v, t)'
               /\ registry'[v] = registry[v] \/ Registered(v)',
           \A j \in jobs' \ jobs : RightMark(j)
    PROVE  Binding'
<1>1. \A v \in Wrappers, t \in Threads : Own(v, t) => Own(v, t)'
  BY WrapperAssumption, NoneAssumption DEF Own
<1>2. budget.wrappers \subseteq Wrappers
  BY DEF TypeOK, StartType
<1>3. ASSUME NEW v \in Wrappers
      PROVE  /\ process'[v].pc # "none" => v \in budget'.wrappers
             /\ \A t \in process'[v].loaded : Own(v, t)'
  <2>1. process'[v] \in ProcessType /\ process[v] \in ProcessType
    BY DEF TypeOK
  <2>2. \A t \in process'[v].loaded : t \in Threads
    BY <2>1 DEF ProcessType
  <2> QED BY <1>1, <2>2 DEF Binding
<1>4. ASSUME NEW t \in Threads PROVE Typed(t)'
  BY <1>1, <1>2 DEF Binding, Typed
<1>5. ASSUME NEW j \in jobs' PROVE RightMark(j)'
  <2>1. RightMark(j)
    BY DEF Binding, RightMark
  <2>2. j.kind = "mark" => j \in Marks
    BY DEF TypeOK, Lines, Questions
  <2>3. j.kind = "mark" => j.wrapper \in Wrappers /\ j.session \in Threads \cup {None}
    BY <2>2 DEF Marks
  <2> QED BY <1>1, <2>1, <2>3 DEF RightMark
<1>6. ASSUME NEW w \in Wrappers PROVE Registered(w)'
  <2>1. Registered(w) /\ registry[w] \in RegistryType
    BY DEF Binding, TypeOK
  <2>2. registry[w].session # None => registry[w].session \in Threads
    BY <2>1 DEF RegistryType
  <2>3. Distinct(w)' => Distinct(w)
    BY DEF Distinct
  <2>4. CASE registry'[w] = registry[w]
    BY <1>1, <2>1, <2>2, <2>3, <2>4 DEF Registered
  <2> QED BY <2>4
<1> QED BY <1>3, <1>4, <1>5, <1>6 DEF Binding, RightMark

(* Steps that open no thread and say nothing.                              *)
LEMMA BindingRests ==
    ASSUME TypeOK, TypeOK', Binding, UNCHANGED <<threads, registry>>,
           budget'.wrappers = budget.wrappers,
           \A v \in Wrappers : process'[v].pc = process[v].pc /\ process'[v].loaded = process[v].loaded,
           \A j \in jobs' \ jobs : j.kind # "mark"
    PROVE  Binding'
<1>1. \A j \in jobs' \ jobs : RightMark(j)
  BY DEF RightMark
<1> QED BY <1>1, BindingStays

LEMMA WrapperBinds ==
    ASSUME TypeOK, TypeOK', ClientsTyped, Binding, NEW w \in Wrappers, WrapperStep(w)
    PROVE  Binding'
<1>1. /\ \A v \in Wrappers :
                 /\ process'[v].loaded \subseteq
                       process[v].loaded \cup ({resume_target_session_id(v)} \ {None})
                 /\ process'[v].pc # "none" => process[v].pc # "none" \/ v \in budget.wrappers
      /\ jobs' \subseteq jobs /\ UNCHANGED <<threads, inputs, store, log>>
      /\ budget'.wrappers = budget.wrappers
      /\ \/ registry' = [registry EXCEPT ![w] = managed_session_initial_binding(w)]
         \/ \E s \in {"Exited", "Bound", registry[w].state} :
               /\ registry' = [registry EXCEPT ![w].state = s]
               /\ s = "Bound" => registry[w].session # None \/ registry[w].state = "Bound"
  BY WrapperFacts
<1>2. \A v \in Wrappers : \A t \in process'[v].loaded : t \in process[v].loaded \/ Own(v, t)'
  BY <1>1 DEF Own
<1>3. \A v \in Wrappers \ {w} : registry'[v] = registry[v]
  BY <1>1 DEF TypeOK
<1>4. Registered(w)'
  <2>1. Registered(w) /\ registry[w] \in RegistryType
    BY DEF Binding, TypeOK
  <2>2. CASE registry' = [registry EXCEPT ![w] = managed_session_initial_binding(w)]
    <3>1. registry'[w] = managed_session_initial_binding(w)
      BY <2>2 DEF TypeOK
    <3>2. /\ registry'[w].hash = None /\ registry'[w].state # "Bound"
          /\ registry'[w].session # None => registry'[w].session = resume_target_session_id(w)
      BY <3>1 DEF managed_session_initial_binding
    <3> QED BY <3>2 DEF Registered, Own
  <2>3. ASSUME NEW s \in {"Exited", "Bound", registry[w].state},
               registry' = [registry EXCEPT ![w].state = s],
               s = "Bound" => registry[w].session # None \/ registry[w].state = "Bound"
        PROVE  Registered(w)'
    <3> DEFINE x == [registry[w] EXCEPT !.state = s]
    <3>1. x.state = s /\ x.session = registry[w].session /\ x.hash = registry[w].hash
      BY <2>1 DEF RegistryType
    <3>2. registry'[w] = x
      BY <2>3 DEF TypeOK
    <3> HIDE DEF x
    <3>3. Distinct(w)' = Distinct(w) /\ \A t : Own(w, t)' = Own(w, t)
      BY <1>1 DEF Distinct, Own
    <3> QED BY <2>1, <2>3, <3>1, <3>2, <3>3 DEF Registered
  <2> QED BY <1>1, <2>2, <2>3
<1> QED BY <1>1, <1>2, <1>3, <1>4, BindingStays

LEMMA CodexBinds ==
    ASSUME TypeOK, TypeOK', Binding, CodexStep
    PROVE  Binding'
<1>1. UNCHANGED <<registry, clients, budget, log, store>>
  BY DEF CodexStep, OpenThread, observe_client_data, WriteFile, TurnEnds, ServerAsks, TerminalAnswers,
     codex
<1>2. ASSUME NEW w \in Wrappers, NEW t \in Threads, OpenThread(w, t)
      PROVE  Binding'
  <2>1. /\ threads[t].wrapper = None /\ threads'[t].wrapper = w
        /\ \A u \in Threads \ {t} : threads'[u].wrapper = threads[u].wrapper
        /\ \A u \in Threads : threads'[u].message = threads[u].message
        /\ process'[w].loaded \subseteq process[w].loaded \cup {t} /\ process'[w].pc = process[w].pc
        /\ \A v \in Wrappers \ {w} : process'[v] = process[v]
    BY <1>2, OpenThreadFacts
  <2>2. UNCHANGED jobs
    BY <1>2 DEF OpenThread
  <2>3. \A v \in Wrappers : \A u \in process'[v].loaded : u \in process[v].loaded \/ Own(v, u)'
    BY <2>1 DEF Own
  <2>4. \A v \in Wrappers : process'[v].pc # "none" => process[v].pc # "none"
    BY <2>1
  <2> QED BY <1>1, <2>1, <2>2, <2>3, <2>4, BindingStays
<1>3. ASSUME NEW w \in Wrappers, NEW t \in Threads, observe_client_data(w, t)
      PROVE  Binding'
  <2>1. Message[w] \in Texts /\ StartTurn(t, Message[w])
    BY <1>3 DEF Texts, observe_client_data
  <2>2. /\ \A u \in Threads : threads'[u].wrapper = threads[u].wrapper
        /\ \A u \in Threads : threads'[u].message # threads[u].message
                                  => u = t /\ threads'[u].message = Message[w]
    BY <2>1, StartTurnTyped
  <2>3. t \in process[w].loaded /\ process[w].pc = "running"
    BY <1>3 DEF observe_client_data, Running
  <2>4. Own(w, t) /\ w \in budget.wrappers
    BY <2>3 DEF Binding
  <2>5. jobs' \subseteq jobs \cup {first_user_message_submission(w, t)}
    BY <1>3 DEF observe_client_data
  <2>6. RightMark(first_user_message_submission(w, t))
    <3> DEFINE j == first_user_message_submission(w, t)
    <3>1. t # None
      BY WrapperAssumption, NoneAssumption
    <3>2. /\ j.what = Message[w] /\ j.wrapper = w
          /\ IF w \in Identified THEN j.session = t ELSE j.session = None
      BY DEF first_user_message_submission
    <3> QED BY <2>4, <3>1, <3>2 DEF RightMark
  <2>7. \A v \in Wrappers : process'[v].pc = process[v].pc /\ process'[v].loaded = process[v].loaded
    BY <1>3, RecordFacts DEF observe_client_data, SameProcesses
  <2>8. \A u \in Threads :
           \/ threads'[u].message = threads[u].message
           \/ \E v \in budget.wrappers : threads'[u].message = Message[v] /\ Own(v, u)
    BY <2>2, <2>4
  <2> QED BY <1>1, <2>2, <2>5, <2>6, <2>7, <2>8, BindingStays
<1>4. ASSUME NEW t \in Threads, WriteFile(t) \/ TurnEnds(t)
      PROVE  Binding'
  <2>1. UNCHANGED process
    BY <1>4 DEF WriteFile, TurnEnds
  <2>2. CASE WriteFile(t)
    <3>1. threads[t] \in ThreadType
      BY DEF TypeOK
    <3>2. UNCHANGED jobs /\ threads' = [threads EXCEPT ![t].written = TRUE]
      BY <2>2 DEF WriteFile
    <3>3. \A u \in Threads : /\ threads'[u].wrapper = threads[u].wrapper
                             /\ threads'[u].message = threads[u].message
      BY <3>1, <3>2 DEF TypeOK, ThreadType
    <3> QED BY <1>1, <2>1, <3>2, <3>3, BindingStays
  <2>3. CASE TurnEnds(t)
    <3>1. /\ \A u \in Threads : /\ threads'[u].wrapper = threads[u].wrapper
                                /\ threads'[u].message = threads[u].message
          /\ \E j \in Lines : jobs' = jobs \cup {j}
      BY <2>3, EndTurnTyped DEF TurnEnds
    <3>2. \A j \in jobs' \ jobs : RightMark(j)
      BY <3>1 DEF RightMark, Lines
    <3> QED BY <1>1, <2>1, <3>1, <3>2, BindingStays
  <2> QED BY <1>4, <2>2, <2>3
<1>5. ASSUME NEW t \in Threads, NEW q \in Requests, ServerAsks(q, t)
      PROVE  Binding'
  <2>1. UNCHANGED <<threads, jobs>>
    BY <1>5 DEF ServerAsks
  <2>2. \A v \in Wrappers : process'[v].pc = process[v].pc /\ process'[v].loaded = process[v].loaded
    BY <1>5, AskFacts DEF SameProcesses
  <2> QED BY <1>1, <2>1, <2>2, BindingRests
<1>6. ASSUME NEW q \in Requests, TerminalAnswers(q)
      PROVE  Binding'
  <2>1. UNCHANGED <<threads, jobs>>
    BY <1>6 DEF TerminalAnswers
  <2>2. \A v \in Wrappers : process'[v].pc = process[v].pc /\ process'[v].loaded = process[v].loaded
    BY <1>6, TerminalFacts DEF SameProcesses
  <2> QED BY <1>1, <2>1, <2>2, BindingRests
<1> QED BY <1>2, <1>3, <1>4, <1>5, <1>6 DEF CodexStep

LEMMA RelayBinds ==
    ASSUME TypeOK, TypeOK', Binding, RelayStep
    PROVE  Binding'
<1>1. UNCHANGED <<threads, registry, budget>>
  BY DEF RelayStep, observe_input_request, observe_client_message, codex
<1>2. ASSUME NEW q \in Requests, observe_input_request(q) \/ observe_client_message(q)
      PROVE  Binding'
  <2>1. \A v \in Wrappers : process'[v].pc = process[v].pc /\ process'[v].loaded = process[v].loaded
    BY <1>2, ObserveFacts, TerminalSeenFacts DEF SameProcesses
  <2>2. \A j \in jobs' \ jobs : j.kind # "mark"
    BY <1>2 DEF observe_input_request, observe_client_message
  <2> QED BY <1>1, <2>1, <2>2, BindingRests
<1> QED BY <1>2 DEF RelayStep

LEMMA JobBinds ==
    ASSUME TypeOK, TypeOK', Binding, NEW j \in jobs, JobStep(j)
    PROVE  Binding'
<1>1. UNCHANGED <<process, threads, budget>> /\ \A i \in jobs' \ jobs : i.kind # "mark"
  BY JobFacts DEF Carries
<1>2. CASE UNCHANGED registry
  BY <1>1, <1>2, BindingRests
<1>3. CASE mark_first_user_message_submitted(j)
  <2> DEFINE w == j.wrapper
             x == [state |-> "BindingPending", session |-> j.session, hash |-> j.what]
  <2>1. j.kind = "mark" /\ registry' \in {registry, [registry EXCEPT ![w] = x]}
    BY <1>3 DEF mark_first_user_message_submitted
  <2>2. w \in Wrappers
    BY <2>1 DEF TypeOK, Lines, Questions, Marks
  <2>3. RightMark(j)
    BY DEF Binding, RightMark
  <2>4. CASE registry' = [registry EXCEPT ![w] = x]
    <3>1. registry'[w] = x /\ \A v \in Wrappers \ {w} : registry'[v] = registry[v]
      BY <2>2, <2>4 DEF TypeOK
    <3>2. x.state = "BindingPending" /\ x.session = j.session /\ x.hash = j.what
      OBVIOUS
    <3>3. Own(w, j.session)' = Own(w, j.session)
      BY <1>1 DEF Own
    <3> HIDE DEF x
    <3>4. Registered(w)'
      BY <2>1, <2>3, <3>1, <3>2, <3>3 DEF Registered, RightMark
    <3> HIDE DEF w
    <3>5. \A i \in jobs' \ jobs : RightMark(i)
      BY <1>1 DEF RightMark
    <3> QED BY <1>1, <3>1, <3>4, <3>5, BindingStays
  <2> QED BY <1>2, <2>1, <2>4
<1> QED BY <1>2, <1>3 DEF JobStep, relay_input_event_body, submit_relay_input_event, BackgroundFails,
     WatcherReports

(* The plugin binds a wrapper to what its terminal named, or to a session  *)
(* that starts with what only it was told.                                 *)
LEMMA RefreshBinds ==
    ASSUME TypeOK, TypeOK', Binding, build_snapshot_refresh
    PROVE  Binding'
<1>1. UNCHANGED <<process, threads, jobs, budget>>
  BY DEF build_snapshot_refresh, codex
<1>2. ASSUME NEW w \in Wrappers PROVE registry'[w] = registry[w] \/ Registered(w)'
  <2> DEFINE s == registry[w]
             matches == match_managed_session(s)
             t == CHOOSE u \in matches : TRUE
  <2>1. s \in RegistryType /\ Registered(w)
    BY DEF TypeOK, Binding
  <2>2. registry'[w] = s \/ registry'[w] = bind_managed_session(s)
    BY DEF build_snapshot_refresh
  <2>3. \A u : Own(w, u)' = Own(w, u) /\ Distinct(w)' = Distinct(w)
    BY <1>1 DEF Own, Distinct
  <2>4. CASE registry'[w] = [s EXCEPT !.state = "Ambiguous"]
    <3> DEFINE x == [s EXCEPT !.state = "Ambiguous"]
    <3>1. x.state = "Ambiguous" /\ x.session = s.session /\ x.hash = s.hash
      BY <2>1 DEF RegistryType
    <3>2. registry'[w] = x
      BY <2>4
    <3> HIDE DEF x
    <3> QED BY <2>1, <2>3, <3>1, <3>2 DEF Registered
  <2>5. CASE matches # {} /\ registry'[w] = [s EXCEPT !.state = "Bound", !.session = t]
    <3> DEFINE x == [s EXCEPT !.state = "Bound", !.session = t]
    <3>1. x.state = "Bound" /\ x.session = t /\ x.hash = s.hash
      BY <2>1 DEF RegistryType
    <3>2. registry'[w] = x
      BY <2>5
    <3>3. t \in matches /\ matches \subseteq Threads
      BY <2>5 DEF match_managed_session, Candidates
    <3>4. t # None
      BY <3>3, WrapperAssumption, NoneAssumption
    <3>5. CASE s.session # None
      <4>1. t = s.session
        BY <3>3, <3>5 DEF match_managed_session
      <4> HIDE DEF x, t, matches
      <4> QED BY <2>1, <2>3, <3>1, <3>2, <3>5, <4>1 DEF Registered
    <3>6. CASE s.session = None
      <4>1. s.hash # None /\ threads[t].message = s.hash
        BY <3>3, <3>6 DEF match_managed_session
      <4>2. s.hash = Message[w] /\ w \notin Identified
        BY <2>1, <3>6, <4>1 DEF Registered
      <4>3. Message[w] \notin {None, "earlier", "instruction"}
        BY WrapperAssumption
      <4>4. Typed(t)
        BY <3>3 DEF Binding
      <4>5. PICK v \in budget.wrappers : Message[w] = Message[v] /\ Own(v, t)
        BY <4>1, <4>2, <4>3, <4>4 DEF Typed
      <4>6. Distinct(w) => v = w
        BY <4>2, <4>5 DEF Distinct
      <4> HIDE DEF x, t, matches
      <4> QED BY <2>1, <2>3, <3>1, <3>2, <3>4, <4>2, <4>5, <4>6 DEF Registered
    <3> QED BY <3>5, <3>6
  <2>6. \/ bind_managed_session(s) = s
        \/ matches # {} /\ bind_managed_session(s) = [s EXCEPT !.state = "Bound", !.session = t]
        \/ bind_managed_session(s) = [s EXCEPT !.state = "Ambiguous"]
    BY DEF bind_managed_session
  <2> QED BY <2>2, <2>4, <2>5, <2>6
<1> QED BY <1>1, <1>2, BindingStays

LEMMA ClientBinds ==
    ASSUME TypeOK, TypeOK', ClientsTyped, store \in StoredState(StoreIds), Binding, NEW c \in Clients,
           ClientStep(c)
    PROVE  Binding'
<1>1. UNCHANGED <<process, registry, threads, jobs>> /\ budget'.wrappers = budget.wrappers
  BY ClientTyped
<1> QED BY <1>1, BindingRests

LEMMA HandlerBinds ==
    ASSUME TypeOK, TypeOK', ClientsTyped, Binding, NEW c \in Clients,
           HandlerStep(c) \/ ControlTimesOut(c)
    PROVE  Binding'
<1>1. UNCHANGED <<registry, budget>>
  BY HandlerFacts
<1>2. \A v \in Wrappers : process'[v].pc = process[v].pc /\ process'[v].loaded = process[v].loaded
  <2>1. CASE resolve_input_answer_frame(c)
    BY <2>1, TakeFacts, Zenon DEF SameProcesses
  <2> QED BY <2>1 DEF HandlerStep, ControlTimesOut, write_control_response_frame,
     read_loaded_thread, send_instruction_to_app_server, interrupt_app_server_turn,
     relay_control_command, append_answer_input_resolved_event, codex
<1>3. /\ \A t \in Threads : threads'[t].wrapper = threads[t].wrapper
      /\ \A t \in Threads : threads'[t].message \in {threads[t].message, "instruction"}
      /\ \A j \in jobs' \ jobs : j.kind # "mark"
  <2>1. CASE UNCHANGED <<threads, jobs>>
    BY <2>1
  <2>2. CASE send_instruction_to_app_server(c)
    <3>1. clients[c].thread \in Threads
      BY <2>2 DEF send_instruction_to_app_server, Handler, ClientsTyped
    <3>2. "instruction" \in Texts
      BY DEF Texts
    <3>3. UNCHANGED jobs /\ (StartTurn(clients[c].thread, "instruction") \/ UNCHANGED threads)
      BY <2>2 DEF send_instruction_to_app_server
    <3> QED BY <3>1, <3>2, <3>3, StartTurnTyped
  <2>3. CASE interrupt_app_server_turn(c)
    <3>1. clients[c].thread \in Threads
      BY <2>3 DEF interrupt_app_server_turn, Handler, ClientsTyped
    <3>2. EndTurn(clients[c].thread) \/ UNCHANGED <<threads, jobs>>
      BY <2>3 DEF interrupt_app_server_turn
    <3> QED BY <3>1, <3>2, EndTurnTyped DEF Lines
  <2> QED BY <2>1, <2>2, <2>3, Zenon DEF HandlerStep, ControlTimesOut, resolve_input_answer_frame,
     write_control_response_frame, read_loaded_thread, relay_control_command,
     append_answer_input_resolved_event, codex
<1>4. \A j \in jobs' \ jobs : RightMark(j)
  BY <1>3 DEF RightMark
<1> QED BY <1>1, <1>2, <1>3, <1>4, BindingStays

-----------------------------------------------------------------------------
(* Showing.                                                                *)
LEMMA ShowingRests ==
    ASSUME Showing, store' = store, log'.reported = log.reported,
           \A q : \A c \in Clients : Serves(c, q)' =>
               /\ Serves(c, q) /\ clients'[c].session = clients[c].session
    PROVE  Showing'
<1>1. OneSession'
  BY DEF Showing, OneSession
<1>2. AnswersAreReported'
  BY DEF Showing, AnswersAreReported, Visible
<1>3. AnsweredIsCleared'
  BY DEF Showing, AnsweredIsCleared
<1> QED BY <1>1, <1>2, <1>3 DEF Showing, ItemsKnown, FailureShown

LEMMA KeepsShowing ==
    ASSUME Showing, store' = store, log'.reported = log.reported,
           \A c \in Clients : Keeps(c)
    PROVE  Showing'
<1>1. \A q : \A c \in Clients : Serves(c, q)' =>
               /\ Serves(c, q) /\ clients'[c].session = clients[c].session
  BY DEF Keeps, Serves
<1> QED BY <1>1, ShowingRests

(* A question of a relay, when nobody has shown or served it before; or a  *)
(* failed task.                                                            *)
LEMMA BlockerShows ==
    ASSUME TypeOK, Showing, NEW e, IsEvent(e, StoreIds), e.tool = "codex",
           \A c \in Clients, q \in Requests : e.id # <<"answer", c, q>>,
           \/ /\ e.type = "InputRequested" /\ e.key \in Requests /\ e.key \notin log.reported
              /\ \A i \in store.attention_items : i.key # e.key
              /\ \A c \in Clients : ~Serves(c, e.key)
           \/ e.type = "TaskFailed" /\ e.key = None,
           store' = apply_event(store, e), clients' = clients, log'.reported = log.reported
    PROVE  /\ Showing'
           /\ \A i \in store'.attention_items \ store.attention_items : i.key = e.key
<1> DEFINE k == SessionOf(e)
           status == IF e.type = "TaskFailed" THEN "Error" ELSE "WaitingInput"
<1>1. /\ GoodState(StoreIds, store) /\ ItemsKnown(store) /\ FailureShown(store)
      /\ OneSession /\ AnswersAreReported /\ AnsweredIsCleared
  BY DEF Showing
<1>2. PICK n : /\ store'.attention_items = store.attention_items \cup {n}
               /\ n.event_id = e.id /\ n.tool = e.tool /\ n.session = e.session /\ n.key = e.key
               /\ n.status = status
  BY <1>1, BlockerApplied
<1>3. /\ store'.latest_activity = store.latest_activity
      /\ \A j \in Sessions : store'.runtime_states[j].last_event_id
                                \in {store.runtime_states[j].last_event_id, e.id}
      /\ \A j \in Sessions \ {k} : store'.runtime_states[j] = store.runtime_states[j]
      /\ store'.runtime_states[k].status = status
  BY <1>1, BlockerApplied
<1>4. GoodState(StoreIds, store')
  BY <1>1, ApplyEventGood
<1>5. None \notin Requests /\ log.reported \subseteq Requests
  BY KeyAssumption, WrapperAssumption DEF TypeOK, LogType
<1>6. SessionOf(n) = k /\ k \in Sessions
  BY <1>2 DEF SessionOf, IsEvent, Sessions
<1>7. ItemsKnown(store')
  BY <1>1, <1>2 DEF ItemsKnown
<1>8. FailureShown(store')
  <2> SUFFICES ASSUME NEW j \in Sessions, store'.runtime_states[j].status = "Error"
               PROVE  \E i \in store'.attention_items : SessionOf(i) = j /\ i.status = "Error"
    BY DEF FailureShown
  <2>1. CASE j = k
    BY <1>2, <1>3, <1>6, <2>1
  <2>2. CASE j # k
    <3>1. store.runtime_states[j].status = "Error"
      BY <1>3, <2>2
    <3> QED BY <1>1, <1>2, <3>1 DEF FailureShown
  <2> QED BY <2>1, <2>2
<1>9. OneSession'
  <2> SUFFICES ASSUME NEW i \in store'.attention_items, i.key # None
               PROVE  /\ \A j \in store'.attention_items : j.key = i.key => j.session = i.session
                      /\ \A c \in Clients : Serves(c, i.key) => clients[c].session = i.session
    BY DEF OneSession, Serves
  <2>1. CASE i = n
    BY <1>2, <1>5, <2>1
  <2>2. CASE i \in store.attention_items
    <3>1. i.key # e.key
      BY <1>5, <2>2
    <3> QED BY <1>1, <1>2, <2>2, <3>1 DEF OneSession
  <2> QED BY <1>2, <2>1, <2>2
<1>10. AnswersAreReported'
  <2> SUFFICES ASSUME NEW c \in Clients, NEW q \in Requests, Visible(store', <<"answer", c, q>>)
               PROVE  q \in log.reported
    BY DEF AnswersAreReported
  <2>1. Visible(store, <<"answer", c, q>>)
    BY <1>2, <1>3 DEF Visible
  <2> QED BY <1>1, <2>1 DEF AnswersAreReported
<1>11. AnsweredIsCleared'
  <2> SUFFICES ASSUME NEW i \in store'.attention_items, i.key \in log.reported
               PROVE  \E f \in store'.attention_items : SessionOf(f) = SessionOf(i) /\ f.status = "Error"
    BY DEF AnsweredIsCleared
  <2>1. i \in store.attention_items
    BY <1>2, <1>5
  <2> QED BY <1>1, <1>2, <2>1 DEF AnsweredIsCleared
<1> QED BY <1>2, <1>4, <1>7, <1>8, <1>9, <1>10, <1>11 DEF Showing

(* The end of a turn takes the session's items away; an answer the item of *)
(* its question.                                                           *)
LEMMA SettleShows ==
    ASSUME TypeOK, Showing, NEW e, IsEvent(e, StoreIds), e.tool = "codex",
           \/ /\ e.type = "SessionActivity" /\ e.key \in Requests
              /\ log'.reported = log.reported \cup {e.key}
              /\ \A i \in store.attention_items : i.key = e.key => i.session = e.session
           \/ /\ e.type = "AssistantMessageCompleted" /\ e.key = None
              /\ log'.reported = log.reported,
           \A c \in Clients, q \in Requests : e.id = <<"answer", c, q>> => q \in log'.reported,
           \A q : \A c \in Clients : Serves(c, q)' =>
               /\ Serves(c, q) /\ clients'[c].session = clients[c].session,
           store' = apply_event(store, e)
    PROVE  /\ Showing'
           /\ store'.attention_items \subseteq store.attention_items
           /\ e.key # None =>
                 \A i \in store.attention_items \ store'.attention_items : i.key = e.key
<1> DEFINE k == SessionOf(e)
<1>1. /\ GoodState(StoreIds, store) /\ ItemsKnown(store) /\ FailureShown(store)
      /\ OneSession /\ AnswersAreReported /\ AnsweredIsCleared
  BY DEF Showing
<1>2. /\ store'.attention_items =
            {i \in store.attention_items : SessionOf(i) # k \/ (e.key # None /\ i.key # e.key)}
      /\ store'.latest_activity.event_id \in {store.latest_activity.event_id, e.id}
      /\ \A j \in Sessions : store'.runtime_states[j].last_event_id
                                \in {store.runtime_states[j].last_event_id, e.id}
      /\ \A j \in Sessions \ {k} : store'.runtime_states[j] = store.runtime_states[j]
      /\ store'.runtime_states[k].status = "Error" =>
            \E i \in store'.attention_items : SessionOf(i) = k /\ i.status = "Error"
  BY <1>1, SettleApplied
<1>3. GoodState(StoreIds, store')
  BY <1>1, ApplyEventGood
<1>4. None \notin Requests /\ log.reported \subseteq Requests
  BY KeyAssumption, WrapperAssumption DEF TypeOK, LogType
<1>5. store'.attention_items \subseteq store.attention_items
  BY <1>2
<1>6. ItemsKnown(store')
  BY <1>1, <1>5 DEF ItemsKnown
<1>7. \A f \in store.attention_items : f.status = "Error" /\ SessionOf(f) # k => f \in store'.attention_items
  BY <1>2
<1>8. FailureShown(store')
  <2> SUFFICES ASSUME NEW j \in Sessions, store'.runtime_states[j].status = "Error"
               PROVE  \E i \in store'.attention_items : SessionOf(i) = j /\ i.status = "Error"
    BY DEF FailureShown
  <2>1. CASE j = k
    BY <1>2, <2>1
  <2>2. CASE j # k
    <3>1. store.runtime_states[j].status = "Error"
      BY <1>2, <2>2
    <3> QED BY <1>1, <1>7, <2>2, <3>1 DEF FailureShown
  <2> QED BY <2>1, <2>2
<1>9. OneSession'
  <2> SUFFICES ASSUME NEW i \in store'.attention_items, i.key # None
               PROVE  /\ \A j \in store'.attention_items : j.key = i.key => j.session = i.session
                      /\ \A c \in Clients : Serves(c, i.key)' => clients'[c].session = i.session
    BY DEF OneSession, Serves
  <2>1. i \in store.attention_items
    BY <1>5
  <2> QED BY <1>1, <1>5, <2>1 DEF OneSession
<1>10. AnswersAreReported'
  <2> SUFFICES ASSUME NEW c \in Clients, NEW q \in Requests, Visible(store', <<"answer", c, q>>)
               PROVE  q \in log'.reported
    BY DEF AnswersAreReported
  <2>1. CASE e.id = <<"answer", c, q>>
    BY <2>1
  <2>2. CASE e.id # <<"answer", c, q>>
    <3>1. Visible(store, <<"answer", c, q>>)
      BY <1>2, <1>5, <2>2 DEF Visible
    <3> QED BY <1>1, <3>1 DEF AnswersAreReported
  <2> QED BY <2>1, <2>2
<1>11. AnsweredIsCleared'
  <2> SUFFICES ASSUME NEW i \in store'.attention_items, i.key \in log'.reported
               PROVE  \E f \in store'.attention_items : SessionOf(f) = SessionOf(i) /\ f.status = "Error"
    BY DEF AnsweredIsCleared
  <2>1. i \in store.attention_items
    BY <1>5
  <2>2. i.key \in log.reported
    <3> SUFFICES ASSUME i.key = e.key, e.key \in Requests PROVE FALSE
      OBVIOUS
    <3>1. i.session = e.session
      BY <1>4, <2>1
    <3>2. SessionOf(i) = k
      BY <1>1, <2>1, <3>1 DEF ItemsKnown, SessionOf
    <3> QED BY <1>2, <3>2
  <2>3. PICK f \in store.attention_items : SessionOf(f) = SessionOf(i) /\ f.status = "Error"
    BY <1>1, <2>1, <2>2 DEF AnsweredIsCleared
  <2>4. f \in store'.attention_items
    <3>1. f.key = None
      BY <1>1, <2>3 DEF ItemsKnown
    <3> QED BY <1>2, <1>4, <2>3, <3>1
  <2> QED BY <2>3, <2>4
<1> QED BY <1>2, <1>3, <1>5, <1>6, <1>8, <1>9, <1>10, <1>11 DEF Showing

(* What an event of a relay or of the watcher leaves.                      *)
LEMMA JobShows ==
    ASSUME TypeOK, ClientsTyped, Passing, Showing, NEW j \in jobs, JobStep(j)
    PROVE  /\ Showing'
           /\ \A i \in store'.attention_items \ store.attention_items :
                 i.key \in Requests => Carries(j) /\ j.what = i.key
<1>1. UNCHANGED <<process, clients>> /\ log'.reported = log.reported
  BY JobFacts
<1>2. \A c \in Clients : Keeps(c)
  BY <1>1 DEF Keeps
<1>3. CASE store' = store
  BY <1>1, <1>2, <1>3, KeepsShowing
<1>4. \A q : \A c \in Clients : Serves(c, q)' =>
               /\ Serves(c, q) /\ clients'[c].session = clients[c].session
  BY <1>1 DEF Serves
<1>5. CASE submit_relay_input_event(j)
  <2> DEFINE session == j.session
             id == <<"relay", session, j.what>>
             e == Event(id, session, "InputRequested", j.what)
  <2>1. j.kind = "post" /\ Carries(j) /\ store' \in {store, apply_event(store, e)}
    BY <1>5 DEF submit_relay_input_event, append_events, Carries
  <2>2. j \in Questions
    BY <2>1 DEF TypeOK, Marks, Lines
  <2>3. j.what \in Requests
    BY <2>2 DEF Questions
  <2>4. session \in SessionIds
    BY <2>1, <2>2 DEF Questions
  <2>5. id \in StoreIds
    <3> HIDE DEF session
    <3> QED BY <2>3, <2>4 DEF StoreIds
  <2>6. /\ IsEvent(e, StoreIds) /\ e.type = "InputRequested" /\ e.key = j.what /\ e.tool = "codex"
        /\ e.id = <<"relay", session, j.what>>
    <3> HIDE DEF session, id
    <3>1. "InputRequested" \in EventTypes
      BY DEF EventTypes
    <3>2. IsEvent(e, StoreIds) /\ e.type = "InputRequested" /\ e.key = j.what /\ e.tool = "codex"
          /\ e.id = id
      BY <2>3, <2>4, <2>5, <3>1, EventTyped
    <3> QED BY <3>2 DEF id
  <2> HIDE DEF session, e
  <2>7. \A c \in Clients, q \in Requests : e.id # <<"answer", c, q>>
    BY <2>6
  <2>8. Early(j.what)
    BY <2>1 DEF Early, Filed
  <2>9. /\ j.what \notin log.reported /\ \A i \in store.attention_items : i.key # j.what
        /\ \A c \in Clients : ~Serves(c, j.what)
    BY <2>3, <2>8 DEF Passing, OnItsWay
  <2>10. CASE store' = apply_event(store, e)
    BY <1>1, <2>1, <2>3, <2>6, <2>7, <2>9, <2>10, BlockerShows
  <2> QED BY <1>3, <2>1, <2>10
<1>6. CASE WatcherReports(j)
  <2> DEFINE id == <<"line", j.session, j.what>>
             e == Event(id, j.session, j.what[1], None)
  <2>1. j.kind = "line" /\ store' \in {store, apply_event(store, e)}
    BY <1>6 DEF WatcherReports, append_events
  <2>2. j \in Lines
    BY <2>1 DEF TypeOK, Marks, Questions
  <2>3. /\ j.session \in Threads /\ j.session \in SessionIds /\ j.what \in LineKinds \X Nat
        /\ j.what[1] \in LineKinds
    BY <2>2, WrapperAssumption DEF Lines
  <2>4. id \in StoreIds /\ j.what[1] \in EventTypes
    BY <2>3 DEF StoreIds, EventTypes, LineKinds
  <2>5. /\ IsEvent(e, StoreIds) /\ e.type = j.what[1] /\ e.key = None /\ e.tool = "codex"
        /\ e.id = <<"line", j.session, j.what>>
    <3> HIDE DEF id
    <3>1. IsEvent(e, StoreIds) /\ e.type = j.what[1] /\ e.key = None /\ e.tool = "codex" /\ e.id = id
      BY <2>3, <2>4, EventTyped
    <3> QED BY <3>1 DEF id
  <2> HIDE DEF e
  <2>6. \A c \in Clients, q \in Requests : e.id # <<"answer", c, q>>
    BY <2>5
  <2>7. None \notin Requests
    BY KeyAssumption, WrapperAssumption
  <2>8. CASE store' = apply_event(store, e) /\ e.type = "TaskFailed"
    BY <1>1, <2>5, <2>6, <2>7, <2>8, BlockerShows
  <2>9. CASE store' = apply_event(store, e) /\ e.type = "AssistantMessageCompleted"
    BY <1>1, <1>4, <2>5, <2>6, <2>7, <2>9, SettleShows
  <2> QED BY <1>3, <2>1, <2>3, <2>5, <2>8, <2>9 DEF LineKinds
<1> QED BY <1>3, <1>5, <1>6, JobFacts

(* A client answers what is shown, where it is shown.                      *)
LEMMA ClientShows ==
    ASSUME TypeOK, ClientsTyped, Showing, NEW c \in Clients, ClientStep(c)
    PROVE  Showing'
<1>1. store \in StoredState(StoreIds)
  BY DEF Showing, GoodState
<1>2. /\ UNCHANGED <<process, registry, threads, inputs, jobs, store, log>>
      /\ \A d \in Clients : clients'[d].pc # "idle" =>
                 \/ clients'[d] = clients[d]
                 \/ d = c /\ clients'[d].pc = "handle" /\ clients'[d].input = None
                 \/ /\ d = c /\ clients'[d].pc = "handle"
                    /\ \E i \in store.attention_items :
                          clients'[d].input = i.key /\ clients'[d].session = i.session
  BY <1>1, ClientTyped
<1>3. OneSession'
  <2> SUFFICES ASSUME NEW i \in store.attention_items, i.key # None, NEW d \in Clients,
                      Serves(d, i.key)'
               PROVE  clients'[d].session = i.session
    BY <1>2 DEF OneSession, Showing
  <2>1. clients'[d].pc # "idle" /\ clients'[d].input = i.key
    BY DEF Serves
  <2>2. CASE clients'[d] = clients[d]
    BY <2>1, <2>2 DEF Showing, OneSession, Serves
  <2>3. CASE \E h \in store.attention_items :
                clients'[d].input = h.key /\ clients'[d].session = h.session
    BY <2>1, <2>3 DEF Showing, OneSession
  <2> QED BY <1>2, <2>1, <2>2, <2>3
<1>4. AnswersAreReported'
  BY <1>2 DEF Showing, AnswersAreReported, Visible
<1>5. AnsweredIsCleared'
  BY <1>2 DEF Showing, AnsweredIsCleared
<1> QED BY <1>2, <1>3, <1>4, <1>5 DEF Showing, ItemsKnown, FailureShown

(* The event of an answer: already applied, too late, or applied.          *)
LEMMA AnswerShows ==
    ASSUME TypeOK, ClientsTyped, Showing, NEW c \in Clients, append_answer_input_resolved_event(c)
    PROVE  /\ Showing'
           /\ store'.attention_items \subseteq store.attention_items
           /\ \A i \in store.attention_items \ store'.attention_items : i.key = clients[c].input
<1>1. PICK q \in Requests : clients[c].input = q
  BY DEF append_answer_input_resolved_event, Handler, ClientsTyped
<1> DEFINE s == clients[c].session
           id == <<"answer", c, q>>
           e == Event(id, s, "SessionActivity", q)
<1>2. /\ clients[c].pc = "append" /\ log' = [log EXCEPT !.reported = @ \cup {q}]
      /\ clients' = [clients EXCEPT ![c] = Idle]
      /\ store' = IF already_applied(store, e) \/ is_late_terminal_activity(store, e) THEN store
                  ELSE apply_event(store, e)
  BY <1>1 DEF append_answer_input_resolved_event, append_events, Handler, GoOn
<1>3. s \in SessionIds /\ Serves(c, q)
  BY <1>1, <1>2 DEF ClientsTyped, Serves
<1>4. id \in StoreIds /\ "SessionActivity" \in EventTypes
  BY DEF StoreIds, EventTypes
<1>5. /\ IsEvent(e, StoreIds) /\ e.type = "SessionActivity" /\ e.key = q /\ e.tool = "codex"
      /\ e.session = s /\ e.id = <<"answer", c, q>>
  <2> HIDE DEF id, s
  <2>1. IsEvent(e, StoreIds) /\ e.type = "SessionActivity" /\ e.key = q /\ e.tool = "codex"
        /\ e.session = s /\ e.id = id
    BY <1>3, <1>4, EventTyped
  <2> QED BY <2>1 DEF id
<1> HIDE DEF e
<1>6. log'.reported = log.reported \cup {q}
  BY <1>2 DEF TypeOK
<1>7. \A r : \A d \in Clients : Serves(d, r)' =>
         /\ Serves(d, r) /\ clients'[d].session = clients[d].session
  BY <1>2, IdleTyped DEF Serves, TypeOK
<1>8. None \notin Requests
  BY KeyAssumption, WrapperAssumption
<1>9. \A i \in store.attention_items : i.key = q => i.session = s
  BY <1>3, <1>8 DEF Showing, OneSession
<1>10. CASE already_applied(store, e)
  <2>1. q \in log.reported
    BY <1>5, <1>10 DEF already_applied, Showing, AnswersAreReported, Visible
  <2>2. store' = store /\ log'.reported = log.reported
    BY <1>2, <1>6, <1>10, <2>1
  <2> QED BY <1>7, <2>2, ShowingRests
<1>11. CASE is_late_terminal_activity(store, e)
  <2>1. store' = store
    BY <1>2, <1>11
  <2>2. OneSession'
    BY <1>7, <2>1 DEF Showing, OneSession
  <2>3. AnswersAreReported'
    BY <1>6, <2>1 DEF Showing, AnswersAreReported, Visible
  <2>4. AnsweredIsCleared'
    <3> SUFFICES ASSUME NEW i \in store.attention_items, i.key = q
                 PROVE  \E f \in store.attention_items : SessionOf(f) = SessionOf(i) /\ f.status = "Error"
      BY <1>6, <2>1 DEF Showing, AnsweredIsCleared
    <3>1. SessionOf(i) = SessionOf(e) /\ SessionOf(e) \in Sessions
      BY <1>5, <1>9 DEF Showing, ItemsKnown, SessionOf, IsEvent, Sessions
    <3>2. store.runtime_states[SessionOf(e)].status \in BlockedStatuses
      BY <3>1 DEF Showing, GoodState, ItemsReflected
    <3>3. store.runtime_states[SessionOf(e)].status = "Error"
      BY <1>11, <3>2 DEF is_late_terminal_activity, BlockedStatuses
    <3> QED BY <3>1, <3>3 DEF Showing, FailureShown
  <2> QED BY <2>1, <2>2, <2>3, <2>4 DEF Showing, ItemsKnown, FailureShown
<1>12. CASE store' = apply_event(store, e)
  <2>1. \A d \in Clients, r \in Requests : e.id = <<"answer", d, r>> => r \in log'.reported
    BY <1>5, <1>6
  <2> HIDE DEF s
  <2> QED BY <1>1, <1>5, <1>6, <1>7, <1>8, <1>9, <1>12, <2>1, SettleShows
<1> QED BY <1>2, <1>10, <1>11, <1>12

LEMMA HandlerShows ==
    ASSUME TypeOK, ClientsTyped, Showing, NEW c \in Clients, HandlerStep(c) \/ ControlTimesOut(c)
    PROVE  Showing' /\ store'.attention_items \subseteq store.attention_items
<1>1. \A q : \A d \in Clients : Serves(d, q)' =>
         /\ Serves(d, q) /\ clients'[d].session = clients[d].session
  BY HandlerFacts DEF Serves
<1>2. CASE append_answer_input_resolved_event(c)
  BY <1>2, AnswerShows
<1>3. CASE store' = store /\ log'.reported = log.reported
  BY <1>1, <1>3, ShowingRests
<1>4. CASE write_control_response_frame(c)
  <2>1. store' = store /\ (log' = log \/ log' = [log EXCEPT !.answers[clients[c].input] = @ + 1])
    BY <1>4 DEF write_control_response_frame
  <2>2. log'.reported = log.reported
    BY <2>1 DEF TypeOK, LogType
  <2> QED BY <1>3, <2>1, <2>2
<1> QED BY <1>2, <1>3, <1>4 DEF HandlerStep, ControlTimesOut, resolve_input_answer_frame,
     read_loaded_thread, send_instruction_to_app_server, interrupt_app_server_turn,
     relay_control_command

-----------------------------------------------------------------------------
LEMMA StartInvariant == Init => IInv
<1> SUFFICES ASSUME Init PROVE IInv
  OBVIOUS
<1>1. budget \in StartType
  BY WrapperAssumption DEF Init, StartType
<1>2. TypeOK
  <2>1. process \in [Wrappers -> ProcessType] /\ registry \in [Wrappers -> RegistryType]
    BY DEF Init, Unstarted, NotRegistered, ProcessType, RegistryType, Texts
  <2>2. threads \in [Threads -> ThreadType]
    <3> DEFINE by(t) == {w \in Wrappers : resume_target_session_id(w) = t}
               owner(t) == IF by(t) = {} THEN None ELSE CHOOSE w \in by(t) : TRUE
               said(t) == IF by(t) = {} THEN None ELSE "earlier"
               x(t) == [wrapper |-> owner(t), message |-> said(t), written |-> by(t) # {}, turn |-> 0,
                        active |-> FALSE]
    <3>1. threads = [t \in Threads |-> x(t)]
      BY DEF Init
    <3>2. ASSUME NEW t \in Threads PROVE owner(t) \in Wrappers \cup {None} /\ said(t) \in Texts
      BY DEF Texts
    <3>3. ASSUME NEW t \in Threads PROVE (by(t) # {}) \in BOOLEAN
      OBVIOUS
    <3> HIDE DEF owner, said, by
    <3>4. ASSUME NEW t \in Threads PROVE x(t) \in ThreadType
      BY <3>2, <3>3 DEF ThreadType
    <3> HIDE DEF x
    <3> QED BY <3>1, <3>4
  <2>3. inputs \in [Requests -> {"new", "open", "answered"}] /\ jobs \subseteq Marks \cup Lines \cup Questions
        /\ clients \in [Clients -> ClientType]
        /\ log \in LogType
    BY IdleTyped DEF Init, LogType
  <2> QED BY <1>1, <2>1, <2>2, <2>3 DEF TypeOK
<1>3. ClientsTyped
  BY IdleTyped DEF Init, ClientsTyped
<1>4. Passing
  <2> SUFFICES ASSUME NEW q \in Requests PROVE OnItsWay(q)
    BY DEF Passing
  <2>1. AskedBy[q] \in Wrappers
    BY WrapperAssumption
  <2>2. ~Asked(q) /\ ~Filed(q) /\ ~Pending(q)
    BY <2>1 DEF Init, Asked, Filed, Pending, Unstarted
  <2>3. \A c \in Clients : ~Serves(c, q) /\ ~Writes(c, q)
    BY IdleTyped DEF Init, Serves, Writes
  <2>4. log.answers[q] = 0 /\ q \notin log.reported /\ store.attention_items = {}
    BY DEF Init, DefaultState
  <2> QED BY <2>2, <2>3, <2>4 DEF OnItsWay
<1>5. Binding
  <2>1. \A w \in Wrappers : process[w] = Unstarted /\ registry[w] = NotRegistered
    BY DEF Init
  <2>2. \A t \in Threads : threads[t].message \in {None, "earlier"}
    BY DEF Init
  <2>3. jobs = {}
    BY DEF Init
  <2> QED BY <2>1, <2>2, <2>3 DEF Binding, Typed, Registered, Unstarted, NotRegistered
<1>6. Showing
  <2>1. store = DefaultState /\ clients = [c \in Clients |-> Idle] /\ log.reported = {}
    BY DEF Init
  <2>2. GoodState(StoreIds, store)
    BY <2>1, DefaultGood
  <2>3. /\ store.attention_items = {} /\ store.latest_activity.event_id = None
        /\ \A k \in Sessions : /\ store.runtime_states[k].status = "Absent"
                               /\ store.runtime_states[k].last_event_id = None
    BY <2>1 DEF DefaultState, NoRuntimeState, IdleActivity
  <2>4. \A c \in Clients, q \in Requests : <<"answer", c, q>> # None
    BY WrapperAssumption
  <2>5. AnswersAreReported
    BY <2>3, <2>4 DEF AnswersAreReported, Visible
  <2> QED BY <2>2, <2>3, <2>5 DEF Showing, ItemsKnown, FailureShown, OneSession, AnsweredIsCleared
<1>7. FiledOnce
  BY DEF Init, FiledOnce
<1> QED BY <1>2, <1>3, <1>4, <1>5, <1>6, <1>7 DEF IInv

LEMMA StepInvariant == IInv /\ [Next]_vars => IInv'
<1> SUFFICES ASSUME IInv, [Next]_vars PROVE IInv'
  OBVIOUS
<1>1. TypeOK /\ ClientsTyped /\ Passing /\ FiledOnce /\ Binding /\ Showing /\ store \in StoredState(StoreIds)
  BY DEF IInv, Showing, GoodState
<1>2. ASSUME NEW w \in Wrappers, WrapperStep(w)
      PROVE  IInv'
  <2>1. TypeOK' /\ ClientsTyped'
    BY <1>1, <1>2, WrapperTyped
  <2>2. Passing' /\ Binding'
    BY <1>1, <1>2, <2>1, WrapperPasses, WrapperBinds
  <2>3. UNCHANGED <<store, log>> /\ jobs' \subseteq jobs /\ \A c \in Clients : Keeps(c)
    BY <1>1, <1>2, WrapperFacts
  <2>4. Showing' /\ FiledOnce'
    BY <1>1, <2>3, KeepsShowing, FiledOnceStays
  <2> QED BY <2>1, <2>2, <2>4 DEF IInv
<1>3. CASE CodexStep
  <2>1. TypeOK' /\ ClientsTyped'
    BY <1>1, <1>3, CodexTyped
  <2>2. Passing' /\ Binding'
    BY <1>1, <1>3, <2>1, CodexPasses, CodexBinds
  <2>3. UNCHANGED <<clients, store, log>>
    BY <1>3 DEF CodexStep, OpenThread, observe_client_data, WriteFile, TurnEnds, ServerAsks,
       TerminalAnswers
  <2>4. Showing' /\ FiledOnce'
    BY <1>1, <1>3, <2>3, KeepsShowing, CodexFilesOnce DEF Keeps
  <2> QED BY <2>1, <2>2, <2>4 DEF IInv
<1>4. CASE RelayStep
  <2>1. TypeOK' /\ ClientsTyped'
    BY <1>1, <1>4, RelayTyped
  <2>2. Passing' /\ Binding'
    BY <1>1, <1>4, <2>1, RelayPasses, RelayBinds
  <2>3. UNCHANGED <<clients, store, log>>
    BY <1>4 DEF RelayStep, observe_input_request, observe_client_message
  <2>4. Showing' /\ FiledOnce'
    BY <1>1, <1>4, <2>3, KeepsShowing, RelayFilesOnce DEF Keeps
  <2> QED BY <2>1, <2>2, <2>4 DEF IInv
<1>5. ASSUME NEW j \in jobs, JobStep(j)
      PROVE  IInv'
  <2>1. TypeOK' /\ ClientsTyped'
    BY <1>1, <1>5, RelayTyped
  <2>2. Showing' /\ \A i \in store'.attention_items \ store.attention_items :
                       i.key \in Requests => Carries(j) /\ j.what = i.key
    BY <1>1, <1>5, JobShows
  <2>3. Passing' /\ FiledOnce'
    BY <1>1, <1>5, <2>2, JobPasses, JobFilesOnce
  <2>4. Binding'
    BY <1>1, <1>5, <2>1, JobBinds
  <2> QED BY <2>1, <2>2, <2>3, <2>4 DEF IInv
<1>6. CASE build_snapshot_refresh
  <2>1. TypeOK' /\ ClientsTyped'
    BY <1>1, <1>6, RelayTyped
  <2>2. Binding'
    BY <1>1, <1>6, <2>1, RefreshBinds
  <2>3. UNCHANGED <<process, inputs, jobs, clients, store, log>> /\ \A c \in Clients : Keeps(c)
    BY <1>6 DEF build_snapshot_refresh, codex, Keeps
  <2>4. Showing' /\ Passing' /\ FiledOnce'
    BY <1>1, <2>3, KeepsShowing, ProcessesRest, FiledOnceStays
  <2> QED BY <2>1, <2>2, <2>4 DEF IInv
<1>7. ASSUME NEW c \in Clients, ClientStep(c)
      PROVE  IInv'
  <2>1. FiledOnce'
    BY <1>1, <1>7, ClientTyped, FiledOnceStays
  <2> QED BY <1>1, <1>7, <2>1, ClientTyped, ClientPasses, ClientBinds, ClientShows DEF IInv
<1>8. ASSUME NEW c \in Clients, HandlerStep(c) \/ ControlTimesOut(c)
      PROVE  IInv'
  <2>1. TypeOK' /\ ClientsTyped'
    BY <1>1, <1>8, HandlerTyped
  <2>2. Showing' /\ store'.attention_items \subseteq store.attention_items
    BY <1>1, <1>8, HandlerShows
  <2> QED BY <1>1, <1>8, <2>1, <2>2, HandlerPasses, HandlerFilesOnce, HandlerBinds DEF IInv
<1>9. CASE UNCHANGED vars
  <2>1. UNCHANGED <<process, registry, threads, inputs, jobs, store, clients, budget, log>>
    BY <1>9 DEF vars
  <2>2. \A c \in Clients : Keeps(c)
    BY <2>1 DEF Keeps
  <2>3. TypeOK' /\ ClientsTyped'
    BY <1>1, <2>1 DEF TypeOK, ClientsTyped
  <2> QED BY <1>1, <2>1, <2>2, <2>3, KeepsShowing, ProcessesRest, FiledOnceStays, BindingRests DEF IInv
<1> QED BY <1>2, <1>3, <1>4, <1>5, <1>6, <1>7, <1>8, <1>9 DEF Next

LEMMA Invariant == Spec => []IInv
BY StartInvariant, StepInvariant, PTL DEF Spec

-----------------------------------------------------------------------------
(* No question is answered by niuma twice, whatever clients compete, give  *)
(* up and try again (resolve_input_answer_frame).                          *)
THEOREM QuestionsAnsweredOnce == Spec => []AnswersOnce
<1>1. IInv => AnswersOnce
  BY DEF IInv, Passing, OnItsWay, AnswersOnce
<1> QED BY <1>1, Invariant, PTL

(* A bound wrapper whose terminal named its thread, or whose first message *)
(* no other wrapper was given, is bound to a thread of its own app-server  *)
(* (bind_managed_session).                                                 *)
THEOREM BindingsAreOwn == Spec => []BoundToOwnThread
<1>1. IInv => BoundToOwnThread
  BY DEF IInv, Binding, Registered, BoundToOwnThread, Own
<1> QED BY <1>1, Invariant, PTL

(* A question reported as answered is not shown any more, and nothing      *)
(* shows it again, unless a failure of its session is shown with it        *)
(* (append_answer_input_resolved_event).                                   *)
THEOREM AnsweredQuestionsGo == Spec => []AnsweredIsCleared
<1>1. IInv => AnsweredIsCleared
  BY DEF IInv, Showing
<1> QED BY <1>1, Invariant, PTL

(* The report of an answer takes away no other question of the session     *)
(* (append_answer_input_resolved_event, apply_event).                      *)
THEOREM OtherQuestionsStay == Spec => OthersKeepWaiting
<1> DEFINE Stays == \A c \in Clients : append_answer_input_resolved_event(c) =>
                       {i.key : i \in store.attention_items \ store'.attention_items}
                           \subseteq {clients[c].input}
<1>1. IInv /\ [Next]_vars => Stays
  <2> SUFFICES ASSUME IInv, NEW c \in Clients, append_answer_input_resolved_event(c)
               PROVE  {i.key : i \in store.attention_items \ store'.attention_items}
                           \subseteq {clients[c].input}
    OBVIOUS
  <2>1. TypeOK /\ ClientsTyped /\ Showing
    BY DEF IInv
  <2> QED BY <2>1, AnswerShows
<1>2. Stays => [Stays]_vars
  OBVIOUS
<1> HIDE DEF Stays
<1>3. Spec => [][Stays]_vars
  BY <1>1, Invariant, PTL DEF Spec
<1> QED BY <1>3 DEF OthersKeepWaiting, Stays
=============================================================================
