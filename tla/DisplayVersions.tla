--------------------------- MODULE DisplayVersions ---------------------------
(***************************************************************************)
(* What the SSE connections of the Local API got, and the broadcaster that *)
(* numbers the contents of the main state (MainStateBroadcaster and        *)
(* MainStateClient in crates/niuma-api/src/sse.rs): one broadcaster for    *)
(* all connections, and the last content of each.  Module SseStreams has   *)
(* the streams that read the store and send.                               *)
(***************************************************************************)
EXTENDS StoreTransitions

CONSTANT Conns  \* SSE connections; a client that reconnects is another one

VARIABLES
    broadcaster,    \* MainStateBroadcaster
    conns           \* the connections: pos, the next event to receive; last, last_content
                    \* of the MainStateClient; sent, the last frame with its id; content,
                    \* what a main-state stream has read and not yet sent

New(wants) == [kind |-> "new", wants |-> wants]

Open(c) == conns[c].kind # "new"

NoFrame == [id |-> 0, content |-> None]

-----------------------------------------------------------------------------
(* should_send: remember the content, and send it if it is new.  A detail  *)
(* that cannot be computed (None) is not sent and not remembered.          *)
Reads(c, pos, content, force) ==
    conns' = [conns EXCEPT ![c] =
        IF content # None /\ (force \/ @.last # content)
        THEN [@ EXCEPT !.pos = pos, !.last = content, !.content = content, !.pc = "send",
                       !.excused = FALSE]
        ELSE [@ EXCEPT !.pos = pos, !.pc = "wait", !.excused = FALSE]]

(* Mutant: only the first content gets a version of its own.               *)
version_for_first_content(content) ==
    IF broadcaster.last_content = None
    THEN [version |-> broadcaster.version + 1, last_content |-> content]
    ELSE [broadcaster EXCEPT !.last_content = content]

(* MainStateBroadcaster::version_for_content                               *)
version_for_content(content) ==
    IF broadcaster.last_content # content
    THEN [version |-> broadcaster.version + 1, last_content |-> content]
    ELSE broadcaster

-----------------------------------------------------------------------------
StateConns == {c \in Conns : conns[c].kind = "state"}

(* One version never names two contents, whichever connections they went   *)
(* to and in whichever order the streams read the store and got their      *)
(* versions (version_for_content, next_state_event).                       *)
VersionNamesContent ==
    \A c, d \in StateConns :
        conns[c].sent.id = conns[d].sent.id => conns[c].sent.content = conns[d].sent.content

(* On one connection the versions grow with every frame: a client that     *)
(* keeps the highest version keeps the last frame, also when another       *)
(* connection got the versions between.                                    *)
VersionsIncrease ==
    [][\A c \in Conns :
         conns[c].kind = "state" /\ conns'[c].kind = "state" /\ conns'[c].sent # conns[c].sent
           => conns'[c].sent.id > conns[c].sent.id]_conns

=============================================================================
