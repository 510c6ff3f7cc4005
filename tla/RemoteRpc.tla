------------------------------ MODULE RemoteRpc ------------------------------
(***************************************************************************)
(* One relay of the remote agent: a task that reads requests of a remote   *)
(* client, answers them, and forwards what the streams it opened on the    *)
(* Local API deliver.  A relay is a record; the operators are what its     *)
(* loop (run_device_relay_once, rpc_router, local_api_bridge) does to it.  *)
(*                                                                         *)
(* Streams run as tasks of their own and reach the relay through a channel *)
(* whose receiver is dropped with the relay.                               *)
(***************************************************************************)
EXTENDS Naturals, Sequences

CONSTANT Streams  \* ids of streams a relay may open

\* A response that opens no stream names none.
ASSUME RpcAssumption == "none" \notin Streams

NoRelay == [pc |-> "none", connection |-> "none", next |-> 1, channel |-> <<>>,
            streams |-> [s \in Streams |-> "unused"], delivered |-> [s \in Streams |-> 0],
            answer |-> "none", wire |-> <<>>]

NewRelay(c) == [NoRelay EXCEPT !.pc = "connecting", !.connection = c]

Live(r) == r.pc \in {"connecting", "open", "calling"}

Stop(r, how) == [r EXCEPT !.pc = how, !.channel = <<>>]

\* Responses and notifications share one sequence (RelayOutboundSeq).
send_frame(r, kind, s) ==
    [r EXCEPT !.next = @ + 1,
              !.wire = Append(@, [seq |-> r.next, kind |-> kind, stream |-> s])]

(* Requests.  Pings, unknown methods and bad parameters are answered too.  *)
respond(r) == send_frame(r, "response", "none")

handle_local_api_request(r) == [r EXCEPT !.pc = "calling"]

\* The stream's task is spawned, and may run before the response is written.
handle_local_api_stream(r, s) ==
    [r EXCEPT !.pc = "calling", !.streams[s] = "running", !.answer = s]

\* The Local API has answered, or the stream is spawned: the loop writes the response.
LocalApiAnswers(r) ==
    [send_frame(r, "response", r.answer) EXCEPT !.pc = "open", !.answer = "none"]

handle_local_api_stream_close(r, s) ==
    respond([r EXCEPT !.streams[s] = IF @ = "running" THEN "aborted" ELSE @])

(* The task of a stream: an event, a keep-alive, or the end of the stream. *)

\* Mutant: a failed send is ignored.
stream_event_unchecked(r, s) ==
    IF Live(r) THEN [r EXCEPT !.channel = Append(@, [kind |-> "event", stream |-> s]),
                              !.delivered[s] = @ + 1]
    ELSE r

run_local_api_stream(r, s) ==
    IF Live(r) THEN [r EXCEPT !.channel = Append(@, [kind |-> "event", stream |-> s]),
                              !.delivered[s] = @ + 1]
    ELSE [r EXCEPT !.streams[s] = "ended"]

spawn_local_api_stream(r, s) ==
    LET closed == [r EXCEPT !.streams[s] = "ended"]
    IN IF Live(r) THEN [closed EXCEPT !.channel = Append(@, [kind |-> "closed", stream |-> s])]
       ELSE closed

relay_notification(r) ==
    LET n == Head(r.channel)
    IN send_frame([r EXCEPT !.channel = Tail(@)], n.kind, n.stream)

(* What the remote client may rely on. *)

\* Frames are numbered in the order in which they are sent.
Numbered(r) == \A i \in 1..Len(r.wire) : r.wire[i].seq = i

\* Whatever a stream delivers comes after the response that names the stream.
Announced(r) ==
    \A i \in 1..Len(r.wire) : r.wire[i].kind \in {"event", "closed"} =>
        \E j \in 1..(i - 1) : r.wire[j].kind = "response" /\ r.wire[j].stream = r.wire[i].stream

\* Nothing of a stream follows its end.
ClosedLast(r) ==
    \A i, j \in 1..Len(r.wire) :
        i < j /\ r.wire[i].kind = "closed" => r.wire[j].stream # r.wire[i].stream
=============================================================================
