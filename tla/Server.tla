------------------------------- MODULE Server -------------------------------
(***************************************************************************)
(* The server half of tarpc: one connection's BaseChannel behind the       *)
(* MaxRequests throttle, the Requests stream that drives it, and the       *)
(* handlers that InFlightRequest::execute runs, each in a task of its own  *)
(* (tarpc/src/server.rs, server/in_flight_requests.rs,                     *)
(* server/limits/requests_per_channel.rs and cancellations.rs).            *)
(*                                                                         *)
(* Requests::poll_next is a program counter over the polls it makes, one   *)
(* access to shared state a step.  Handlers share with it the queue of     *)
(* responses, the queue of cancellations their guards send when they are   *)
(* dropped, and their abort flag.  Wakers are explicit, as in Client.      *)
(*                                                                         *)
(* The transport and the peer are the environment: requests, cancellations *)
(* (also of requests long finished), a sink that may stall, an end or a    *)
(* failure of the stream.  A request is named by the call that made it.    *)
(***************************************************************************)
EXTENDS Integers, Sequences, FiniteSets

CONSTANTS
  Callers,         \* the calls whose requests the peer may send
  Ids,             \* the request ids it may use
  ResponseBuffer,  \* Config::pending_response_buffer
  Limit,           \* MaxRequests::max_in_flight_requests
  SinkCapacity,    \* messages the transport's sink takes before a flush
  MaxStalls,       \* bound: how often the network stops taking messages
  Faults           \* which of the events of AllFaults the environment has

\* "reuse": the peer uses an id again, against the rule that it is unique
\* across the requests of a channel.  "refuse": start_send fails for one
\* response.
AllFaults == {"cancel", "reuse", "late", "drop", "refuse", "eof", "break", "stop"}

ASSUME NamesAssumption ==
  /\ IsFiniteSet(Callers) /\ "none" \notin Callers
  /\ Ids \subseteq Nat
ASSUME BoundsAssumption ==
  /\ ResponseBuffer \in Nat \ {0}    \* mpsc::channel panics on 0
  /\ Limit \in Nat
  /\ SinkCapacity \in Nat \ {0}
  /\ MaxStalls \in Nat
  /\ Faults \subseteq AllFaults

NoId == -1

VARIABLES
  \* the handlers
  handler,           \* handler[c]: where the request of call c is
  request_id,        \* request_id[c]: the id it was sent with, or NoId
  aborted,           \* calls whose abort handle was used
  \* what they share with the channel task
  pending_responses, \* the response queue
  canceled_requests, \* the cancellation queue, a sequence of ids
  \* Requests, MaxRequests and BaseChannel
  pc,                \* where Requests::poll_next is
  polled,            \* what the polls of this iteration returned
  throttling,        \* inner.poll_next was called in MaxRequests's loop
  yielded,           \* the request pump_read returned
  request_data,      \* InFlightRequests::request_data: id -> call
  deadlines,         \* InFlightRequests::deadlines: ids with a timer
  cause,             \* why the stream ended: "closed", "error", "dropped"
  registered,        \* the sources that hold the channel task's waker
  woken,             \* whether the executor will poll the stream
  \* the transport and the peer
  sink,              \* responses started but not flushed
  wire,              \* responses flushed to the client
  inbound,           \* client messages received but not read
  net,               \* "up", "eof" (stream over) or "broken"
  stalled,           \* whether the network takes no messages now
  stalls,            \* how often it has stalled
  late,              \* calls whose deadline has passed
  revoked            \* calls the peer has sent a cancellation for

taskVars  == <<handler, request_id, aborted>>
queueVars == <<pending_responses, canceled_requests>>
mapVars   == <<request_data, deadlines>>
runVars   == <<pc, polled, throttling, yielded, cause>>
wakeVars  == <<registered, woken>>
sinkVars  == <<sink, wire>>
netVars   == <<inbound, net, stalled, stalls, late, revoked>>
vars == <<taskVars, queueVars, mapVars, runVars, wakeVars, sinkVars, netVars>>

Live  == {"held", "running", "sending"}
Ended == {"responded", "unsent", "aborted", "dropped", "throttled"}
Points == {"parked", "limit", "cancels", "expire", "read", "ready", "pop",
           "flush", "decide", "ended"}
Sources == {"read", "write", "responses", "cancels", "timer"}
Messages == [type : {"Request"}, id : Nat, call : Callers]
              \cup [type : {"Cancel"}, id : Nat]
Replies == [id : Nat, reply : Callers]

Unpolled == [cancels |-> "closed", expired |-> "closed", read |-> "pending",
             write |-> "pending"]

Init ==
  /\ handler = [c \in Callers |-> "none"]
  /\ request_id = [c \in Callers |-> NoId]
  /\ aborted = {}
  /\ pending_responses = << >> /\ canceled_requests = << >>
  /\ pc = "parked"
  /\ polled = Unpolled
  /\ throttling = FALSE
  /\ yielded = "none"
  /\ request_data = << >> /\ deadlines = {}
  /\ cause = "none"
  /\ registered = {} /\ woken = TRUE
  /\ sink = << >> /\ wire = << >> /\ inbound = << >>
  /\ net = "up"
  /\ stalled = FALSE /\ stalls = 0
  /\ late = {} /\ revoked = {}

-----------------------------------------------------------------------------
(* Wakers: an event at a source wakes the task that registered there.      *)

Notify(sources) ==
  /\ woken' = (woken \/ registered \cap sources # {})
  /\ registered' = registered \ sources

Register(source) ==
  /\ registered' = registered \cup {source}
  /\ UNCHANGED woken

-----------------------------------------------------------------------------
(* InFlightRequest::execute and its ResponseGuard                          *)

Move(c, to) == handler' = [handler EXCEPT ![c] = to]

\* The application starts the handler: tokio::spawn(request.execute(serve)).
Execute(c) ==
  /\ handler[c] = "held"
  /\ Move(c, "running")
  /\ UNCHANGED <<request_id, aborted, queueVars, mapVars, runVars, wakeVars,
                 sinkVars, netVars>>

\* serve returns.
Serve(c) ==
  /\ handler[c] = "running"
  /\ Move(c, "sending")
  /\ UNCHANGED <<request_id, aborted, queueVars, mapVars, runVars, wakeVars,
                 sinkVars, netVars>>

\* response_tx.send returns: buffered, or the stream is gone.  Either way the
\* guard is disarmed.
SendResponse(c) ==
  /\ handler[c] = "sending"
  /\ \/ /\ pc # "ended"
        /\ Len(pending_responses) < ResponseBuffer
        /\ Move(c, "responded")
        /\ pending_responses' = Append(pending_responses,
                                       [id |-> request_id[c], reply |-> c])
        /\ Notify({"responses"})
     \/ /\ pc = "ended"
        /\ Move(c, "unsent")
        /\ UNCHANGED <<pending_responses, wakeVars>>
  /\ UNCHANGED <<request_id, aborted, canceled_requests, mapVars, runVars,
                 sinkVars, netVars>>

\* Abortable sees the flag; the guard is disarmed.
Abort(c) ==
  /\ handler[c] \in {"running", "sending"}
  /\ c \in aborted
  /\ Move(c, "aborted")
  /\ UNCHANGED <<request_id, aborted, queueVars, mapVars, runVars, wakeVars,
                 sinkVars, netVars>>

\* ResponseGuard::drop while armed: RequestCancellation::cancel.
cancel_lost(i) ==                      \* mutant: guard never armed
  UNCHANGED <<canceled_requests, wakeVars>>
cancel_silent(i) ==                    \* mutant: nobody is woken
  canceled_requests' = Append(canceled_requests, i) /\ UNCHANGED wakeVars
cancel_no_id(i) ==                     \* mutant: the guard's id is not set
  canceled_requests' = Append(canceled_requests, NoId) /\ Notify({"cancels"})
cancel(i) ==
  IF pc = "ended"
  THEN UNCHANGED <<canceled_requests, wakeVars>>
  ELSE canceled_requests' = Append(canceled_requests, i) /\ Notify({"cancels"})

\* The application drops the request, or its handler's future, or the handler
\* panics.
DropHandler(c) ==
  /\ "drop" \in Faults
  /\ handler[c] \in Live
  /\ Move(c, "dropped")
  /\ cancel(request_id[c])
  /\ UNCHANGED <<request_id, aborted, pending_responses, mapVars, runVars,
                 sinkVars, netVars>>

Handler(c) == \/ Execute(c) \/ Serve(c) \/ SendResponse(c) \/ Abort(c)
              \/ DropHandler(c)

-----------------------------------------------------------------------------
(* InFlightRequests                                                        *)

InFlight == DOMAIN request_data

Start(i, c) ==
  /\ request_data' = [j \in InFlight \cup {i} |->
                       IF j = i THEN c ELSE request_data[j]]
  /\ deadlines' = deadlines \cup {<<i, c>>}

RemoveKeepTimer(i) ==                            \* mutant: timer kept
  /\ request_data' = [j \in InFlight \ {i} |-> request_data[j]]
  /\ UNCHANGED deadlines
Remove(i) ==
  /\ request_data' = [j \in InFlight \ {i} |-> request_data[j]]
  /\ deadlines' = {t \in deadlines : t[1] # i}

\* A request whose response is sent or whose handler is gone: no abort.
remove_request(i) ==
  IF i \in InFlight THEN Remove(i) ELSE UNCHANGED mapVars

\* A request the client gave up, or whose deadline has passed.
cancel_request(i) ==
  IF i \in InFlight
  THEN Remove(i) /\ aborted' = aborted \cup {request_data[i]}
  ELSE UNCHANGED <<mapVars, aborted>>

\* poll_expired takes timer t: its request goes, and its handler is aborted.
expire_no_abort(t) ==                            \* mutant: handler runs on
  /\ deadlines' = deadlines \ {t}
  /\ request_data' = [j \in InFlight \ {t[1]} |-> request_data[j]]
  /\ UNCHANGED aborted
expire(t) ==
  /\ deadlines' = deadlines \ {t}
  /\ request_data' = [j \in InFlight \ {t[1]} |-> request_data[j]]
  /\ aborted' = aborted \cup {request_data[j] : j \in InFlight \cap {t[1]}}

-----------------------------------------------------------------------------
(* The sink, as the channel task uses it.                                  *)

\* Once the transport is gone a write may fail, or still be accepted.
MayFail == net # "up"

\* start_send may also refuse one response and leave the transport as it was.
MayRefuse == "refuse" \in Faults \/ MayFail

FullOffByOne == Len(sink) > SinkCapacity         \* mutant
Full == Len(sink) >= SinkCapacity

FlushForgotten == UNCHANGED sinkVars             \* mutant: nothing flushed
Flush == sink' = << >> /\ wire' = wire \o sink

CanFlush == sink = << >> \/ ~stalled

transport_send(m) == sink' = Append(sink, m) /\ UNCHANGED wire

\* InFlightRequests::drop.
abort_none(ids) == UNCHANGED aborted             \* mutant: no Drop impl
abort_all(ids) == aborted' = aborted \cup {request_data[i] : i \in ids}

\* The stream is over and is dropped, with the requests in `ids` tracked and
\* the handlers in the states `tasks`.
Drop(why, ids, tasks) ==
  /\ pc' = "ended" /\ cause' = why
  /\ abort_all(ids)
  /\ handler' = tasks
  /\ request_data' = << >> /\ deadlines' = {}
  /\ pending_responses' = << >> /\ canceled_requests' = << >>
  /\ polled' = Unpolled /\ throttling' = FALSE /\ yielded' = "none"
  /\ registered' = {} /\ woken' = FALSE
  /\ UNCHANGED request_id

\* A write failed: a request already read is dropped unserved.
Fail(ids) ==
  Drop("error", ids, [c \in Callers |-> IF c = yielded THEN "dropped"
                                                    ELSE handler[c]])

-----------------------------------------------------------------------------
(* MaxRequests::poll_next and BaseChannel::poll_next                       *)

Poll ==
  /\ pc = "parked"
  /\ woken
  /\ woken' = FALSE
  /\ pc' = "limit"
  /\ UNCHANGED <<taskVars, queueVars, mapVars, polled, throttling, yielded,
                 cause, registered, sinkVars, netVars>>

OverLimit == Cardinality(InFlight) >= Limit

\* The condition of MaxRequests's loop, and its poll_ready.
CheckLimit ==
  /\ pc = "limit"
  /\ throttling' = OverLimit
  /\ IF OverLimit /\ Full /\ stalled
     THEN Register("write") /\ pc' = "ready" /\ UNCHANGED sinkVars
     ELSE /\ pc' = "cancels"
          /\ IF OverLimit /\ Full THEN Flush ELSE UNCHANGED sinkVars
          /\ UNCHANGED wakeVars
  /\ UNCHANGED <<taskVars, queueVars, mapVars, polled, yielded, cause, netVars>>

CheckLimitError ==
  /\ pc = "limit"
  /\ OverLimit /\ MayFail
  /\ Fail(InFlight)
  /\ UNCHANGED <<sinkVars, netVars>>

\* canceled_requests.poll_recv: a handler is gone.
PollCanceled ==
  /\ pc = "cancels"
  /\ IF canceled_requests # << >>
     THEN /\ canceled_requests' = Tail(canceled_requests)
          /\ remove_request(Head(canceled_requests))
          /\ polled' = [polled EXCEPT !.cancels = "ready"]
          /\ UNCHANGED wakeVars
     ELSE /\ Register("cancels")
          /\ polled' = [polled EXCEPT !.cancels = "closed"]
          /\ UNCHANGED <<canceled_requests, mapVars>>
  /\ pc' = "expire"
  /\ UNCHANGED <<taskVars, pending_responses, throttling, yielded, cause,
                 sinkVars, netVars>>

\* in_flight_requests.poll_expired.
PollExpired ==
  /\ pc = "expire"
  /\ \/ \E t \in deadlines :
          /\ t[2] \in late
          /\ expire(t)
          /\ polled' = [polled EXCEPT !.expired = "ready"]
          /\ UNCHANGED wakeVars
     \/ /\ \A t \in deadlines : t[2] \notin late
        /\ polled' = [polled EXCEPT !.expired =
                        IF deadlines = {} THEN "closed" ELSE "pending"]
        /\ IF deadlines = {} THEN UNCHANGED wakeVars ELSE Register("timer")
        /\ UNCHANGED <<mapVars, aborted>>
  /\ pc' = "read"
  /\ UNCHANGED <<handler, request_id, queueVars, throttling, yielded, cause,
                 sinkVars, netVars>>

Reads(type) == pc = "read" /\ inbound # << >> /\ Head(inbound).type = type

\* A duplicate is ignored.
ReadDuplicate ==
  /\ Reads("Request")
  /\ Head(inbound).id \in InFlight
  /\ inbound' = Tail(inbound)
  /\ pc' = "cancels"
  /\ UNCHANGED <<taskVars, queueVars, mapVars, polled, throttling, yielded,
                 cause, wakeVars, sinkVars, net, stalled, stalls, late, revoked>>

\* start_request; the request goes up to Requests.
ReadRequest ==
  /\ Reads("Request")
  /\ Head(inbound).id \notin InFlight
  /\ ~throttling
  /\ inbound' = Tail(inbound)
  /\ Start(Head(inbound).id, Head(inbound).call)
  /\ yielded' = Head(inbound).call
  /\ polled' = [polled EXCEPT !.read = "some"]
  /\ pc' = "ready"
  /\ UNCHANGED <<taskVars, queueVars, throttling, cause, wakeVars, sinkVars,
                 net, stalled, stalls, late, revoked>>

\* MaxRequests answers it: the entry start_request made is removed again by
\* start_send, and the loop goes on.
ReadThrottled ==
  /\ Reads("Request")
  /\ Head(inbound).id \notin InFlight
  /\ throttling
  /\ inbound' = Tail(inbound)
  /\ \/ /\ transport_send([id |-> Head(inbound).id, reply |-> Head(inbound).call])
        /\ Move(Head(inbound).call, "throttled")
        /\ pc' = "limit"
        /\ UNCHANGED <<request_id, aborted, queueVars, mapVars, polled,
                       throttling, yielded, cause, wakeVars>>
     \/ /\ MayRefuse
        /\ Drop("error", InFlight,
                [handler EXCEPT ![Head(inbound).call] = "dropped"])
        /\ UNCHANGED sinkVars
  /\ UNCHANGED <<net, stalled, stalls, late, revoked>>

\* The client gave the request up.
ReadCancel ==
  /\ Reads("Cancel")
  /\ inbound' = Tail(inbound)
  /\ cancel_request(Head(inbound).id)
  /\ pc' = "cancels"
  /\ UNCHANGED <<handler, request_id, queueVars, polled, throttling, yielded,
                 cause, wakeVars, sinkVars, net, stalled, stalls, late, revoked>>

\* The three statuses combined, when the transport had no message.
CombinedSpins(transport) ==            \* mutant: Ready(None) taken for Ready
  IF polled.expired # "pending"
  THEN pc' = "cancels" /\ UNCHANGED polled
  ELSE pc' = "ready" /\ polled' = [polled EXCEPT !.read = "pending"]
Combined(transport) ==
  IF polled.cancels = "ready" \/ polled.expired = "ready"
  THEN pc' = "cancels" /\ UNCHANGED polled
  ELSE /\ pc' = "ready"
       /\ polled' = [polled EXCEPT !.read =
                       IF transport = "closed" /\ polled.expired = "closed"
                       THEN "none" ELSE "pending"]

ReadNothing ==
  /\ pc = "read"
  /\ inbound = << >>
  /\ \/ net = "up" /\ Register("read") /\ Combined("pending")
     \/ net = "eof" /\ UNCHANGED wakeVars /\ Combined("closed")
  /\ UNCHANGED <<taskVars, queueVars, mapVars, throttling, yielded, cause,
                 sinkVars, netVars>>

ReadError ==
  /\ pc = "read"
  /\ net = "broken"
  /\ Fail(InFlight)
  /\ UNCHANGED <<sinkVars, netVars>>

-----------------------------------------------------------------------------
(* Requests::pump_write                                                    *)

\* ensure_writeable: when it is Pending, so is poll_next_response.
EnsureWriteable ==
  /\ pc = "ready"
  /\ IF Full /\ stalled
     THEN Register("write") /\ pc' = "flush" /\ UNCHANGED sinkVars
     ELSE /\ pc' = "pop"
          /\ IF Full THEN Flush ELSE UNCHANGED sinkVars
          /\ UNCHANGED wakeVars
  /\ UNCHANGED <<taskVars, queueVars, mapVars, polled, throttling, yielded,
                 cause, netVars>>

\* poll_next_response is Ready: start_send, unless the request is no longer
\* tracked.
start_send_always(i) == TRUE                     \* mutant: no check
sends(i) == i \in InFlight

WriteResponse ==
  /\ pc = "pop"
  /\ pending_responses # << >>
  /\ LET response == Head(pending_responses) IN
     \/ /\ remove_request(response.id)
        /\ IF sends(response.id) THEN transport_send(response)
                                 ELSE UNCHANGED sinkVars
        /\ pending_responses' = Tail(pending_responses)
        /\ polled' = [polled EXCEPT !.write = "some"]
        /\ pc' = "decide"
        /\ UNCHANGED <<taskVars, canceled_requests, throttling, yielded, cause,
                       wakeVars>>
     \/ /\ sends(response.id) /\ MayRefuse
        /\ Fail(InFlight \ {response.id})
        /\ UNCHANGED sinkVars
  /\ UNCHANGED netVars

NoResponse ==
  /\ pc = "pop"
  /\ pending_responses = << >>
  /\ Register("responses")
  /\ pc' = "flush"
  /\ UNCHANGED <<taskVars, queueVars, mapVars, polled, throttling, yielded,
                 cause, sinkVars, netVars>>

\* pump_write's Pending branch: flush, then perhaps close the write half.
FlushResponses ==
  /\ pc = "flush"
  /\ IF CanFlush
     THEN /\ Flush
          /\ polled' = [polled EXCEPT !.write =
                          IF polled.read = "none" /\ InFlight = {}
                          THEN "none" ELSE "pending"]
          /\ UNCHANGED wakeVars
     ELSE Register("write") /\ UNCHANGED <<sinkVars, polled>>
  /\ pc' = "decide"
  /\ UNCHANGED <<taskVars, queueVars, mapVars, throttling, yielded, cause,
                 netVars>>

WriteError ==
  /\ pc \in {"ready", "flush"}
  /\ MayFail
  /\ Fail(InFlight)
  /\ UNCHANGED <<sinkVars, netVars>>

\* Requests::poll_next: both halves closed.
EndStream ==
  /\ pc = "decide"
  /\ polled.read = "none" /\ polled.write = "none"
  /\ Drop("closed", InFlight, handler)
  /\ UNCHANGED <<sinkVars, netVars>>

\* A request for the application, which polls again.
Yield ==
  /\ pc = "decide"
  /\ polled.read = "some"
  /\ Move(yielded, "held")
  /\ yielded' = "none"
  /\ polled' = Unpolled
  /\ pc' = "limit"
  /\ UNCHANGED <<request_id, aborted, queueVars, mapVars, throttling, cause,
                 wakeVars, sinkVars, netVars>>

\* Nothing for the application: loop after a write, or return Pending.
LoopOrPark ==
  /\ pc = "decide"
  /\ polled.read # "some"
  /\ ~(polled.read = "none" /\ polled.write = "none")
  /\ pc' = IF polled.write = "some" THEN "limit" ELSE "parked"
  /\ polled' = Unpolled
  /\ UNCHANGED <<taskVars, queueVars, mapVars, throttling, yielded, cause,
                 wakeVars, sinkVars, netVars>>

ChannelTask ==
  \/ Poll \/ CheckLimit \/ CheckLimitError \/ PollCanceled \/ PollExpired
  \/ ReadDuplicate \/ ReadRequest \/ ReadThrottled \/ ReadCancel
  \/ ReadNothing \/ ReadError \/ EnsureWriteable \/ WriteResponse
  \/ NoResponse \/ FlushResponses \/ WriteError \/ EndStream \/ Yield
  \/ LoopOrPark

-----------------------------------------------------------------------------
(* The environment: the application, the clock, the transport, the peer.   *)

\* The application drops the Requests stream.
Stop ==
  /\ "stop" \in Faults
  /\ pc = "parked"
  /\ Drop("dropped", InFlight, handler)
  /\ UNCHANGED <<sinkVars, netVars>>

SendRequest(c) ==
  /\ net = "up" /\ pc # "ended"
  /\ request_id[c] = NoId
  /\ \E i \in Ids :
       /\ "reuse" \in Faults \/ \A d \in Callers : request_id[d] # i
       /\ request_id' = [request_id EXCEPT ![c] = i]
       /\ inbound' = Append(inbound, [type |-> "Request", id |-> i, call |-> c])
  /\ Notify({"read"})
  /\ UNCHANGED <<handler, aborted, queueVars, mapVars, runVars, sinkVars, net,
                 stalled, stalls, late, revoked>>

SendCancel(c) ==
  /\ "cancel" \in Faults
  /\ net = "up" /\ pc # "ended"
  /\ request_id[c] # NoId /\ c \notin revoked
  /\ revoked' = revoked \cup {c}
  /\ inbound' = Append(inbound, [type |-> "Cancel", id |-> request_id[c]])
  /\ Notify({"read"})
  /\ UNCHANGED <<taskVars, queueVars, mapVars, runVars, sinkVars, net, stalled,
                 stalls, late>>

Late(c) ==
  /\ "late" \in Faults
  /\ pc # "ended"
  /\ request_id[c] # NoId /\ c \notin late
  /\ handler[c] \in Live \cup {"none"} \/ \E i \in InFlight : request_data[i] = c
  /\ late' = late \cup {c}
  /\ IF \E t \in deadlines : t[2] = c THEN Notify({"timer"})
                                      ELSE UNCHANGED wakeVars
  /\ UNCHANGED <<taskVars, queueVars, mapVars, runVars, sinkVars, inbound, net,
                 stalled, stalls, revoked>>

Stall ==
  /\ net = "up" /\ pc # "ended"
  /\ ~stalled /\ stalls < MaxStalls
  /\ stalled' = TRUE
  /\ stalls' = stalls + 1
  /\ UNCHANGED <<taskVars, queueVars, mapVars, runVars, wakeVars, sinkVars,
                 inbound, net, late, revoked>>

Unstall ==
  /\ stalled
  /\ stalled' = FALSE
  /\ Notify({"write"})
  /\ UNCHANGED <<taskVars, queueVars, mapVars, runVars, sinkVars, inbound, net,
                 stalls, late, revoked>>

Disconnect(fault, state) ==
  /\ fault \in Faults
  /\ net = "up" /\ pc # "ended"
  /\ net' = state
  /\ Notify({"read", "write"})
  /\ UNCHANGED <<taskVars, queueVars, mapVars, runVars, sinkVars, inbound,
                 stalled, stalls, late, revoked>>

Eof == Disconnect("eof", "eof")
Break == Disconnect("break", "broken")

\* The connection is idle, with nothing owed, or over with every handler.
Terminated ==
  /\ \/ pc = "ended"
     \/ pc = "parked" /\ ~woken /\ net = "up" /\ InFlight = {} /\ sink = << >>
  /\ \A c \in Callers : handler[c] \notin Live
  /\ UNCHANGED vars

Next ==
  \/ \E c \in Callers : Handler(c) \/ SendRequest(c) \/ SendCancel(c) \/ Late(c)
  \/ ChannelTask
  \/ Stop \/ Stall \/ Unstall \/ Eof \/ Break
  \/ Terminated

Spec == Init /\ [][Next]_vars

\* The executor runs every task that is ready, and the application spawns
\* every request it is given; serve itself may never return.  Time passes.
Progress(c) == Execute(c) \/ SendResponse(c) \/ Abort(c)
TaskFairness ==
  /\ WF_vars(ChannelTask)
  /\ \A c \in Callers : WF_vars(Progress(c)) /\ WF_vars(Late(c))

\* With the network also draining, or not.
FairSpec == Spec /\ TaskFairness /\ WF_vars(Unstall)
StuckSpec == Spec /\ TaskFairness

-----------------------------------------------------------------------------
(* Properties                                                              *)

Contains(s, e) == \E k \in 1..Len(s) : s[k] = e

Response(c) == [id |-> request_id[c], reply |-> c]
Tracked(c) == \E i \in InFlight : request_data[i] = c

\* Every variable keeps its type.
TypeOK ==
  /\ handler \in [Callers -> {"none"} \cup Live \cup Ended]
  /\ request_id \in [Callers -> Ids \cup {NoId}]
  /\ aborted \subseteq Callers
  /\ pending_responses \in Seq(Replies) /\ canceled_requests \in Seq(Ids)
  /\ pc \in Points
  /\ polled \in [cancels : {"ready", "closed"}, write : {"some", "none", "pending"},
                 expired : {"ready", "pending", "closed"},
                 read : {"some", "none", "pending"}]
  /\ throttling \in BOOLEAN
  /\ yielded \in Callers \cup {"none"}
  /\ InFlight \subseteq Ids /\ request_data \in [InFlight -> Callers]
  /\ deadlines \subseteq Ids \X Callers
  /\ cause \in {"none", "closed", "error", "dropped"}
  /\ registered \subseteq Sources /\ woken \in BOOLEAN
  /\ sink \in Seq(Replies) /\ wire \in Seq(Replies)
  /\ inbound \in Seq(Messages)
  /\ net \in {"up", "eof", "broken"}
  /\ stalled \in BOOLEAN /\ stalls \in Nat
  /\ late \subseteq Callers /\ revoked \subseteq Callers

\* "the channel will clean up the request data" (server.rs, 904-906): a
\* tracked request has a handler, or a response or cancellation queued.  It
\* has a timer, and nothing else has.
NoOrphan ==
  /\ \A i \in InFlight : LET c == request_data[i] IN
       \/ c = yielded \/ handler[c] \in Live
       \/ Contains(pending_responses, Response(c))
       \/ Contains(canceled_requests, i)
  /\ deadlines = {<<i, request_data[i]>> : i \in InFlight}

\* A handler that still runs can be stopped: the channel tracks it, so that
\* its deadline and its cancellation reach it, or has aborted it already.
NoRunaway ==
  \A c \in Callers : handler[c] \in Live => c \in aborted \/ Tracked(c)

\* start_send's check (server.rs, 547-562): a request is answered at most
\* once, by its own handler or the throttle, and never after it was canceled
\* or has expired.
OneAnswer ==
  LET sent == wire \o sink IN
  \A k \in 1..Len(sent) :
    /\ sent[k].reply \notin aborted
    /\ sent[k] = Response(sent[k].reply)
    /\ handler[sent[k].reply] \in {"responded", "throttled"}
    /\ \A j \in 1..Len(sent) : sent[j].id = sent[k].id => j = k

\* What was checked in one poll still holds when it is relied on in another:
\* no more than MaxRequests' Limit requests are served at a time, and "we can
\* call start_send without worry of a full buffer" (server.rs, 678-679), also
\* where MaxRequests answers between two polls of the sink.
LimitsHold ==
  /\ Cardinality({c \in Callers : handler[c] \in Live /\ c \notin aborted}) <= Limit
  /\ Len(sink) <= SinkCapacity

\* The stream ends in order only when every response it owes is on the wire
\* and no handler is left unaborted ("Shutdown can't be done before we finish
\* pumping out remaining responses", server.rs, 684).
GracefulEnd ==
  cause = "closed" =>
    /\ sink = << >>
    /\ \A c \in Callers \ aborted :
         /\ handler[c] \notin Live
         /\ handler[c] \in {"responded", "throttled"} => Contains(wire, Response(c))

\* MaxRequests returns Pending before it polls the channel below it.
Backpressure == OverLimit /\ Full /\ stalled

\* When the stream sleeps there is nothing it could do, except that at its
\* limit, behind a full sink, it waits for the sink alone.
NoLostWakeup ==
  pc = "parked" /\ ~woken =>
    /\ sink # << >> => stalled
    /\ pending_responses # << >> => Full
    /\ Backpressure
       \/ /\ inbound = << >> /\ net # "broken"
          /\ canceled_requests = << >>
          /\ \A t \in deadlines : t[2] \notin late
          /\ net = "eof" => InFlight # {} \/ stalled

\* InFlightRequest::execute (server.rs, 832-837): a handler stops at its
\* deadline at the latest, even one whose serve never returns.  Only a peer
\* that uses its id for another request can make the channel lose track of it.
HandlersStop ==
  \A c \in Callers : handler[c] = "held" ~>
    \/ handler[c] \in Ended
    \/ \E d \in Callers \ {c} : request_id[d] = request_id[c]

\* After the client hangs up the stream ends, once the handlers have.
StreamEnds == net = "eof" ~> pc = "ended"
=============================================================================
