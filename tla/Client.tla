------------------------------- MODULE Client -------------------------------
(***************************************************************************)
(* The client half of tarpc: Channel::call and its ResponseGuard, run by   *)
(* the calling tasks, and RequestDispatch, the one task that owns the      *)
(* transport (tarpc/src/client.rs, client/in_flight_requests.rs and        *)
(* cancellations.rs).                                                      *)
(*                                                                         *)
(* A step of a calling task is one access to what it shares with the       *)
(* dispatch: the request counter, the bounded request queue, the unbounded *)
(* cancellation queue, its oneshot.  RequestDispatch::poll is a program    *)
(* counter over the calls it makes, each step again one access to shared   *)
(* state, so everything that can happen between two of them is explored.   *)
(*                                                                         *)
(* A poll that returns Pending parks the task.  The wakers it has left     *)
(* behind are explicit: only an event whose waker is registered makes the  *)
(* executor poll the dispatch again.                                       *)
(*                                                                         *)
(* The transport is the environment.  Its sink buffers SinkCapacity        *)
(* messages until they are flushed onto the wire, and may stall; its       *)
(* stream yields replies, ends, or fails.                                  *)
(***************************************************************************)
EXTENDS Integers, Sequences, FiniteSets

CONSTANTS
  Callers,        \* the calls made on the channel, one task each
  MaxInFlight,    \* Config::max_in_flight_requests
  PendingBuffer,  \* Config::pending_request_buffer
  SinkCapacity,   \* messages the transport's sink takes before a flush
  MaxInbound,     \* bound: replies waiting to be read
  MaxStalls,      \* bound: how often the network stops taking messages
  Faults          \* which of the events of AllFaults the environment has

AllFaults == {"drop", "late", "refuse", "eof", "break", "abandon"}

\* What response_completion holds when it is not a reply; a reply is the
\* call that it answers.
Errors == {"Shutdown", "Send", "Channel", "DeadlineExceeded"}
Marks  == {"none", "open", "closed", "gone", "Dropped"} \cup Errors

ASSUME CallersAssumption == IsFiniteSet(Callers) /\ Callers \cap Marks = {}
ASSUME BoundsAssumption ==
  /\ MaxInFlight \in Nat
  /\ PendingBuffer \in Nat \ {0}     \* mpsc::channel panics on 0
  /\ SinkCapacity \in Nat \ {0}
  /\ MaxInbound \in Nat
  /\ MaxStalls \in Nat
  /\ Faults \subseteq AllFaults

NoId == -1

VARIABLES
  \* the calling tasks and the Channel they share
  call,              \* call[c]: where Channel::call is, see CallStates
  request_id,        \* request_id[c]: the id fetch_add gave it, or NoId
  result,            \* result[c]: what call returned, "Dropped", or "none"
  next_request_id,   \* Channel::next_request_id
  handle,            \* the last Channel: "held", "half" dropped, "dropped"
  \* what they share with the dispatch
  pending_requests,  \* the request queue, a sequence of calls
  rx,                \* its receiver: "open", "closed" or "dropped"
  completion,        \* completion[c]: the oneshot of call c
  canceled_requests, \* the cancellation queue, a sequence of ids
  \* RequestDispatch
  pc,                \* where RequestDispatch::poll is
  polled,            \* what the polls of this iteration of run() returned
  taken,             \* the request between poll_next_request and insertion
  request_data,      \* InFlightRequests::request_data: id -> call
  deadlines,         \* InFlightRequests::deadlines: ids with a timer
  terminal_error,    \* whether terminal_error is Some
  registered,        \* the sources that hold the dispatch task's waker
  woken,             \* whether the executor will poll the dispatch
  \* the transport
  sink,              \* messages started but not flushed
  wire,              \* messages flushed to the server
  inbound,           \* replies received but not read
  net,               \* "up", "eof" (stream over) or "broken"
  stalled,           \* whether the network takes no messages now
  stalls,            \* how often it has stalled
  late               \* calls whose deadline has passed

callVars  == <<call, request_id, result, next_request_id, handle>>
queueVars == <<pending_requests, rx, canceled_requests>>
mapVars   == <<request_data, deadlines>>
runVars   == <<pc, polled, taken, terminal_error>>
wakeVars  == <<registered, woken>>
sinkVars  == <<sink, wire>>
netVars   == <<inbound, net, stalled, stalls, late>>
vars == <<callVars, queueVars, completion, mapVars, runVars, wakeVars,
          sinkVars, netVars>>

CallStates == {"idle", "sending", "permitted", "awaiting", "dropping",
               "closing", "done"}
Points == {"parked", "read", "ready", "pop", "write", "cancel_ready",
           "cancel_pop", "expire", "finish", "run", "shutdown", "drain",
           "ended"}
Sources == {"read", "write", "requests", "cancels", "timer"}
Statuses == {"some", "pending", "none"}
Messages == [type : {"Request"}, id : Nat, call : Callers]
              \cup [type : {"Cancel"}, id : Nat]
Replies == [id : Nat, reply : Callers]

Unpolled == [read |-> "pending", requests |-> "pending",
             cancels |-> "pending", write |-> "pending"]

Init ==
  /\ call = [c \in Callers |-> "idle"]
  /\ request_id = [c \in Callers |-> NoId]
  /\ result = [c \in Callers |-> "none"]
  /\ next_request_id = 0
  /\ handle = "held"
  /\ pending_requests = << >>
  /\ rx = "open"
  /\ completion = [c \in Callers |-> "none"]
  /\ canceled_requests = << >>
  /\ pc = "parked"
  /\ polled = Unpolled
  /\ taken = "none"
  /\ request_data = << >>
  /\ deadlines = {}
  /\ terminal_error = FALSE
  /\ registered = {}
  /\ woken = TRUE                    \* a spawned task is polled once
  /\ sink = << >> /\ wire = << >> /\ inbound = << >>
  /\ net = "up"
  /\ stalled = FALSE /\ stalls = 0
  /\ late = {}

-----------------------------------------------------------------------------
(* Wakers: an event at a source wakes the task that registered there.      *)

Notify(sources) ==
  /\ woken' = (woken \/ registered \cap sources # {})
  /\ registered' = registered \ sources

Register(source) ==
  /\ registered' = registered \cup {source}
  /\ UNCHANGED woken

(* The oneshots: send is lost on a closed receiver; dropping the sender of *)
(* an open one tells its receiver.                                         *)

Completed(calls, value) ==
  [c \in Callers |-> IF c \in calls /\ completion[c] = "open"
                     THEN value ELSE completion[c]]

IsReadyTooSoon(c) == completion[c] # "closed"   \* mutant: does not wait
IsReady(c) == completion[c] \notin {"open", "closed"}

is_closed_ignored(c) == FALSE                    \* mutant: no check
is_closed(c) == completion[c] = "closed"

Permitted == {c \in Callers : call[c] = "permitted"}

Permits == PendingBuffer - Len(pending_requests) - Cardinality(Permitted)

SendFails == rx # "open"

-----------------------------------------------------------------------------
(* Channel::call                                                           *)

fetch_add_lost == UNCHANGED next_request_id      \* mutant: id used twice
fetch_add == next_request_id' = next_request_id + 1

\* The request id, the oneshot and the ResponseGuard.
Call(c) ==
  /\ call[c] = "idle"
  /\ handle = "held"
  /\ call' = [call EXCEPT ![c] = "sending"]
  /\ request_id' = [request_id EXCEPT ![c] = next_request_id]
  /\ fetch_add
  /\ completion' = [completion EXCEPT ![c] = "open"]
  /\ UNCHANGED <<result, handle, queueVars, mapVars, runVars, wakeVars,
                 sinkVars, netVars>>

\* to_dispatch.send: first a permit, ...
Reserve(c) ==
  /\ call[c] = "sending"
  /\ rx = "open"
  /\ Permits > 0
  /\ call' = [call EXCEPT ![c] = "permitted"]
  /\ UNCHANGED <<request_id, result, next_request_id, handle, queueVars,
                 completion, mapVars, runVars, wakeVars, sinkVars, netVars>>

\* ... then, with no await in between, the push.
Push(c) ==
  /\ call[c] = "permitted"
  /\ call' = [call EXCEPT ![c] = "awaiting"]
  /\ pending_requests' = Append(pending_requests, c)
  /\ Notify({"requests"})
  /\ UNCHANGED <<request_id, result, next_request_id, handle, rx,
                 canceled_requests, completion, mapVars, runVars, sinkVars,
                 netVars>>

\* SendError: RpcError::Shutdown, and the guard is dropped on the way out.
SendError(c) ==
  /\ call[c] = "sending"
  /\ SendFails
  /\ call' = [call EXCEPT ![c] = "dropping"]
  /\ result' = [result EXCEPT ![c] = "Shutdown"]
  /\ completion' = Completed({c}, "gone")
  /\ UNCHANGED <<request_id, next_request_id, handle, queueVars, mapVars,
                 runVars, wakeVars, sinkVars, netVars>>

\* ResponseGuard::response, once the oneshot resolves: no cancellation.
Response(c) ==
  /\ call[c] = "awaiting"
  /\ IsReady(c)
  /\ call' = [call EXCEPT ![c] = "done"]
  /\ result' = [result EXCEPT ![c] =
                  IF completion[c] = "gone" THEN "Shutdown" ELSE completion[c]]
  /\ UNCHANGED <<request_id, next_request_id, handle, queueVars, completion,
                 mapVars, runVars, wakeVars, sinkVars, netVars>>

\* The caller drops the future at one of its two await points.
DropCall(c) ==
  /\ "drop" \in Faults
  /\ call[c] \in {"sending", "awaiting"}
  /\ call' = [call EXCEPT ![c] = "dropping"]
  /\ result' = [result EXCEPT ![c] = "Dropped"]
  /\ completion' = IF call[c] = "sending" THEN Completed({c}, "gone")
                                          ELSE completion
  /\ UNCHANGED <<request_id, next_request_id, handle, queueVars, mapVars,
                 runVars, wakeVars, sinkVars, netVars>>

\* ResponseGuard::drop: response.close(), ...
CloseResponse(c) ==
  /\ call[c] = "dropping"
  /\ call' = [call EXCEPT ![c] = "closing"]
  /\ completion' = Completed({c}, "closed")
  /\ UNCHANGED <<request_id, result, next_request_id, handle, queueVars,
                 mapVars, runVars, wakeVars, sinkVars, netVars>>

\* RequestCancellation::cancel; a dispatch that is gone ignores it.
cancel_lost(i) == UNCHANGED <<canceled_requests, wakeVars>>  \* mutant
cancel(i) ==
  IF rx = "dropped"
  THEN UNCHANGED <<canceled_requests, wakeVars>>
  ELSE canceled_requests' = Append(canceled_requests, i) /\ Notify({"cancels"})

\* ... then cancellation.cancel(request_id).
Cancel(c) ==
  /\ call[c] = "closing"
  /\ call' = [call EXCEPT ![c] = "done"]
  /\ cancel(request_id[c])
  /\ UNCHANGED <<request_id, result, next_request_id, handle,
                 pending_requests, rx, completion, mapVars, runVars, sinkVars,
                 netVars>>

\* The last Channel is dropped, field by field.  A call borrows the channel,
\* so none is under way.
DropToDispatch ==
  /\ handle = "held"
  /\ \A c \in Callers : call[c] \in {"idle", "done"}
  /\ handle' = "half"
  /\ Notify({"requests"})
  /\ UNCHANGED <<call, request_id, result, next_request_id, queueVars,
                 completion, mapVars, runVars, sinkVars, netVars>>

DropCancellation ==
  /\ handle = "half"
  /\ handle' = "dropped"
  /\ Notify({"cancels"})
  /\ UNCHANGED <<call, request_id, result, next_request_id, queueVars,
                 completion, mapVars, runVars, sinkVars, netVars>>

Caller(c) == \/ Call(c) \/ Reserve(c) \/ Push(c) \/ SendError(c)
             \/ Response(c) \/ DropCall(c) \/ CloseResponse(c) \/ Cancel(c)

-----------------------------------------------------------------------------
(* InFlightRequests                                                        *)

InFlight == DOMAIN request_data

insert_request(i, c) ==
  /\ request_data' = [j \in InFlight \cup {i} |->
                       IF j = i THEN c ELSE request_data[j]]
  /\ deadlines' = deadlines \cup {i}

ForgetNot(i) == UNCHANGED mapVars                \* mutant: entry kept
ForgetKeepTimer(i) ==                            \* mutant: timer kept
  /\ request_data' = [j \in InFlight \ {i} |-> request_data[j]]
  /\ UNCHANGED deadlines

\* The entry and its timer leave together.
Forget(i) ==
  /\ request_data' = [j \in InFlight \ {i} |-> request_data[j]]
  /\ deadlines' = deadlines \ {i}

complete_request(i, value) ==
  IF i \in InFlight
  THEN Forget(i) /\ completion' = Completed({request_data[i]}, value)
  ELSE UNCHANGED <<mapVars, completion>>

\* The sender is dropped unused.
cancel_request(i) ==
  Forget(i) /\ completion' = Completed({request_data[i]}, "gone")

complete_all_requests(value) ==
  /\ request_data' = << >>
  /\ deadlines' = {}
  /\ completion' = Completed({request_data[i] : i \in InFlight}, value)

Expired(i) == \E c \in late : request_id[c] = i

-----------------------------------------------------------------------------
(* The sink, as the dispatch uses it.                                      *)

\* Once the transport is gone a write may fail, or still be accepted.
MayFail == net # "up"

\* start_send may also refuse one message and leave the transport as it was:
\* too long a frame, or a value that cannot be encoded.
MayRefuse == "refuse" \in Faults \/ MayFail

FlushForgotten == UNCHANGED sinkVars             \* mutant: nothing flushed
Flush == sink' = << >> /\ wire' = wire \o sink

CanFlush == sink = << >> \/ ~stalled

start_send(m) == sink' = Append(sink, m) /\ UNCHANGED wire

\* `?` on a ChannelError: poll() stores it and starts over.
Fail ==
  /\ terminal_error' = TRUE
  /\ pc' = "shutdown"
  /\ polled' = Unpolled

\* poll_ready, and poll_flush while it is Pending: on to `next`, or `skip`
\* with the write waker registered.
ensure_writeable(next, skip) ==
  \/ /\ Len(sink) < SinkCapacity
     /\ pc' = next
     /\ UNCHANGED <<sinkVars, wakeVars, polled, terminal_error>>
  \/ /\ Len(sink) >= SinkCapacity
     /\ CanFlush
     /\ Flush
     /\ pc' = next
     /\ UNCHANGED <<wakeVars, polled, terminal_error>>
  \/ /\ Len(sink) >= SinkCapacity
     /\ ~CanFlush
     /\ Register("write")
     /\ pc' = skip
     /\ UNCHANGED <<sinkVars, polled, terminal_error>>
  \/ /\ MayFail
     /\ Fail
     /\ UNCHANGED <<sinkVars, wakeVars>>

-----------------------------------------------------------------------------
(* RequestDispatch::poll                                                   *)

Poll ==
  /\ pc = "parked"
  /\ woken
  /\ woken' = FALSE
  /\ pc' = IF terminal_error THEN "shutdown" ELSE "read"
  /\ UNCHANGED <<callVars, queueVars, completion, mapVars, polled, taken,
                 terminal_error, registered, sinkVars, netVars>>

\* pump_read: Ready(Some(Ok)).
ReadResponse ==
  /\ pc = "read"
  /\ inbound # << >>
  /\ inbound' = Tail(inbound)
  /\ complete_request(Head(inbound).id, Head(inbound).reply)
  /\ polled' = [polled EXCEPT !.read = "some"]
  /\ pc' = "ready"
  /\ UNCHANGED <<callVars, queueVars, taken, terminal_error, wakeVars,
                 sinkVars, net, stalled, stalls, late>>

\* pump_read: Pending.
ReadPending ==
  /\ pc = "read"
  /\ inbound = << >> /\ net = "up"
  /\ Register("read")
  /\ polled' = [polled EXCEPT !.read = "pending"]
  /\ pc' = "ready"
  /\ UNCHANGED <<callVars, queueVars, completion, mapVars, taken,
                 terminal_error, sinkVars, netVars>>

\* pump_read: Ready(None).
ReadClosed ==
  /\ pc = "read"
  /\ inbound = << >> /\ net = "eof"
  /\ polled' = [polled EXCEPT !.read = "none"]
  /\ pc' = "ready"
  /\ UNCHANGED <<callVars, queueVars, completion, mapVars, taken,
                 terminal_error, wakeVars, sinkVars, netVars>>

\* pump_read: Ready(Some(Err)).
ReadError ==
  /\ pc = "read"
  /\ net = "broken"
  /\ Fail
  /\ UNCHANGED <<callVars, queueVars, completion, mapVars, taken, wakeVars,
                 sinkVars, netVars>>

AtCapacityOffByOne == Cardinality(InFlight) > MaxInFlight  \* mutant
AtCapacity == Cardinality(InFlight) >= MaxInFlight

\* poll_next_request up to its loop.
PollReady ==
  /\ pc = "ready"
  /\ IF AtCapacity
     THEN /\ pc' = "cancel_ready"
          /\ UNCHANGED <<sinkVars, wakeVars, polled, terminal_error>>
     ELSE ensure_writeable("pop", "cancel_ready")
  /\ UNCHANGED <<callVars, queueVars, completion, mapVars, taken, netVars>>

\* The loop of poll_next_request: abandoned requests are skipped.
PopRequest ==
  /\ pc = "pop"
  /\ pending_requests # << >>
  /\ pending_requests' = Tail(pending_requests)
  /\ IF is_closed(Head(pending_requests))
     THEN UNCHANGED <<taken, pc>>
     ELSE taken' = Head(pending_requests) /\ pc' = "write"
  /\ UNCHANGED <<callVars, rx, canceled_requests, completion, mapVars, polled,
                 terminal_error, wakeVars, sinkVars, netVars>>

PopNoRequest ==
  /\ pc = "pop"
  /\ pending_requests = << >>
  /\ IF handle = "held"
     THEN Register("requests") /\ UNCHANGED polled
     ELSE polled' = [polled EXCEPT !.requests = "none"] /\ UNCHANGED wakeVars
  /\ pc' = "cancel_ready"
  /\ UNCHANGED <<callVars, queueVars, completion, mapVars, taken,
                 terminal_error, sinkVars, netVars>>

\* poll_write_request: insert, then send.  A failed send fails this call only,
\* by complete_request on the entry just made: an entry that is inserted and
\* forgotten leaves the map without its id.
WriteRequest_kept ==                             \* mutant: the entry stays
  /\ pc = "write"
  /\ insert_request(request_id[taken], taken)
  /\ \/ /\ start_send([type |-> "Request", id |-> request_id[taken],
                       call |-> taken])
        /\ UNCHANGED completion
     \/ /\ MayRefuse
        /\ completion' = Completed({taken}, "Send")
        /\ UNCHANGED sinkVars
  /\ taken' = "none"
  /\ polled' = [polled EXCEPT !.write = "some"]
  /\ pc' = "run"
  /\ UNCHANGED <<callVars, queueVars, terminal_error, wakeVars, netVars>>
WriteRequest ==
  /\ pc = "write"
  /\ \/ /\ insert_request(request_id[taken], taken)
        /\ start_send([type |-> "Request", id |-> request_id[taken],
                       call |-> taken])
        /\ UNCHANGED completion
     \/ /\ MayRefuse
        /\ Forget(request_id[taken])
        /\ completion' = Completed({taken}, "Send")
        /\ UNCHANGED sinkVars
  /\ taken' = "none"
  /\ polled' = [polled EXCEPT !.write = "some"]
  /\ pc' = "run"
  /\ UNCHANGED <<callVars, queueVars, terminal_error, wakeVars, netVars>>

\* poll_next_cancellation up to its loop.
PollCancelReady ==
  /\ pc = "cancel_ready"
  /\ ensure_writeable("cancel_pop", "expire")
  /\ UNCHANGED <<callVars, queueVars, completion, mapVars, taken, netVars>>

\* poll_write_cancel: the entry is gone, whether or not the message is sent.
write_cancel(i) ==
  /\ cancel_request(i)
  /\ \/ /\ start_send([type |-> "Cancel", id |-> i])
        /\ polled' = [polled EXCEPT !.write = "some"]
        /\ pc' = "run"
        /\ UNCHANGED terminal_error
     \/ MayRefuse /\ Fail /\ UNCHANGED sinkVars

\* The loop of poll_next_cancellation: ids no longer in flight are skipped.
PopCancel ==
  /\ pc = "cancel_pop"
  /\ canceled_requests # << >>
  /\ canceled_requests' = Tail(canceled_requests)
  /\ LET i == Head(canceled_requests) IN
     \/ /\ i \notin InFlight
        /\ UNCHANGED <<mapVars, completion, polled, pc, terminal_error, sinkVars>>
     \/ i \in InFlight /\ write_cancel(i)
  /\ UNCHANGED <<callVars, pending_requests, rx, taken, wakeVars, netVars>>

PopNoCancel ==
  /\ pc = "cancel_pop"
  /\ canceled_requests = << >>
  /\ IF handle # "dropped"
     THEN Register("cancels") /\ UNCHANGED polled
     ELSE polled' = [polled EXCEPT !.cancels = "none"] /\ UNCHANGED wakeVars
  /\ pc' = "expire"
  /\ UNCHANGED <<callVars, queueVars, completion, mapVars, taken,
                 terminal_error, sinkVars, netVars>>

\* InFlightRequests::poll_expired: Ready(Some).
Expire ==
  /\ pc = "expire"
  /\ \E i \in deadlines :
       /\ Expired(i)
       /\ complete_request(i, "DeadlineExceeded")
  /\ polled' = [polled EXCEPT !.write = "some"]
  /\ pc' = "run"
  /\ UNCHANGED <<callVars, queueVars, taken, terminal_error, wakeVars,
                 sinkVars, netVars>>

\* InFlightRequests::poll_expired: Ready(None) or Pending.
NoneExpired ==
  /\ pc = "expire"
  /\ \A i \in deadlines : ~Expired(i)
  /\ IF deadlines = {} THEN UNCHANGED wakeVars ELSE Register("timer")
  /\ pc' = "finish"
  /\ UNCHANGED <<callVars, queueVars, completion, mapVars, polled, taken,
                 terminal_error, sinkVars, netVars>>

\* The end of pump_write: poll_close once both queues are closed, and
\* poll_flush, which leaves pump_write Pending, otherwise.
Finish ==
  /\ pc = "finish"
  /\ \/ /\ CanFlush
        /\ Flush
        /\ polled' = [polled EXCEPT !.write =
                        IF polled.requests = "none" /\ polled.cancels = "none"
                        THEN "none" ELSE "pending"]
        /\ pc' = "run"
        /\ UNCHANGED <<wakeVars, terminal_error>>
     \/ /\ ~CanFlush
        /\ Register("write")
        /\ pc' = "run"
        /\ UNCHANGED <<sinkVars, polled, terminal_error>>
     \/ /\ MayFail
        /\ Fail
        /\ UNCHANGED <<sinkVars, wakeVars>>
  /\ UNCHANGED <<callVars, queueVars, completion, mapVars, taken, netVars>>

\* The dispatch future is dropped, and with it the queues and the map: a
\* request it still holds loses its sender.
Dropped ==
  /\ pc' = "ended"
  /\ rx' = "dropped"
  /\ pending_requests' = << >>
  /\ canceled_requests' = << >>
  /\ request_data' = << >>
  /\ deadlines' = {}
  /\ completion' = Completed({request_data[i] : i \in InFlight} \cup
                       {c \in Callers : \E k \in 1..Len(pending_requests) :
                                          pending_requests[k] = c}, "gone")
  /\ polled' = Unpolled
  /\ registered' = {}
  /\ woken' = FALSE
  /\ UNCHANGED <<callVars, taken, terminal_error, sinkVars, netVars>>

\* run(): whether the two pumps end the dispatch, loop, or park it.
RunEnds == polled.read = "none" \/ (polled.write = "none" /\ InFlight = {})

Run ==
  /\ pc = "run"
  /\ \/ RunEnds /\ Dropped
     \/ /\ ~RunEnds
        /\ pc' = IF polled.read = "some" \/ polled.write = "some"
                 THEN "read" ELSE "parked"
        /\ polled' = Unpolled
        /\ UNCHANGED <<callVars, queueVars, completion, mapVars, taken,
                       terminal_error, wakeVars, sinkVars, netVars>>

\* shut_down_with_terminal_error up to its loop, ...
ShutDown ==
  /\ pc = "shutdown"
  /\ rx' = "closed"
  /\ complete_all_requests("Channel")
  /\ pc' = "drain"
  /\ UNCHANGED <<callVars, pending_requests, canceled_requests, polled, taken,
                 terminal_error, wakeVars, sinkVars, netVars>>

\* ... and its loop, which waits for the permits still out.
Drain ==
  /\ pc = "drain"
  /\ \/ /\ pending_requests # << >>
        /\ pending_requests' = Tail(pending_requests)
        /\ completion' = Completed({Head(pending_requests)}, "Channel")
        /\ UNCHANGED <<callVars, rx, canceled_requests, mapVars, runVars,
                       wakeVars, sinkVars, netVars>>
     \/ /\ pending_requests = << >> /\ Permitted # {}
        /\ Register("requests")
        /\ pc' = "parked"
        /\ UNCHANGED <<callVars, queueVars, completion, mapVars, polled, taken,
                       terminal_error, sinkVars, netVars>>
     \/ /\ pending_requests = << >> /\ Permitted = {}
        /\ Dropped

Dispatch == \/ Poll \/ ReadResponse \/ ReadPending \/ ReadClosed \/ ReadError
            \/ PollReady \/ PopRequest \/ PopNoRequest \/ WriteRequest
            \/ PollCancelReady \/ PopCancel \/ PopNoCancel
            \/ Expire \/ NoneExpired \/ Finish \/ Run \/ ShutDown \/ Drain

-----------------------------------------------------------------------------
(* The environment: the executor, the clock and the transport.             *)

\* The application drops the dispatch future, or the runtime does.
Abandon ==
  /\ "abandon" \in Faults
  /\ pc = "parked"
  /\ Dropped

\* A deadline passes; it matters while the request is tracked or about to be.
Late(c) ==
  /\ "late" \in Faults
  /\ c \notin late
  /\ call[c] \notin {"idle", "done"} \/ request_id[c] \in InFlight
  /\ late' = late \cup {c}
  /\ IF request_id[c] \in deadlines THEN Notify({"timer"})
                                     ELSE UNCHANGED wakeVars
  /\ UNCHANGED <<callVars, queueVars, completion, mapVars, runVars, sinkVars,
                 inbound, net, stalled, stalls>>

\* The server answers a request it has received: late, twice, or after a
\* cancellation, for all the client knows.
Reply ==
  /\ net = "up" /\ pc # "ended"
  /\ Len(inbound) < MaxInbound
  /\ \E k \in 1..Len(wire) :
       /\ wire[k].type = "Request"
       /\ inbound' = Append(inbound, [id |-> wire[k].id, reply |-> wire[k].call])
  /\ Notify({"read"})
  /\ UNCHANGED <<callVars, queueVars, completion, mapVars, runVars, sinkVars,
                 net, stalled, stalls, late>>

Stall ==
  /\ net = "up" /\ pc # "ended"
  /\ ~stalled /\ stalls < MaxStalls
  /\ stalled' = TRUE
  /\ stalls' = stalls + 1
  /\ UNCHANGED <<callVars, queueVars, completion, mapVars, runVars, wakeVars,
                 sinkVars, inbound, net, late>>

Unstall ==
  /\ stalled
  /\ stalled' = FALSE
  /\ Notify({"write"})
  /\ UNCHANGED <<callVars, queueVars, completion, mapVars, runVars, sinkVars,
                 inbound, net, stalls, late>>

Disconnect(fault, state) ==
  /\ fault \in Faults
  /\ net = "up" /\ pc # "ended"
  /\ net' = state
  /\ Notify({"read", "write"})
  /\ UNCHANGED <<callVars, queueVars, completion, mapVars, runVars, sinkVars,
                 inbound, stalled, stalls, late>>

Eof == Disconnect("eof", "eof")
Break == Disconnect("break", "broken")

\* Everything is over: every call has returned and the dispatch is gone.
Terminated ==
  /\ pc = "ended" /\ handle = "dropped" /\ ~stalled
  /\ UNCHANGED vars

Next ==
  \/ \E c \in Callers : Caller(c) \/ Late(c)
  \/ DropToDispatch \/ DropCancellation
  \/ Dispatch
  \/ Abandon \/ Reply \/ Stall \/ Unstall \/ Eof \/ Break
  \/ Terminated

Spec == Init /\ [][Next]_vars

\* A call that has begun is polled until it is over; only starting one and
\* dropping one are choices.
Progress(c) == \/ Reserve(c) \/ Push(c) \/ SendError(c) \/ Response(c)
               \/ CloseResponse(c) \/ Cancel(c)

\* The executor runs every task that is ready, the network drains, and time
\* passes: a call that waits sees its deadline.  Nothing is assumed of the
\* deadline of a call that is over, nor of the server.
Fairness ==
  /\ WF_vars(Dispatch)
  /\ \A c \in Callers : /\ WF_vars(Progress(c))
                        /\ WF_vars(call[c] = "awaiting" /\ Late(c))
  /\ WF_vars(Unstall)

FairSpec == Spec /\ Fairness

-----------------------------------------------------------------------------
(* Properties                                                              *)

Contains(s, e) == \E k \in 1..Len(s) : s[k] = e

\* Every variable keeps its type.
TypeOK ==
  /\ call \in [Callers -> CallStates]
  /\ request_id \in [Callers -> Nat \cup {NoId}]
  /\ result \in [Callers -> {"none", "Dropped"} \cup Errors \cup Callers]
  /\ next_request_id \in Nat
  /\ handle \in {"held", "half", "dropped"}
  /\ pending_requests \in Seq(Callers)
  /\ rx \in {"open", "closed", "dropped"}
  /\ completion \in [Callers -> {"none", "open", "closed", "gone"} \cup Errors
                                \cup Callers]
  /\ canceled_requests \in Seq(Nat)
  /\ pc \in Points
  /\ polled \in [read : Statuses, requests : Statuses, cancels : Statuses,
                 write : Statuses]
  /\ taken \in Callers \cup {"none"}
  /\ InFlight \subseteq Nat /\ request_data \in [InFlight -> Callers]
  /\ deadlines \subseteq Nat
  /\ terminal_error \in BOOLEAN /\ woken \in BOOLEAN /\ stalled \in BOOLEAN
  /\ registered \subseteq Sources
  /\ sink \in Seq(Messages) /\ wire \in Seq(Messages)
  /\ inbound \in Seq(Replies)
  /\ net \in {"up", "eof", "broken"}
  /\ stalls \in Nat
  /\ late \subseteq Callers

\* ResponseGuard::drop's argument (client.rs, 218-227): no request stays in
\* the dispatch's map for a caller that is gone, unless its cancellation is
\* on its way.
NoOrphan ==
  \A i \in InFlight :
    \/ call[request_data[i]] \in {"awaiting", "dropping", "closing"}
    \/ Contains(canceled_requests, i)

\* complete() hands a response to the call whose request it answers, whatever
\* the order of the replies and however often the server sends one.
OwnReply ==
  \A c \in Callers : /\ completion[c] \in Callers => completion[c] = c
                     /\ result[c] \in Callers => result[c] = c

\* The map and the DelayQueue agree, and insert_request never meets an id
\* that is in flight ("Request IDs should be unique").
MapsAgree ==
  /\ deadlines = InFlight
  /\ pc = "write" => request_id[taken] \notin InFlight

\* max_in_flight_requests holds, though it is checked before the request is
\* popped and the request is inserted later.
InFlightBounded == Cardinality(InFlight) <= MaxInFlight

\* What goes on the wire: a request once, and a cancellation only after its
\* request, once, and only for a call its caller has dropped.  It closes with
\* nothing in flight: the branch of run() for "write half closed, and {}
\* requests in flight" is never taken.
WireDiscipline ==
  LET sent == wire \o sink IN
  /\ \A k \in 1..Len(sent) :
       /\ \A j \in 1..Len(sent) : sent[j] = sent[k] => j = k
       /\ sent[k].type = "Cancel" =>
            \E j \in 1..(k - 1) : /\ sent[j].type = "Request"
                                  /\ sent[j].id = sent[k].id
                                  /\ result[sent[j].call] = "Dropped"
  /\ polled.write = "none" => InFlight = {}

\* The error a caller is given is true, and tells it what it may do next:
\* after Shutdown, and after Channel, which is a terminal error, the channel
\* takes no more requests; after Send the request is not in flight and was
\* never written, so that it can be made again; and DeadlineExceeded comes
\* only after the deadline.
TruthfulErrors ==
  LET sent == wire \o sink IN
  \A c \in Callers :
    /\ result[c] = "Shutdown" => rx # "open"
    /\ result[c] = "Channel" => terminal_error /\ rx # "open"
    /\ result[c] = "Send" =>
         /\ request_id[c] \notin InFlight
         /\ \A k \in 1..Len(sent) : sent[k].id # request_id[c]
    /\ result[c] = "DeadlineExceeded" => c \in late

\* When the dispatch sleeps there is nothing it could do: no wakeup is lost,
\* also not where poll_next_request returns Pending without scheduling one.
NoLostWakeup ==
  pc = "parked" /\ ~woken =>
    IF terminal_error
    THEN pending_requests = << >> /\ Permitted # {}
    ELSE LET writeable == Len(sink) < SinkCapacity \/ ~stalled IN
         /\ inbound = << >> /\ net = "up"
         /\ sink # << >> => stalled
         /\ writeable /\ Cardinality(InFlight) < MaxInFlight
              => pending_requests = << >>
         /\ writeable => canceled_requests = << >>
         /\ \A i \in InFlight : request_data[i] \notin late
         /\ handle = "dropped" => stalled

\* A call that has begun returns, whatever the server does, as long as the
\* dispatch is not dropped under it and the stream does not end early.
CallsReturn == \A c \in Callers : call[c] = "sending" ~> call[c] = "done"

\* A call that is over does not stay in the dispatch's map, even if its
\* deadline never comes and the server never answers.
NoLeak == \A c \in Callers : call[c] = "done" ~> request_id[c] \notin InFlight

\* "The oneshot is Canceled when the dispatch task ends" (client.rs, 206): no
\* call is left waiting on an open oneshot by a dispatch that is gone.
OneshotCanceledAtEnd ==
  pc = "ended" => \A c \in Callers : call[c] = "awaiting" => completion[c] # "open"

-----------------------------------------------------------------------------
(* The inductive invariant behind NoOrphan, OwnReply and MapsAgree.        *)

NoDup(s) == \A j, k \in 1..Len(s) : s[j] = s[k] => j = k

Queued(c) == Contains(pending_requests, c)
Tracked(c) == \E i \in InFlight : request_data[i] = c
Holds(c) == Queued(c) \/ taken = c \/ Tracked(c)

\* Ids are handed out once, and the map is indexed by them.
IdsUnique ==
  /\ \A c \in Callers : request_id[c] < next_request_id
  /\ \A c \in Callers : call[c] = "idle" <=> request_id[c] = NoId
  /\ \A c, d \in Callers : request_id[c] = request_id[d] /\ request_id[c] # NoId
                             => c = d
IdsAgree == \A i \in InFlight : request_id[request_data[i]] = i

\* The oneshot's sender is in one place: the queue, `taken` or the map.
OneHolder ==
  /\ NoDup(pending_requests)
  /\ \A c \in Callers : Queued(c) => taken # c /\ ~Tracked(c)
  /\ taken \in Callers => ~Tracked(taken)

\* Until it is pushed, only its caller has the oneshot.
Unsent ==
  \A c \in Callers : call[c] \in {"sending", "permitted"} => completion[c] = "open"

\* While the dispatch has it, the oneshot is open or closed by its receiver.
HeldUnused ==
  \A c \in Callers : Holds(c) =>
    /\ call[c] \in {"awaiting", "dropping", "closing", "done"}
    /\ completion[c] \in {"open", "closed"}
    /\ call[c] = "awaiting" => completion[c] = "open"

\* The receiver is closed before the cancellation is sent: a request still
\* queued by then is seen to be closed, ...
QueuedClosed ==
  \A c \in Callers :
    Queued(c) /\ call[c] \in {"closing", "done"} => completion[c] = "closed"
\* ... and one already taken will find its cancellation behind it.
TakenCanceled ==
  taken \in Callers /\ call[taken] = "done"
    => Contains(canceled_requests, request_id[taken])

Phases ==
  /\ taken = "none" <=> pc # "write"
  /\ rx = "dropped" => pc = "ended"
  /\ pc = "ended" => InFlight = {}

\* What is on its way to the server and back carries the id of its call.
Labelled(s, ids) ==
  \A k \in 1..Len(s) : s[k].type = "Request" => ids[s[k].call] = s[k].id
Labels ==
  /\ Labelled(sink, request_id) /\ Labelled(wire, request_id)
  /\ \A k \in 1..Len(inbound) : request_id[inbound[k].reply] = inbound[k].id

\* ResponseGuard::drop closes the oneshot before it sends the cancellation,
\* and poll_next_request looks before it inserts: this, with the ownership of
\* the oneshot's sender, is why a dropped call is never stuck in the map.
Inv ==
  /\ IdsUnique /\ IdsAgree /\ OneHolder /\ Unsent /\ HeldUnused /\ QueuedClosed
  /\ TakenCanceled /\ Phases /\ Labels
  /\ NoOrphan /\ OwnReply /\ MapsAgree
=============================================================================
