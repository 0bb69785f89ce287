---------------------------- MODULE ClientWakers ----------------------------
(***************************************************************************)
(* Proofs about Client, last part: no wakeup of the dispatch is lost, and  *)
(* how many requests are in flight.                                        *)
(***************************************************************************)
EXTENDS ClientProofs

-----------------------------------------------------------------------------
(* Wakers: what the dispatch relies on while nothing has woken it          *)

ReadArmed == inbound = << >> /\ net = "up" /\ "read" \in registered
WriteArmed == stalled /\ "write" \in registered
RequestsArmed == pending_requests = << >> /\ (handle = "held" => "requests" \in registered)
CancelsArmed == canceled_requests = << >> /\ (handle # "dropped" => "cancels" \in registered)
TimerArmed ==
  /\ \A i \in deadlines : ~Expired(i)
  /\ deadlines = {} \/ "timer" \in registered
PermitsArmed == pending_requests = << >> /\ Permitted # {} /\ "requests" \in registered

\* ensure_writeable returned Pending.
SinkFull == Len(sink) >= SinkCapacity
Blocked == SinkFull /\ WriteArmed

\* The points of run() from which this iteration may return Pending.
Returning(points) == pc \in points /\ polled.write # "some" /\ ~terminal_error

Armed ==
  /\ /\ Returning({"ready", "pop", "cancel_ready", "cancel_pop", "expire", "finish", "run",
                   "parked"})
     /\ polled.read = "pending"
     => ReadArmed
  /\ Returning({"cancel_ready", "cancel_pop", "expire", "finish", "run", "parked"})
     => RequestsArmed \/ AtCapacity \/ Blocked
  /\ Returning({"cancel_ready", "cancel_pop", "expire", "finish"}) /\ handle # "held"
     => polled.requests = "none" \/ AtCapacity \/ Blocked
  /\ Returning({"expire", "finish", "run", "parked"})
     => CancelsArmed \/ Blocked
  /\ Returning({"expire", "finish"}) /\ handle = "dropped"
     => polled.cancels = "none" \/ Blocked
  /\ Returning({"finish", "run", "parked"}) => TimerArmed
  /\ Returning({"run", "parked"}) => sink = << >> \/ WriteArmed
  /\ Returning({"run", "parked"}) /\ handle = "dropped" => WriteArmed \/ polled.write = "none"
  /\ pc = "parked" /\ terminal_error => PermitsArmed

Polls ==
  /\ pc \in {"parked", "shutdown", "drain"} => polled = Unpolled
  /\ polled.write # "pending" => pc = "run"

WakeInv == Polls /\ (~woken => Armed)

\* While the dispatch is not woken no event has taken its waker (Notify), and a
\* poll only adds one (Register).
LEMMA WakerKept ==
  ASSUME ~woken'
  PROVE /\ \A src : Notify(src) =>
             ~woken /\ registered' = registered /\ registered \cap src = {}
        /\ \A src : Register(src) => ~woken /\ registered' = registered \cup {src}
        /\ UNCHANGED wakeVars => ~woken /\ registered' = registered
<1>1. ASSUME NEW src, Notify(src)
      PROVE ~woken /\ registered' = registered /\ registered \cap src = {}
  <2>1. ~woken /\ registered \cap src = {}
    BY <1>1, Zenon DEF Notify
  <2>2. registered' = registered \ src
    BY <1>1, Zenon DEF Notify
  <2> QED BY <2>1, <2>2, Zenon
<1>2. ASSUME NEW src, Register(src) PROVE ~woken /\ registered' = registered \cup {src}
  BY <1>2, Zenon DEF Register
<1>3. ASSUME UNCHANGED wakeVars PROVE ~woken /\ registered' = registered
  BY <1>3, Zenon DEF wakeVars
<1> QED BY <1>1, <1>2, <1>3, Zenon

\* A step of another task or of the environment: the dispatch goes on to rely
\* on the wakers it has left.
LEMMA ArmedKept ==
  ASSUME UNCHANGED <<runVars, mapVars, sinkVars>>, WakeInv,
         ~woken' => /\ ~woken
                    /\ ReadArmed => ReadArmed'
                    /\ WriteArmed => WriteArmed'
                    /\ RequestsArmed => RequestsArmed' /\ (handle' # "held" => handle # "held")
                    /\ CancelsArmed => CancelsArmed' /\ (handle' = "dropped" => handle = "dropped")
                    /\ TimerArmed => TimerArmed'
                    /\ PermitsArmed => PermitsArmed'
  PROVE WakeInv'
<1> USE DEF runVars, mapVars, sinkVars
<1>1. Polls'
  BY Zenon DEF WakeInv, Polls
<1>2. ASSUME ~woken' PROVE Armed'
  <2>1. Armed
    BY <1>2, Zenon DEF WakeInv
  <2>2. AtCapacity' = AtCapacity /\ (Blocked => Blocked')
    BY <1>2, Zenon DEF AtCapacity, InFlight, Blocked, SinkFull
  <2>3. Returning({"cancel_ready", "cancel_pop", "expire", "finish"})' /\ handle' # "held"
        => polled'.requests = "none" \/ AtCapacity' \/ Blocked'
    BY <1>2, <2>1, <2>2, Zenon DEF Armed, Returning
  <2>4. Returning({"expire", "finish"})' /\ handle' = "dropped"
        => polled'.cancels = "none" \/ Blocked'
    BY <1>2, <2>1, <2>2, Zenon DEF Armed, Returning
  <2>5. Returning({"run", "parked"})' /\ handle' = "dropped"
        => WriteArmed' \/ polled'.write = "none"
    BY <1>2, <2>1, <2>2, Zenon DEF Armed, Returning, Blocked
  <2> QED BY <1>2, <2>1, <2>2, <2>3, <2>4, <2>5, Zenon DEF Armed, Returning
<1> QED BY <1>1, <1>2, Zenon DEF WakeInv

\* A calling task: what it queues wakes the dispatch that found the queue empty.
LEMMA CallerWakes ==
  ASSUME TypeOK, Inv, Closing, WakeInv, NEW c \in Callers, Caller(c)
  PROVE WakeInv'
<1> USE DEF queueVars, mapVars, runVars, sinkVars, netVars
<1>1. UNCHANGED <<mapVars, runVars, sinkVars, netVars, handle>>
  BY ZenonT(40)
     DEF Caller, Call, Reserve, Push, SendError, Response, DropCall, CloseResponse, Cancel
<1>2. ~woken' => /\ ~woken /\ registered' = registered
                 /\ UNCHANGED pending_requests \/ ("requests" \notin registered /\ Push(c))
                 /\ UNCHANGED canceled_requests \/ ("cancels" \notin registered /\ Cancel(c))
  BY WakerKept, SMTT(30) DEF Caller, Call, Reserve, Push, SendError, Response, DropCall,
                   CloseResponse, Cancel, cancel, wakeVars
<1>3. handle = "held"
  BY Zenon DEF Closing, Caller, Call, Reserve, Push, SendError, Response, DropCall,
         CloseResponse, Cancel
<1>4. \A i \in deadlines : Expired(i)' => Expired(i)
  <2>1. CASE Call(c)
    <3>1. /\ next_request_id \notin deadlines
          /\ \A d \in Callers : request_id'[d] = IF d = c THEN next_request_id
                                                         ELSE request_id[d]
      <4>1. \A i \in deadlines : i < next_request_id /\ i \in Nat
        BY SMTT(30) DEF TypeOK, Inv, IdsAgree, IdsUnique, MapsAgree
      <4>2. next_request_id \in Nat
        BY Zenon DEF TypeOK
      <4>3. next_request_id \notin deadlines
        BY <4>1, <4>2, SMTT(30)
      <4> QED BY <2>1, <4>3, SMTT(30) DEF TypeOK, Call
    <3>2. late \subseteq Callers /\ late' = late
      BY <1>1, Zenon DEF TypeOK
    <3> QED BY <3>1, <3>2, Zenon DEF Expired
  <2>2. CASE UNCHANGED request_id
    BY <1>1, <2>2, Zenon DEF Expired
  <2> QED BY <2>1, <2>2, Zenon DEF Caller, Reserve, Push, SendError, Response, DropCall,
                            CloseResponse, Cancel
<1>5. ~Push(c) => Permitted \subseteq Permitted'
  BY ZenonT(40) DEF TypeOK, Permitted, Caller, Call, Reserve, SendError, Response, DropCall,
         CloseResponse, Cancel
<1>6. ASSUME ~woken'
      PROVE /\ ReadArmed => ReadArmed'
            /\ WriteArmed => WriteArmed'
            /\ RequestsArmed => RequestsArmed'
            /\ CancelsArmed => CancelsArmed'
            /\ TimerArmed => TimerArmed'
            /\ PermitsArmed => PermitsArmed'
  <2>1. PermitsArmed => PermitsArmed'
    BY <1>2, <1>5, <1>6, Zenon DEF PermitsArmed, Push, Notify
  <2>2. RequestsArmed => RequestsArmed'
    BY <1>1, <1>2, <1>3, <1>6, Zenon DEF RequestsArmed
  <2>3. CancelsArmed => CancelsArmed'
    BY <1>1, <1>2, <1>3, <1>6, Zenon DEF CancelsArmed
  <2>4. TimerArmed => TimerArmed'
    BY <1>1, <1>2, <1>4, <1>6, Zenon DEF TimerArmed
  <2> QED BY <1>1, <1>2, <1>6, <2>1, <2>2, <2>3, <2>4, Zenon DEF ReadArmed, WriteArmed
<1> QED BY <1>1, <1>2, <1>3, <1>6, ArmedKept, Zenon

\* The last handle, the clock and the network: a field dropped, a deadline that
\* passes, a reply and a network that drains, ends or breaks wake the dispatch
\* that waits for them.
LEMMA EnvironmentWakes ==
  ASSUME TypeOK, Inv, WakeInv,
         \/ \E c \in Callers : Late(c)
         \/ DropToDispatch \/ DropCancellation \/ Reply \/ Stall \/ Unstall
         \/ Eof \/ Break \/ UNCHANGED vars
  PROVE WakeInv'
<1> USE DEF callVars, queueVars, mapVars, runVars, wakeVars, sinkVars, netVars
<1> USE DEF ReadArmed, WriteArmed, RequestsArmed, CancelsArmed, PermitsArmed, Permitted
<1>a. ASSUME UNCHANGED <<deadlines, request_id, late>>, registered' = registered, TimerArmed
      PROVE TimerArmed'
  BY <1>a, Zenon DEF TimerArmed, Expired
<1>1. ASSUME NEW c \in Callers, Late(c) PROVE WakeInv'
  <2>1. /\ UNCHANGED <<callVars, queueVars, mapVars, runVars, sinkVars, net, stalled, inbound>>
        /\ late' = late \cup {c}
        /\ IF request_id[c] \in deadlines THEN Notify({"timer"}) ELSE UNCHANGED wakeVars
    BY <1>1, Zenon DEF Late
  <2>2. ASSUME ~woken', TimerArmed PROVE TimerArmed'
    <3>1. registered' = registered /\ request_id[c] \notin deadlines
      BY <2>1, <2>2, WakerKept, Zenon DEF TimerArmed
    <3> QED BY <2>1, <2>2, <3>1, Zenon DEF TimerArmed, Expired
  <2>3. ~woken' => ~woken /\ registered' = registered
    BY <2>1, WakerKept, Zenon
  <2> QED BY <2>1, <2>2, <2>3, ArmedKept, Zenon
<1>2. CASE DropToDispatch \/ DropCancellation
  <2>1. UNCHANGED <<call, request_id, queueVars, mapVars, runVars, sinkVars, netVars>>
    BY <1>2, Zenon DEF DropToDispatch, DropCancellation
  <2>2. \/ handle = "held" /\ handle' = "half" /\ Notify({"requests"})
        \/ handle = "half" /\ handle' = "dropped" /\ Notify({"cancels"})
    BY <1>2, Zenon DEF DropToDispatch, DropCancellation
  <2>3. ASSUME ~woken'
        PROVE /\ ~woken /\ registered' = registered
              /\ \/ handle = "held" /\ handle' = "half" /\ "requests" \notin registered
                 \/ handle = "half" /\ handle' = "dropped" /\ "cancels" \notin registered
    BY <2>2, <2>3, WakerKept, Zenon
  <2>4. ~woken' /\ TimerArmed => TimerArmed'
    BY <1>a, <2>1, <2>3, Zenon
  <2> QED BY <2>1, <2>3, <2>4, ArmedKept, Zenon
<1>3. CASE Reply
  <2>1. /\ UNCHANGED <<callVars, queueVars, mapVars, runVars, sinkVars, net, stalled, late>>
        /\ Notify({"read"})
    BY <1>3, Zenon DEF Reply
  <2>2. ~woken' => ~woken /\ registered' = registered /\ "read" \notin registered
    BY <2>1, WakerKept, Zenon
  <2> QED BY <1>a, <2>1, <2>2, ArmedKept, Zenon
<1>4. CASE Stall
  <2>1. /\ UNCHANGED <<callVars, queueVars, mapVars, runVars, sinkVars, wakeVars, net, late,
                       inbound>>
        /\ stalled' = TRUE
    BY <1>4, Zenon DEF Stall
  <2>2. ~woken' => ~woken /\ registered' = registered
    BY <2>1, WakerKept, Zenon
  <2> QED BY <1>a, <2>1, <2>2, ArmedKept, Zenon
<1>5. CASE Unstall
  <2>1. /\ UNCHANGED <<callVars, queueVars, mapVars, runVars, sinkVars, net, late, inbound>>
        /\ Notify({"write"})
    BY <1>5, Zenon DEF Unstall
  <2>2. ~woken' => ~woken /\ registered' = registered /\ "write" \notin registered
    BY <2>1, WakerKept, Zenon
  <2> QED BY <1>a, <2>1, <2>2, ArmedKept, Zenon
<1>6. CASE Eof \/ Break
  <2>1. /\ UNCHANGED <<callVars, queueVars, mapVars, runVars, sinkVars, stalled, late, inbound>>
        /\ Notify({"read", "write"})
    BY <1>6, Zenon DEF Eof, Break, Disconnect
  <2>2. ~woken' => /\ ~woken /\ registered' = registered
                   /\ "read" \notin registered /\ "write" \notin registered
    BY <2>1, WakerKept, SMTT(30)
  <2> QED BY <1>a, <2>1, <2>2, ArmedKept, Zenon
<1>7. CASE UNCHANGED vars
  <2>1. ~woken' => ~woken /\ registered' = registered
    BY <1>7, WakerKept, Zenon DEF vars
  <2> QED BY <1>7, <1>a, <2>1, ArmedKept, Zenon DEF vars
<1> QED BY <1>1, <1>2, <1>3, <1>4, <1>5, <1>6, <1>7, Zenon

\* The dispatch goes on and relies on nothing: it is at the beginning of an
\* iteration of run(), has read or written something, fails, or ends.
LEMMA BusyWakes ==
  ASSUME TypeOK, Inv, WakeInv, Reasons,
         \/ Poll \/ ReadResponse \/ ReadClosed \/ ReadError \/ WriteRequest \/ Expire
         \/ ShutDown \/ Dropped
  PROVE WakeInv'
<1>1. CASE Poll
  <2>1. /\ pc' \in {"shutdown", "read"} /\ UNCHANGED polled
        /\ polled = Unpolled /\ polled.write = "pending"
    BY <1>1, Zenon DEF Poll, WakeInv, Polls, Unpolled
  <2> QED BY <2>1, Zenon DEF WakeInv, Polls, Armed, Returning
<1>2. CASE ReadResponse \/ ReadClosed
  <2>1. pc = "read" /\ pc' = "ready" /\ polled'.read # "pending" /\ polled'.write = polled.write
    BY <1>2, Zenon DEF ReadResponse, ReadClosed, TypeOK
  <2> QED BY <2>1, Zenon DEF WakeInv, Polls, Armed, Returning
<1>3. CASE ReadError
  <2>1. pc' = "shutdown" /\ polled' = Unpolled /\ polled'.write = "pending"
    BY <1>3, Zenon DEF ReadError, Fail, Unpolled
  <2> QED BY <2>1, Zenon DEF WakeInv, Polls, Armed, Returning
<1>4. CASE WriteRequest \/ Expire
  <2>1. pc' = "run" /\ polled'.write = "some"
    BY <1>4, Zenon DEF WriteRequest, Expire, TypeOK
  <2> QED BY <2>1, Zenon DEF WakeInv, Polls, Armed, Returning
<1>5. CASE ShutDown
  <2>1. pc = "shutdown" /\ pc' = "drain" /\ UNCHANGED polled
    BY <1>5, Zenon DEF ShutDown
  <2> QED BY <2>1, Zenon DEF WakeInv, Polls, Armed, Returning
<1>6. CASE Dropped
  <2>1. pc' = "ended" /\ polled'.write = "pending"
    BY <1>6, Zenon DEF Dropped, Unpolled
  <2> QED BY <2>1, Zenon DEF WakeInv, Polls, Armed, Returning
<1> QED BY <1>1, <1>2, <1>3, <1>4, <1>5, <1>6, Zenon

\* pump_write up to its flush, and pump_read when there is nothing to read.
LEMMA PumpWakes ==
  ASSUME TypeOK, Inv, WakeInv, Reasons,
         \/ ReadPending \/ PollReady \/ PopRequest \/ PopNoRequest \/ PollCancelReady
         \/ PopCancel \/ PopNoCancel \/ NoneExpired
  PROVE WakeInv'
<1> USE DEF callVars, queueVars, mapVars, sinkVars, netVars
<1>a. /\ UNCHANGED <<inbound, net, stalled, late, request_id, handle>>
      /\ UNCHANGED wakeVars \/ \E src \in Sources : Register(src)
  BY Zenon
     DEF ReadPending, PollReady, PopRequest, PopNoRequest, PollCancelReady, PopCancel,
         PopNoCancel, NoneExpired, ensure_writeable, Sources
<1>b. ASSUME ~woken'
      PROVE /\ ~woken /\ registered \subseteq registered'
            /\ ReadArmed => ReadArmed'
            /\ WriteArmed => WriteArmed'
            /\ UNCHANGED pending_requests /\ RequestsArmed => RequestsArmed'
            /\ UNCHANGED canceled_requests /\ CancelsArmed => CancelsArmed'
            /\ UNCHANGED sink /\ Blocked => Blocked'
  BY <1>a, <1>b, WakerKept, Zenon
     DEF ReadArmed, WriteArmed, RequestsArmed, CancelsArmed, Blocked,
                               SinkFull
<1>c. \A src : Register(src) /\ ~woken' => registered' = registered \cup {src}
  BY WakerKept, Zenon
<1>d. UNCHANGED InFlight => AtCapacity' = AtCapacity
  BY Zenon DEF AtCapacity
<1>e. /\ polled.write = "pending" /\ ~terminal_error
      /\ pc \in {"read", "ready", "pop", "cancel_ready", "cancel_pop", "expire"}
  <2>1. pc \in {"read", "ready", "pop", "cancel_ready", "cancel_pop", "expire"}
    BY Zenon
       DEF ReadPending, PollReady, PopRequest, PopNoRequest, PollCancelReady, PopCancel,
           PopNoCancel, NoneExpired
  <2>2. polled.write = "pending"
    BY <2>1, Zenon DEF WakeInv, Polls
  <2>3. ~terminal_error
    BY <2>1, Zenon DEF Reasons
  <2> QED BY <2>1, <2>2, <2>3, Zenon
<1>f. SinkFull /\ CanFlush => ~Blocked
  <2>1. SinkFull => sink # << >>
    BY BoundsAssumption, SMTT(30) DEF SinkFull, TypeOK
  <2> QED BY <2>1, Zenon DEF CanFlush, Blocked, WriteArmed
<1>1. CASE ReadPending
  <2>1. /\ pc' = "ready" /\ polled'.write = "pending" /\ inbound = << >> /\ net = "up"
        /\ Register("read")
    BY <1>1, <1>e, Zenon DEF ReadPending, TypeOK
  <2>2. ~woken' => ReadArmed'
    BY <1>a, <1>c, <2>1, Zenon DEF ReadArmed
  <2> QED BY <2>1, <2>2, Zenon DEF WakeInv, Polls, Armed, Returning
<1>2. CASE pc' = "shutdown" /\ polled' = Unpolled
  BY <1>2, Zenon DEF WakeInv, Polls, Armed, Returning, Unpolled
<1>3. CASE PollReady
  <2>1. /\ pc = "ready" /\ UNCHANGED <<pending_requests, InFlight>>
        /\ \/ UNCHANGED polled /\ pc' = "pop"
           \/ UNCHANGED polled /\ pc' = "cancel_ready" /\ AtCapacity
           \/ /\ UNCHANGED <<polled, sink>> /\ pc' = "cancel_ready" /\ SinkFull /\ ~CanFlush
              /\ Register("write")
           \/ pc' = "shutdown" /\ polled' = Unpolled
    BY <1>3, Zenon DEF PollReady, ensure_writeable, Fail, SinkFull, InFlight
  <2>2. ASSUME ~woken', pc' # "shutdown"
        PROVE /\ polled'.read = "pending" => ReadArmed'
              /\ pc' = "cancel_ready" => AtCapacity' \/ Blocked'
    <3>1. Armed
      BY <1>b, <2>2, Zenon DEF WakeInv
    <3>2. polled'.read = "pending" => ReadArmed'
      BY <1>b, <1>e, <2>1, <2>2, <3>1, Zenon DEF Armed, Returning
    <3>3. pc' = "cancel_ready" => AtCapacity' \/ Blocked'
      BY <1>a, <1>c, <1>d, <2>1, <2>2, SMTT(30) DEF Blocked, SinkFull, WriteArmed, CanFlush
    <3> QED BY <3>2, <3>3, Zenon
  <2> QED BY <1>2, <1>e, <2>1, <2>2, Zenon DEF WakeInv, Polls, Armed, Returning
<1>4. CASE PopRequest
  <2>1. pc = "pop" /\ pc' \in {"pop", "write"} /\ UNCHANGED polled
    BY <1>4, Zenon DEF PopRequest
  <2>2. ASSUME ~woken' PROVE polled'.read = "pending" => ReadArmed'
    BY <1>b, <1>e, <2>1, <2>2, Zenon DEF WakeInv, Armed, Returning
  <2> QED BY <1>e, <2>1, <2>2, Zenon DEF WakeInv, Polls, Armed, Returning
<1>5. CASE PopNoRequest
  <2>1. /\ pc = "pop" /\ pc' = "cancel_ready" /\ pending_requests = << >>
        /\ UNCHANGED pending_requests
        /\ polled'.write = polled.write /\ polled'.read = polled.read
        /\ IF handle = "held" THEN Register("requests") ELSE polled'.requests = "none"
    BY <1>5, Zenon DEF PopNoRequest, TypeOK
  <2>2. ASSUME ~woken'
        PROVE /\ polled'.read = "pending" => ReadArmed'
              /\ RequestsArmed'
    <3>1. polled'.read = "pending" => ReadArmed'
      BY <1>b, <1>e, <2>1, <2>2, Zenon DEF WakeInv, Armed, Returning
    <3>2. RequestsArmed'
      BY <1>a, <1>c, <2>1, <2>2, Zenon DEF RequestsArmed
    <3> QED BY <3>1, <3>2, Zenon
  <2> QED BY <1>a, <1>e, <2>1, <2>2, Zenon DEF WakeInv, Polls, Armed, Returning
<1>6. CASE PollCancelReady
  <2>1. /\ pc = "cancel_ready" /\ UNCHANGED <<pending_requests, canceled_requests, InFlight>>
        /\ \/ /\ UNCHANGED polled /\ pc' = "cancel_pop"
              /\ UNCHANGED sink \/ (SinkFull /\ CanFlush)
           \/ /\ UNCHANGED <<polled, sink>> /\ pc' = "expire" /\ SinkFull /\ ~CanFlush
              /\ Register("write")
           \/ pc' = "shutdown" /\ polled' = Unpolled
    BY <1>6, Zenon DEF PollCancelReady, ensure_writeable, Fail, SinkFull, InFlight
  <2>2. ASSUME ~woken', pc' # "shutdown"
        PROVE /\ polled'.read = "pending" => ReadArmed'
              /\ RequestsArmed' \/ AtCapacity' \/ Blocked'
              /\ handle' # "held" => polled'.requests = "none" \/ AtCapacity' \/ Blocked'
              /\ pc' = "expire" => Blocked'
    <3>1. /\ polled.read = "pending" => ReadArmed
          /\ RequestsArmed \/ AtCapacity \/ Blocked
          /\ handle # "held" => polled.requests = "none" \/ AtCapacity \/ Blocked
      BY <1>b, <1>e, <2>1, <2>2, Zenon DEF WakeInv, Armed, Returning
    <3>2. Blocked => Blocked'
      BY <1>b, <1>f, <2>1, <2>2, Zenon
    <3>3. pc' = "expire" => Blocked'
      BY <1>a, <1>c, <2>1, <2>2, Zenon DEF Blocked, SinkFull, WriteArmed, CanFlush
    <3> QED BY <1>a, <1>b, <1>d, <2>1, <2>2, <3>1, <3>2, <3>3, SMTT(30)
  <2> QED BY <1>2, <1>e, <2>1, <2>2, Zenon DEF WakeInv, Polls, Armed, Returning
<1>7. CASE PopCancel
  <2>1. /\ pc = "cancel_pop"
        /\ \/ UNCHANGED <<polled, pc, sink, pending_requests, InFlight>>
           \/ pc' = "run" /\ polled'.write = "some"
           \/ pc' = "shutdown" /\ polled' = Unpolled
    BY <1>7, SMTT(30) DEF PopCancel, write_cancel, Fail, TypeOK, InFlight
  <2>2. CASE UNCHANGED <<polled, pc, sink, pending_requests, InFlight>>
    <3>1. ASSUME ~woken'
          PROVE /\ polled'.read = "pending" => ReadArmed'
                /\ RequestsArmed' \/ AtCapacity' \/ Blocked'
                /\ handle' # "held" => polled'.requests = "none" \/ AtCapacity' \/ Blocked'
      <4>1. /\ polled.read = "pending" => ReadArmed
            /\ RequestsArmed \/ AtCapacity \/ Blocked
            /\ handle # "held" => polled.requests = "none" \/ AtCapacity \/ Blocked
        BY <1>b, <1>e, <2>1, <3>1, Zenon DEF WakeInv, Armed, Returning
      <4> QED BY <1>a, <1>b, <1>d, <2>2, <3>1, <4>1, SMTT(30)
    <3> QED BY <1>e, <2>1, <2>2, <3>1, Zenon DEF WakeInv, Polls, Armed, Returning
  <2>3. CASE pc' = "run" /\ polled'.write = "some"
    BY <2>3, Zenon DEF WakeInv, Polls, Armed, Returning
  <2> QED BY <1>2, <2>1, <2>2, <2>3, SMTT(30)
<1>8. CASE PopNoCancel
  <2>1. /\ pc = "cancel_pop" /\ pc' = "expire" /\ canceled_requests = << >>
        /\ UNCHANGED <<pending_requests, canceled_requests, InFlight, sink>>
        /\ polled'.write = polled.write /\ polled'.read = polled.read
        /\ polled'.requests = polled.requests
        /\ IF handle # "dropped" THEN Register("cancels") ELSE polled'.cancels = "none"
    BY <1>8, SMTT(30) DEF PopNoCancel, TypeOK, InFlight
  <2>2. ASSUME ~woken'
        PROVE /\ polled'.read = "pending" => ReadArmed'
              /\ RequestsArmed' \/ AtCapacity' \/ Blocked'
              /\ handle' # "held" => polled'.requests = "none" \/ AtCapacity' \/ Blocked'
              /\ CancelsArmed'
    <3>1. /\ polled.read = "pending" => ReadArmed
          /\ RequestsArmed \/ AtCapacity \/ Blocked
          /\ handle # "held" => polled.requests = "none" \/ AtCapacity \/ Blocked
      BY <1>b, <1>e, <2>1, <2>2, Zenon DEF WakeInv, Armed, Returning
    <3>2. CancelsArmed'
      BY <1>a, <1>c, <2>1, <2>2, Zenon DEF CancelsArmed
    <3> QED BY <1>a, <1>b, <1>d, <2>1, <2>2, <3>1, <3>2, SMTT(30)
  <2> QED BY <1>a, <1>e, <2>1, <2>2, SMTT(30) DEF WakeInv, Polls, Armed, Returning
<1>9. CASE NoneExpired
  <2>1. /\ pc = "expire" /\ pc' = "finish" /\ UNCHANGED polled
        /\ UNCHANGED <<pending_requests, canceled_requests, InFlight, sink, deadlines>>
        /\ \A i \in deadlines : ~Expired(i)
        /\ deadlines # {} => Register("timer")
    BY <1>9, Zenon DEF NoneExpired, InFlight
  <2>2. ASSUME ~woken'
        PROVE /\ polled'.read = "pending" => ReadArmed'
              /\ RequestsArmed' \/ AtCapacity' \/ Blocked'
              /\ handle' # "held" => polled'.requests = "none" \/ AtCapacity' \/ Blocked'
              /\ CancelsArmed' \/ Blocked'
              /\ handle' = "dropped" => polled'.cancels = "none" \/ Blocked'
              /\ TimerArmed'
    <3>1. /\ polled.read = "pending" => ReadArmed
          /\ RequestsArmed \/ AtCapacity \/ Blocked
          /\ handle # "held" => polled.requests = "none" \/ AtCapacity \/ Blocked
          /\ CancelsArmed \/ Blocked
          /\ handle = "dropped" => polled.cancels = "none" \/ Blocked
      BY <1>b, <1>e, <2>1, <2>2, Zenon DEF WakeInv, Armed, Returning
    <3>2. TimerArmed'
      BY <1>a, <1>c, <2>1, <2>2, Zenon DEF TimerArmed, Expired
    <3> QED BY <1>a, <1>b, <1>d, <2>1, <2>2, <3>1, <3>2, SMTT(30)
  <2> QED BY <1>e, <2>1, <2>2, Zenon DEF WakeInv, Polls, Armed, Returning
<1> QED BY <1>1, <1>3, <1>4, <1>5, <1>6, <1>7, <1>8, <1>9, Zenon

\* Once the Channel is dropped and the cancellations are taken, nothing is in
\* flight: each request was answered or its call was canceled.
LEMMA NothingLeft ==
  ASSUME TypeOK, Inv, Closing, handle # "held", canceled_requests = << >>
  PROVE InFlight = {}
<1>1. ASSUME NEW i \in InFlight PROVE FALSE
  <2>1. call[request_data[i]] \in {"idle", "done"}
    BY Zenon DEF TypeOK, Closing
  <2> QED BY <2>1, EmptyContains, Zenon DEF Inv, NoOrphan
<1> QED BY <1>1, Zenon

\* With nothing in flight the dispatch is below its limit.
Counts == MaxInFlight > 0 /\ Cardinality({}) = 0

\* The end of pump_write, the decision of run() and the shutdown, up to the
\* return of Pending.  A dispatch that may track no request at all would not
\* look at its queue, and would not see it closed.
LEMMA ReturnWakes ==
  ASSUME Counts, TypeOK, Inv, WakeInv, Reasons, Closing,
         Finish \/ (Run /\ ~RunEnds) \/ Drain
  PROVE WakeInv'
<1> USE DEF callVars, queueVars, mapVars, runVars, sinkVars, netVars
<1>c. \A src : Register(src) /\ ~woken' => ~woken /\ registered' = registered \cup {src}
  BY WakerKept, Zenon
<1>1. CASE Finish
  <2>a. /\ UNCHANGED <<inbound, net, stalled, late, request_id, handle, deadlines,
                       pending_requests, canceled_requests>>
        /\ UNCHANGED InFlight
        /\ UNCHANGED wakeVars \/ \E src \in Sources : Register(src)
    BY <1>1, Zenon DEF Finish, Sources, InFlight
  <2>b. ASSUME ~woken'
        PROVE /\ ~woken
              /\ ReadArmed => ReadArmed'
              /\ WriteArmed => WriteArmed'
              /\ RequestsArmed => RequestsArmed'
              /\ CancelsArmed => CancelsArmed'
              /\ TimerArmed => TimerArmed'
              /\ UNCHANGED sink /\ Blocked => Blocked'
              /\ AtCapacity' = AtCapacity
    BY <2>a, <2>b, WakerKept, Zenon
       DEF ReadArmed, WriteArmed, RequestsArmed, CancelsArmed,
                                 TimerArmed, Expired, Blocked, SinkFull, AtCapacity
  <2>c. pc = "finish" /\ polled.write = "pending" /\ ~terminal_error
    <3>1. pc = "finish"
      BY <1>1, Zenon DEF Finish
    <3> QED BY <3>1, Zenon DEF WakeInv, Polls, Reasons
  <2>d. SinkFull => sink # << >>
    BY BoundsAssumption, SMTT(30) DEF SinkFull, TypeOK
  <2>1. CASE pc' = "shutdown" /\ polled' = Unpolled
    BY <2>1, Zenon DEF WakeInv, Polls, Armed, Returning, Unpolled
  <2>2. CASE /\ CanFlush /\ sink' = << >> /\ pc' = "run" /\ polled'.read = polled.read
             /\ polled'.write = IF polled.requests = "none" /\ polled.cancels = "none"
                                THEN "none" ELSE "pending"
    <3>1. ASSUME ~woken'
          PROVE /\ polled'.read = "pending" => ReadArmed'
                /\ RequestsArmed' \/ AtCapacity'
                /\ CancelsArmed' /\ TimerArmed'
                /\ handle' = "dropped" => polled'.write = "none"
      <4>1. ~Blocked
        BY <2>2, <2>d, Zenon DEF CanFlush, Blocked, WriteArmed
      <4>2. /\ polled.read = "pending" => ReadArmed
            /\ RequestsArmed \/ AtCapacity
            /\ CancelsArmed /\ TimerArmed
            /\ handle # "held" => polled.requests = "none" \/ AtCapacity
            /\ handle = "dropped" => polled.cancels = "none"
        BY <2>b, <2>c, <3>1, <4>1, Zenon DEF WakeInv, Armed, Returning
      <4>3. ASSUME handle = "dropped" PROVE polled'.write = "none"
        <5>1. canceled_requests = << >> /\ handle # "held"
          BY <4>2, <4>3, Zenon DEF CancelsArmed
        <5>2. ~AtCapacity
          <6>1. InFlight = {}
            BY <4>3, <5>1, NothingLeft, Zenon
          <6> QED BY <6>1, BoundsAssumption, SMTT(30) DEF AtCapacity, Counts
        <5> QED BY <2>2, <4>2, <4>3, <5>1, <5>2, Zenon
      <4> QED BY <2>a, <2>b, <2>2, <3>1, <4>2, <4>3, Zenon
    <3> QED BY <2>2, <3>1, Zenon DEF WakeInv, Polls, Armed, Returning
  <2>3. CASE ~CanFlush /\ Register("write") /\ pc' = "run" /\ UNCHANGED <<sink, polled>>
    <3>1. ASSUME ~woken'
          PROVE /\ polled'.read = "pending" => ReadArmed'
                /\ RequestsArmed' \/ AtCapacity' \/ Blocked'
                /\ CancelsArmed' \/ Blocked'
                /\ TimerArmed' /\ WriteArmed'
      <4>1. /\ polled.read = "pending" => ReadArmed
            /\ RequestsArmed \/ AtCapacity \/ Blocked
            /\ CancelsArmed \/ Blocked
            /\ TimerArmed
        BY <2>b, <2>c, <3>1, Zenon DEF WakeInv, Armed, Returning
      <4>2. WriteArmed'
        BY <1>c, <2>a, <2>3, <3>1, Zenon DEF WriteArmed, CanFlush
      <4> QED BY <2>b, <2>3, <3>1, <4>1, <4>2, Zenon
    <3> QED BY <2>3, <2>c, <3>1, Zenon DEF WakeInv, Polls, Armed, Returning
  <2> QED BY <1>1, <2>1, <2>2, <2>3, Zenon DEF Finish, Flush, Fail, TypeOK
<1>2. CASE Run /\ ~RunEnds
  <2>1. /\ pc = "run" /\ polled' = Unpolled /\ ~RunEnds
        /\ pc' = IF polled.read = "some" \/ polled.write = "some" THEN "read" ELSE "parked"
        /\ UNCHANGED <<callVars, queueVars, mapVars, terminal_error, sinkVars, netVars>>
        /\ UNCHANGED wakeVars
    BY <1>2, Zenon DEF Run, Dropped
  <2>2. CASE pc' = "read"
    BY <2>1, <2>2, Zenon DEF WakeInv, Polls, Armed, Returning, Unpolled
  <2>3. CASE pc' = "parked"
    <3>1. polled.read = "pending" /\ polled.write = "pending"
      <4>1. polled.read \in Statuses \ {"some", "none"} /\ polled.write \in Statuses \ {"some"}
        BY <2>1, <2>3, Zenon DEF RunEnds, TypeOK
      <4>2. polled.write # "none"
        BY <2>1, NothingLeft, Zenon DEF RunEnds, Closing
      <4> QED BY <4>1, <4>2, Zenon DEF Statuses
    <3>2. ~terminal_error /\ ~terminal_error'
      BY <2>1, Zenon DEF Reasons
    <3>3. ASSUME ~woken'
          PROVE /\ ReadArmed' /\ TimerArmed'
                /\ RequestsArmed' \/ AtCapacity' \/ Blocked'
                /\ CancelsArmed' \/ Blocked'
                /\ sink' = << >> \/ WriteArmed'
                /\ handle' = "dropped" => WriteArmed'
      <4>1. ~woken /\ registered' = registered
        BY <2>1, <3>3, WakerKept, Zenon
      <4>2. /\ ReadArmed /\ TimerArmed
            /\ RequestsArmed \/ AtCapacity \/ Blocked
            /\ CancelsArmed \/ Blocked
            /\ sink = << >> \/ WriteArmed
            /\ handle = "dropped" => WriteArmed
        BY <2>1, <3>1, <3>2, <4>1, Zenon DEF WakeInv, Armed, Returning
      <4> QED BY <2>1, <4>1, <4>2, Zenon
                 DEF ReadArmed, TimerArmed, Expired, RequestsArmed,
                                      AtCapacity, InFlight, Blocked, SinkFull, WriteArmed,
                                      CancelsArmed
    <3> QED BY <2>1, <2>3, <3>2, <3>3, Zenon
               DEF WakeInv, Polls, Armed, Returning, Unpolled
  <2> QED BY <2>1, <2>2, <2>3, Zenon
<1>3. CASE Drain
  <2>1. pc = "drain" /\ polled.write = "pending" /\ terminal_error
    <3>1. pc = "drain"
      BY <1>3, Zenon DEF Drain
    <3> QED BY <3>1, Zenon DEF WakeInv, Polls, Reasons
  <2>2. CASE UNCHANGED <<pc, polled>>
    BY <2>1, <2>2, Zenon DEF WakeInv, Polls, Armed, Returning
  <2>3. CASE /\ pending_requests = << >> /\ Permitted # {} /\ Register("requests")
             /\ pc' = "parked" /\ UNCHANGED <<call, pending_requests, polled, terminal_error>>
    <3>1. polled = Unpolled
      BY <2>1, Zenon DEF WakeInv, Polls
    <3>2. terminal_error'
      BY <2>1, <2>3, Zenon
    <3>3. ~woken' => PermitsArmed'
      BY <1>c, <2>3, Zenon DEF PermitsArmed, Permitted
    <3> QED BY <2>3, <3>1, <3>2, <3>3, Zenon
               DEF WakeInv, Polls, Armed, Returning, Unpolled
  <2>4. CASE Dropped
    BY <2>4, BusyWakes, Zenon
  <2> QED BY <1>3, <2>2, <2>3, <2>4, Zenon DEF Drain
<1> QED BY <1>1, <1>2, <1>3, Zenon

\* Every step keeps it.
LEMMA StepWakes ==
  ASSUME Counts, TypeOK, Inv, Outcomes, WakeInv, [Next]_vars
  PROVE WakeInv'
<1>1. Closing /\ Reasons
  BY Zenon DEF Outcomes
<1>2. CASE Run \/ Abandon
  BY <1>1, <1>2, ReturnWakes, BusyWakes, Zenon DEF Run, Abandon
<1>3. CASE Dispatch /\ ~Run
  BY <1>1, <1>3, BusyWakes, PumpWakes, ReturnWakes, Zenon DEF Dispatch
<1> QED BY <1>1, <1>2, <1>3, CallerWakes, EnvironmentWakes, Zenon DEF Next, Terminated

-----------------------------------------------------------------------------
(* How many requests are in flight                                         *)

\* What poll_next_request checked is still true when the request is inserted.
Bounded ==
  /\ IsFiniteSet(InFlight) /\ InFlightBounded
  /\ pc \in {"pop", "write"} => Cardinality(InFlight) < MaxInFlight

\* poll_next_request goes on to take a request, and to write one that it took,
\* only after it found that there is room for it.
LEMMA RoomFirst ==
  ASSUME TypeOK, [Next]_vars, pc' \in {"pop", "write"}
  PROVE pc \in {"pop", "write"} \/ (PollReady /\ ~AtCapacity /\ UNCHANGED mapVars)
<1>1. ASSUME NEW c \in Callers, Caller(c) PROVE pc' = pc
  BY <1>1, Zenon DEF Caller, Call, Reserve, Push, SendError, Response, DropCall,
              CloseResponse, Cancel, runVars
<1>2. ASSUME NEW c \in Callers, Late(c) PROVE pc' = pc
  BY <1>2, ZenonT(40) DEF Late, runVars
<1>3. CASE \/ DropToDispatch \/ DropCancellation \/ Reply \/ Stall \/ Unstall \/ Eof
           \/ Break \/ Terminated \/ UNCHANGED vars
  BY <1>3, SMTT(30) DEF DropToDispatch, DropCancellation, Reply, Stall, Unstall, Eof,
                    Break, Disconnect, Terminated, vars, runVars
<1>4. CASE Dropped
  BY <1>4, Zenon DEF Dropped
<1>5. CASE Poll \/ ReadResponse \/ ReadPending \/ ReadClosed \/ ReadError
           \/ PopRequest \/ PopNoRequest \/ WriteRequest \/ PollCancelReady
  BY <1>5, Zenon DEF Poll, ReadResponse, ReadPending, ReadClosed, ReadError, PopRequest,
                    PopNoRequest, WriteRequest, PollCancelReady, ensure_writeable, Fail
<1>6. CASE PopCancel
  BY <1>6, Zenon DEF PopCancel, write_cancel, Fail
<1>7. CASE PopNoCancel \/ Expire \/ NoneExpired \/ Finish \/ ShutDown
  BY <1>7, Zenon DEF PopNoCancel, Expire, NoneExpired, Finish, ShutDown, Fail
<1>8. CASE Run \/ Abandon
  BY <1>4, <1>8, Zenon DEF Run, Abandon
<1>9. CASE Drain
  BY <1>4, <1>9, Zenon DEF Drain, runVars
<1>10. CASE PollReady
  BY <1>10, Zenon DEF PollReady
<1> QED BY <1>1, <1>2, <1>3, <1>5, <1>6, <1>7, <1>8, <1>9, <1>10, ZenonT(40)
        DEF Next, Dispatch

\* The dispatch that sleeps has armed a waker for everything it waits for.
LEMMA AsleepArmed ==
  ASSUME TypeOK, Inv, Outcomes, WakeInv, Cardinality(InFlight) \in Nat, pc = "parked", ~woken
  PROVE NoLostWakeup
<1>1. Armed /\ polled.write = "pending" /\ polled.read = "pending"
  BY SMTT(30) DEF WakeInv, Polls, Unpolled
<1>2. CASE terminal_error
  BY <1>1, <1>2, Zenon DEF Armed, PermitsArmed, NoLostWakeup
<1>3. CASE ~terminal_error
  <2>1. /\ ReadArmed /\ TimerArmed
        /\ RequestsArmed \/ AtCapacity \/ Blocked
        /\ CancelsArmed \/ Blocked
        /\ sink = << >> \/ WriteArmed
        /\ handle = "dropped" => WriteArmed
    BY <1>1, <1>3, Zenon DEF Armed, Returning
  <2>2. \A i \in InFlight : request_data[i] \notin late
    BY <2>1, ZenonT(40) DEF TimerArmed, Expired, Inv, MapsAgree, IdsAgree
  <2>3. Blocked => ~(Len(sink) < SinkCapacity) /\ stalled
    BY BoundsAssumption, SMTT(30) DEF Blocked, SinkFull, WriteArmed, TypeOK
  <2>4. AtCapacity => ~(Cardinality(InFlight) < MaxInFlight)
    BY BoundsAssumption, SMTT(30) DEF AtCapacity
  <2> QED BY <1>3, <2>1, <2>2, <2>3, <2>4, ZenonT(40)
          DEF NoLostWakeup, ReadArmed, RequestsArmed, CancelsArmed, WriteArmed
<1> QED BY <1>2, <1>3, Zenon

INSTANCE FiniteSetTheorems

\* Removing entries keeps the bound.
LEMMA ShrunkBounded ==
  ASSUME Bounded, Shrunk
  PROVE /\ IsFiniteSet(InFlight') /\ InFlightBounded'
        /\ Cardinality(InFlight') <= Cardinality(InFlight)
        /\ Cardinality(InFlight) \in Nat /\ Cardinality(InFlight') \in Nat
<1>1. IsFiniteSet(InFlight) /\ InFlight' \subseteq InFlight
  BY Zenon DEF Bounded, Shrunk
<1>2. PICK t : t = InFlight'
  BY Zenon
<1>3. /\ IsFiniteSet(t) /\ Cardinality(t) <= Cardinality(InFlight)
      /\ Cardinality(InFlight) \in Nat /\ Cardinality(t) \in Nat
  BY <1>1, <1>2, FS_Subset, FS_CardinalityType, Zenon
<1> QED BY <1>2, <1>3, BoundsAssumption, SMTT(30) DEF Bounded, InFlightBounded

\* Nothing is inserted between poll_next_request's check and the insertion it
\* permits, as one task does both.
LEMMA BoundedStep ==
  ASSUME TypeOK, Inv, Bounded, [Next]_vars
  PROVE Bounded'
<1>1. CASE WriteRequest
  <2>1. PICK i : i = request_id[taken]
    BY Zenon
  <2>2. pc = "write" /\ pc' = "run"
    BY <1>1, Zenon DEF WriteRequest
  <2>3. CASE InFlight' = InFlight
    BY <2>2, <2>3, Zenon DEF Bounded, InFlightBounded
  <2>4. CASE InFlight' = InFlight \cup {i}
    <3>1. PICK t : t = InFlight'
      BY Zenon
    <3>2. i \notin InFlight
      BY <2>1, <2>2, Zenon DEF Inv, MapsAgree
    <3>3. IsFiniteSet(t) /\ Cardinality(t) = Cardinality(InFlight) + 1
      BY <2>4, <3>1, <3>2, FS_AddElement, Zenon DEF Bounded
    <3>4. Cardinality(InFlight) < MaxInFlight /\ Cardinality(InFlight) \in Nat
      BY <2>2, FS_CardinalityType, Zenon DEF Bounded
    <3> QED BY <2>2, <3>1, <3>3, <3>4, BoundsAssumption, SMTT(30) DEF Bounded, InFlightBounded
  <2> QED BY <1>1, <2>1, <2>3, <2>4, WriteCases, ZenonT(40)
          DEF insert_request, mapVars, InFlight
<1>2. CASE Shrunk
  <2>1. pc' \in {"pop", "write"} =>
          pc \in {"pop", "write"} \/ (PollReady /\ ~AtCapacity /\ UNCHANGED mapVars)
    BY RoomFirst, Zenon
  <2>2. ASSUME ~AtCapacity PROVE Cardinality(InFlight) < MaxInFlight
    BY <2>2, FS_CardinalityType, BoundsAssumption, SMTT(30) DEF AtCapacity, Bounded
  <2>3. pc' \in {"pop", "write"} => Cardinality(InFlight') < MaxInFlight
    BY <1>2, <2>1, <2>2, ShrunkBounded, BoundsAssumption, SMTT(30) DEF Bounded
  <2> QED BY <1>2, <2>3, ShrunkBounded, Zenon DEF Bounded
<1> QED BY <1>1, <1>2, StepShrinks, Zenon

\* A new client has nothing in flight, and no step exceeds the limit.
LEMMA BoundedInvariant == Spec => []Bounded
<1>1. Init => Bounded
  BY EmptyMap, FS_EmptySet, BoundsAssumption, SMTT(30) DEF Init, InFlight, Bounded, InFlightBounded
<1>2. TypeOK /\ Inv /\ Bounded /\ [Next]_vars => Bounded'
  BY BoundedStep, Zenon
<1> QED BY <1>1, <1>2, Inductive, PTL DEF Spec

\* Config::max_in_flight_requests is never exceeded, though it is checked when
\* a request is about to be popped and the request is inserted later.
THEOREM InFlightLimitKept == Spec => []InFlightBounded
<1>1. Bounded => InFlightBounded
  BY Zenon DEF Bounded
<1> QED BY <1>1, BoundedInvariant, PTL

\* The dispatch never sleeps through an event: when it sleeps there is nothing
\* to read, nothing it could take from a queue and write, no deadline to
\* enforce and no handle gone unnoticed, also where poll_next_request returns
\* Pending without scheduling a wakeup.  The limit must be at least one: with
\* max_in_flight_requests = 0 the request queue is never polled, and its end
\* never seen.
THEOREM NoWakeupLost ==
  ASSUME MaxInFlight > 0
  PROVE Spec => []NoLostWakeup
<1>1. Init => WakeInv
  BY SMTT(30) DEF Init, WakeInv, Polls, Unpolled
<1>2. TypeOK /\ Inv /\ Outcomes /\ WakeInv /\ [Next]_vars => WakeInv'
  BY StepWakes, FS_EmptySet, Zenon DEF Counts
<1>3. TypeOK /\ Inv /\ Outcomes /\ Bounded /\ WakeInv => NoLostWakeup
  <2> SUFFICES ASSUME TypeOK, Inv, Outcomes, Bounded, WakeInv, pc = "parked", ~woken
               PROVE NoLostWakeup
    BY Zenon DEF NoLostWakeup
  <2>1. Cardinality(InFlight) \in Nat
    BY FS_CardinalityType, Zenon DEF Bounded
  <2> QED BY <2>1, AsleepArmed, Zenon
<1> QED BY <1>1, <1>2, <1>3, OutcomesInvariant, BoundedInvariant, PTL DEF Spec
=============================================================================
