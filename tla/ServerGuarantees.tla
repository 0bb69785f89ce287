-------------------------- MODULE ServerGuarantees --------------------------
(***************************************************************************)
(* Proofs about Server, last part, on top of its invariant: no wakeup of the*)
(* channel task is lost; and of a peer that uses each request id once, as  *)
(* the protocol asks ("Uniquely identifies the request across all requests *)
(* sent over a single channel"), every handler is tracked until it is      *)
(* answered or aborted.                                                    *)
(***************************************************************************)
EXTENDS ServerProofs

-----------------------------------------------------------------------------
(* Wakers: what the channel task relies on while nothing has woken it      *)

\* A poll that found nothing has left the task's waker behind.
CancelsArmed == canceled_requests = << >> /\ "cancels" \in registered
TimerArmed ==
  /\ \A t \in deadlines : t[2] \notin late
  /\ deadlines = {} \/ "timer" \in registered
ReadArmed == inbound = << >> /\ net # "broken" /\ (net = "up" => "read" \in registered)
WriteArmed == stalled /\ "write" \in registered
ResponsesArmed == pending_responses = << >> /\ "responses" \in registered

\* MaxRequests polled the sink alone; or the channel below it was polled to
\* its end, and if that was the end of the stream then it is kept open by a
\* request, or the sink.
Blocked == OverLimit /\ Full /\ WriteArmed
KeptOpen ==
  \/ InFlight # {} \/ WriteArmed
  \/ polled.read = "none" /\ pc \in {"ready", "pop", "flush"}
  \/ polled.write = "none" /\ pc = "decide"
Drained == CancelsArmed /\ TimerArmed /\ ReadArmed /\ (net = "eof" => KeptOpen)

\* The rest of this poll, up to its return, has nothing to hand on.
Returning(points) == pc \in points /\ yielded = "none" /\ polled.write # "some"

Armed ==
  /\ pc \in {"expire", "read"} /\ polled.cancels = "closed" => CancelsArmed
  /\ pc = "read" /\ polled.expired # "ready" => TimerArmed
  /\ Returning({"ready", "pop", "flush", "decide", "parked"}) => Blocked \/ Drained
  /\ Returning({"flush", "decide", "parked"}) => ResponsesArmed \/ (Full /\ WriteArmed)
  /\ Returning({"decide", "parked"}) => sink = << >> \/ WriteArmed

Statuses ==
  /\ polled.write = "none" => polled.read = "none"
  /\ pc = "read" => (polled.expired = "pending" => deadlines # {})

WakeInv == Statuses /\ (~woken => Armed)

\* While the task is not woken no event has taken its waker.
LEMMA WakerKept ==
  ASSUME ~woken'
  PROVE /\ \A src : Notify(src) =>
             ~woken /\ registered' = registered /\ registered \cap src = {}
        /\ \A src : Register(src) => ~woken /\ registered' = registered \cup {src}
        /\ UNCHANGED wakeVars => ~woken /\ registered' = registered
<1>1. ASSUME NEW src, Notify(src)
      PROVE ~woken /\ registered' = registered /\ registered \cap src = {}
  <2>1. ~woken /\ registered \cap src = {}
    BY <1>1, Zenon DEF Notify
  <2>2. registered' = registered \ src
    BY <1>1, Zenon DEF Notify
  <2> QED BY <2>1, <2>2, Zenon
<1>2. ASSUME NEW src, Register(src) PROVE ~woken /\ registered' = registered \cup {src}
  BY <1>2, Zenon DEF Register
<1>3. ASSUME UNCHANGED wakeVars PROVE ~woken /\ registered' = registered
  BY <1>3, Zenon DEF wakeVars
<1> QED BY <1>1, <1>2, <1>3, Zenon

\* A step of a handler or of the environment: the task goes on to rely on the
\* wakers it has left.
LEMMA ArmedKept ==
  ASSUME UNCHANGED <<runVars, mapVars, sinkVars>>, WakeInv, woken' \/ ~woken,
         ~woken' => /\ CancelsArmed => CancelsArmed'
                    /\ TimerArmed => TimerArmed'
                    /\ ReadArmed => ReadArmed' /\ UNCHANGED net
                    /\ WriteArmed => WriteArmed'
                    /\ ResponsesArmed => ResponsesArmed'
  PROVE WakeInv'
<1> USE DEF runVars, mapVars, sinkVars
<1>1. Statuses'
  BY Zenon DEF WakeInv, Statuses
<1>2. ASSUME ~woken' PROVE Armed'
  <2>1. Armed
    BY <1>2, Zenon DEF WakeInv
  <2>2. OverLimit' = OverLimit /\ Full' = Full /\ UNCHANGED InFlight
    BY Zenon DEF OverLimit, Full, InFlight
  <2>3. KeptOpen => KeptOpen'
    BY <1>2, <2>2, Zenon DEF KeptOpen
  <2> QED BY <1>2, <2>1, <2>2, <2>3, Zenon DEF Armed, Blocked, Drained, Returning
<1> QED BY <1>1, <1>2, Zenon DEF WakeInv

\* A handler: what it queues wakes the task that found the queue empty.
LEMMA HandlerWakes ==
  ASSUME WakeInv, NEW c \in Callers, Handler(c)
  PROVE WakeInv'
<1> USE DEF queueVars, mapVars, runVars, sinkVars, netVars
<1>1. UNCHANGED <<mapVars, runVars, sinkVars, netVars>>
  BY Zenon DEF Handler, Execute, Serve, SendResponse, Abort, DropHandler
<1>2. ~woken' => /\ ~woken /\ registered' = registered
                 /\ UNCHANGED pending_responses \/ "responses" \notin registered
                 /\ UNCHANGED canceled_requests \/ "cancels" \notin registered
  BY WakerKept, Zenon
     DEF Handler, Execute, Serve, SendResponse, Abort, DropHandler, cancel,
                   wakeVars
<1> QED BY <1>1, <1>2, ArmedKept, Zenon
           DEF CancelsArmed, TimerArmed, ReadArmed, WriteArmed,
                                     ResponsesArmed

\* The peer, the clock and the network: a message, a deadline that passes and
\* a network that drains, ends or breaks wake the task that waits for them.
LEMMA EnvironmentWakes ==
  ASSUME WakeInv,
         \/ \E c \in Callers : SendRequest(c) \/ SendCancel(c) \/ Late(c)
         \/ Stall \/ Unstall \/ Eof \/ Break \/ UNCHANGED vars
  PROVE WakeInv'
<1> USE DEF taskVars, queueVars, mapVars, runVars, wakeVars, sinkVars, netVars
<1> USE DEF CancelsArmed, TimerArmed, ReadArmed, WriteArmed, ResponsesArmed
<1>1. ASSUME NEW c \in Callers, SendRequest(c) \/ SendCancel(c) PROVE WakeInv'
  <2>1. /\ UNCHANGED <<queueVars, mapVars, runVars, sinkVars, net, stalled, late>>
        /\ net = "up" /\ Notify({"read"})
    BY <1>1, Zenon DEF SendRequest, SendCancel
  <2> QED BY <2>1, WakerKept, ArmedKept, Zenon
<1>2. ASSUME NEW c \in Callers, Late(c) PROVE WakeInv'
  <2>1. /\ UNCHANGED <<queueVars, mapVars, runVars, sinkVars, net, stalled, inbound>>
        /\ late' = late \cup {c}
        /\ IF \E t \in deadlines : t[2] = c THEN Notify({"timer"}) ELSE UNCHANGED wakeVars
    BY <1>2, Zenon DEF Late
  <2> QED BY <2>1, WakerKept, ArmedKept, Zenon
<1>3. CASE Stall
  <2>1. /\ UNCHANGED <<queueVars, mapVars, runVars, sinkVars, wakeVars, net, late, inbound>>
        /\ stalled' = TRUE
    BY <1>3, Zenon DEF Stall
  <2> QED BY <2>1, WakerKept, ArmedKept, Zenon
<1>4. CASE Unstall
  <2>1. /\ UNCHANGED <<queueVars, mapVars, runVars, sinkVars, net, late, inbound>>
        /\ Notify({"write"})
    BY <1>4, Zenon DEF Unstall
  <2> QED BY <2>1, WakerKept, ArmedKept, Zenon
<1>5. CASE Eof \/ Break
  <2>1. /\ UNCHANGED <<queueVars, mapVars, runVars, sinkVars, stalled, late, inbound>>
        /\ net = "up" /\ Notify({"read", "write"})
    BY <1>5, Zenon DEF Eof, Break, Disconnect
  <2> QED BY <2>1, WakerKept, ArmedKept, SMTT(30)
<1>6. CASE UNCHANGED vars
  BY <1>6, WakerKept, ArmedKept, Zenon DEF vars
<1> QED BY <1>1, <1>2, <1>3, <1>4, <1>5, <1>6, Zenon

\* The poll goes on and relies on nothing: it is at its beginning, has a
\* request to hand on or has sent a response, or the stream is over.
LEMMA BusyWakes ==
  ASSUME TypeOK, Inv, WakeInv,
         \/ Poll \/ CheckLimitError \/ ReadDuplicate \/ ReadRequest \/ ReadThrottled
         \/ ReadCancel \/ ReadError \/ WriteResponse \/ WriteError \/ EndStream \/ Yield
         \/ Stop
  PROVE WakeInv'
<1> USE DEF taskVars, queueVars, mapVars, wakeVars, sinkVars, netVars
<1>1. CASE Poll
  <2>1. pc' = "limit" /\ UNCHANGED polled
    BY <1>1, Zenon DEF Poll
  <2> QED BY <2>1, Zenon DEF WakeInv, Statuses, Armed, Returning
<1>2. CASE CheckLimitError \/ ReadError \/ WriteError \/ EndStream \/ Stop
  <2>1. pc' = "ended" /\ polled'.write = "pending"
    BY <1>2, SMTT(30)
    DEF CheckLimitError, ReadError, WriteError, EndStream, Stop, Fail, Drop, Unpolled
  <2> QED BY <2>1, ZenonT(40) DEF WakeInv, Statuses, Armed, Returning
<1>3. CASE ReadDuplicate \/ ReadCancel
  <2>1. pc' = "cancels" /\ UNCHANGED polled
    BY <1>3, Zenon DEF ReadDuplicate, ReadCancel
  <2> QED BY <2>1, Zenon DEF WakeInv, Statuses, Armed, Returning
<1>4. CASE ReadRequest
  <2>1. pc' = "ready" /\ yielded' \in Callers /\ polled'.write = "pending"
    BY <1>4, RequestRead, Zenon DEF ReadRequest, Reads, Inv, Phases, TypeOK
  <2> QED BY <2>1, NamesAssumption, Zenon DEF WakeInv, Statuses, Armed, Returning
<1>5. CASE ReadThrottled
  <2>1. \/ pc' = "limit" /\ UNCHANGED polled
        \/ pc' = "ended" /\ polled'.write = "pending"
    <3>1. \A t : Drop("error", InFlight, t) => pc' = "ended" /\ polled'.write = "pending"
      BY SMTT(30) DEF Drop, Unpolled
    <3> QED BY <1>5, <3>1, Zenon DEF ReadThrottled
  <2> QED BY <2>1, Zenon DEF WakeInv, Statuses, Armed, Returning
<1>6. CASE WriteResponse
  <2>1. \/ pc' = "decide" /\ polled'.write = "some"
        \/ pc' = "ended" /\ polled'.write = "pending"
    BY <1>6, SMTT(30) DEF WriteResponse, Fail, Drop, Unpolled, TypeOK
  <2> QED BY <2>1, Zenon DEF WakeInv, Statuses, Armed, Returning
<1>7. CASE Yield
  <2>1. pc' = "limit" /\ polled'.write = "pending"
    BY <1>7, Zenon DEF Yield, Unpolled
  <2> QED BY <2>1, Zenon DEF WakeInv, Statuses, Armed, Returning
<1> QED BY <1>1, <1>2, <1>3, <1>4, <1>5, <1>6, <1>7, Zenon

\* The polls of the channel below MaxRequests.
LEMMA PollWakes ==
  ASSUME TypeOK, Inv, WakeInv, PollCanceled \/ PollExpired \/ ReadNothing
  PROVE WakeInv'
<1> USE DEF taskVars, queueVars, mapVars, sinkVars, netVars
<1>1. CASE PollCanceled
  <2>1. /\ pc' = "expire" /\ polled'.write = polled.write /\ polled'.read = polled.read
        /\ \/ polled'.cancels = "ready"
           \/ canceled_requests' = << >> /\ Register("cancels")
    BY <1>1, Zenon DEF PollCanceled, TypeOK
  <2>2. Statuses'
    BY <2>1, Zenon DEF WakeInv, Statuses
  <2>3. ASSUME ~woken', polled'.cancels = "closed" PROVE CancelsArmed'
    BY <2>1, <2>3, WakerKept, Zenon DEF CancelsArmed
  <2> QED BY <2>1, <2>2, <2>3, Zenon DEF WakeInv, Armed, Returning
<1>2. CASE PollExpired
  <2>1. /\ pc = "expire" /\ pc' = "read" /\ UNCHANGED <<canceled_requests, late>>
        /\ polled'.write = polled.write /\ polled'.read = polled.read
        /\ polled'.cancels = polled.cancels
    BY <1>2, Zenon DEF PollExpired, TypeOK
  <2>2. \/ polled'.expired = "ready" /\ UNCHANGED wakeVars
        \/ /\ \A t \in deadlines : t[2] \notin late
           /\ deadlines' = deadlines
           /\ IF deadlines = {} THEN UNCHANGED wakeVars ELSE Register("timer")
           /\ polled'.expired = IF deadlines = {} THEN "closed" ELSE "pending"
    BY <1>2, Zenon DEF PollExpired, TypeOK
  <2>3. Statuses'
    BY <2>1, <2>2, Zenon DEF WakeInv, Statuses
  <2>4. ASSUME ~woken' PROVE ~woken /\ registered \subseteq registered'
    BY <2>2, <2>4, WakerKept, Zenon
  <2>5. ASSUME ~woken', polled'.cancels = "closed" PROVE CancelsArmed'
    BY <2>1, <2>4, <2>5, Zenon DEF WakeInv, Armed, CancelsArmed
  <2>6. ASSUME ~woken', polled'.expired # "ready" PROVE TimerArmed'
    BY <2>1, <2>2, <2>6, WakerKept, SMTT(30) DEF TimerArmed
  <2> QED BY <2>1, <2>3, <2>5, <2>6, Zenon DEF WakeInv, Armed, Returning
<1>3. CASE ReadNothing
  <2>1. /\ pc = "read" /\ inbound = << >> /\ net \in {"up", "eof"}
        /\ UNCHANGED <<queueVars, mapVars, throttling, yielded, cause, sinkVars, netVars>>
        /\ IF net = "up" THEN Register("read") ELSE UNCHANGED wakeVars
        /\ polled.write = "pending"
    BY <1>3, Zenon DEF ReadNothing, Inv, Phases
  <2>2. CASE pc' = "cancels" /\ UNCHANGED polled
    BY <2>2, Zenon DEF WakeInv, Statuses, Armed, Returning
  <2>3. CASE /\ polled.cancels # "ready" /\ polled.expired # "ready" /\ pc' = "ready"
             /\ polled'.write = "pending"
             /\ net = "eof" /\ polled.expired = "closed" => polled'.read = "none"
    <3>1. Statuses'
      BY <2>3, Zenon DEF Statuses
    <3>2. ASSUME ~woken' PROVE Drained'
      <4>1. /\ ~woken /\ registered \subseteq registered'
            /\ net = "up" => "read" \in registered'
        BY <2>1, <3>2, WakerKept, SMTT(30)
      <4>2. CancelsArmed /\ TimerArmed
        BY <2>1, <2>3, <4>1, Zenon DEF WakeInv, Armed, TypeOK
      <4>3. CancelsArmed' /\ TimerArmed' /\ ReadArmed'
        BY <2>1, <4>1, <4>2, Zenon DEF CancelsArmed, TimerArmed, ReadArmed
      <4>4. net' = "eof" => KeptOpen'
        <5>1. polled.expired = "pending" => InFlight' # {}
          BY <2>1, Zenon DEF WakeInv, Statuses, Inv, NoOrphan, InFlight
        <5> QED BY <2>1, <2>3, <5>1, Zenon DEF KeptOpen, TypeOK
      <4> QED BY <4>3, <4>4, Zenon DEF Drained
    <3> QED BY <2>3, <3>1, <3>2, Zenon DEF WakeInv, Armed, Returning
  <2>4. \/ pc' = "cancels" /\ UNCHANGED polled
        \/ /\ polled.cancels # "ready" /\ polled.expired # "ready" /\ pc' = "ready"
           /\ polled'.write = polled.write
           /\ net = "eof" /\ polled.expired = "closed" => polled'.read = "none"
    BY <1>3, Zenon DEF ReadNothing, Combined, TypeOK
  <2> QED BY <2>1, <2>2, <2>3, <2>4, Zenon
<1> QED BY <1>1, <1>2, <1>3, Zenon

\* MaxRequests' poll_ready, and the write half of Requests::poll_next, up to
\* the return of Pending.
LEMMA WriteWakes ==
  ASSUME TypeOK, Inv, WakeInv,
         CheckLimit \/ EnsureWriteable \/ NoResponse \/ FlushResponses \/ LoopOrPark
  PROVE WakeInv'
<1> USE DEF taskVars, queueVars, mapVars, sinkVars, netVars
<1>1. /\ UNCHANGED <<pending_responses, canceled_requests, deadlines, late, inbound, net,
                     stalled, yielded>>
      /\ UNCHANGED InFlight
      /\ UNCHANGED wakeVars \/ \E src \in Sources : Register(src)
  BY Zenon
     DEF CheckLimit, EnsureWriteable, NoResponse, FlushResponses, LoopOrPark, Sources,
         InFlight
<1>2. ASSUME ~woken'
      PROVE /\ ~woken /\ registered \subseteq registered'
            /\ CancelsArmed => CancelsArmed'
            /\ TimerArmed => TimerArmed'
            /\ ReadArmed => ReadArmed'
            /\ WriteArmed => WriteArmed'
            /\ ResponsesArmed => ResponsesArmed'
  BY <1>1, <1>2, WakerKept, Zenon DEF CancelsArmed, TimerArmed, ReadArmed, WriteArmed,
                               ResponsesArmed
<1>3. /\ OverLimit' = OverLimit /\ (UNCHANGED sink => Full' = Full)
      /\ Full => sink # << >>
  BY <1>1, BoundsAssumption, EmptyQueue, SMTT(30) DEF OverLimit, Full
<1>4. \A src : Register(src) /\ ~woken' => registered' = registered \cup {src}
  BY WakerKept, Zenon
<1>5. CASE CheckLimit
  <2>1. /\ polled.write = "pending" /\ UNCHANGED polled
        /\ \/ pc' = "cancels"
           \/ /\ pc' = "ready" /\ OverLimit /\ Full /\ stalled /\ UNCHANGED sink
              /\ Register("write")
    BY <1>5, Zenon DEF CheckLimit, Inv, Phases, TypeOK
  <2>2. Statuses'
    BY <2>1, Zenon DEF Statuses
  <2>3. ASSUME ~woken', pc' = "ready" PROVE Blocked'
    BY <1>1, <1>3, <1>4, <2>1, <2>3, SMTT(30) DEF Blocked, WriteArmed
  <2> QED BY <2>1, <2>2, <2>3, Zenon DEF WakeInv, Armed, Returning
<1>6. CASE EnsureWriteable
  <2>1. /\ pc = "ready" /\ polled.write = "pending" /\ UNCHANGED polled
        /\ \/ /\ pc' = "flush" /\ Full /\ stalled /\ UNCHANGED sink /\ Register("write")
           \/ pc' = "pop" /\ ~(Full /\ stalled)
    BY <1>6, Zenon DEF EnsureWriteable, Inv, Phases, TypeOK
  <2>2. Statuses'
    BY <2>1, Zenon DEF Statuses
  <2>3. ASSUME ~woken', yielded = "none"
        PROVE /\ Blocked' \/ Drained'
              /\ pc' = "flush" => Full' /\ WriteArmed'
    <3>1. Blocked \/ Drained
      BY <1>2, <2>1, <2>3, Zenon DEF WakeInv, Armed, Returning
    <3>2. Blocked => Blocked'
      BY <1>2, <1>3, <2>1, <2>3, Zenon DEF Blocked, WriteArmed
    <3>3. Drained => Drained'
      BY <1>1, <1>2, <2>1, <2>3, Zenon DEF Drained, KeptOpen
    <3>4. pc' = "flush" => Full' /\ WriteArmed'
      BY <1>1, <1>3, <1>4, <2>1, <2>3, SMTT(30) DEF WriteArmed
    <3> QED BY <3>1, <3>2, <3>3, <3>4, Zenon
  <2> QED BY <1>1, <2>1, <2>2, <2>3, Zenon DEF WakeInv, Armed, Returning
<1>7. CASE NoResponse
  <2>1. /\ pc = "pop" /\ pc' = "flush" /\ polled.write = "pending" /\ UNCHANGED polled
        /\ pending_responses = << >> /\ Register("responses") /\ UNCHANGED sink
    BY <1>7, Zenon DEF NoResponse, Inv, Phases, TypeOK
  <2>2. Statuses'
    BY <2>1, Zenon DEF Statuses
  <2>3. ASSUME ~woken', yielded = "none"
        PROVE (Blocked' \/ Drained') /\ ResponsesArmed'
    <3>1. Blocked \/ Drained
      BY <1>2, <2>1, <2>3, Zenon DEF WakeInv, Armed, Returning
    <3>2. Blocked => Blocked'
      BY <1>2, <1>3, <2>1, <2>3, Zenon DEF Blocked
    <3>3. Drained => Drained'
      BY <1>1, <1>2, <2>1, <2>3, Zenon DEF Drained, KeptOpen
    <3>4. ResponsesArmed'
      BY <1>1, <1>4, <2>1, <2>3, Zenon DEF ResponsesArmed
    <3> QED BY <3>1, <3>2, <3>3, <3>4, Zenon
  <2> QED BY <1>1, <2>1, <2>2, <2>3, Zenon DEF WakeInv, Armed, Returning
<1>8. CASE FlushResponses
  <2>1. /\ pc = "flush" /\ pc' = "decide" /\ polled.write = "pending"
        /\ polled'.read = polled.read
        /\ \/ /\ CanFlush /\ sink' = << >>
              /\ polled'.write = IF polled.read = "none" /\ InFlight = {}
                                 THEN "none" ELSE "pending"
           \/ /\ ~CanFlush /\ UNCHANGED <<sink, polled>> /\ Register("write")
    BY <1>8, Zenon DEF FlushResponses, Flush, Inv, Phases, TypeOK
  <2>2. Statuses'
    BY <2>1, Zenon DEF Statuses
  <2>3. ASSUME ~woken', yielded = "none"
        PROVE /\ Blocked' \/ Drained'
              /\ ResponsesArmed' \/ (Full' /\ WriteArmed')
              /\ sink' = << >> \/ WriteArmed'
    <3>1. Blocked \/ Drained
      BY <1>2, <2>1, <2>3, Zenon DEF WakeInv, Armed, Returning
    <3>2. ResponsesArmed \/ (Full /\ WriteArmed)
      BY <1>2, <2>1, <2>3, Zenon DEF WakeInv, Armed, Returning
    <3>3. CASE CanFlush
      <4>1. ~(Full /\ WriteArmed)
        BY <1>3, <3>3, Zenon DEF CanFlush, WriteArmed
      <4>2. Drained /\ ResponsesArmed /\ sink' = << >>
        BY <2>1, <3>1, <3>2, <3>3, <4>1, Zenon DEF Blocked
      <4>3. KeptOpen => KeptOpen'
        BY <1>1, <1>2, <2>1, <2>3, <3>3, Zenon DEF KeptOpen
      <4> QED BY <1>1, <1>2, <2>3, <4>2, <4>3, Zenon DEF Drained
    <3>4. CASE ~CanFlush
      <4>1. UNCHANGED <<sink, polled>> /\ Register("write") /\ stalled
        BY <2>1, <3>4, Zenon DEF CanFlush
      <4>2. WriteArmed'
        BY <1>1, <1>4, <2>3, <4>1, Zenon DEF WriteArmed
      <4>3. KeptOpen'
        BY <4>2, Zenon DEF KeptOpen
      <4> QED BY <1>1, <1>2, <1>3, <2>3, <3>1, <3>2, <4>1, <4>2, <4>3, SMTT(30) DEF Blocked, Drained
    <3> QED BY <3>3, <3>4, Zenon
  <2> QED BY <1>1, <2>1, <2>2, <2>3, Zenon DEF WakeInv, Armed, Returning
<1>9. CASE LoopOrPark
  <2>1. /\ pc = "decide" /\ pc' = IF polled.write = "some" THEN "limit" ELSE "parked"
        /\ ~(polled.read = "none" /\ polled.write = "none")
        /\ polled'.write = "pending" /\ UNCHANGED <<sink, wakeVars>>
    BY <1>9, Zenon DEF LoopOrPark, Unpolled
  <2>2. Statuses'
    BY <2>1, Zenon DEF Statuses
  <2>3. ASSUME ~woken', yielded = "none", pc' = "parked"
        PROVE /\ Blocked' \/ Drained'
              /\ ResponsesArmed' \/ (Full' /\ WriteArmed')
              /\ sink' = << >> \/ WriteArmed'
    <3>1. /\ Blocked \/ Drained
          /\ ResponsesArmed \/ (Full /\ WriteArmed)
          /\ sink = << >> \/ WriteArmed
      BY <1>2, <2>1, <2>3, Zenon DEF WakeInv, Armed, Returning
    <3>2. polled.write # "none"
      BY <2>1, Zenon DEF WakeInv, Statuses
    <3>3. Drained => Drained'
      BY <1>1, <1>2, <2>1, <2>3, <3>2, Zenon DEF Drained, KeptOpen
    <3> QED BY <1>1, <1>2, <1>3, <2>1, <2>3, <3>1, <3>3, Zenon DEF Blocked
  <2> QED BY <1>1, <2>1, <2>2, <2>3, Zenon DEF WakeInv, Armed, Returning
<1> QED BY <1>5, <1>6, <1>7, <1>8, <1>9, Zenon

\* Every step keeps it.
LEMMA StepWakes ==
  ASSUME TypeOK, Inv, WakeInv, [Next]_vars
  PROVE WakeInv'
BY HandlerWakes, EnvironmentWakes, BusyWakes, PollWakes, WriteWakes, Zenon
   DEF Next, ChannelTask, Terminated

\* The channel task never sleeps through an event: when it sleeps there is no
\* message to read, no cancellation or response to take and no deadline to
\* enforce, except that at its limit, behind a full sink, it waits for the sink.
THEOREM NoWakeupLost == Spec => []NoLostWakeup
<1>1. Init => WakeInv
  BY SMTT(30) DEF Init, WakeInv, Statuses, Unpolled
<1>2. TypeOK /\ Inv /\ WakeInv /\ [Next]_vars => WakeInv'
  BY StepWakes, Zenon
<1>3. TypeOK /\ Inv /\ WakeInv => NoLostWakeup
  <2> SUFFICES ASSUME TypeOK, Inv, WakeInv, pc = "parked", ~woken
               PROVE NoLostWakeup
    BY Zenon DEF NoLostWakeup
  <2>1. yielded = "none" /\ polled.write = "pending"
    BY Zenon DEF Inv, Phases
  <2>2. /\ Blocked \/ Drained
        /\ ResponsesArmed \/ (Full /\ WriteArmed)
        /\ sink = << >> \/ WriteArmed
    BY <2>1, Zenon DEF WakeInv, Armed, Returning
  <2>3. (sink # << >> => stalled) /\ (pending_responses # << >> => Full)
    BY <2>2, Zenon DEF ResponsesArmed, WriteArmed
  <2>4. CASE Blocked
    BY <2>3, <2>4, Zenon DEF Blocked, Backpressure, WriteArmed, NoLostWakeup
  <2>5. CASE Drained
    BY <2>3, <2>5, Zenon
       DEF Drained, CancelsArmed, TimerArmed, ReadArmed, KeptOpen, WriteArmed,
                      NoLostWakeup
  <2> QED BY <2>2, <2>4, <2>5, Zenon
<1> QED BY <1>1, <1>2, <1>3, ServerInvariant, PTL DEF Spec

-----------------------------------------------------------------------------
(* What holds of a peer that uses each id once                             *)

UniqueIds == "reuse" \notin Faults

IdsUnique ==
  \A c, d \in Callers : request_id[c] = request_id[d] /\ request_id[c] # NoId => c = d

\* Only a handler that is gone has its request removed without an abort.
Canceled ==
  \A i \in Range(canceled_requests) :
    \E c \in Callers : handler[c] = "dropped" /\ request_id[c] = i

\* A request is answered once, and an answered one is neither tracked nor
\* aborted.
Distinct == \A j, k \in 1..Len(Sent) : Sent[j].id = Sent[k].id => j = k
Answered ==
  /\ Distinct
  /\ \A r \in Range(Sent) : ~Tracked(r.reply) /\ r.reply \notin aborted

\* A handler is tracked, aborted, or has its response sent, unless the
\* connection failed under it.
Settled ==
  /\ yielded \in Callers => Tracked(yielded)
  /\ \A c \in Callers \ aborted :
       /\ handler[c] \in Live => Tracked(c)
       /\ handler[c] = "responded" /\ cause \in {"none", "closed"}
            => Tracked(c) \/ Response(c) \in Range(Sent)
       /\ handler[c] = "throttled" /\ cause \in {"none", "closed"}
            => Response(c) \in Range(Sent)
  /\ cause = "closed" => sink = << >>

UniqueInv == IdsUnique /\ Canceled /\ Answered /\ Settled

\* What was answered stays so: neither a request started later, nor an abort,
\* concerns it.
LEMMA AnsweredKept ==
  ASSUME Answered, Sent' = Sent,
         \A r \in Range(Sent) : Tracked(r.reply)' => Tracked(r.reply),
         \A r \in Range(Sent) :
           r.reply \in aborted' => r.reply \in aborted \/ Tracked(r.reply)
  PROVE Answered'
<1>1. Distinct'
  BY Zenon DEF Answered, Distinct
<1> QED BY <1>1, Zenon DEF Answered

\* Nothing changes for the requests and their handlers.
LEMMA QuietUnique ==
  ASSUME UniqueInv, UNCHANGED <<taskVars, mapVars, yielded, cause>>, Sent' = Sent,
         Range(canceled_requests') \subseteq Range(canceled_requests),
         cause = "closed" => UNCHANGED sink
  PROVE UniqueInv'
<1> USE DEF taskVars, mapVars
<1>1. \A c : Tracked(c)' = Tracked(c) /\ Response(c)' = Response(c)
  BY Zenon DEF InFlight, Tracked, Response
<1>2. Answered'
  BY Zenon DEF UniqueInv, Answered, Distinct, Tracked, InFlight
<1>3. IdsUnique' /\ Canceled'
  BY Zenon DEF UniqueInv, IdsUnique, Canceled
<1>4. Settled'
  BY <1>1, Zenon DEF UniqueInv, Settled
<1> QED BY <1>2, <1>3, <1>4, Zenon DEF UniqueInv

\* Every poll of the channel task that finds nothing, a duplicate, and the
\* steps of the network and the clock.
LEMMA QuietStepsUnique ==
  ASSUME TypeOK, Inv, UniqueInv,
         \/ Poll \/ CheckLimit \/ EnsureWriteable \/ NoResponse \/ FlushResponses
         \/ LoopOrPark \/ ReadNothing \/ ReadDuplicate
         \/ \E c \in Callers : SendCancel(c) \/ Late(c)
         \/ Stall \/ Unstall \/ Eof \/ Break \/ UNCHANGED vars
  PROVE UniqueInv'
<1> USE DEF taskVars, queueVars, mapVars, runVars, wakeVars, sinkVars, netVars
<1>1. /\ UNCHANGED <<taskVars, mapVars, yielded, cause, canceled_requests>>
      /\ UNCHANGED sinkVars \/ (Flush /\ pc # "ended")
  BY Zenon DEF Poll, CheckLimit, EnsureWriteable, NoResponse, FlushResponses, LoopOrPark,
         ReadNothing, ReadDuplicate, Reads, SendCancel, Late, Stall, Unstall, Eof, Break,
         Disconnect, vars
<1>2. Sent' = Sent /\ (cause = "closed" => UNCHANGED sink)
  BY <1>1, SentFlush, Zenon DEF Inv, Phases
<1> QED BY <1>1, <1>2, QuietUnique, Zenon

\* InFlightRequest::execute: as long as a handler lives it is tracked, and
\* when it responds it still is.
LEMMA HandlerUnique ==
  ASSUME TypeOK, Inv, UniqueInv, NEW c \in Callers, Handler(c)
  PROVE UniqueInv'
<1> USE DEF queueVars, mapVars, runVars, wakeVars, sinkVars, netVars
<1>1. PICK to \in Live \cup Ended : Move(c, to) /\ to # "throttled"
  BY Zenon DEF Handler, Execute, Serve, SendResponse, Abort, DropHandler, Live, Ended
<1>2. /\ handler[c] \in Live
      /\ UNCHANGED <<request_id, aborted, mapVars, runVars, sinkVars>>
  BY Zenon DEF Handler, Execute, Serve, SendResponse, Abort, DropHandler, Live
<1>3. /\ handler'[c] = to /\ \A x \in Callers \ {c} : handler'[x] = handler[x]
      /\ handler[c] \notin {"none", "dropped"}
  BY <1>1, <1>2, Zenon DEF TypeOK, Move, Live
<1>4. /\ \A x : Tracked(x)' = Tracked(x) /\ Response(x)' = Response(x)
      /\ Sent' = Sent
  BY <1>2, Zenon DEF InFlight, Tracked, Response, Sent
<1>5. IdsUnique'
  BY <1>2, Zenon DEF UniqueInv, IdsUnique
<1>6. Answered'
  BY <1>2, <1>4, AnsweredKept, Zenon DEF UniqueInv
<1>7. Settled'
  BY <1>1, <1>2, <1>3, <1>4, Zenon DEF UniqueInv, Settled
<1>8. Canceled'
  <2>1. \A i \in Range(canceled_requests') :
          i \in Range(canceled_requests) \/ (i = request_id[c] /\ to = "dropped")
    <3>1. CASE UNCHANGED canceled_requests
      BY <3>1, Zenon
    <3>2. CASE DropHandler(c) /\ canceled_requests' = Append(canceled_requests, request_id[c])
      <4>1. request_id[c] \in Ids /\ canceled_requests \in Seq(Ids)
        BY <1>2, Zenon DEF Inv, Labels, TypeOK, Live
      <4>2. Range(canceled_requests') = Range(canceled_requests) \cup {request_id[c]}
        BY <3>2, <4>1, AppendQueue, SMTT(30)
      <4>3. handler'[c] = "dropped"
        BY <3>2, Zenon DEF DropHandler, Move, TypeOK
      <4> QED BY <1>3, <4>2, <4>3, Zenon
    <3> QED BY <3>1, <3>2, Zenon
               DEF Handler, Execute, Serve, SendResponse, Abort, DropHandler, cancel
  <2> QED BY <1>2, <1>3, <2>1, SMTT(30) DEF UniqueInv, Canceled
<1> QED BY <1>5, <1>6, <1>7, <1>8, Zenon DEF UniqueInv

-----------------------------------------------------------------------------
(* Steps that take a request out of InFlightRequests                       *)

\* The request that leaves the map was answered, or its handler is aborted or
\* gone.
LEMMA UntrackUnique ==
  ASSUME TypeOK, Inv, UniqueInv, NEW i, Untracks({i}),
         UNCHANGED <<handler, request_id, yielded, cause>>, cause = "none",
         aborted \subseteq aborted',
         \A x \in Tasks({i}) :
           \/ x \in aborted' \/ handler[x] = "dropped"
           \/ handler[x] = "responded" /\ Response(x) \in Range(Sent'),
         yielded \notin Tasks({i}),
         Range(Sent) \subseteq Range(Sent'), Answered',
         Range(canceled_requests') \subseteq Range(canceled_requests)
  PROVE UniqueInv'
<1>1. /\ InFlight' = InFlight \ {i}
      /\ \A j \in InFlight' : request_data'[j] = request_data[j]
  BY Zenon DEF Untracks
<1>2. /\ \A x : Response(x)' = Response(x)
      /\ \A x : Tracked(x) => Tracked(x)' \/ x \in Tasks({i})
  BY <1>1, Zenon DEF Response, Tracked, Tasks
<1>3. IdsUnique' /\ Canceled'
  BY Zenon DEF UniqueInv, IdsUnique, Canceled
<1>4. Settled'
  <2>1. yielded \in Callers => Tracked(yielded)'
    BY <1>2, Zenon DEF UniqueInv, Settled
  <2>2. ASSUME NEW c \in Callers \ aborted'
        PROVE /\ handler[c] \in Live => Tracked(c)'
              /\ handler[c] = "responded" => Tracked(c)' \/ Response(c) \in Range(Sent')
              /\ handler[c] = "throttled" => Response(c) \in Range(Sent')
    BY <1>2, <2>2, Zenon DEF UniqueInv, Settled, Live
  <2> QED BY <1>2, <2>1, <2>2, Zenon DEF Settled
<1> QED BY <1>3, <1>4, Zenon DEF UniqueInv

\* A handler that is gone, a deadline that has passed and a request the client
\* gave up: there the handler is dropped, or it is aborted.
LEMMA RemovalsUnique ==
  ASSUME TypeOK, Inv, UniqueInv, PollCanceled \/ PollExpired \/ ReadCancel
  PROVE UniqueInv'
<1> USE DEF taskVars, queueVars, mapVars, wakeVars, sinkVars, netVars
<1>1. /\ UNCHANGED <<handler, request_id, yielded, cause>> /\ Sent' = Sent
      /\ pc \in {"cancels", "expire", "read"} /\ UNCHANGED sink
  BY Zenon DEF PollCanceled, PollExpired, ReadCancel, Reads, Sent
<1>2. yielded = "none" /\ cause = "none" /\ "none" \notin Callers
  BY <1>1, NamesAssumption, Zenon DEF Inv, Phases
<1>3. ASSUME NEW i, Untracks({i}), aborted \subseteq aborted',
             aborted' \subseteq aborted \cup Tasks({i}),
             \A x \in Tasks({i}) : x \in aborted' \/ handler[x] = "dropped",
             Range(canceled_requests') \subseteq Range(canceled_requests)
      PROVE UniqueInv'
  <2>1. Answered'
    <3>1. \A x : (Tracked(x)' => Tracked(x)) /\ (x \in Tasks({i}) => Tracked(x))
      BY <1>3, Zenon DEF Untracks, Tracked, Tasks
    <3> QED BY <1>1, <1>3, <3>1, AnsweredKept, Zenon DEF UniqueInv
  <2>2. yielded \notin Tasks({i})
    BY <1>2, SMTT(30) DEF Tasks, TypeOK
  <2> QED BY <1>1, <1>2, <1>3, <2>1, <2>2, UntrackUnique, Zenon
<1>4. CASE PollCanceled /\ canceled_requests # << >>
  <2>1. PICK i : i = Head(canceled_requests)
    BY Zenon
  <2>2. /\ canceled_requests' = Tail(canceled_requests) /\ canceled_requests \in Seq(Ids)
        /\ remove_request(i) /\ UNCHANGED aborted
    BY <1>4, <2>1, Zenon DEF PollCanceled, TypeOK
  <2>3. Range(canceled_requests) = Range(canceled_requests') \cup {i} /\ i \in Ids
    BY <1>4, <2>1, <2>2, TailQueue, SMTT(30)
  <2>4. Untracks({i})
    BY <2>2, Removals, Zenon DEF Inv
  <2>5. ASSUME NEW x \in Tasks({i}) PROVE handler[x] = "dropped"
    <3>1. x \in Callers /\ request_id[x] = i /\ i # NoId
      BY <2>3, <2>5, NamesAssumption, SMTT(30) DEF Tasks, Inv, Labels, TypeOK, NoId
    <3>2. PICK c \in Callers : handler[c] = "dropped" /\ request_id[c] = i
      BY <2>3, Zenon DEF UniqueInv, Canceled
    <3> QED BY <3>1, <3>2, ZenonT(40) DEF UniqueInv, IdsUnique
  <2> QED BY <1>3, <2>2, <2>3, <2>4, <2>5, Zenon
<1>5. CASE \E t \in deadlines : PollExpired /\ expire(t)
  <2>1. PICK t \in deadlines : PollExpired /\ expire(t)
    BY <1>5, Zenon
  <2>2. PICK i : i = t[1]
    BY Zenon
  <2>3. /\ Untracks({i}) /\ aborted' = aborted \cup Tasks({i})
        /\ UNCHANGED canceled_requests
    BY <2>1, <2>2, Expirations, Zenon DEF Inv, PollExpired
  <2> QED BY <1>3, <2>3, Zenon
<1>6. CASE ReadCancel
  <2>1. PICK i : i = Head(inbound).id
    BY Zenon
  <2>2. /\ Untracks({i}) /\ aborted' = aborted \cup Tasks({i})
        /\ UNCHANGED canceled_requests
    BY <1>6, <2>1, Removals, Zenon DEF ReadCancel, Inv
  <2> QED BY <1>3, <2>2, Zenon
<1>7. CASE UNCHANGED <<taskVars, queueVars, mapVars>>
  BY <1>1, <1>7, QuietUnique, Zenon
<1> QED BY <1>4, <1>5, <1>6, <1>7, Zenon DEF PollCanceled, PollExpired

\* A new response joins those that were sent, if none has its id.
LEMMA DistinctGrows ==
  ASSUME TypeOK, Distinct, NEW m \in Replies, transport_send(m),
         \A r \in Range(Sent) : r.id # m.id
  PROVE Distinct'
<1>1. PICK s \in Seq(Replies) : s = Sent /\ Sent' = Append(s, m)
  BY SentGrows, Zenon
<1>2. /\ Len(s) \in Nat /\ Len(Append(s, m)) = Len(s) + 1
      /\ \A k \in 1..Len(s) : Append(s, m)[k] = s[k] /\ s[k] \in Range(s)
      /\ Append(s, m)[Len(s) + 1] = m
  BY AppendQueue, Elements, SMTT(30)
<1>3. \A l \in 1..(Len(s) + 1) : l \in 1..Len(s) \/ l = Len(s) + 1
  BY <1>2, SMTT(30)
<1>4. \A j, k \in 1..Len(s) : s[j].id = s[k].id => j = k
  BY <1>1, Zenon DEF Distinct
<1>5. \A j, k \in 1..(Len(s) + 1) : Append(s, m)[j].id = Append(s, m)[k].id => j = k
  BY <1>1, <1>2, <1>3, <1>4, SMTT(30)
<1> QED BY <1>1, <1>2, <1>5, Zenon DEF Distinct

\* start_send: a response is sent only for a request that is tracked, which
\* with unique ids is its own.
LEMMA WriteResponseUnique ==
  ASSUME TypeOK, Inv, UniqueInv, NEW response, response = Head(pending_responses),
         pc = "pop", pending_responses # << >>,
         remove_request(response.id),
         IF sends(response.id) THEN transport_send(response) ELSE UNCHANGED sinkVars,
         UNCHANGED <<taskVars, canceled_requests, throttling, yielded, cause, wakeVars>>
  PROVE UniqueInv'
<1> USE DEF taskVars, wakeVars, sinkVars
<1>1. response \in Range(pending_responses) /\ response \in Replies
  <2>1. pending_responses \in Seq(Replies)
    BY Zenon DEF TypeOK
  <2> QED BY <2>1, TailQueue, Zenon
<1>2. PICK c \in Callers : /\ c = response.reply /\ response = Response(c)
                           /\ handler[c] = "responded"
  BY <1>1, Named, Zenon DEF Inv, Labels
<1>3. PICK i : i = response.id /\ i = request_id[c] /\ i # NoId
  BY <1>2, SMTT(30) DEF Response, Inv, Labels
<1>4. Untracks({i}) /\ cause = "none"
  BY <1>3, Removals, Zenon DEF Inv, Phases
<1>5. \A x \in Tasks({i}) : x = c /\ Tracked(c)
  BY <1>3, SMTT(30) DEF Tasks, Tracked, Inv, Labels, TypeOK, UniqueInv, IdsUnique
<1>6. \A x : Tracked(x)' => Tracked(x)
  BY <1>4, Zenon DEF Untracks, Tracked
<1>7. CASE i \in InFlight
  <2>1. /\ transport_send(response) /\ request_data[i] = c /\ Tracked(c)
    BY <1>3, <1>5, <1>7, Zenon DEF sends, Tasks
  <2>2. /\ Range(Sent') = Range(Sent) \cup {response}
    BY <1>1, <2>1, SentGrows, Zenon
  <2>3. \A r \in Range(Sent) : r.id # response.id
    <3> SUFFICES ASSUME NEW r \in Range(Sent), r.id = i PROVE FALSE
      BY <1>3, Zenon
    <3>1. PICK x \in Callers : x = r.reply /\ request_id[x] = i
      BY Named, SMTT(30) DEF Inv, Labels, Response
    <3>2. x = c
      BY <1>3, <3>1, Zenon DEF UniqueInv, IdsUnique
    <3> QED BY <2>1, <3>1, <3>2, Zenon DEF UniqueInv, Answered
  <2>4. Distinct'
    BY <1>1, <2>1, <2>3, DistinctGrows, Zenon DEF UniqueInv, Answered
  <2>5. ~Tracked(c)' /\ c \notin aborted
    <3>1. \A j \in InFlight : request_data[j] = c => j = i
      BY <1>3, Zenon DEF Inv, Labels
    <3> QED BY <1>4, <2>1, <3>1, Zenon DEF Untracks, Tracked, Inv, Positions
  <2>6. Answered'
    BY <1>2, <1>6, <2>2, <2>4, <2>5, Zenon DEF UniqueInv, Answered
  <2>7. yielded # c
    BY <1>2, Zenon DEF Inv, Positions
  <2> QED BY <1>2, <1>4, <1>5, <2>2, <2>6, <2>7, UntrackUnique, Zenon
<1>8. CASE i \notin InFlight
  <2>1. UNCHANGED <<mapVars, sinkVars>>
    BY <1>3, <1>8, Zenon DEF sends, remove_request
  <2> QED BY <2>1, QuietUnique, Zenon DEF Sent
<1> QED BY <1>7, <1>8, Zenon

-----------------------------------------------------------------------------
(* Requests that come in, and the end of the stream                        *)

\* start_request tracks the request that the application will get.
LEMMA ReadRequestUnique ==
  ASSUME TypeOK, Inv, UniqueInv, ReadRequest
  PROVE UniqueInv'
<1> USE DEF taskVars, queueVars, wakeVars, sinkVars
<1>1. PICK c \in Callers, i \in Ids :
        /\ c = Head(inbound).call /\ i = Head(inbound).id
        /\ \A r \in Range(Sent) : r.reply # c
  BY HeadRequest, Zenon DEF ReadRequest
<1>2. /\ i \notin InFlight /\ Start(i, c) /\ yielded' = c
      /\ UNCHANGED <<handler, request_id, aborted, canceled_requests, cause, sink, wire>>
  BY <1>1, Zenon DEF ReadRequest
<1>3. /\ \A x : Tracked(x)' <=> Tracked(x) \/ x = c
      /\ \A x : Response(x)' = Response(x)
      /\ Sent' = Sent
  BY <1>2, Starts, Zenon DEF Tracked, Response, Sent
<1>4. Answered'
  BY <1>1, <1>2, <1>3, AnsweredKept, Zenon DEF UniqueInv
<1>5. IdsUnique' /\ Canceled'
  BY <1>2, Zenon DEF UniqueInv, IdsUnique, Canceled
<1>6. Settled'
  BY <1>2, <1>3, Zenon DEF UniqueInv, Settled
<1> QED BY <1>4, <1>5, <1>6, Zenon DEF UniqueInv

\* MaxRequests answers a request that was never tracked.
LEMMA ThrottleUnique ==
  ASSUME TypeOK, Inv, UniqueInv, ReadThrottled,
         NEW c \in Callers, NEW i \in Ids, c = Head(inbound).call, i = Head(inbound).id,
         transport_send([id |-> i, reply |-> c]), Move(c, "throttled"),
         UNCHANGED <<request_id, aborted, queueVars, mapVars, polled,
                     throttling, yielded, cause, wakeVars>>
  PROVE UniqueInv'
<1> USE DEF queueVars, mapVars, wakeVars
<1>1. /\ request_id[c] = i /\ i # NoId /\ handler[c] = "none" /\ ~Tracked(c)
      /\ c \notin aborted /\ c # yielded
      /\ \A r \in Range(Sent) : r.reply # c
  BY HeadRequest, Zenon DEF ReadThrottled
<1>2. PICK m \in Replies : m = [id |-> i, reply |-> c]
  BY SendType, Zenon
<1>3. Range(Sent') = Range(Sent) \cup {m} /\ transport_send(m)
  BY <1>2, SentGrows, ZenonT(40)
<1>4. /\ handler'[c] = "throttled" /\ \A x \in Callers \ {c} : handler'[x] = handler[x]
      /\ \A x : Tracked(x)' = Tracked(x) /\ Response(x)' = Response(x)
      /\ m = Response(c) /\ m.reply = c /\ m.id = i
  BY <1>1, <1>2, SMTT(30) DEF TypeOK, Move, InFlight, Tracked, Response
<1>5. \A r \in Range(Sent) : r.id # m.id
  <2> SUFFICES ASSUME NEW r \in Range(Sent), r.id = i PROVE FALSE
    BY <1>4, Zenon
  <2>1. PICK x \in Callers : x = r.reply /\ request_id[x] = i
    BY Named, SMTT(30) DEF Inv, Labels, Response
  <2> QED BY <1>1, <2>1, Zenon DEF UniqueInv, IdsUnique
<1>6. Answered'
  <2>1. Distinct'
    BY <1>3, <1>5, DistinctGrows, Zenon DEF UniqueInv, Answered
  <2> QED BY <1>1, <1>3, <1>4, <2>1, Zenon DEF UniqueInv, Answered
<1>7. IdsUnique' /\ Canceled'
  <2>1. IdsUnique'
    BY <1>1, <1>4, ZenonT(40) DEF UniqueInv, IdsUnique
  <2>2. Canceled'
    BY <1>1, <1>4, SMTT(30) DEF UniqueInv, Canceled
  <2> QED BY <2>1, <2>2, Zenon
<1>8. Settled'
  <2>1. cause = "none"
    BY Zenon DEF ReadThrottled, Reads, Inv, Phases
  <2> QED BY <1>1, <1>3, <1>4, <2>1, Zenon DEF UniqueInv, Settled, Live
<1> QED BY <1>6, <1>7, <1>8, Zenon DEF UniqueInv

\* The application gets a request that is tracked.
LEMMA YieldUnique ==
  ASSUME TypeOK, Inv, UniqueInv, Yield
  PROVE UniqueInv'
<1> USE DEF queueVars, mapVars, wakeVars, sinkVars, netVars
<1>1. PICK c \in Callers : c = yielded
  BY ZenonT(40) DEF Yield, Inv, Phases, TypeOK
<1>2. /\ yielded' = "none" /\ "none" \notin Callers
      /\ handler'[c] = "held" /\ \A x \in Callers \ {c} : handler'[x] = handler[x]
      /\ handler[c] = "none" /\ Tracked(c)
      /\ UNCHANGED <<request_id, aborted, queueVars, mapVars, cause, sinkVars>>
  BY <1>1, NamesAssumption, SMTT(30) DEF Yield, Move, TypeOK, UniqueInv, Settled, Inv, Positions
<1>3. /\ \A x : Tracked(x)' = Tracked(x) /\ Response(x)' = Response(x)
      /\ Sent' = Sent
  BY <1>2, Zenon DEF InFlight, Tracked, Response, Sent
<1>4. Answered'
  BY <1>2, <1>3, AnsweredKept, Zenon DEF UniqueInv
<1>5. IdsUnique' /\ Canceled'
  BY <1>2, SMTT(30) DEF UniqueInv, IdsUnique, Canceled
<1>6. Settled'
  BY <1>2, <1>3, Zenon DEF UniqueInv, Settled
<1> QED BY <1>4, <1>5, <1>6, Zenon DEF UniqueInv

\* InFlightRequests::drop aborts every handler that is tracked; when the
\* stream ends in order there is none.
LEMMA DropUnique ==
  ASSUME TypeOK, Inv, UniqueInv, UNCHANGED sinkVars,
         NEW why \in {"closed", "error", "dropped"}, NEW ids \in SUBSET InFlight,
         NEW tasks, Drop(why, ids, tasks),
         \A c \in Callers : \/ tasks[c] = handler[c]
                            \/ tasks[c] = "dropped" /\ why = "error",
         \A c \in Callers : handler[c] \in Live /\ Tracked(c)
                              => \E i \in ids : request_data[i] = c,
         why = "closed" => InFlight = {} /\ sink = << >>, cause = "none"
  PROVE UniqueInv'
<1>1. /\ InFlight' = {} /\ handler' = tasks /\ request_id' = request_id
      /\ canceled_requests' = << >> /\ yielded' = "none"
      /\ aborted' = aborted \cup {request_data[i] : i \in ids} /\ cause' = why
  BY SMTT(30) DEF Drop, InFlight, abort_all
<1>2. Sent' = Sent /\ \A c : Response(c)' = Response(c) /\ ~Tracked(c)'
  BY <1>1, Zenon DEF Sent, sinkVars, Response, Tracked
<1>3. Answered'
  BY <1>1, <1>2, AnsweredKept, SMTT(30) DEF UniqueInv, Tracked
<1>4. IdsUnique' /\ Canceled'
  BY <1>1, EmptyQueue, Zenon DEF UniqueInv, IdsUnique, Canceled
<1>5. Settled'
  <2>1. ASSUME NEW c \in Callers \ aborted', tasks[c] \in Live PROVE FALSE
    <3>1. tasks[c] = handler[c]
      BY <2>1, Zenon DEF Live
    <3> QED BY <1>1, <2>1, <3>1, Zenon DEF UniqueInv, Settled
  <2>2. ASSUME NEW c \in Callers \ aborted', tasks[c] \in {"responded", "throttled"},
               why = "closed"
        PROVE Response(c) \in Range(Sent)
    BY <1>1, <2>2, Zenon DEF UniqueInv, Settled, Tracked
  <2>3. why = "closed" => sink' = << >>
    BY Zenon DEF sinkVars
  <2> QED BY <1>1, <1>2, <2>1, <2>2, <2>3, NamesAssumption, SMTT(30) DEF Settled
<1> QED BY <1>3, <1>4, <1>5, Zenon DEF UniqueInv

\* The peer's next request has an id of its own.
LEMMA SendRequestUnique ==
  ASSUME UniqueIds, TypeOK, Inv, UniqueInv, NEW c \in Callers, SendRequest(c)
  PROVE UniqueInv'
<1> USE DEF queueVars, mapVars, runVars, sinkVars
<1>1. /\ request_id[c] = NoId /\ UNCHANGED <<handler, aborted, queueVars, mapVars, runVars, sinkVars>>
  BY Zenon DEF SendRequest
<1>2. PICK i \in Ids : /\ request_id' = [request_id EXCEPT ![c] = i]
                       /\ \A d \in Callers : request_id[d] # i
  BY Zenon DEF SendRequest, UniqueIds
<1>3. request_id'[c] = i /\ \A x \in Callers \ {c} : request_id'[x] = request_id[x]
  BY <1>2, SMTT(30) DEF TypeOK
<1>4. /\ handler[c] = "none" /\ c # yielded
      /\ \A x \in Callers : handler[x] # "none" => Response(x)' = Response(x)
      /\ \A x : Tracked(x)' = Tracked(x)
      /\ Sent' = Sent
  BY <1>1, <1>3, Zenon DEF Inv, Labels, Response, InFlight, Tracked, Sent
<1>5. IdsUnique'
  BY <1>2, <1>3, SMTT(30) DEF UniqueInv, IdsUnique
<1>6. Canceled'
  BY <1>1, <1>3, <1>4, Zenon DEF UniqueInv, Canceled
<1>7. Answered'
  BY <1>1, <1>4, AnsweredKept, Zenon DEF UniqueInv
<1>8. Settled'
  BY <1>1, <1>4, Zenon DEF UniqueInv, Settled
<1> QED BY <1>5, <1>6, <1>7, <1>8, Zenon DEF UniqueInv

\* The ways the stream ends.  start_send has taken the request whose response
\* it fails to send out of the map; its handler has finished.
LEMMA EndUnique ==
  ASSUME TypeOK, Inv, UniqueInv, UNCHANGED sinkVars, pc # "ended",
         \/ Fail(InFlight)
         \/ /\ pending_responses # << >>
            /\ Fail(InFlight \ {Head(pending_responses).id})
         \/ EndStream \/ Stop
         \/ /\ Reads("Request") /\ inbound' = Tail(inbound)
            /\ Drop("error", InFlight,
                    [handler EXCEPT ![Head(inbound).call] = "dropped"])
  PROVE UniqueInv'
<1> DEFINE tasks == [c \in Callers |-> IF c = yielded THEN "dropped" ELSE handler[c]]
<1>1. /\ cause = "none"
      /\ \A c \in Callers : tasks[c] \in {handler[c], "dropped"}
      /\ \A c \in Callers : Tracked(c) => \E i \in InFlight : request_data[i] = c
  BY Zenon DEF Inv, Phases, Tracked
<1>2. CASE Fail(InFlight)
  <2>1. Drop("error", InFlight, tasks)
    BY <1>2, Zenon DEF Fail
  <2> HIDE DEF tasks
  <2> QED BY <1>1, <2>1, DropUnique, SMTT(30)
<1>3. CASE pending_responses # << >> /\ Fail(InFlight \ {Head(pending_responses).id})
  <2>1. PICK r \in Range(pending_responses) : r = Head(pending_responses)
    <3>1. pending_responses \in Seq(Replies)
      BY Zenon DEF TypeOK
    <3> QED BY <1>3, <3>1, TailQueue, Zenon
  <2>2. PICK d \in Callers : d = r.reply /\ r.id = request_id[d] /\ handler[d] = "responded"
    BY Named, SMTT(30) DEF Inv, Labels, Response
  <2>3. PICK ids \in SUBSET InFlight : ids = InFlight \ {r.id}
    BY Zenon
  <2>4. Drop("error", ids, tasks)
    BY <1>3, <2>1, <2>3, Zenon DEF Fail
  <2>5. ASSUME NEW c \in Callers, handler[c] \in Live, Tracked(c)
        PROVE \E i \in ids : request_data[i] = c
    <3>1. PICK i \in InFlight : request_data[i] = c
      BY <2>5, ZenonT(40) DEF Tracked
    <3>2. i # NoId /\ request_id[c] = i
      BY <3>1, NamesAssumption, SMTT(30) DEF Inv, Labels, TypeOK, NoId
    <3>3. c # d
      BY <2>2, <2>5, Zenon DEF Live
    <3>4. i # r.id
      BY <2>2, <3>2, <3>3, Zenon DEF UniqueInv, IdsUnique
    <3> QED BY <2>3, <3>1, <3>4, Zenon
  <2> HIDE DEF tasks
  <2> QED BY <1>1, <2>4, <2>5, DropUnique, SMTT(30)
<1>4. CASE EndStream
  <2>1. Drop("closed", InFlight, handler) /\ InFlight = {} /\ sink = << >>
    BY <1>4, Zenon DEF EndStream, Inv, Phases
  <2> QED BY <1>1, <2>1, DropUnique, Zenon
<1>5. CASE Stop
  BY <1>1, <1>5, DropUnique, Zenon DEF Stop
<1>6. CASE /\ Reads("Request") /\ inbound' = Tail(inbound)
           /\ Drop("error", InFlight, [handler EXCEPT ![Head(inbound).call] = "dropped"])
  <2>1. PICK t : t = [handler EXCEPT ![Head(inbound).call] = "dropped"]
    BY Zenon
  <2>2. \A c \in Callers : t[c] = handler[c] \/ t[c] = "dropped"
    BY <2>1, Zenon DEF TypeOK
  <2>3. Drop("error", InFlight, t)
    BY <1>6, <2>1, Zenon
  <2>4. \A c \in Callers : \/ t[c] = handler[c]
                           \/ t[c] = "dropped" /\ "error" = "error"
    BY <2>2, Zenon
  <2>5. \A c \in Callers : handler[c] \in Live /\ Tracked(c)
                             => \E i \in InFlight : request_data[i] = c
    BY <1>1, Zenon
  <2> QED BY <1>1, <2>3, <2>4, <2>5, DropUnique, SMTT(30)
<1> QED BY <1>2, <1>3, <1>4, <1>5, <1>6, Zenon

\* Every step keeps the invariant, when ids are unique.
LEMMA StepUnique ==
  ASSUME UniqueIds, TypeOK, Inv, UniqueInv, [Next]_vars
  PROVE UniqueInv'
<1>1. ASSUME NEW c \in Callers, Handler(c) \/ SendRequest(c) \/ SendCancel(c) \/ Late(c)
      PROVE UniqueInv'
  BY <1>1, HandlerUnique, SendRequestUnique, QuietStepsUnique, Zenon
<1>2. CASE WriteResponse
  <2>1. PICK response : response = Head(pending_responses)
    BY Zenon
  <2>2. CASE Fail(InFlight \ {response.id}) /\ UNCHANGED sinkVars
    BY <1>2, <2>1, <2>2, EndUnique, Zenon DEF WriteResponse
  <2>3. CASE /\ remove_request(response.id)
             /\ IF sends(response.id) THEN transport_send(response)
                                      ELSE UNCHANGED sinkVars
             /\ UNCHANGED <<taskVars, canceled_requests, throttling, yielded, cause,
                            wakeVars>>
    BY <1>2, <2>1, <2>3, WriteResponseUnique, Zenon DEF WriteResponse
  <2> QED BY <1>2, <2>1, <2>2, <2>3, Zenon DEF WriteResponse
<1>3. CASE ReadThrottled
  <2>1. PICK c \in Callers, i \in Ids : c = Head(inbound).call /\ i = Head(inbound).id
    BY <1>3, RequestRead, Zenon DEF ReadThrottled, Inv
  <2>2. CASE /\ UNCHANGED sinkVars
             /\ Drop("error", InFlight,
                     [handler EXCEPT ![Head(inbound).call] = "dropped"])
    BY <1>3, <2>2, EndUnique, Zenon DEF ReadThrottled, Reads
  <2>3. CASE /\ transport_send([id |-> i, reply |-> c]) /\ Move(c, "throttled")
             /\ UNCHANGED <<request_id, aborted, queueVars, mapVars, polled,
                            throttling, yielded, cause, wakeVars>>
    BY <1>3, <2>1, <2>3, ThrottleUnique, Zenon
  <2> QED BY <1>3, <2>1, <2>2, <2>3, Zenon DEF ReadThrottled
<1>4. CASE CheckLimitError \/ ReadError \/ WriteError \/ EndStream \/ Stop
  <2>1. pc # "ended" /\ UNCHANGED sinkVars
    BY <1>4, Zenon DEF CheckLimitError, ReadError, WriteError, EndStream, Stop
  <2>2. Fail(InFlight) \/ EndStream \/ Stop
    BY <1>4, Zenon DEF CheckLimitError, ReadError, WriteError
  <2> QED BY <2>1, <2>2, EndUnique, Zenon
<1>5. CASE ChannelTask
  BY <1>2, <1>3, <1>4, <1>5, QuietStepsUnique, RemovalsUnique, ReadRequestUnique,
     YieldUnique, SMTT(30) DEF ChannelTask
<1> QED BY <1>1, <1>4, <1>5, QuietStepsUnique, Zenon DEF Next, Terminated

\* A new channel has answered nothing.
LEMMA InitUnique == Init => UniqueInv
<1> SUFFICES ASSUME Init PROVE UniqueInv
  BY Zenon
<1>1. Sent = << >> /\ Len(<< >>) = 0 /\ Range(<< >>) = {}
  BY EmptyQueue, SMTT(30) DEF Init, Sent
<1>2. IdsUnique /\ Canceled
  BY <1>1, Zenon DEF Init, IdsUnique, Canceled
<1>3. Answered
  BY <1>1, SMTT(30) DEF Answered, Distinct
<1>4. Settled
  BY NamesAssumption, Zenon DEF Init, Settled, Live
<1> QED BY <1>2, <1>3, <1>4, Zenon DEF UniqueInv

-----------------------------------------------------------------------------
(* Theorems, of a peer whose request ids are unique                        *)

\* Every handler is tracked, aborted or answered in every reachable state.
THEOREM UniqueInvariant ==
  ASSUME UniqueIds
  PROVE Spec => [](TypeOK /\ Inv /\ UniqueInv)
<1>1. Init => UniqueInv
  BY InitUnique, Zenon
<1>2. TypeOK /\ Inv /\ UniqueInv /\ [Next]_vars => UniqueInv'
  BY StepUnique, Zenon
<1> QED BY <1>1, <1>2, ServerInvariant, PTL DEF Spec

\* A handler that still runs is tracked, so that its deadline and the client's
\* cancellation reach it, or it has been aborted (NoRunaway).
THEOREM HandlersCanBeStopped ==
  ASSUME UniqueIds
  PROVE Spec => []NoRunaway
<1>1. UniqueInv => NoRunaway
  BY Zenon DEF UniqueInv, Settled, NoRunaway
<1> QED BY <1>1, UniqueInvariant, PTL

\* start_send answers a request at most once, with the response of its own
\* handler or the throttle's, and never after it was canceled or had expired.
THEOREM AnsweredOnce ==
  ASSUME UniqueIds
  PROVE Spec => []OneAnswer
<1>1. TypeOK /\ Inv /\ UniqueInv => OneAnswer
  <2> SUFFICES ASSUME TypeOK, Inv, UniqueInv PROVE OneAnswer
    BY Zenon
  <2>1. \A k \in 1..Len(Sent) : Sent[k] \in Range(Sent)
    BY SentFlush, Elements, Zenon
  <2> QED BY <2>1, Zenon DEF Inv, Labels, UniqueInv, Answered, Distinct, OneAnswer, Sent
<1> QED BY <1>1, UniqueInvariant, PTL

\* When the stream ends in order, every response it owes is on the wire and no
\* handler is left running unaborted.
THEOREM EndsGracefully ==
  ASSUME UniqueIds
  PROVE Spec => []GracefulEnd
<1>1. TypeOK /\ Inv /\ UniqueInv => GracefulEnd
  <2> SUFFICES ASSUME TypeOK, Inv, UniqueInv, cause = "closed"
               PROVE /\ sink = << >>
                     /\ \A c \in Callers \ aborted :
                          /\ handler[c] \notin Live
                          /\ handler[c] \in {"responded", "throttled"}
                               => Contains(wire, Response(c))
    BY Zenon DEF GracefulEnd
  <2>1. sink = << >> /\ \A c : ~Tracked(c)
    BY Zenon DEF UniqueInv, Settled, Inv, Phases, Tracked
  <2>2. wire \in Seq(Replies) /\ Sent = wire
    <3>1. wire \in Seq(Replies)
      BY Zenon DEF TypeOK
    <3>2. wire \o << >> = wire
      BY <3>1, SMTT(30)
    <3> QED BY <2>1, <3>1, <3>2, Zenon DEF Sent
  <2>3. \A x : x \in Range(Sent) => Contains(wire, x)
    BY <2>2, Elements, Zenon
  <2> QED BY <2>1, <2>3, Zenon DEF UniqueInv, Settled
<1> QED BY <1>1, UniqueInvariant, PTL

-----------------------------------------------------------------------------
(* How many requests are in flight, and how full the sink is               *)

\* What MaxRequests and ensure_writeable have checked still holds when a
\* request is started, and when a response is sent.
Reading == {"cancels", "expire", "read"}
Limits ==
  /\ IsFiniteSet(InFlight) /\ Cardinality(InFlight) <= Limit
  /\ pc \in Reading =>
       IF throttling THEN Len(sink) < SinkCapacity ELSE Cardinality(InFlight) < Limit
  /\ pc = "pop" => Len(sink) < SinkCapacity
  /\ Len(sink) <= SinkCapacity

\* What a step can do to what is limited.  It starts no request, sends nothing
\* and takes no decision but ensure_writeable's;
Eases ==
  /\ InFlight' \subseteq InFlight /\ (sink' = sink \/ sink' = << >>)
  /\ pc' \in Reading => pc \in Reading /\ throttling' = throttling
  /\ pc' = "pop" => pc = "pop" \/ Len(sink') < SinkCapacity

\* or poll_ready of MaxRequests decides;
Decides ==
  /\ InFlight' = InFlight /\ (sink' = sink \/ sink' = << >>)
  /\ pc' # "pop"
  /\ pc' \in Reading => IF throttling' THEN Len(sink') < SinkCapacity ELSE ~OverLimit

\* or start_request adds a request, after a decision not to throttle;
Adds ==
  /\ \E i \in Ids : i \notin InFlight /\ InFlight' = InFlight \cup {i}
  /\ pc = "read" /\ ~throttling /\ pc' \notin Reading \cup {"pop"} /\ sink' = sink

\* or start_send, of a response or by the throttle.
Sends ==
  /\ InFlight' \subseteq InFlight
  /\ \E m \in Replies : transport_send(m)
  /\ pc = "pop" \/ (pc = "read" /\ throttling)
  /\ pc' \notin Reading \cup {"pop"}

\* What the channel's task decides or adds.
LEMMA LimitMoves ==
  ASSUME TypeOK, Inv, TypeOK', CheckLimit \/ EnsureWriteable \/ ReadRequest
  PROVE Eases \/ Decides \/ Adds
<1> USE DEF mapVars, sinkVars
<1>1. CASE CheckLimit
  <2>1. InFlight' = InFlight /\ (sink' = sink \/ sink' = << >>)
    BY <1>1, Zenon DEF CheckLimit, InFlight, Flush
  <2>2. pc' \in {"ready", "cancels"}
    BY <1>1, SMTT(30) DEF CheckLimit
  <2>3. pc' = "cancels" /\ throttling' => Len(sink') < SinkCapacity
    <3>1. SinkCapacity \in Nat \ {0} /\ Len(sink) \in Nat /\ Len(<< >>) = 0
      BY BoundsAssumption, EmptyQueue, Elements, Zenon DEF TypeOK
    <3> QED BY <1>1, <3>1, SMTT(30) DEF CheckLimit, Full, Flush
  <2>4. pc' = "cancels" /\ ~throttling' => ~OverLimit
    BY <1>1, Zenon DEF CheckLimit
  <2> QED BY <2>1, <2>2, <2>3, <2>4, SMTT(30) DEF Decides, Reading
<1>2. CASE EnsureWriteable
  <2>1. InFlight' = InFlight /\ (sink' = sink \/ sink' = << >>)
    BY <1>2, Zenon DEF EnsureWriteable, InFlight, Flush
  <2>2. pc' \in {"flush", "pop"}
    BY <1>2, SMTT(30) DEF EnsureWriteable
  <2>3. pc' = "pop" => Len(sink') < SinkCapacity
    <3>1. SinkCapacity \in Nat \ {0} /\ Len(sink) \in Nat /\ Len(<< >>) = 0
      BY BoundsAssumption, EmptyQueue, Elements, Zenon DEF TypeOK
    <3> QED BY <1>2, <3>1, SMTT(30) DEF EnsureWriteable, Full, Flush
  <2> QED BY <2>1, <2>2, <2>3, SMTT(30) DEF Eases, Reading
<1>3. CASE ReadRequest
  <2>1. PICK c \in Callers, i \in Ids : c = Head(inbound).call /\ i = Head(inbound).id
    BY <1>3, HeadRequest, ZenonT(40) DEF ReadRequest
  <2>2. /\ pc = "read" /\ pc' = "ready" /\ ~throttling /\ i \notin InFlight
        /\ Start(i, c) /\ sink' = sink
    BY <1>3, <2>1, SMTT(30) DEF ReadRequest, Reads
  <2>3. InFlight' = InFlight \cup {i}
    BY <2>2, Starts, Zenon
  <2>4. pc' \notin Reading \cup {"pop"}
    BY <2>2, SMTT(30) DEF Reading
  <2> QED BY <2>2, <2>3, <2>4, Zenon DEF Adds
<1> QED BY <1>1, <1>2, <1>3, Zenon

\* What a channel that is dropped leaves: nothing is in flight.
LEMMA DropEases ==
  ASSUME TypeOK, NEW why, NEW ids, NEW tasks, Drop(why, ids, tasks), UNCHANGED sinkVars
  PROVE Eases
<1>1. InFlight' = {} /\ pc' = "ended" /\ sink' = sink
  BY SMTT(30) DEF Drop, InFlight, mapVars, runVars, sinkVars
<1> QED BY <1>1, SMTT(30) DEF Eases, Reading

\* A response that is written, or dropped because its request is gone.
LEMMA WriteMoves ==
  ASSUME TypeOK, Inv, TypeOK', WriteResponse
  PROVE Eases \/ Sends
<1> USE DEF sinkVars, runVars
<1>1. PICK response : response = Head(pending_responses)
  BY Zenon
<1>2. CASE Fail(InFlight \ {response.id}) /\ UNCHANGED sinkVars
  BY <1>2, DropEases, Zenon DEF Fail
<1>3. CASE /\ remove_request(response.id) /\ pc' = "decide" /\ UNCHANGED throttling
           /\ transport_send(response) \/ UNCHANGED sinkVars
  <2>1. InFlight' \subseteq InFlight
    <3>1. Untracks({response.id})
      BY <1>3, Removals, Zenon DEF Inv
    <3> QED BY <3>1, SMTT(30) DEF Untracks
  <2>2. pc = "pop" /\ response \in Replies
    BY <1>1, TailQueue, ZenonT(40) DEF WriteResponse, TypeOK
  <2>3. pc' \notin Reading \cup {"pop"}
    BY <1>3, SMTT(30) DEF Reading
  <2>4. CASE transport_send(response)
    BY <2>1, <2>2, <2>3, <2>4, Zenon DEF Sends
  <2>5. CASE UNCHANGED sinkVars
    BY <2>1, <2>3, <2>5, Zenon DEF Eases
  <2> QED BY <1>3, <2>4, <2>5, Zenon
<1> QED BY <1>1, <1>2, <1>3, Zenon DEF WriteResponse

\* A request that the throttle answers.
LEMMA ThrottleMoves ==
  ASSUME TypeOK, Inv, TypeOK', ReadThrottled
  PROVE Eases \/ Sends
<1> USE DEF mapVars
<1>1. PICK c \in Callers, i \in Ids : c = Head(inbound).call /\ i = Head(inbound).id
  BY HeadRequest, ZenonT(40) DEF ReadThrottled
<1>2. PICK m \in Replies : m = [id |-> i, reply |-> c]
  BY SendType, Zenon
<1>3. CASE transport_send(m) /\ pc' = "limit" /\ UNCHANGED mapVars
  <2>1. pc = "read" /\ throttling /\ InFlight' = InFlight
    BY <1>3, Zenon DEF ReadThrottled, Reads, InFlight
  <2>2. pc' \notin Reading \cup {"pop"}
    BY <1>3, SMTT(30) DEF Reading
  <2> QED BY <1>3, <2>1, <2>2, Zenon DEF Sends
<1>4. CASE \E tasks : Drop("error", InFlight, tasks) /\ UNCHANGED sinkVars
  BY <1>4, DropEases, Zenon
<1>5. \/ transport_send([id |-> i, reply |-> c]) /\ pc' = "limit" /\ UNCHANGED mapVars
      \/ \E tasks : Drop("error", InFlight, tasks) /\ UNCHANGED sinkVars
  BY <1>1, Zenon DEF ReadThrottled
<1>6. \/ transport_send(m) /\ pc' = "limit" /\ UNCHANGED mapVars
      \/ \E tasks : Drop("error", InFlight, tasks) /\ UNCHANGED sinkVars
  BY <1>2, <1>5, Zenon
<1> QED BY <1>3, <1>4, <1>6, ZenonT(40)

\* Every step is of one of these kinds.
LEMMA StepKinds ==
  ASSUME TypeOK, Inv, TypeOK', [Next]_vars
  PROVE Eases \/ Decides \/ Adds \/ Sends
<1> USE DEF taskVars, queueVars, mapVars, runVars, sinkVars, wakeVars, netVars
<1>1. CASE \/ \E c \in Callers : Handler(c) \/ SendRequest(c) \/ SendCancel(c) \/ Late(c)
           \/ Stall \/ Unstall \/ Eof \/ Break \/ UNCHANGED vars
  <2>1. UNCHANGED <<mapVars, runVars, sinkVars>>
    <3>1. CASE \E c \in Callers : Handler(c)
      BY <3>1, Zenon DEF Handler, Execute, Serve, Abort, SendResponse, DropHandler
    <3>2. CASE \E c \in Callers : SendRequest(c) \/ SendCancel(c) \/ Late(c)
      BY <3>2, ZenonT(40) DEF SendRequest, SendCancel, Late
    <3>3. CASE Stall \/ Unstall \/ Eof \/ Break \/ UNCHANGED vars
      BY <3>3, SMTT(30) DEF Stall, Unstall, Eof, Break, Disconnect, vars
    <3> QED BY <1>1, <3>1, <3>2, <3>3, Zenon
  <2> QED BY <2>1, Zenon DEF Eases, InFlight
<1>2. CASE PollCanceled \/ PollExpired \/ ReadCancel
  <2>1. InFlight' \subseteq InFlight
    <3>1. ASSUME NEW i, remove_request(i) \/ cancel_request(i) PROVE InFlight' \subseteq InFlight
      <4>1. Untracks({i})
        BY <3>1, Removals, Zenon DEF Inv
      <4> QED BY <4>1, SMTT(30) DEF Untracks
    <3>2. ASSUME NEW t \in deadlines, expire(t) PROVE InFlight' \subseteq InFlight
      <4>1. Untracks({t[1]})
        BY <3>2, Expirations, Zenon DEF Inv
      <4> QED BY <4>1, SMTT(30) DEF Untracks
    <3> QED BY <1>2, <3>1, <3>2, Zenon DEF PollCanceled, PollExpired, ReadCancel, InFlight
  <2>2. /\ pc \in Reading /\ pc' \in Reading /\ sink' = sink /\ throttling' = throttling
    BY <1>2, SMTT(30) DEF PollCanceled, PollExpired, ReadCancel, Reads, Reading
  <2>3. pc' # "pop"
    BY <2>2, SMTT(30) DEF Reading
  <2> QED BY <2>1, <2>2, <2>3, Zenon DEF Eases
<1>3. CASE Poll \/ NoResponse \/ FlushResponses \/ LoopOrPark \/ ReadNothing \/ ReadDuplicate
           \/ Yield
  <2>1. /\ UNCHANGED <<mapVars, throttling>> /\ (sink' = sink \/ sink' = << >>)
        /\ pc' # "pop" /\ (pc' \in Reading => pc \in Reading)
    <3>1. CASE Poll
      BY <3>1, SMTT(30) DEF Poll, Reading
    <3>2. CASE NoResponse
      BY <3>2, SMTT(30) DEF NoResponse, Reading
    <3>3. CASE ReadNothing
      BY <3>3, Zenon DEF ReadNothing, Combined, Reading
    <3>4. CASE ReadDuplicate
      BY <3>4, SMTT(30) DEF ReadDuplicate, Reads, Reading
    <3>5. CASE FlushResponses
      BY <3>5, Zenon DEF FlushResponses, Flush, Reading
    <3>6. CASE LoopOrPark
      BY <3>6, Zenon DEF LoopOrPark, Reading
    <3>7. CASE Yield
      BY <3>7, Zenon DEF Yield, Reading
    <3> QED BY <1>3, <3>1, <3>2, <3>3, <3>4, <3>5, <3>6, <3>7, ZenonT(40)
  <2> QED BY <2>1, Zenon DEF Eases, InFlight
<1>4. CASE CheckLimitError \/ ReadError \/ WriteError \/ EndStream \/ Stop
  BY <1>4, DropEases, Zenon DEF CheckLimitError, ReadError, WriteError, EndStream, Stop, Fail
<1> QED BY <1>1, <1>2, <1>3, <1>4, LimitMoves, WriteMoves, ThrottleMoves, ZenonT(40)
        DEF Next, Terminated, ChannelTask

INSTANCE FiniteSetTheorems

\* The two limits and what they count are numbers.
LEMMA Counts ==
  ASSUME TypeOK, Limits
  PROVE /\ Limit \in Nat /\ Cardinality(InFlight) \in Nat
        /\ SinkCapacity \in Nat \ {0} /\ Len(sink) \in Nat /\ Len(<< >>) = 0
<1>1. Limit \in Nat /\ SinkCapacity \in Nat \ {0}
  BY BoundsAssumption, Zenon
<1>2. Cardinality(InFlight) \in Nat
  BY FS_CardinalityType, Zenon DEF Limits
<1>3. Len(sink) \in Nat /\ Len(<< >>) = 0
  BY EmptyQueue, Elements, ZenonT(40) DEF TypeOK
<1> QED BY <1>1, <1>2, <1>3, Zenon

\* What MaxRequests and ensure_writeable checked, after a step of any kind.
LEMMA LimitsStep ==
  ASSUME TypeOK, Inv, Limits, TypeOK', [Next]_vars
  PROVE Limits'
<1>1. /\ Limit \in Nat /\ Cardinality(InFlight) \in Nat
      /\ SinkCapacity \in Nat \ {0} /\ Len(sink) \in Nat /\ Len(<< >>) = 0
  BY Counts, Zenon
<1>2. PICK t : t = InFlight'
  BY Zenon
<1>3. IsFiniteSet(InFlight)
  BY Zenon DEF Limits
<1>4. ASSUME t \subseteq InFlight
      PROVE IsFiniteSet(t) /\ Cardinality(t) <= Cardinality(InFlight) /\ Cardinality(t) \in Nat
  BY <1>3, <1>4, FS_Subset, FS_CardinalityType, ZenonT(40)
<1>5. ASSUME sink' = sink \/ sink' = << >>
      PROVE Len(sink') <= Len(sink) /\ Len(sink') \in Nat
  BY <1>1, <1>5, SMTT(30)
<1>6. CASE Eases
  <2>1. t \subseteq InFlight /\ (sink' = sink \/ sink' = << >>)
    BY <1>2, <1>6, Zenon DEF Eases
  <2> QED BY <1>1, <1>2, <1>4, <1>5, <1>6, <2>1, SMTT(30) DEF Limits, Eases
<1>7. CASE Decides
  <2>1. t = InFlight /\ (sink' = sink \/ sink' = << >>)
    BY <1>2, <1>7, Zenon DEF Decides
  <2> QED BY <1>1, <1>2, <1>3, <1>5, <1>7, <2>1, SMTT(30) DEF Limits, Decides, OverLimit
<1>8. CASE Adds
  <2>1. PICK i \in Ids : i \notin InFlight /\ t = InFlight \cup {i}
    BY <1>2, <1>8, Zenon DEF Adds
  <2>2. IsFiniteSet(t) /\ Cardinality(t) = Cardinality(InFlight) + 1
    BY <1>3, <2>1, FS_AddElement, ZenonT(40)
  <2>3. Cardinality(InFlight) < Limit
    BY <1>8, SMTT(30) DEF Limits, Adds, Reading
  <2> QED BY <1>1, <1>2, <1>8, <2>2, <2>3, SMTT(30) DEF Limits, Adds
<1>9. CASE Sends
  <2>1. t \subseteq InFlight
    BY <1>2, <1>9, Zenon DEF Sends
  <2>2. Len(sink) < SinkCapacity
    BY <1>9, Zenon DEF Limits, Sends, Reading
  <2>3. Len(sink') = Len(sink) + 1
    BY <1>9, SentGrows, ZenonT(40) DEF Sends
  <2> QED BY <1>1, <1>2, <1>4, <1>9, <2>1, <2>2, <2>3, SMTT(30) DEF Limits, Sends
<1> QED BY <1>6, <1>7, <1>8, <1>9, StepKinds, Zenon

\* The channel keeps within its limits in every reachable state.
THEOREM LimitsInvariant == Spec => []Limits
<1>1. ASSUME Init PROVE Limits
  <2>1. InFlight = {} /\ sink = << >> /\ pc \notin Reading \cup {"pop"}
    BY <1>1, SMTT(30) DEF Init, InFlight, Reading
  <2>2. IsFiniteSet(InFlight) /\ Cardinality(InFlight) = 0 /\ Len(sink) = 0
    BY <2>1, FS_EmptySet, EmptyQueue, Zenon
  <2>3. Limit \in Nat /\ SinkCapacity \in Nat
    BY BoundsAssumption, SMTT(30)
  <2> QED BY <2>1, <2>2, <2>3, SMTT(30) DEF Limits
<1>2. TypeOK /\ Inv /\ Limits /\ TypeOK' /\ [Next]_vars => Limits'
  BY LimitsStep, SMTT(30)
<1> QED BY <1>1, <1>2, ServerInvariant, PTL DEF Spec

\* No more than Limit handlers run that are not aborted, and the sink never
\* holds more than it takes: what MaxRequests and ensure_writeable checked in
\* an earlier poll is still true when it is relied on.
THEOREM LimitsKept ==
  ASSUME UniqueIds
  PROVE Spec => []LimitsHold
<1>1. TypeOK /\ Inv /\ UniqueInv /\ Limits => LimitsHold
  <2> SUFFICES ASSUME TypeOK, Inv, UniqueInv, Limits PROVE LimitsHold
    BY Zenon
  <2>1. PICK S : S = {c \in Callers : handler[c] \in Live /\ c \notin aborted}
    BY Zenon
  <2>2. PICK f : f = [c \in S |-> request_id[c]]
    BY Zenon
  <2>3. \A c \in S : request_id[c] \in InFlight /\ request_id[c] # NoId
    <3> SUFFICES ASSUME NEW c \in S
                 PROVE request_id[c] \in InFlight /\ request_id[c] # NoId
      BY Zenon
    <3>1. PICK i \in InFlight : request_data[i] = c
      BY <2>1, Zenon DEF UniqueInv, Settled, Tracked
    <3>2. request_id[c] = i
      BY <3>1, Zenon DEF Inv, Labels
    <3>3. i # NoId
      BY NamesAssumption, SMTT(30) DEF TypeOK, NoId
    <3> QED BY <3>2, <3>3, Zenon
  <2>4. f \in Injection(S, InFlight)
    <3>1. f \in [S -> InFlight]
      BY <2>2, <2>3, Zenon
    <3>2. \A c, d \in S : f[c] = f[d] => c = d
      BY <2>1, <2>2, <2>3, Zenon DEF UniqueInv, IdsUnique
    <3> QED BY <3>1, <3>2, Zenon DEF Injection, IsInjective
  <2>5. IsFiniteSet(InFlight) /\ Cardinality(InFlight) <= Limit /\ Len(sink) <= SinkCapacity
    BY Zenon DEF Limits
  <2>6. Cardinality(S) <= Cardinality(InFlight) /\ IsFiniteSet(S)
    BY <2>4, <2>5, FS_Injection, Zenon
  <2>7. Cardinality(S) \in Nat /\ Cardinality(InFlight) \in Nat /\ Limit \in Nat
    BY <2>5, <2>6, FS_CardinalityType, BoundsAssumption, Zenon
  <2>8. Cardinality(S) <= Limit
    BY <2>5, <2>6, <2>7, SMTT(30)
  <2> QED BY <2>1, <2>5, <2>8, Zenon DEF LimitsHold
<1> QED BY <1>1, UniqueInvariant, LimitsInvariant, PTL
=============================================================================
