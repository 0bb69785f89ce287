---------------------------- MODULE ClientProofs ----------------------------
(***************************************************************************)
(* Proofs about Client: facts about sequences, the types, the steps of the *)
(* calling tasks, those of the dispatch and of the environment, and the    *)
(* theorems that follow: the maps and the ids first, then what a call is   *)
(* told and what goes on the wire in which order.  They hold for any set   *)
(* of calls, any limits and any environment.  That a step keeps the types  *)
(* uses Inv for one thing only: a request that is written or cancelled has *)
(* an id.                                                                  *)
(***************************************************************************)
EXTENDS Client, TLAPS

-----------------------------------------------------------------------------
(* Sequences: what Append, Tail and \o do to their elements.               *)

\* An empty queue (Dropped clears both) contains nothing.
LEMMA EmptyContains ==
  ASSUME NEW x
  PROVE ~Contains(<< >>, x)
BY SMTT(30) DEF Contains

\* A push (Push, cancel) adds one element and keeps the others.
LEMMA AppendContains ==
  ASSUME NEW S, NEW s \in Seq(S), NEW e \in S, NEW x
  PROVE Contains(Append(s, e), x) <=> Contains(s, x) \/ x = e
<1>1. Len(Append(s, e)) = Len(s) + 1 /\ Len(s) \in Nat
  BY SMTT(30)
<1>2. \A k \in 1..Len(s) : Append(s, e)[k] = s[k]
  BY SMTT(30)
<1>3. Append(s, e)[Len(s) + 1] = e
  BY SMTT(30)
<1> QED BY <1>1, <1>2, <1>3, SMTT(30) DEF Contains

\* A pop (PopRequest, PopCancel, Drain) removes the head and keeps the rest.
LEMMA TailContains ==
  ASSUME NEW S, NEW s \in Seq(S), s # << >>, NEW x
  PROVE Contains(s, x) <=> x = Head(s) \/ Contains(Tail(s), x)
<1>1. Len(Tail(s)) = Len(s) - 1 /\ Len(s) \in Nat \ {0} /\ Head(s) = s[1]
  BY SMTT(30)
<1>2. \A k \in 1..Len(Tail(s)) : Tail(s)[k] = s[k + 1]
  BY SMTT(30)
<1>3. ASSUME Contains(s, x), x # Head(s) PROVE Contains(Tail(s), x)
  <2>1. PICK k \in 1..Len(s) : s[k] = x
    BY <1>3, Zenon DEF Contains
  <2>2. k - 1 \in 1..Len(Tail(s)) /\ Tail(s)[k - 1] = x
    BY <1>1, <1>2, <1>3, <2>1, SMTT(30)
  <2> QED BY <2>2, Zenon DEF Contains
<1>4. ASSUME Contains(Tail(s), x) PROVE Contains(s, x)
  <2>1. PICK k \in 1..Len(Tail(s)) : Tail(s)[k] = x
    BY <1>4, Zenon DEF Contains
  <2>2. k + 1 \in 1..Len(s) /\ s[k + 1] = x
    BY <1>1, <1>2, <2>1, SMTT(30)
  <2> QED BY <2>2, Zenon DEF Contains
<1>5. Contains(s, Head(s))
  BY <1>1, SMTT(30) DEF Contains
<1> QED BY <1>3, <1>4, <1>5, Zenon

\* A call that is not queued is pushed once (Push).
LEMMA AppendNoDup ==
  ASSUME NEW S, NEW s \in Seq(S), NEW e \in S, NoDup(s), ~Contains(s, e)
  PROVE NoDup(Append(s, e))
<1>1. Len(Append(s, e)) = Len(s) + 1 /\ Len(s) \in Nat
  BY SMTT(30)
<1>2. \A k \in 1..Len(s) : Append(s, e)[k] = s[k]
  BY SMTT(30)
<1>3. Append(s, e)[Len(s) + 1] = e
  BY SMTT(30)
<1> QED BY <1>1, <1>2, <1>3, SMTT(30) DEF Contains, NoDup

\* A call that is popped is not queued any more (PopRequest, Drain).
LEMMA TailNoDup ==
  ASSUME NEW S, NEW s \in Seq(S), s # << >>, NoDup(s)
  PROVE NoDup(Tail(s)) /\ ~Contains(Tail(s), Head(s))
<1>1. Len(Tail(s)) = Len(s) - 1 /\ Len(s) \in Nat \ {0} /\ Head(s) = s[1]
  BY SMTT(30)
<1>2. \A k \in 1..Len(Tail(s)) : Tail(s)[k] = s[k + 1]
  BY SMTT(30)
<1> QED BY <1>1, <1>2, SMTT(30) DEF Contains, NoDup

-----------------------------------------------------------------------------
(* Types                                                                   *)

Values == {"none", "open", "closed", "gone"} \cup Errors \cup Callers

\* Completed, by which the dispatch resolves oneshots, keeps their type and
\* touches only open ones of the given calls.
LEMMA CompletedType ==
  ASSUME completion \in [Callers -> Values], NEW calls, NEW v \in Values
  PROVE Completed(calls, v) \in [Callers -> Values]
BY Zenon DEF Completed

\* The empty map, as clear() and drain() leave it.
LEMMA EmptyMap ==
  ASSUME NEW S
  PROVE DOMAIN << >> = {} /\ << >> \in [DOMAIN << >> -> S]
BY SMTT(30)

\* A request that the dispatch is about to write, or whose caller is about to
\* cancel it, has an id.
LEMMA IdsGiven ==
  ASSUME TypeOK, Inv
  PROVE /\ \A c \in Callers : call[c] # "idle" => request_id[c] \in Nat
        /\ pc = "write" => taken \in Callers /\ request_id[taken] \in Nat
<1>1. \A c \in Callers : call[c] # "idle" => request_id[c] \in Nat
  BY Zenon DEF TypeOK, Inv, IdsUnique
<1>2. ASSUME pc = "write" PROVE taken \in Callers /\ call[taken] # "idle"
  BY <1>2, Zenon DEF TypeOK, Inv, Phases, HeldUnused, Holds
<1> QED BY <1>1, <1>2, Zenon

\* poll_write_request inserts and sends, or fails the call and leaves the map
\* as it was: the entry that complete_request removes is the one just made.
LEMMA WriteCases ==
  ASSUME TypeOK, Inv, WriteRequest
  PROVE \/ /\ insert_request(request_id[taken], taken)
           /\ start_send([type |-> "Request", id |-> request_id[taken],
                          call |-> taken])
           /\ UNCHANGED completion
        \/ /\ completion' = Completed({taken}, "Send")
           /\ UNCHANGED <<mapVars, sinkVars>>
<1>1. PICK i : i = request_id[taken]
  BY Zenon
<1>2. i \notin InFlight /\ deadlines = InFlight
  BY <1>1, Zenon DEF Inv, MapsAgree, WriteRequest
<1>3. ASSUME Forget(i) PROVE UNCHANGED mapVars
  <2>1. InFlight \ {i} = InFlight /\ deadlines \ {i} = deadlines
    BY <1>2, Zenon
  <2>2. request_data = [j \in InFlight |-> request_data[j]]
    BY Zenon DEF TypeOK
  <2> QED BY <1>3, <2>1, <2>2, Zenon DEF Forget, mapVars
<1> QED BY <1>1, <1>3, Zenon DEF WriteRequest

\* What the steps of a calling task (Caller) change keeps its type.
LEMMA CallerType ==
  ASSUME TypeOK, Inv, NEW c \in Callers, Caller(c)
  PROVE TypeOK'
<1> USE DEF callVars, queueVars, mapVars, runVars, wakeVars, sinkVars, netVars,
            InFlight, CallStates
<1>1. CASE Call(c)
  BY <1>1, SMTT(30) DEF TypeOK, Call, fetch_add
<1>2. CASE Reserve(c)
  BY <1>2, Zenon DEF TypeOK, Reserve
<1>3. CASE Push(c)
  BY <1>3, SMTT(30) DEF TypeOK, Push, Notify
<1>4. CASE SendError(c)
  BY <1>4, SMTT(30) DEF TypeOK, SendError, Completed, Errors
<1>5. CASE Response(c)
  BY <1>5, CallersAssumption, SMTT(30) DEF TypeOK, Response, IsReady, Errors, Marks
<1>6. CASE DropCall(c)
  BY <1>6, SMTT(30) DEF TypeOK, DropCall, Completed
<1>7. CASE CloseResponse(c)
  BY <1>7, SMTT(30) DEF TypeOK, CloseResponse, Completed
<1>8. CASE Cancel(c)
  <2>1. request_id[c] \in Nat
    BY <1>8, IdsGiven, Zenon DEF Cancel
  <2>2. CASE rx = "dropped"
    BY <1>8, <2>2, Zenon DEF TypeOK, Cancel, cancel
  <2>3. CASE rx # "dropped"
    <3>1. canceled_requests' = Append(canceled_requests, request_id[c])
      BY <1>8, <2>3, Zenon DEF Cancel, cancel
    <3>2. registered' \subseteq Sources /\ woken' \in BOOLEAN
      BY <1>8, <2>3, Zenon DEF TypeOK, Cancel, cancel, Notify
    <3>3. UNCHANGED <<request_id, result, next_request_id, handle, pending_requests, rx,
                      completion, mapVars, runVars, sinkVars, netVars>>
      BY <1>8, Zenon DEF Cancel
    <3>4. call' = [call EXCEPT ![c] = "done"]
      BY <1>8, Zenon DEF Cancel
    <3> QED BY <2>1, <3>1, <3>2, <3>3, <3>4, SMTT(30) DEF TypeOK
  <2> QED BY <2>2, <2>3, Zenon
<1> QED BY <1>1, <1>2, <1>3, <1>4, <1>5, <1>6, <1>7, <1>8, Zenon DEF Caller

\* complete_request, for a response, a timer or a failed send.
LEMMA CompleteType ==
  ASSUME TypeOK, NEW i, NEW v \in Values, complete_request(i, v)
  PROVE /\ InFlight' \subseteq Nat /\ request_data' \in [InFlight' -> Callers]
        /\ deadlines' \subseteq Nat /\ completion' \in [Callers -> Values]
<1> USE DEF InFlight, mapVars
<1>1. CASE i \in InFlight
  BY <1>1, CompletedType, SMTT(30) DEF TypeOK, complete_request, Forget, Values
<1>2. CASE i \notin InFlight
  BY <1>2, Zenon DEF TypeOK, complete_request, Values
<1> QED BY <1>1, <1>2, Zenon

\* ensure_writeable flushes, registers, or fails.
LEMMA WriteableType ==
  ASSUME TypeOK, NEW next \in Points, NEW skip \in Points,
         ensure_writeable(next, skip)
  PROVE /\ sink' \in Seq(Messages) /\ wire' \in Seq(Messages)
        /\ registered' \subseteq Sources /\ woken' \in BOOLEAN
        /\ polled' \in [read : Statuses, requests : Statuses, cancels : Statuses,
                        write : Statuses]
        /\ terminal_error' \in BOOLEAN /\ pc' \in Points
<1> USE DEF sinkVars, wakeVars, Points, Sources
<1>1. CASE pc' = next /\ UNCHANGED <<sinkVars, wakeVars, polled, terminal_error>>
  BY <1>1, Zenon DEF TypeOK
<1>2. CASE Flush /\ pc' = next /\ UNCHANGED <<wakeVars, polled, terminal_error>>
  BY <1>2, SMTT(30) DEF TypeOK, Flush
<1>3. CASE /\ Register("write") /\ pc' = skip
           /\ UNCHANGED <<sinkVars, polled, terminal_error>>
  BY <1>3, Zenon DEF TypeOK, Register
<1>4. CASE Fail /\ UNCHANGED <<sinkVars, wakeVars>>
  BY <1>4, Zenon DEF TypeOK, Fail, Unpolled, Statuses
<1> QED BY <1>1, <1>2, <1>3, <1>4, Zenon DEF ensure_writeable

\* The dispatch is dropped: everything it owned goes.
LEMMA DroppedType ==
  ASSUME TypeOK, Dropped
  PROVE TypeOK'
<1>1. request_data' \in [InFlight' -> Callers] /\ InFlight' \subseteq Nat
  BY EmptyMap, Zenon DEF Dropped, InFlight
<1>2. completion' \in [Callers -> Values]
  BY CompletedType, Zenon DEF TypeOK, Dropped, Values
<1>3. woken' \in BOOLEAN /\ terminal_error' = terminal_error /\ stalled' = stalled
  BY Zenon DEF Dropped, netVars
<1>4. /\ UNCHANGED <<call, request_id, result, next_request_id, handle, taken, sink,
                     wire, inbound, net, stalls, late>>
      /\ pc' = "ended" /\ rx' = "dropped" /\ pending_requests' = << >>
      /\ canceled_requests' = << >> /\ deadlines' = {} /\ registered' = {}
      /\ polled' = Unpolled
  BY Zenon DEF Dropped, callVars, sinkVars, netVars
<1> QED
  BY <1>1, <1>2, <1>3, <1>4, SMTT(30) DEF TypeOK, Points, Unpolled, Statuses, Values

\* What the steps of the dispatch change keeps its type.
LEMMA DispatchType ==
  ASSUME TypeOK, Inv, Dispatch
  PROVE TypeOK'
<1> USE DEF callVars, queueVars, mapVars, runVars, wakeVars, sinkVars, netVars,
            InFlight, Points, Statuses, Sources, Unpolled
<1>1. CASE Poll
  <2>1. pc' \in {"shutdown", "read"}
    BY <1>1, Zenon DEF Poll
  <2>2. woken' \in BOOLEAN /\ terminal_error' = terminal_error /\ stalled' = stalled
    BY <1>1, Zenon DEF Poll
  <2>3. UNCHANGED <<call, request_id, result, next_request_id, handle,
                    pending_requests, rx, canceled_requests, completion,
                    request_data, deadlines, polled, taken, registered, sink, wire,
                    inbound, net, stalls, late>>
    BY <1>1, Zenon DEF Poll
  <2> QED BY <2>1, <2>2, <2>3, SMTT(30) DEF TypeOK
<1>2. CASE ReadResponse
  <2>1. Head(inbound) \in Replies /\ Tail(inbound) \in Seq(Replies)
    BY <1>2, SMTT(30) DEF TypeOK, ReadResponse
  <2>2. Head(inbound).reply \in Values
    BY <2>1, Zenon DEF Replies, Values
  <2>3. complete_request(Head(inbound).id, Head(inbound).reply)
    BY <1>2, Zenon DEF ReadResponse
  <2>4. /\ InFlight' \subseteq Nat /\ request_data' \in [InFlight' -> Callers]
        /\ deadlines' \subseteq Nat /\ completion' \in [Callers -> Values]
    BY <2>2, <2>3, CompleteType, Zenon
  <2>5. /\ inbound' = Tail(inbound) /\ pc' = "ready"
        /\ polled' = [polled EXCEPT !.read = "some"]
        /\ UNCHANGED <<callVars, queueVars, taken, terminal_error, wakeVars,
                       sinkVars, net, stalled, stalls, late>>
    BY <1>2, Zenon DEF ReadResponse
  <2>6. polled' \in [read : Statuses, requests : Statuses, cancels : Statuses,
                       write : Statuses]
    BY <2>5, Zenon DEF TypeOK
  <2>7. pc' \in Points
    BY <2>5, Zenon
  <2> HIDE DEF Points, Statuses, Sources
  <2> QED BY <2>1, <2>4, <2>5, <2>6, <2>7, ZenonT(40) DEF TypeOK, Values
<1>3. CASE ReadPending
  <2>1. /\ polled' \in [read : Statuses, requests : Statuses, cancels : Statuses,
                          write : Statuses]
        /\ pc' \in Points /\ registered' \subseteq Sources
    BY <1>3, Zenon DEF TypeOK, ReadPending, Register
  <2> HIDE DEF Points, Statuses, Sources
  <2> QED BY <1>3, <2>1, Zenon DEF TypeOK, ReadPending, Register
<1>4. CASE ReadClosed
  <2>1. polled' \in [read : Statuses, requests : Statuses, cancels : Statuses,
                       write : Statuses]
    BY <1>4, Zenon DEF TypeOK, ReadClosed
  <2>2. pc' \in Points
    BY <1>4, Zenon DEF ReadClosed
  <2> HIDE DEF Points, Statuses, Sources
  <2> QED BY <1>4, <2>1, <2>2, Zenon DEF TypeOK, ReadClosed
<1>5. CASE ReadError
  BY <1>5, Zenon DEF TypeOK, ReadError, Fail
<1>6. CASE PollReady
  <2>1. CASE AtCapacity
    <3>1. /\ pc' = "cancel_ready" /\ UNCHANGED <<polled, terminal_error, taken, completion>>
          /\ UNCHANGED <<sinkVars, wakeVars, callVars, queueVars, mapVars, netVars>>
      BY <1>6, <2>1, Zenon DEF PollReady
    <3> QED BY <3>1, SMTT(30) DEF TypeOK
  <2>2. CASE ~AtCapacity
    <3>1. ensure_writeable("pop", "cancel_ready")
      BY <1>6, <2>2, Zenon DEF PollReady
    <3>2. "pop" \in Points /\ "cancel_ready" \in Points
      BY Zenon DEF Points
    <3> QED BY <1>6, <3>1, <3>2, WriteableType, ZenonT(40) DEF TypeOK, PollReady
  <2> QED BY <2>1, <2>2, Zenon
<1>7. CASE PopRequest
  <2>1. Head(pending_requests) \in Callers /\ pending_requests' \in Seq(Callers)
    BY <1>7, SMTT(30) DEF TypeOK, PopRequest
  <2>2. taken' \in Callers \cup {"none"} /\ pc' \in Points
    BY <1>7, <2>1, Zenon DEF TypeOK, PopRequest, Points
  <2>3. /\ UNCHANGED <<rx, canceled_requests, completion, polled, terminal_error>>
        /\ UNCHANGED <<callVars, mapVars, wakeVars, sinkVars, netVars>>
    BY <1>7, Zenon DEF PopRequest
  <2> QED BY <2>1, <2>2, <2>3, SMTT(30) DEF TypeOK
<1>8. CASE PopNoRequest
  BY <1>8, SMTT(30) DEF TypeOK, PopNoRequest, Register
<1>9. CASE WriteRequest
  <2>0. /\ polled' \in [read : Statuses, requests : Statuses, cancels : Statuses,
                          write : Statuses]
        /\ pc' \in Points
    BY <1>9, Zenon DEF TypeOK, WriteRequest
  <2>1. taken \in Callers /\ request_id[taken] \in Nat
    BY <1>9, IdsGiven, Zenon DEF WriteRequest
  <2>2. CASE /\ insert_request(request_id[taken], taken)
             /\ start_send([type |-> "Request", id |-> request_id[taken],
                            call |-> taken])
             /\ UNCHANGED completion
    <3>1. [type |-> "Request", id |-> request_id[taken], call |-> taken] \in Messages
      BY <2>1, Zenon DEF Messages
    <3>2. sink' \in Seq(Messages) /\ wire' \in Seq(Messages)
      BY <2>2, <3>1, SMTT(30) DEF TypeOK, start_send
    <3>3. /\ InFlight' \subseteq Nat /\ request_data' \in [InFlight' -> Callers]
          /\ deadlines' \subseteq Nat
      BY <2>1, <2>2, Zenon DEF TypeOK, insert_request
    <3> HIDE DEF Points, Statuses, Sources
    <3> QED BY <1>9, <2>0, <2>2, <3>2, <3>3, Zenon DEF TypeOK, WriteRequest
  <2>3. CASE completion' = Completed({taken}, "Send") /\ UNCHANGED <<mapVars, sinkVars>>
    <3>1. completion' \in [Callers -> Values]
      BY <2>3, CompletedType, SMTT(20) DEF TypeOK, Values, Errors
    <3> HIDE DEF Points, Statuses, Sources
    <3> QED BY <1>9, <2>0, <2>3, <3>1, ZenonT(30) DEF TypeOK, WriteRequest, Values
  <2> QED BY <1>9, <2>2, <2>3, WriteCases, Zenon
<1>10. CASE PollCancelReady
  <2>1. "cancel_pop" \in Points /\ "expire" \in Points
    BY Zenon DEF Points
  <2> QED BY <1>10, <2>1, WriteableType, ZenonT(40) DEF TypeOK, PollCancelReady
<1>11. CASE PopCancel
  <2> DEFINE i == Head(canceled_requests)
  <2>1. i \in Nat /\ canceled_requests' \in Seq(Nat)
    BY <1>11, SMTT(30) DEF TypeOK, PopCancel, write_cancel
  <2>2. CASE i \notin InFlight /\ UNCHANGED <<mapVars, completion, polled, pc,
                                             terminal_error, sinkVars>>
    <3>1. UNCHANGED <<callVars, pending_requests, rx, taken, wakeVars, netVars>>
      BY <1>11, Zenon DEF PopCancel, write_cancel
    <3>2. UNCHANGED <<mapVars, completion, polled, pc, terminal_error, sinkVars>>
      BY <2>2, Zenon
    <3>3. canceled_requests' \in Seq(Nat)
      BY <2>1, Zenon
    <3> HIDE DEF Points, Statuses, Sources
    <3> QED BY <3>1, <3>2, <3>3, ZenonT(40) DEF TypeOK
  <2>3. ASSUME i \in InFlight, cancel_request(i)
        PROVE /\ InFlight' \subseteq Nat /\ request_data' \in [InFlight' -> Callers]
              /\ deadlines' \subseteq Nat /\ completion' \in [Callers -> Values]
    BY <2>3, CompletedType, Zenon DEF TypeOK, cancel_request, Forget, Values
  <2>4. CASE /\ i \in InFlight /\ cancel_request(i)
             /\ start_send([type |-> "Cancel", id |-> i])
             /\ polled' = [polled EXCEPT !.write = "some"]
             /\ pc' = "run" /\ UNCHANGED terminal_error
    <3>1. [type |-> "Cancel", id |-> i] \in Messages
      BY <2>1, Zenon DEF Messages
    <3>2. sink' \in Seq(Messages) /\ wire' \in Seq(Messages)
      BY <2>4, <3>1, SMTT(30) DEF TypeOK, start_send
    <3>3. UNCHANGED <<callVars, pending_requests, rx, taken, wakeVars, netVars>>
      BY <1>11, Zenon DEF PopCancel, write_cancel
    <3>4. /\ polled' \in [read : Statuses, requests : Statuses, cancels : Statuses,
                            write : Statuses]
          /\ pc' \in Points
      BY <2>4, Zenon DEF TypeOK
    <3> HIDE DEF Points, Statuses, Sources
    <3> QED BY <2>1, <2>3, <2>4, <3>2, <3>3, <3>4, ZenonT(40) DEF TypeOK, Values
  <2>5. CASE i \in InFlight /\ cancel_request(i) /\ Fail /\ UNCHANGED sinkVars
    BY <1>11, <2>1, <2>3, <2>5, ZenonT(40) DEF TypeOK, PopCancel, write_cancel, Fail, Values
  <2> QED BY <1>11, <2>2, <2>4, <2>5, Zenon DEF PopCancel, write_cancel
<1>12. CASE PopNoCancel
  BY <1>12, SMTT(30) DEF TypeOK, PopNoCancel, Register
<1>13. CASE Expire
  <2>1. PICK i \in deadlines : complete_request(i, "DeadlineExceeded")
    BY <1>13, Zenon DEF Expire
  <2>2. /\ InFlight' \subseteq Nat /\ request_data' \in [InFlight' -> Callers]
        /\ deadlines' \subseteq Nat /\ completion' \in [Callers -> Values]
    BY <2>1, CompleteType, Zenon DEF Values, Errors
  <2>3. /\ polled' \in [read : Statuses, requests : Statuses, cancels : Statuses,
                          write : Statuses]
        /\ pc' \in Points
    BY <1>13, Zenon DEF TypeOK, Expire
  <2>4. UNCHANGED <<callVars, queueVars, taken, terminal_error, wakeVars, sinkVars,
                    netVars>>
    BY <1>13, Zenon DEF Expire
  <2> HIDE DEF Points, Statuses, Sources
  <2> QED BY <2>2, <2>3, <2>4, ZenonT(40) DEF TypeOK, Values
<1>14. CASE NoneExpired
  BY <1>14, SMTT(30) DEF TypeOK, NoneExpired, Register
<1>15. CASE Finish
  <2>1. CASE /\ Flush /\ pc' = "run" /\ UNCHANGED <<wakeVars, terminal_error>>
             /\ polled' = [polled EXCEPT !.write =
                             IF polled.requests = "none" /\ polled.cancels = "none"
                             THEN "none" ELSE "pending"]
    <3>1. sink' \in Seq(Messages) /\ wire' \in Seq(Messages)
      BY <2>1, SMTT(30) DEF TypeOK, Flush
    <3>2. polled' \in [read : Statuses, requests : Statuses, cancels : Statuses,
                       write : Statuses]
      <4>1. PICK w \in {"none", "pending"} : polled' = [polled EXCEPT !.write = w]
        BY <2>1, Zenon
      <4> QED BY <4>1, Zenon DEF TypeOK
    <3> QED BY <1>15, <2>1, <3>1, <3>2, SMTT(30) DEF TypeOK, Finish
  <2>2. CASE /\ Register("write") /\ pc' = "run"
             /\ UNCHANGED <<sinkVars, polled, terminal_error>>
    BY <1>15, <2>2, SMTT(30) DEF TypeOK, Finish, Register
  <2>3. CASE Fail /\ UNCHANGED <<sinkVars, wakeVars>>
    BY <1>15, <2>3, SMTT(30) DEF TypeOK, Finish, Fail
  <2> QED BY <1>15, <2>1, <2>2, <2>3, Zenon DEF Finish
<1>16. CASE Run
  <2>1. CASE Dropped
    BY <2>1, DroppedType, Zenon
  <2>2. CASE ~RunEnds
    BY <1>16, <2>2, SMTT(30) DEF TypeOK, Run
  <2> QED BY <1>16, <2>1, <2>2, Zenon DEF Run
<1>17. CASE ShutDown
  BY <1>17, EmptyMap, SMTT(30) DEF TypeOK, ShutDown, complete_all_requests, Completed, Errors
<1>18. CASE Drain
  <2>1. CASE /\ pending_requests # << >>
             /\ pending_requests' = Tail(pending_requests)
             /\ completion' = Completed({Head(pending_requests)}, "Channel")
             /\ UNCHANGED <<callVars, rx, canceled_requests, mapVars, runVars,
                            wakeVars, sinkVars, netVars>>
    <3>1. completion' \in [Callers -> Values]
      BY <2>1, CompletedType, Zenon DEF TypeOK, Values, Errors
    <3>2. pending_requests' \in Seq(Callers)
      BY <2>1, SMTT(30) DEF TypeOK
    <3>3. UNCHANGED <<callVars, rx, canceled_requests, mapVars, runVars, wakeVars,
                      sinkVars, netVars>>
      BY <2>1, Zenon
    <3> QED BY <3>1, <3>2, <3>3, SMTT(30) DEF TypeOK, Values
  <2>2. CASE /\ Register("requests") /\ pc' = "parked"
             /\ UNCHANGED <<callVars, queueVars, completion, mapVars, polled, taken,
                            terminal_error, sinkVars, netVars>>
    BY <2>2, SMTT(30) DEF TypeOK, Register
  <2>3. CASE Dropped
    BY <2>3, DroppedType, Zenon
  <2> QED BY <1>18, <2>1, <2>2, <2>3, Zenon DEF Drain
<1> QED BY <1>1, <1>2, <1>3, <1>4, <1>5, <1>6, <1>7, <1>8, <1>9, <1>10, <1>11,
           <1>12, <1>13, <1>14, <1>15, <1>16, <1>17, <1>18, Zenon DEF Dispatch

\* What the environment and the last handle change keeps its type.
LEMMA EnvironmentType ==
  ASSUME TypeOK,
         \/ \E c \in Callers : Late(c)
         \/ DropToDispatch \/ DropCancellation \/ Abandon \/ Reply \/ Stall
         \/ Unstall \/ Eof \/ Break \/ UNCHANGED vars
  PROVE TypeOK'
<1> USE DEF callVars, queueVars, mapVars, runVars, wakeVars, sinkVars, netVars,
            InFlight
<1>1. ASSUME NEW c \in Callers, Late(c) PROVE TypeOK'
  <2>1. registered' \subseteq Sources /\ woken' \in BOOLEAN
    BY <1>1, Zenon DEF TypeOK, Late, Notify
  <2>2. late' \subseteq Callers
    BY <1>1, SMTT(20) DEF TypeOK, Late
  <2>3. UNCHANGED <<callVars, queueVars, completion, mapVars, runVars, sinkVars,
                    inbound, net, stalled, stalls>>
    BY <1>1, Zenon DEF Late
  <2> QED BY <2>1, <2>2, <2>3, SMTT(30) DEF TypeOK
<1>2. CASE DropToDispatch
  BY <1>2, Zenon DEF TypeOK, DropToDispatch, Notify
<1>3. CASE DropCancellation
  BY <1>3, Zenon DEF TypeOK, DropCancellation, Notify
<1>4. CASE Abandon
  BY <1>4, DroppedType, Zenon DEF Abandon
<1>5. CASE Reply
  <2>1. PICK k \in 1..Len(wire) :
          /\ wire[k].type = "Request"
          /\ inbound' = Append(inbound, [id |-> wire[k].id, reply |-> wire[k].call])
    BY <1>5, Zenon DEF Reply
  <2>2. wire[k].id \in Nat /\ wire[k].call \in Callers
    <3>1. wire[k] \in Messages
      BY SMTT(30) DEF TypeOK
    <3> QED BY <2>1, <3>1, Zenon DEF Messages
  <2>3. inbound' \in Seq(Replies)
    BY <2>1, <2>2, SMTT(30) DEF TypeOK, Replies
  <2>4. registered' \subseteq Sources /\ woken' \in BOOLEAN
    BY <1>5, Zenon DEF TypeOK, Reply, Notify
  <2>5. UNCHANGED <<callVars, queueVars, completion, mapVars, runVars, sinkVars,
                    net, stalled, stalls, late>>
    BY <1>5, Zenon DEF Reply
  <2> QED BY <2>3, <2>4, <2>5, Zenon DEF TypeOK
<1>6. CASE Stall
  <2>1. stalled' \in BOOLEAN /\ stalls' = stalls + 1
    BY <1>6, Zenon DEF Stall
  <2>2. UNCHANGED <<callVars, queueVars, completion, mapVars, runVars, wakeVars,
                    sinkVars, inbound, net, late>>
    BY <1>6, Zenon DEF Stall
  <2> QED BY <2>1, <2>2, SMTT(30) DEF TypeOK
<1>7. CASE Unstall
  <2>1. stalled' \in BOOLEAN /\ registered' \subseteq Sources /\ woken' \in BOOLEAN
    BY <1>7, Zenon DEF TypeOK, Unstall, Notify
  <2>2. UNCHANGED <<callVars, queueVars, completion, mapVars, runVars, sinkVars,
                    inbound, net, stalls, late>>
    BY <1>7, Zenon DEF Unstall
  <2> QED BY <2>1, <2>2, Zenon DEF TypeOK
<1>8. CASE Eof
  BY <1>8, Zenon DEF TypeOK, Eof, Disconnect, Notify
<1>9. CASE Break
  BY <1>9, Zenon DEF TypeOK, Break, Disconnect, Notify
<1>10. CASE UNCHANGED vars
  BY <1>10, SMTT(30) DEF TypeOK, vars
<1> QED BY <1>1, <1>2, <1>3, <1>4, <1>5, <1>6, <1>7, <1>8, <1>9, <1>10, Zenon

\* A new client is well typed.
LEMMA InitType == Init => TypeOK
<1> SUFFICES ASSUME Init PROVE TypeOK
  BY Zenon
<1>1. request_data \in [InFlight -> Callers] /\ InFlight \subseteq Nat
  BY EmptyMap, Zenon DEF Init, InFlight
<1>2. terminal_error \in BOOLEAN /\ woken \in BOOLEAN /\ stalled \in BOOLEAN
  BY Zenon DEF Init
<1>3. /\ pending_requests \in Seq(Callers) /\ canceled_requests \in Seq(Nat)
      /\ sink \in Seq(Messages) /\ wire \in Seq(Messages) /\ inbound \in Seq(Replies)
  BY SMTT(30) DEF Init
<1>4. /\ call \in [Callers -> CallStates]
      /\ request_id \in [Callers -> Nat \cup {NoId}]
      /\ result \in [Callers -> {"none", "Dropped"} \cup Errors \cup Callers]
      /\ completion \in [Callers -> Values]
  BY Zenon DEF Init, CallStates, NoId, Values
<1>5. /\ next_request_id \in Nat /\ handle \in {"held", "half", "dropped"}
      /\ rx \in {"open", "closed", "dropped"} /\ pc \in Points
      /\ polled \in [read : Statuses, requests : Statuses, cancels : Statuses,
                     write : Statuses]
      /\ taken \in Callers \cup {"none"} /\ deadlines \subseteq Nat
      /\ registered \subseteq Sources /\ net \in {"up", "eof", "broken"}
      /\ stalls \in Nat /\ late \subseteq Callers
  BY Zenon DEF Init, Points, Unpolled, Statuses, Sources
<1> QED BY <1>1, <1>2, <1>3, <1>4, <1>5, Zenon DEF TypeOK, Values

\* Every step keeps the types.
LEMMA TypeStep ==
  ASSUME TypeOK, Inv, [Next]_vars
  PROVE TypeOK'
BY CallerType, DispatchType, EnvironmentType, Zenon DEF Next, Terminated

-----------------------------------------------------------------------------
(* The calling tasks keep the invariant                                    *)

\* A message is started (start_send) that carries the id of its call.
LEMMA AppendLabelled ==
  ASSUME NEW ids, NEW s \in Seq(Messages), NEW m \in Messages, Labelled(s, ids),
         m.type = "Request" => ids[m.call] = m.id
  PROVE Labelled(Append(s, m), ids)
<1>1. Len(Append(s, m)) = Len(s) + 1 /\ Len(s) \in Nat
  BY SMTT(30)
<1>2. \A k \in 1..Len(s) : Append(s, m)[k] = s[k]
  BY SMTT(30)
<1>3. Append(s, m)[Len(s) + 1] = m
  BY SMTT(30)
<1> QED BY <1>1, <1>2, <1>3, SMTT(30) DEF Labelled

\* The sink is flushed onto the wire (Flush).
LEMMA FlushLabelled ==
  ASSUME NEW ids, NEW s \in Seq(Messages), NEW t \in Seq(Messages),
         Labelled(s, ids), Labelled(t, ids)
  PROVE Labelled(s \o t, ids) /\ Labelled(<< >>, ids)
<1>1. Len(s \o t) = Len(s) + Len(t) /\ Len(s) \in Nat /\ Len(t) \in Nat
  BY SMTT(30)
<1>2. \A k \in 1..(Len(s) + Len(t)) :
        (s \o t)[k] = IF k <= Len(s) THEN s[k] ELSE t[k - Len(s)]
  BY SMTT(30)
<1>3. ASSUME NEW k \in 1..(Len(s) + Len(t)), (s \o t)[k].type = "Request"
      PROVE ids[(s \o t)[k].call] = (s \o t)[k].id
  <2>1. CASE k <= Len(s)
    BY <1>1, <1>2, <1>3, <2>1, SMTT(30) DEF Labelled
  <2>2. CASE k > Len(s)
    <3>1. k - Len(s) \in 1..Len(t) /\ (s \o t)[k] = t[k - Len(s)]
      BY <1>1, <1>2, <2>2, SMTT(30)
    <3> QED BY <1>3, <3>1, Zenon DEF Labelled
  <2> QED BY <1>1, <2>1, <2>2, SMTT(30)
<1> QED BY <1>1, <1>3, SMTT(30) DEF Labelled

\* A call without an id is on no message, so giving it one (Call) changes none.
LEMMA CallLabelled ==
  ASSUME NEW ids \in [Callers -> Nat \cup {NoId}], NEW s \in Seq(Messages),
         Labelled(s, ids), NEW c \in Callers, ids[c] = NoId, NEW n \in Nat
  PROVE Labelled(s, [ids EXCEPT ![c] = n])
<1> SUFFICES ASSUME NEW k \in 1..Len(s), s[k].type = "Request"
             PROVE [ids EXCEPT ![c] = n][s[k].call] = s[k].id
  BY Zenon DEF Labelled
<1>1. s[k] \in Messages
  BY SMTT(30)
<1>2. s[k].call \in Callers /\ s[k].id \in Nat
  BY <1>1, Zenon DEF Messages
<1>3. ids[s[k].call] = s[k].id
  BY Zenon DEF Labelled
<1> QED BY <1>2, <1>3, SMTT(30) DEF NoId

\* A step that leaves the calls, the queues, the oneshots and the map alone.
LEMMA QuietStep ==
  ASSUME Inv, Labels',
         UNCHANGED <<call, request_id, result, next_request_id, pending_requests, rx,
                     completion, canceled_requests, taken, request_data, deadlines>>,
         pc' = pc \/ {pc, pc'} \cap {"write", "ended"} = {}
  PROVE Inv'
<1>1. IdsUnique' /\ IdsAgree' /\ OwnReply'
  BY Zenon DEF Inv, IdsUnique, IdsAgree, OwnReply, InFlight
<1>2. OneHolder' /\ Unsent'
  BY Zenon DEF Inv, OneHolder, Unsent, Queued, Tracked, InFlight
<1>3. HeldUnused' /\ QueuedClosed'
  BY Zenon DEF Inv, HeldUnused, QueuedClosed, Holds, Queued, Tracked, InFlight
<1>4. TakenCanceled' /\ NoOrphan'
  BY Zenon DEF Inv, TakenCanceled, NoOrphan, InFlight
<1>5. Phases' /\ MapsAgree'
  BY Zenon DEF Inv, Phases, MapsAgree, InFlight
<1> QED BY <1>1, <1>2, <1>3, <1>4, <1>5, Zenon DEF Inv

\* ensure_writeable only moves messages from the sink to the wire.
LEMMA WriteableLabels ==
  ASSUME TypeOK, Labels, NEW next, NEW skip, ensure_writeable(next, skip),
         UNCHANGED <<request_id, inbound>>
  PROVE Labels' /\ pc' \in {next, skip, "shutdown"}
<1>1. CASE UNCHANGED sinkVars
  BY <1>1, Zenon DEF Labels, ensure_writeable, sinkVars, Fail
<1>2. CASE Flush
  BY <1>2, FlushLabelled, Zenon DEF TypeOK, Labels, ensure_writeable, Flush, Fail
<1> QED BY <1>1, <1>2, Zenon DEF ensure_writeable

\* Call: the new id is fresh, and nobody else has the call yet.
LEMMA CallInv ==
  ASSUME TypeOK, Inv, NEW c \in Callers, Call(c)
  PROVE Inv'
<1> USE DEF callVars, queueVars, mapVars, runVars, sinkVars, netVars, InFlight
<1>1. /\ call' = [call EXCEPT ![c] = "sending"] /\ call[c] = "idle"
      /\ request_id' = [request_id EXCEPT ![c] = next_request_id]
      /\ next_request_id' = next_request_id + 1
      /\ completion' = [completion EXCEPT ![c] = "open"]
      /\ UNCHANGED <<result, pending_requests, rx, canceled_requests, taken, pc,
                     request_data, deadlines, sink, wire, inbound>>
  BY Zenon DEF Call, fetch_add
<1>2. request_id[c] = NoId /\ ~Holds(c)
  BY <1>1, Zenon DEF Inv, IdsUnique, HeldUnused
<1>3. IdsUnique'
  BY <1>1, <1>2, SMTT(30) DEF TypeOK, Inv, IdsUnique, NoId
<1>4. IdsAgree' /\ MapsAgree' /\ NoOrphan'
  BY <1>1, <1>2, Zenon
     DEF TypeOK, Inv, IdsAgree, MapsAgree, NoOrphan, Holds, Tracked, Phases
<1>5. OneHolder' /\ Phases'
  BY <1>1, Zenon DEF Inv, OneHolder, Phases, Queued, Tracked
<1>6. Unsent' /\ HeldUnused' /\ QueuedClosed'
  BY <1>1, <1>2, SMTT(30) DEF TypeOK, Inv, Unsent, HeldUnused, QueuedClosed, Holds, Queued, Tracked
<1>7. TakenCanceled' /\ OwnReply'
  BY <1>1, <1>2, CallersAssumption, SMTT(30)
     DEF TypeOK, Inv, TakenCanceled, OwnReply, Holds, Marks
<1>8. Labels'
  <2>1. Labelled(sink, request_id') /\ Labelled(wire, request_id')
    <3>1. /\ request_id \in [Callers -> Nat \cup {NoId}] /\ next_request_id \in Nat
          /\ sink \in Seq(Messages) /\ wire \in Seq(Messages)
          /\ Labelled(sink, request_id) /\ Labelled(wire, request_id)
      BY Zenon DEF TypeOK, Inv, Labels
    <3> QED BY <1>1, <1>2, <3>1, CallLabelled, Zenon
  <2>2. \A k \in 1..Len(inbound) : inbound[k] \in Replies
    BY SMTT(30) DEF TypeOK
  <2>3. \A k \in 1..Len(inbound) : request_id'[inbound[k].reply] = inbound[k].id
    BY <1>1, <1>2, <2>2, SMTT(30) DEF TypeOK, Inv, Labels, Replies, NoId
  <2> QED BY <1>1, <2>1, <2>3, Zenon DEF Labels
<1> QED BY <1>3, <1>4, <1>5, <1>6, <1>7, <1>8, Zenon DEF Inv

\* Every other step of a calling task leaves the ids, the dispatch and the
\* transport alone.
Own == <<request_id, next_request_id, rx, pc, taken, request_data, deadlines, sink,
         wire, inbound>>

\* What depends on none of the variables a calling task changes.
LEMMA OwnKept ==
  ASSUME TypeOK, Inv, UNCHANGED Own,
         \A c \in Callers : call'[c] = "idle" <=> call[c] = "idle"
  PROVE IdsUnique' /\ IdsAgree' /\ Phases' /\ Labels' /\ MapsAgree'
BY Zenon DEF Own, Inv, IdsUnique, IdsAgree, Phases, Labels, MapsAgree, InFlight

\* Reserve, SendError, Response, DropCall and CloseResponse change the call and
\* its own oneshot, which nobody has or which it still waits for.
LEMMA OwnStep ==
  ASSUME TypeOK, Inv, NEW c \in Callers,
         UNCHANGED <<Own, pending_requests, canceled_requests>>,
         NEW at \in CallStates \ {"idle"}, call[c] # "idle",
         call' = [call EXCEPT ![c] = at],
         NEW value \in Values, completion' = [completion EXCEPT ![c] = value],
         value \in Callers => value = c,
         NEW returned, result' = [result EXCEPT ![c] = returned],
         returned \in Callers => returned = c,
         at \in {"sending", "permitted"} => value = "open",
         Holds(c) => /\ at \in {"awaiting", "dropping", "closing"}
                     /\ value \in {"open", "closed"}
                     /\ at = "awaiting" => value = "open"
                     /\ at = "closing" => value = "closed"
  PROVE Inv'
<1> USE DEF InFlight
<1>1. UNCHANGED <<request_id, taken, request_data, pending_requests,
                  canceled_requests>>
  BY Zenon DEF Own
<1>2. IdsUnique' /\ IdsAgree' /\ Phases' /\ Labels' /\ MapsAgree'
  BY OwnKept, Zenon DEF TypeOK
<1>3. OneHolder'
  BY <1>1, Zenon DEF Inv, OneHolder, Queued, Tracked
<1>4. \A d \in Callers : Holds(d)' = Holds(d) /\ Queued(d)' = Queued(d)
  BY <1>1, Zenon DEF Holds, Queued, Tracked
<1>5. Unsent' /\ HeldUnused'
  BY <1>4, SMTT(30) DEF TypeOK, Inv, Unsent, HeldUnused
<1>6. QueuedClosed'
  BY <1>4, Zenon DEF TypeOK, Inv, QueuedClosed, Holds
<1>7. TakenCanceled'
  BY <1>1, Zenon DEF TypeOK, Inv, TakenCanceled, Holds
<1>8. NoOrphan'
  BY <1>1, Zenon DEF TypeOK, Inv, NoOrphan, Holds, Tracked
<1>9. OwnReply'
  BY SMTT(30) DEF TypeOK, Inv, OwnReply
<1> QED BY <1>2, <1>3, <1>5, <1>6, <1>7, <1>8, <1>9, Zenon DEF Inv

\* Completed for one call: the others keep theirs.
LEMMA CompletedOne ==
  ASSUME TypeOK, NEW c \in Callers, NEW v
  PROVE Completed({c}, v) = [completion EXCEPT ![c] = IF completion[c] = "open"
                                                     THEN v ELSE completion[c]]
BY Zenon DEF TypeOK, Completed

\* Reserve: the permit changes nothing but the call.
LEMMA ReserveInv ==
  ASSUME TypeOK, Inv, NEW c \in Callers, Reserve(c)
  PROVE Inv'
<1>1. /\ call[c] = "sending" /\ call' = [call EXCEPT ![c] = "permitted"]
      /\ UNCHANGED <<Own, pending_requests, canceled_requests>>
      /\ UNCHANGED <<completion, result>>
  BY Zenon DEF Reserve, Own, queueVars, mapVars, runVars, sinkVars, netVars
<1>2. completion[c] = "open" /\ ~Holds(c)
  BY <1>1, Zenon DEF Inv, Unsent, HeldUnused
<1>3. /\ completion' = [completion EXCEPT ![c] = "open"]
      /\ result' = [result EXCEPT ![c] = result[c]]
  BY <1>1, <1>2, Zenon DEF TypeOK
<1>4. result[c] \in Callers => result[c] = c
  BY Zenon DEF Inv, OwnReply
<1> QED
  BY <1>1, <1>2, <1>3, <1>4, OwnStep, CallersAssumption, Zenon
     DEF CallStates, Values, Marks

\* SendError: the oneshot goes before anyone else has had it.
LEMMA SendErrorInv ==
  ASSUME TypeOK, Inv, NEW c \in Callers, SendError(c)
  PROVE Inv'
<1>1. /\ call[c] = "sending" /\ call' = [call EXCEPT ![c] = "dropping"]
      /\ result' = [result EXCEPT ![c] = "Shutdown"]
      /\ completion' = Completed({c}, "gone")
      /\ UNCHANGED <<Own, pending_requests, canceled_requests>>
  BY Zenon DEF SendError, Own, queueVars, mapVars, runVars, sinkVars, netVars
<1>2. completion[c] = "open" /\ ~Holds(c)
  BY <1>1, Zenon DEF Inv, Unsent, HeldUnused
<1>3. completion' = [completion EXCEPT ![c] = "gone"]
  BY <1>1, <1>2, CompletedOne, Zenon
<1> QED
  BY <1>1, <1>2, <1>3, OwnStep, CallersAssumption, ZenonT(20)
     DEF CallStates, Values, Marks, Errors

\* The oneshot has resolved, so its sender is used up: nobody holds it.
LEMMA ResponseInv ==
  ASSUME TypeOK, Inv, NEW c \in Callers, Response(c)
  PROVE Inv'
<1>0. PICK returned : returned = IF completion[c] = "gone" THEN "Shutdown" ELSE completion[c]
  BY Zenon
<1>1. /\ call[c] = "awaiting" /\ call' = [call EXCEPT ![c] = "done"]
      /\ result' = [result EXCEPT ![c] = returned]
      /\ completion[c] \notin {"open", "closed"}
      /\ UNCHANGED completion
      /\ UNCHANGED <<Own, pending_requests, canceled_requests>>
  BY <1>0, Zenon
     DEF Response, IsReady, Own, queueVars, mapVars, runVars, sinkVars, netVars
<1>2. ~Holds(c)
  BY <1>1, Zenon DEF Inv, HeldUnused
<1>3. completion' = [completion EXCEPT ![c] = completion[c]] /\ completion[c] \in Values
  BY <1>1, Zenon DEF TypeOK, Values
<1>4. completion[c] \in Callers => completion[c] = c
  BY Zenon DEF Inv, OwnReply
<1>5. returned \in Callers => returned = c
  BY <1>0, <1>4, CallersAssumption, Zenon DEF Marks, Errors
<1>6. "done" \in CallStates \ {"idle"} /\ "done" \notin {"sending", "permitted"}
  BY Zenon DEF CallStates
<1>7. call[c] # "idle" /\ UNCHANGED <<Own, pending_requests, canceled_requests>>
  BY <1>1, Zenon
<1>8. call' = [call EXCEPT ![c] = "done"] /\ result' = [result EXCEPT ![c] = returned]
  BY <1>1, Zenon
<1> QED
  BY <1>2, <1>3, <1>4, <1>5, <1>6, <1>7, <1>8, OwnStep, Zenon

\* DropCall: the dispatch may hold the sender of a call that awaited.
LEMMA DropCallInv ==
  ASSUME TypeOK, Inv, NEW c \in Callers, DropCall(c)
  PROVE Inv'
<1>1. /\ call' = [call EXCEPT ![c] = "dropping"]
      /\ result' = [result EXCEPT ![c] = "Dropped"]
      /\ UNCHANGED <<Own, pending_requests, canceled_requests>>
  BY Zenon DEF DropCall, Own, queueVars, mapVars, runVars, sinkVars, netVars
<1>2. "Dropped" \notin Callers /\ "gone" \notin Callers
  BY CallersAssumption, Zenon DEF Marks
<1>3. CASE call[c] = "sending"
  <2>1. completion[c] = "open" /\ ~Holds(c)
    BY <1>3, Zenon DEF Inv, Unsent, HeldUnused
  <2>2. completion' = [completion EXCEPT ![c] = "gone"]
    BY <1>3, <2>1, CompletedOne, Zenon DEF DropCall
  <2> QED BY <1>1, <1>2, <1>3, <2>1, <2>2, OwnStep, Zenon DEF CallStates, Values
<1>4. CASE call[c] = "awaiting"
  <2>1. completion' = [completion EXCEPT ![c] = completion[c]]
    BY <1>4, Zenon DEF TypeOK, DropCall
  <2>2. completion[c] \in Values /\ (completion[c] \in Callers => completion[c] = c)
    BY Zenon DEF TypeOK, Inv, OwnReply, Values
  <2>3. Holds(c) => completion[c] \in {"open", "closed"}
    BY Zenon DEF Inv, HeldUnused
  <2> QED BY <1>1, <1>2, <1>4, <2>1, <2>2, <2>3, OwnStep, Zenon DEF CallStates
<1> QED BY <1>3, <1>4, Zenon DEF DropCall

\* CloseResponse: a oneshot the dispatch holds is closed from now on.
LEMMA CloseResponseInv ==
  ASSUME TypeOK, Inv, NEW c \in Callers, CloseResponse(c)
  PROVE Inv'
<1>0. PICK value : value = IF completion[c] = "open" THEN "closed" ELSE completion[c]
  BY Zenon
<1>1. /\ call[c] = "dropping" /\ call' = [call EXCEPT ![c] = "closing"]
      /\ completion' = Completed({c}, "closed")
      /\ UNCHANGED result
      /\ UNCHANGED <<Own, pending_requests, canceled_requests>>
  BY Zenon DEF CloseResponse, Own, queueVars, mapVars, runVars, sinkVars, netVars
<1>2. completion' = [completion EXCEPT ![c] = value]
  BY <1>0, <1>1, CompletedOne, Zenon
<1>3. value \in Values /\ (value \in Callers => value = c)
  BY <1>0, CallersAssumption, Zenon DEF TypeOK, Inv, OwnReply, Values, Marks
<1>4. Holds(c) => value = "closed"
  BY <1>0, Zenon DEF Inv, HeldUnused
<1>5. /\ result' = [result EXCEPT ![c] = result[c]]
      /\ result[c] \in Callers => result[c] = c
  BY <1>1, Zenon DEF TypeOK, Inv, OwnReply
<1>6. "closing" \in CallStates \ {"idle"} /\ "closing" \notin {"sending", "permitted"}
  BY Zenon DEF CallStates
<1>7. call[c] # "idle" /\ UNCHANGED <<Own, pending_requests, canceled_requests>>
  BY <1>1, Zenon
<1>8. call' = [call EXCEPT ![c] = "closing"]
  BY <1>1, Zenon
<1> QED BY <1>2, <1>3, <1>4, <1>5, <1>6, <1>7, <1>8, OwnStep, Zenon

\* Push: the sender moves from the caller to the queue.
LEMMA PushInv ==
  ASSUME TypeOK, Inv, NEW c \in Callers, Push(c)
  PROVE Inv'
<1> USE DEF InFlight
<1>1. /\ call[c] = "permitted" /\ call' = [call EXCEPT ![c] = "awaiting"]
      /\ pending_requests' = Append(pending_requests, c)
      /\ UNCHANGED <<Own, canceled_requests, completion, result>>
  BY Zenon DEF Push, Own, mapVars, runVars, sinkVars, netVars
<1>2. UNCHANGED <<request_id, taken, request_data>>
  BY <1>1, Zenon DEF Own
<1>3. completion[c] = "open" /\ ~Holds(c)
  BY <1>1, Zenon DEF Inv, Unsent, HeldUnused
<1>4. \A d \in Callers : Queued(d)' <=> Queued(d) \/ d = c
  BY <1>1, AppendContains, SMTT(30) DEF TypeOK, Queued
<1>5. \A d \in Callers : Tracked(d)' <=> Tracked(d)
  BY <1>2, Zenon DEF Tracked
<1>6. IdsUnique' /\ IdsAgree' /\ Phases' /\ Labels' /\ MapsAgree'
  BY <1>1, OwnKept, SMTT(20) DEF TypeOK
<1>7. OneHolder'
  <2>1. NoDup(pending_requests')
    BY <1>1, <1>3, AppendNoDup, Zenon DEF TypeOK, Inv, OneHolder, Holds, Queued
  <2> QED BY <1>2, <1>3, <1>4, <1>5, <2>1, Zenon DEF Inv, OneHolder, Holds
<1>8. Unsent' /\ HeldUnused'
  BY <1>1, <1>2, <1>3, <1>4, <1>5, SMTT(30) DEF TypeOK, Inv, Unsent, HeldUnused, Holds
<1>9. QueuedClosed' /\ OwnReply'
  BY <1>1, <1>4, Zenon DEF TypeOK, Inv, QueuedClosed, OwnReply
<1>10. TakenCanceled' /\ NoOrphan'
  BY <1>1, <1>2, Zenon DEF TypeOK, Inv, TakenCanceled, NoOrphan
<1> QED BY <1>6, <1>7, <1>8, <1>9, <1>10, Zenon DEF Inv

\* Cancel: the cancellation of a tracked or taken request is queued, unless the
\* dispatch is gone and tracks nothing.
LEMMA CancelInv ==
  ASSUME TypeOK, Inv, NEW c \in Callers, Cancel(c)
  PROVE Inv'
<1> USE DEF InFlight
<1>1. /\ call[c] = "closing" /\ call' = [call EXCEPT ![c] = "done"]
      /\ UNCHANGED <<Own, pending_requests, completion, result>>
  BY Zenon DEF Cancel, Own, mapVars, runVars, sinkVars, netVars
<1>2. UNCHANGED <<request_id, taken, request_data>>
  BY <1>1, Zenon DEF Own
<1>3. request_id[c] \in Nat
  BY <1>1, IdsGiven, Zenon
<1>4. \/ rx = "dropped" /\ canceled_requests' = canceled_requests
      \/ canceled_requests' = Append(canceled_requests, request_id[c])
  BY Zenon DEF Cancel, cancel
<1>5. rx = "dropped" => InFlight = {} /\ taken = "none"
  BY Zenon DEF Inv, Phases
<1>6. canceled_requests \in Seq(Nat)
  BY Zenon DEF TypeOK
<1>7. ASSUME NEW i
       PROVE Contains(Append(canceled_requests, request_id[c]), i)
               <=> Contains(canceled_requests, i) \/ i = request_id[c]
  BY <1>6, <1>3, AppendContains, Zenon
<1>8. \A i : Contains(canceled_requests, i) => Contains(canceled_requests', i)
  BY <1>4, <1>7, Zenon
<1>9. rx # "dropped" => Contains(canceled_requests', request_id[c])
  BY <1>4, <1>7, Zenon
<1>10. IdsUnique' /\ IdsAgree' /\ Phases' /\ Labels' /\ MapsAgree'
  BY <1>1, OwnKept, Zenon DEF TypeOK
<1>11. OneHolder'
  BY <1>1, <1>2, Zenon DEF Inv, OneHolder, Queued, Tracked
<1>12. Unsent' /\ HeldUnused' /\ QueuedClosed' /\ OwnReply'
  BY <1>1, <1>2, SMTT(30) DEF TypeOK, Inv, Unsent, HeldUnused, QueuedClosed, OwnReply, Holds,
                    Queued, Tracked
<1>13. TakenCanceled'
  BY <1>1, <1>2, <1>5, <1>8, <1>9, CallersAssumption, Zenon
     DEF TypeOK, Inv, TakenCanceled, Marks
<1>14. NoOrphan'
  <2> SUFFICES ASSUME NEW i \in InFlight', call'[request_data'[i]]
                        \notin {"awaiting", "dropping", "closing"}
               PROVE Contains(canceled_requests', i)
    BY Zenon DEF NoOrphan
  <2>1. i \in InFlight /\ request_data'[i] = request_data[i] /\ request_data[i] \in Callers
    BY <1>2, Zenon DEF TypeOK
  <2>2. CASE request_data[i] = c
    BY <1>5, <1>9, <2>1, <2>2, Zenon DEF Inv, IdsAgree
  <2>3. CASE request_data[i] # c
    BY <1>1, <1>8, <2>1, <2>3, Zenon DEF TypeOK, Inv, NoOrphan
  <2> QED BY <2>2, <2>3, Zenon
<1> QED BY <1>10, <1>11, <1>12, <1>13, <1>14, Zenon DEF Inv

\* Every step of a calling task.
LEMMA CallerInv ==
  ASSUME TypeOK, Inv, NEW c \in Callers, Caller(c)
  PROVE Inv'
BY CallInv, ReserveInv, PushInv, SendErrorInv, ResponseInv, DropCallInv,
   CloseResponseInv, CancelInv, Zenon DEF Caller

-----------------------------------------------------------------------------
(* The steps that touch the queues, the oneshots or the map                *)

\* A request leaves the map (complete_request, cancel_request): its sender is
\* used or dropped, and its cancellation is not needed any more.
LEMMA ForgetInv ==
  ASSUME TypeOK, Inv, NEW i \in InFlight, Forget(i),
         NEW v, v \in Callers => v = request_data[i],
         completion' = Completed({request_data[i]}, v),
         UNCHANGED <<call, request_id, result, next_request_id, pending_requests, rx,
                     taken>>,
         \A j : j # i /\ Contains(canceled_requests, j)
                  => Contains(canceled_requests', j),
         {pc, pc'} \cap {"write", "ended"} = {}, Labels'
  PROVE Inv'
<1> USE DEF InFlight
<1>1. PICK c : c = request_data[i]
  BY Zenon
<1>2. c \in Callers /\ request_id[c] = i /\ taken = "none"
  BY <1>1, Zenon DEF TypeOK, Inv, IdsAgree, Phases
<1>3. InFlight' = InFlight \ {i} /\ \A j \in InFlight' : request_data'[j] = request_data[j]
  BY Zenon DEF Forget
<1>4. \A j \in InFlight' : request_data[j] # c
  BY <1>2, <1>3, Zenon DEF Inv, IdsAgree
<1>5. \A d \in Callers : Tracked(d)' <=> Tracked(d) /\ d # c
  BY <1>1, <1>3, <1>4, Zenon DEF Tracked
<1>6. \A d \in Callers : Queued(d)' <=> Queued(d)
  BY Zenon DEF Queued
<1>7. Tracked(c) /\ ~Queued(c)
  BY <1>1, <1>2, Zenon DEF Inv, OneHolder, Tracked
<1>8. \A d \in Callers : d # c => completion'[d] = completion[d]
  BY <1>1, Zenon DEF Completed
<1>9. completion'[c] \in {v, completion[c]}
  BY <1>1, <1>2, Zenon DEF Completed
<1>10. IdsUnique' /\ IdsAgree'
  BY <1>3, Zenon DEF Inv, IdsUnique, IdsAgree
<1>11. OneHolder'
  BY <1>5, <1>6, CallersAssumption, Zenon DEF Inv, OneHolder, Marks
<1>12. Unsent'
  BY <1>7, <1>8, Zenon DEF Inv, Unsent, HeldUnused, Holds
<1>13. HeldUnused'
  BY <1>2, <1>5, <1>6, <1>7, <1>8, CallersAssumption, Zenon
     DEF Inv, HeldUnused, Holds, Marks
<1>14. QueuedClosed'
  BY <1>6, <1>7, <1>8, Zenon DEF Inv, QueuedClosed
<1>15. TakenCanceled' /\ Phases'
  BY <1>2, <1>3, CallersAssumption, Zenon DEF Inv, TakenCanceled, Phases, Marks
<1>16. NoOrphan'
  BY <1>3, Zenon DEF Inv, NoOrphan
<1>17. OwnReply'
  BY <1>1, <1>8, <1>9, SMTT(30) DEF Inv, OwnReply
<1>18. MapsAgree'
  BY <1>3, Zenon DEF Inv, MapsAgree, Forget
<1> QED BY <1>10, <1>11, <1>12, <1>13, <1>14, <1>15, <1>16, <1>17, <1>18, Zenon DEF Inv

\* Shared by ReadResponse and Expire.
LEMMA CompleteInv ==
  ASSUME TypeOK, Inv, NEW i, NEW v, complete_request(i, v),
         i \in InFlight /\ v \in Callers => v = request_data[i],
         UNCHANGED <<call, request_id, result, next_request_id, pending_requests, rx,
                     taken, canceled_requests>>,
         {pc, pc'} \cap {"write", "ended"} = {}, Labels'
  PROVE Inv'
<1>1. CASE i \in InFlight
  BY <1>1, ForgetInv, Zenon DEF complete_request
<1>2. CASE i \notin InFlight
  <2>1. UNCHANGED <<completion, request_data, deadlines>>
    BY <1>2, Zenon DEF complete_request, mapVars
  <2> QED BY <2>1, QuietStep, Zenon
<1> QED BY <1>1, <1>2, Zenon

\* ReadResponse: the reply carries the id of the call it answers, and the map
\* that id's call.
LEMMA ReadResponseInv ==
  ASSUME TypeOK, Inv, ReadResponse
  PROVE Inv'
<1> DEFINE r == Head(inbound)
<1>1. /\ complete_request(r.id, r.reply) /\ inbound # << >>
      /\ inbound' = Tail(inbound) /\ pc = "read" /\ pc' = "ready"
      /\ UNCHANGED <<call, request_id, result, next_request_id, pending_requests, rx,
                     taken, canceled_requests, sink, wire>>
  BY Zenon DEF ReadResponse, callVars, queueVars, sinkVars
<1>2. r \in Replies /\ request_id[r.reply] = r.id
  <2>1. 1 \in 1..Len(inbound) /\ r = inbound[1]
    BY <1>1, SMTT(30) DEF TypeOK
  <2>2. inbound \in Seq(Replies) /\ request_id[inbound[1].reply] = inbound[1].id
    BY <2>1, Zenon DEF TypeOK, Inv, Labels
  <2>3. inbound[1] \in Replies
    BY <2>1, <2>2, SMTT(30)
  <2> QED BY <2>1, <2>2, <2>3, Zenon
<1>3. r.id \in InFlight => r.reply = request_data[r.id]
  BY <1>2, SMTT(30) DEF TypeOK, Inv, IdsAgree, IdsUnique, Replies, NoId, InFlight
<1>4. Labels'
  <2>1. /\ Len(Tail(inbound)) = Len(inbound) - 1 /\ Len(inbound) \in Nat
        /\ \A k \in 1..Len(Tail(inbound)) : Tail(inbound)[k] = inbound[k + 1]
    BY <1>1, SMTT(30) DEF TypeOK
  <2>2. \A k \in 1..Len(Tail(inbound)) : k + 1 \in 1..Len(inbound)
    BY <2>1, SMTT(30)
  <2> QED BY <1>1, <2>1, <2>2, Zenon DEF Inv, Labels
<1> QED BY <1>1, <1>3, <1>4, CompleteInv, Zenon

\* PopRequest: a request whose oneshot is not closed has not been canceled.
LEMMA PopRequestInv ==
  ASSUME TypeOK, Inv, PopRequest
  PROVE Inv'
<1> USE DEF InFlight
<1>1. PICK c : c = Head(pending_requests)
  BY Zenon
<1>2. /\ pending_requests # << >> /\ pending_requests' = Tail(pending_requests)
      /\ pc = "pop" /\ c \in Callers
      /\ \/ UNCHANGED <<taken, pc>>
         \/ completion[c] # "closed" /\ taken' = c /\ pc' = "write"
      /\ UNCHANGED <<call, request_id, result, next_request_id, rx,
                     canceled_requests, completion, request_data, deadlines, sink,
                     wire, inbound>>
  BY <1>1, SMTT(30) DEF TypeOK, PopRequest, is_closed, callVars, mapVars, sinkVars, netVars
<1>3. taken = "none" /\ "none" \notin Callers
  BY <1>2, CallersAssumption, Zenon DEF Inv, Phases, Marks
<1>4. \A d \in Callers : Queued(d)' <=> Queued(d) /\ d # c
  BY <1>1, <1>2, TailContains, TailNoDup, Zenon DEF TypeOK, Inv, OneHolder, Queued
<1>5. Queued(c) /\ ~Tracked(c) /\ NoDup(pending_requests')
  BY <1>1, <1>2, TailContains, TailNoDup, Zenon DEF TypeOK, Inv, OneHolder, Queued
<1>6. \A d \in Callers : Tracked(d)' <=> Tracked(d)
  BY <1>2, Zenon DEF Tracked
<1>7. IdsUnique' /\ IdsAgree' /\ Labels' /\ OwnReply' /\ NoOrphan' /\ Unsent'
  BY <1>2, Zenon DEF Inv, IdsUnique, IdsAgree, Labels, OwnReply, NoOrphan, Unsent
<1>8. OneHolder'
  BY <1>2, <1>3, <1>4, <1>5, <1>6, Zenon DEF Inv, OneHolder
<1>9. HeldUnused'
  BY <1>2, <1>3, <1>4, <1>5, <1>6, Zenon DEF Inv, HeldUnused, Holds
<1>10. QueuedClosed' /\ TakenCanceled'
  BY <1>2, <1>3, <1>4, <1>5, Zenon DEF Inv, QueuedClosed, TakenCanceled
<1>11. Phases'
  BY <1>2, <1>3, Zenon DEF Inv, Phases
<1>12. MapsAgree'
  <2>1. request_id[c] # NoId
    BY <1>2, <1>5, Zenon DEF Inv, HeldUnused, Holds, IdsUnique
  <2>2. request_id[c] \notin InFlight
    BY <1>2, <1>5, <2>1, Zenon DEF TypeOK, Inv, IdsUnique, IdsAgree, Tracked
  <2> QED BY <1>2, <2>2, Zenon DEF Inv, MapsAgree
<1> QED BY <1>7, <1>8, <1>9, <1>10, <1>11, <1>12, Zenon DEF Inv

\* WriteRequest: the request enters the map with its cancellation, if any, still
\* to be read, or its caller is told that it could not be sent.
LEMMA WriteRequestInv ==
  ASSUME TypeOK, Inv, WriteRequest
  PROVE Inv'
<1> USE DEF InFlight
<1>1. PICK c, i : c = taken /\ i = request_id[taken]
  BY Zenon
<1>2. c \in Callers /\ i \in Nat /\ pc = "write" /\ "none" \notin Callers
  BY <1>1, IdsGiven, CallersAssumption, Zenon DEF WriteRequest, Marks
<1>3. /\ taken' = "none" /\ pc' = "run"
      /\ UNCHANGED <<call, request_id, result, next_request_id, pending_requests, rx,
                     canceled_requests, inbound>>
  BY Zenon DEF WriteRequest, callVars, queueVars, netVars
<1>4. Holds(c) /\ ~Queued(c) /\ ~Tracked(c) /\ i \notin InFlight
  BY <1>1, <1>2, Zenon DEF Inv, OneHolder, Holds, MapsAgree
<1>5. \A d \in Callers : Queued(d)' <=> Queued(d)
  BY <1>3, Zenon DEF Queued
<1>6. IdsUnique' /\ TakenCanceled'
  BY <1>2, <1>3, Zenon DEF Inv, IdsUnique, TakenCanceled
<1>7. CASE /\ insert_request(i, c)
           /\ start_send([type |-> "Request", id |-> i, call |-> c])
           /\ UNCHANGED completion
  <2>1. /\ InFlight' = InFlight \cup {i} /\ request_data'[i] = c
        /\ \A j \in InFlight : request_data'[j] = request_data[j]
        /\ deadlines' = deadlines \cup {i}
    BY <1>4, <1>7, Zenon DEF insert_request
  <2>2. \A d \in Callers : Tracked(d)' <=> Tracked(d) \/ d = c
    BY <2>1, Zenon DEF Tracked
  <2>3. Labels'
    <3>1. [type |-> "Request", id |-> i, call |-> c] \in Messages
      BY <1>2, Zenon DEF Messages
    <3>2. Labelled(sink', request_id)
      BY <1>1, <1>7, <3>1, AppendLabelled, Zenon DEF TypeOK, Inv, Labels, start_send
    <3> QED BY <1>3, <1>7, <3>2, Zenon DEF Inv, Labels, start_send
  <2>4. IdsAgree' /\ Phases' /\ MapsAgree'
    BY <1>1, <1>2, <1>3, <2>1, Zenon DEF Inv, IdsAgree, Phases, MapsAgree
  <2>5. OneHolder'
    BY <1>2, <1>3, <1>4, <1>5, <2>2, Zenon DEF Inv, OneHolder
  <2>6. Unsent' /\ HeldUnused'
    BY <1>2, <1>3, <1>4, <1>5, <1>7, <2>2, Zenon DEF Inv, Unsent, HeldUnused, Holds
  <2>7. QueuedClosed' /\ OwnReply'
    BY <1>3, <1>5, <1>7, Zenon DEF Inv, QueuedClosed, OwnReply
  <2>8. NoOrphan'
    BY <1>1, <1>2, <1>3, <1>4, <2>1, Zenon DEF Inv, NoOrphan, HeldUnused, TakenCanceled
  <2> QED BY <1>6, <2>3, <2>4, <2>5, <2>6, <2>7, <2>8, Zenon DEF Inv
<1>8. CASE completion' = Completed({c}, "Send") /\ UNCHANGED <<mapVars, sinkVars>>
  <2>1. UNCHANGED <<request_data, deadlines, sink, wire>>
    BY <1>8, Zenon DEF mapVars, sinkVars
  <2>2. \A d \in Callers : d # c => completion'[d] = completion[d]
    BY <1>8, Zenon DEF Completed
  <2>3. completion'[c] \in {"Send", completion[c]} /\ "Send" \notin Callers
    BY <1>2, <1>8, CallersAssumption, Zenon DEF Completed, Marks, Errors
  <2>4. \A d \in Callers : Tracked(d)' <=> Tracked(d)
    BY <2>1, Zenon DEF Tracked
  <2>5. IdsAgree' /\ Phases' /\ MapsAgree' /\ NoOrphan' /\ Labels'
    BY <1>2, <1>3, <2>1, Zenon DEF Inv, IdsAgree, Phases, MapsAgree, NoOrphan, Labels
  <2>6. OneHolder'
    BY <1>2, <1>3, <1>5, <2>4, Zenon DEF Inv, OneHolder
  <2>7. Unsent' /\ HeldUnused'
    BY <1>2, <1>3, <1>4, <1>5, <2>2, <2>4, Zenon DEF Inv, Unsent, HeldUnused, Holds
  <2>8. QueuedClosed' /\ OwnReply'
    BY <1>3, <1>4, <1>5, <2>2, <2>3, SMTT(30) DEF Inv, QueuedClosed, OwnReply
  <2> QED BY <1>6, <2>5, <2>6, <2>7, <2>8, Zenon DEF Inv
<1> QED BY <1>1, <1>7, <1>8, WriteCases, Zenon

\* PopCancel: what is popped concerns the entry it removes, or no entry.
LEMMA PopCancelInv ==
  ASSUME TypeOK, Inv, PopCancel
  PROVE Inv'
<1> USE DEF InFlight
<1>1. PICK i : i = Head(canceled_requests)
  BY Zenon
<1>2. /\ canceled_requests # << >> /\ canceled_requests' = Tail(canceled_requests)
      /\ pc = "cancel_pop" /\ i \in Nat
      /\ UNCHANGED <<call, request_id, result, next_request_id, pending_requests, rx,
                     taken, inbound>>
  BY <1>1, SMTT(30) DEF TypeOK, PopCancel, write_cancel, callVars, netVars
<1>3. ASSUME NEW j, j # i, Contains(canceled_requests, j)
      PROVE Contains(canceled_requests', j)
  BY <1>1, <1>2, <1>3, TailContains, Zenon DEF TypeOK
<1>4. CASE i \notin InFlight /\ UNCHANGED <<mapVars, completion, pc, sinkVars>>
  <2>1. UNCHANGED <<request_data, deadlines, sink, wire, completion, pc>>
    BY <1>4, Zenon DEF mapVars, sinkVars
  <2>2. IdsUnique' /\ IdsAgree' /\ Labels' /\ OwnReply' /\ Unsent'
    BY <1>2, <2>1, Zenon DEF Inv, IdsUnique, IdsAgree, Labels, OwnReply, Unsent
  <2>3. OneHolder' /\ HeldUnused' /\ QueuedClosed'
    BY <1>2, <2>1, SMTT(20)
       DEF Inv, OneHolder, HeldUnused, QueuedClosed, Holds, Queued, Tracked
  <2>4. TakenCanceled' /\ Phases' /\ MapsAgree'
    BY <1>2, <2>1, CallersAssumption, Zenon
       DEF Inv, TakenCanceled, Phases, MapsAgree, Marks
  <2>5. NoOrphan'
    BY <1>2, <1>3, <1>4, <2>1, Zenon DEF Inv, NoOrphan
  <2> QED BY <2>2, <2>3, <2>4, <2>5, Zenon DEF Inv
<1>5. ASSUME i \in InFlight, cancel_request(i), pc' \in {"run", "shutdown"}, Labels'
      PROVE Inv'
  <2>1. Forget(i) /\ completion' = Completed({request_data[i]}, "gone")
    BY <1>5, Zenon DEF cancel_request
  <2>2. "gone" \notin Callers
    BY CallersAssumption, Zenon DEF Marks
  <2>3. {pc, pc'} \cap {"write", "ended"} = {}
    BY <1>2, <1>5, Zenon
  <2> QED BY <1>2, <1>3, <1>5, <2>1, <2>2, <2>3, ForgetInv, Zenon
<1>6. CASE /\ i \in InFlight /\ cancel_request(i)
           /\ start_send([type |-> "Cancel", id |-> i]) /\ pc' = "run"
  <2>1. [type |-> "Cancel", id |-> i] \in Messages
    BY <1>2, Zenon DEF Messages
  <2>2. Labelled(sink', request_id)
    BY <1>6, <2>1, AppendLabelled, SMTT(20) DEF TypeOK, Inv, Labels, start_send
  <2>3. Labels'
    BY <1>2, <1>6, <2>2, Zenon DEF Inv, Labels, start_send
  <2> QED BY <1>5, <1>6, <2>3, Zenon
<1>7. CASE i \in InFlight /\ cancel_request(i) /\ Fail /\ UNCHANGED sinkVars
  <2>1. Labels'
    BY <1>2, <1>7, Zenon DEF Inv, Labels, sinkVars
  <2> QED BY <1>5, <1>7, <2>1, Zenon DEF Fail
<1> QED BY <1>1, <1>4, <1>6, <1>7, Zenon DEF PopCancel, write_cancel

\* The dispatch is dropped: nothing is queued or tracked any more.
LEMMA DroppedInv ==
  ASSUME TypeOK, Inv, Dropped, pc # "write"
  PROVE Inv'
<1> USE DEF InFlight
<1>1. /\ pc' = "ended" /\ pending_requests' = << >> /\ request_data' = << >>
      /\ deadlines' = {} /\ taken' = taken
      /\ UNCHANGED <<call, request_id, result, next_request_id, sink, wire, inbound>>
  BY Zenon DEF Dropped, callVars, sinkVars, netVars
<1>2. InFlight' = {} /\ taken = "none" /\ "none" \notin Callers /\ "gone" \notin Callers
  BY <1>1, EmptyMap, CallersAssumption, Zenon DEF Inv, Phases, Marks
<1>3. \A c \in Callers : ~Holds(c)'
  BY <1>1, <1>2, EmptyContains, Zenon DEF Holds, Queued, Tracked
<1>4. NoDup(<< >>)
  BY SMTT(30) DEF NoDup
<1>5. \A c \in Callers : \/ completion'[c] = completion[c]
                         \/ completion'[c] = "gone" /\ Holds(c)
  BY Zenon DEF Dropped, Completed, Holds, Tracked, Queued, Contains
<1>6. IdsUnique' /\ IdsAgree' /\ Phases' /\ Labels' /\ NoOrphan' /\ MapsAgree'
  BY <1>1, <1>2, Zenon DEF Inv, IdsUnique, IdsAgree, Phases, Labels, NoOrphan, MapsAgree
<1>7. OneHolder' /\ HeldUnused' /\ QueuedClosed' /\ TakenCanceled'
  BY <1>1, <1>2, <1>3, <1>4, Zenon DEF OneHolder, HeldUnused, QueuedClosed, TakenCanceled,
                               Holds
<1>8. Unsent' /\ OwnReply'
  BY <1>1, <1>2, <1>5, Zenon DEF Inv, Unsent, OwnReply, HeldUnused
<1> QED BY <1>6, <1>7, <1>8, Zenon DEF Inv

\* ShutDown: complete_all_requests uses the senders of the map, and only those.
LEMMA ShutDownInv ==
  ASSUME TypeOK, Inv, ShutDown
  PROVE Inv'
<1> USE DEF InFlight
<1>1. /\ pc = "shutdown" /\ pc' = "drain" /\ rx' = "closed" /\ request_data' = << >>
      /\ deadlines' = {}
      /\ UNCHANGED <<call, request_id, result, next_request_id, pending_requests,
                     taken, canceled_requests, sink, wire, inbound>>
  BY Zenon DEF ShutDown, complete_all_requests, callVars, sinkVars, netVars
<1>2. InFlight' = {} /\ taken = "none" /\ "none" \notin Callers /\ "Channel" \notin Callers
  BY <1>1, EmptyMap, CallersAssumption, Zenon DEF Inv, Phases, Marks, Errors
<1>3. \A c \in Callers : ~Tracked(c)' /\ (Queued(c)' <=> Queued(c))
  BY <1>1, <1>2, Zenon DEF Tracked, Queued
<1>4. \A c \in Callers : \/ completion'[c] = completion[c]
                         \/ completion'[c] = "Channel" /\ Tracked(c)
  BY Zenon DEF ShutDown, complete_all_requests, Completed, Tracked
<1>5. IdsUnique' /\ IdsAgree' /\ Phases' /\ Labels' /\ NoOrphan' /\ MapsAgree'
  BY <1>1, <1>2, Zenon DEF Inv, IdsUnique, IdsAgree, Phases, Labels, NoOrphan, MapsAgree
<1>6. OneHolder' /\ TakenCanceled'
  BY <1>1, <1>2, <1>3, Zenon DEF Inv, OneHolder, TakenCanceled
<1>7. \A c \in Callers : Queued(c) => ~Tracked(c)
  BY Zenon DEF Inv, OneHolder
<1>8. HeldUnused' /\ QueuedClosed'
  BY <1>1, <1>2, <1>3, <1>4, <1>7, Zenon DEF Inv, HeldUnused, QueuedClosed, Holds
<1>9. Unsent' /\ OwnReply'
  BY <1>1, <1>2, <1>4, Zenon DEF Inv, Unsent, OwnReply, HeldUnused, Holds
<1> QED BY <1>5, <1>6, <1>8, <1>9, Zenon DEF Inv

\* Drain: a request is taken from the queue and its sender used.
LEMMA DrainInv ==
  ASSUME TypeOK, Inv, Drain
  PROVE Inv'
<1> USE DEF InFlight
<1>1. CASE /\ pending_requests # << >>
           /\ pending_requests' = Tail(pending_requests)
           /\ completion' = Completed({Head(pending_requests)}, "Channel")
           /\ UNCHANGED <<callVars, rx, canceled_requests, mapVars, runVars,
                          sinkVars, netVars>>
  <2>1. UNCHANGED <<call, request_id, result, next_request_id, rx, canceled_requests,
                    request_data, deadlines, pc, taken, sink, wire, inbound>>
    BY <1>1, Zenon DEF callVars, mapVars, runVars, sinkVars, netVars
  <2>2. PICK c : c = Head(pending_requests)
    BY Zenon
  <2>3. c \in Callers /\ taken = "none" /\ "none" \notin Callers /\ "Channel" \notin Callers
    BY <1>1, <2>2, CallersAssumption, SMTT(30) DEF TypeOK, Drain, Inv, Phases, Marks, Errors
  <2>4. \A d \in Callers : Queued(d)' <=> Queued(d) /\ d # c
    BY <1>1, <2>2, TailContains, TailNoDup, SMTT(20) DEF TypeOK, Inv, OneHolder, Queued
  <2>5. Queued(c) /\ ~Tracked(c) /\ NoDup(pending_requests')
    BY <1>1, <2>2, <2>3, TailContains, TailNoDup, Zenon DEF TypeOK, Inv, OneHolder, Queued
  <2>6. \A d \in Callers : Tracked(d)' <=> Tracked(d)
    BY <2>1, Zenon DEF Tracked
  <2>7. \A d \in Callers : \/ completion'[d] = completion[d]
                           \/ completion'[d] = "Channel" /\ d = c
    BY <1>1, <2>2, SMTT(20) DEF Completed
  <2>8. IdsUnique' /\ IdsAgree' /\ Phases' /\ Labels' /\ NoOrphan' /\ MapsAgree'
    BY <2>1, Zenon DEF Inv, IdsUnique, IdsAgree, Phases, Labels, NoOrphan, MapsAgree
  <2>9. OneHolder' /\ TakenCanceled'
    BY <2>1, <2>3, <2>4, <2>5, <2>6, Zenon DEF Inv, OneHolder, TakenCanceled
  <2>10. HeldUnused' /\ QueuedClosed'
    BY <2>1, <2>3, <2>4, <2>5, <2>6, <2>7, Zenon DEF Inv, HeldUnused, QueuedClosed, Holds
  <2>11. Unsent' /\ OwnReply'
    BY <2>1, <2>3, <2>5, <2>7, Zenon DEF Inv, Unsent, OwnReply, HeldUnused, Holds
  <2> QED BY <2>8, <2>9, <2>10, <2>11, Zenon DEF Inv
<1>2. CASE /\ pc' = "parked"
           /\ UNCHANGED <<callVars, queueVars, completion, mapVars, taken, sinkVars,
                          netVars>>
  <2>1. Labels'
    BY <1>2, Zenon DEF Inv, Labels, callVars, sinkVars, netVars
  <2> QED BY <1>2, <2>1, QuietStep, SMTT(20) DEF Drain, callVars, queueVars, mapVars
<1>3. CASE Dropped
  BY <1>3, DroppedInv, Zenon DEF Drain
<1> QED BY <1>1, <1>2, <1>3, Zenon DEF Drain

-----------------------------------------------------------------------------
(* Every step, and the theorems                                            *)

\* Every step of the dispatch.
LEMMA DispatchInv ==
  ASSUME TypeOK, Inv, Dispatch
  PROVE Inv'
<1> USE DEF callVars, queueVars, mapVars, sinkVars, netVars
<1>1. CASE Poll
  <2>1. pc = "parked" /\ pc' \in {"shutdown", "read"}
    BY <1>1, Zenon DEF Poll
  <2>2. UNCHANGED <<callVars, queueVars, completion, mapVars, taken, sinkVars, netVars>>
    BY <1>1, Zenon DEF Poll
  <2> QED BY <2>1, <2>2, QuietStep, Zenon DEF Inv, Labels
<1>2. CASE ReadResponse
  BY <1>2, ReadResponseInv, Zenon
<1>3. CASE ReadPending
  BY <1>3, QuietStep, Zenon DEF ReadPending, Inv, Labels
<1>4. CASE ReadClosed
  BY <1>4, QuietStep, Zenon DEF ReadClosed, Inv, Labels
<1>5. CASE ReadError
  BY <1>5, QuietStep, Zenon DEF ReadError, Inv, Labels, Fail
<1>6. CASE PopNoRequest
  BY <1>6, QuietStep, Zenon DEF PopNoRequest, Inv, Labels
<1>7. CASE PopNoCancel
  BY <1>7, QuietStep, Zenon DEF PopNoCancel, Inv, Labels
<1>8. CASE NoneExpired
  BY <1>8, QuietStep, Zenon DEF NoneExpired, Inv, Labels
<1>9. CASE PollReady
  <2>1. /\ pc = "ready"
        /\ UNCHANGED <<callVars, queueVars, completion, mapVars, taken, netVars>>
    BY <1>9, Zenon DEF PollReady
  <2>2. CASE pc' = "cancel_ready" /\ UNCHANGED sinkVars
    BY <2>1, <2>2, QuietStep, Zenon DEF Inv, Labels
  <2>3. CASE ensure_writeable("pop", "cancel_ready")
    <3>1. Labels' /\ pc' \in {"pop", "cancel_ready", "shutdown"}
      BY <2>1, <2>3, WriteableLabels, Zenon DEF Inv
    <3> QED BY <2>1, <3>1, QuietStep, Zenon
  <2> QED BY <1>9, <2>2, <2>3, Zenon DEF PollReady
<1>10. CASE PopRequest
  BY <1>10, PopRequestInv, Zenon
<1>11. CASE WriteRequest
  BY <1>11, WriteRequestInv, Zenon
<1>12. CASE PollCancelReady
  <2>1. /\ pc = "cancel_ready" /\ ensure_writeable("cancel_pop", "expire")
        /\ UNCHANGED <<callVars, queueVars, completion, mapVars, taken, netVars>>
    BY <1>12, Zenon DEF PollCancelReady
  <2>2. Labels' /\ pc' \in {"cancel_pop", "expire", "shutdown"}
    BY <2>1, WriteableLabels, Zenon DEF Inv
  <2> QED BY <2>1, <2>2, QuietStep, Zenon
<1>13. CASE PopCancel
  BY <1>13, PopCancelInv, Zenon
<1>14. CASE Expire
  <2>1. PICK i \in deadlines : complete_request(i, "DeadlineExceeded")
    BY <1>14, Zenon DEF Expire
  <2>2. "DeadlineExceeded" \notin Callers
    BY CallersAssumption, Zenon DEF Marks, Errors
  <2>3. /\ pc = "expire" /\ pc' = "run"
        /\ UNCHANGED <<callVars, queueVars, taken, sinkVars, netVars>>
    BY <1>14, Zenon DEF Expire
  <2>4. Labels'
    BY <2>3, Zenon DEF Inv, Labels
  <2> QED BY <2>1, <2>2, <2>3, <2>4, CompleteInv, Zenon
<1>15. CASE Finish
  <2>1. /\ pc = "finish" /\ pc' \in {"run", "shutdown"}
        /\ UNCHANGED <<callVars, queueVars, completion, mapVars, taken, netVars>>
    BY <1>15, Zenon DEF Finish, Fail
  <2>2. Labels'
    <3>1. CASE Flush
      BY <2>1, <3>1, FlushLabelled, Zenon DEF TypeOK, Inv, Labels, Flush
    <3>2. CASE UNCHANGED sinkVars
      BY <2>1, <3>2, Zenon DEF Inv, Labels
    <3> QED BY <1>15, <3>1, <3>2, Zenon DEF Finish
  <2> QED BY <2>1, <2>2, QuietStep, Zenon
<1>16. CASE Run
  <2>1. CASE Dropped
    BY <1>16, <2>1, DroppedInv, Zenon DEF Run
  <2>2. CASE /\ pc' \in {"read", "parked"}
             /\ UNCHANGED <<callVars, queueVars, completion, mapVars, taken, sinkVars,
                            netVars>>
    BY <1>16, <2>2, QuietStep, Zenon DEF Run, Inv, Labels
  <2> QED BY <1>16, <2>1, <2>2, Zenon DEF Run
<1>17. CASE ShutDown
  BY <1>17, ShutDownInv, Zenon
<1>18. CASE Drain
  BY <1>18, DrainInv, Zenon
<1> QED BY <1>1, <1>2, <1>3, <1>4, <1>5, <1>6, <1>7, <1>8, <1>9, <1>10, <1>11,
           <1>12, <1>13, <1>14, <1>15, <1>16, <1>17, <1>18, Zenon DEF Dispatch

\* Every step of the environment and of the last handle.
LEMMA EnvironmentInv ==
  ASSUME TypeOK, Inv,
         \/ \E c \in Callers : Late(c)
         \/ DropToDispatch \/ DropCancellation \/ Abandon \/ Reply \/ Stall
         \/ Unstall \/ Eof \/ Break \/ UNCHANGED vars
  PROVE Inv'
<1> USE DEF callVars, queueVars, mapVars, runVars, sinkVars, netVars
<1> DEFINE Rest == UNCHANGED <<call, request_id, result, next_request_id,
                               pending_requests, rx, completion, canceled_requests,
                               taken, request_data, deadlines, pc, sink, wire>>
<1>1. ASSUME Rest, UNCHANGED inbound PROVE Inv'
  BY <1>1, QuietStep, Zenon DEF Inv, Labels
<1>2. ASSUME \E c \in Callers : Late(c) PROVE Inv'
  BY <1>1, <1>2, Zenon DEF Late
<1>3. CASE DropToDispatch
  BY <1>1, <1>3, Zenon DEF DropToDispatch
<1>4. CASE DropCancellation
  BY <1>1, <1>4, Zenon DEF DropCancellation
<1>5. CASE Abandon
  BY <1>5, DroppedInv, Zenon DEF Abandon
<1>6. CASE Reply
  <2>1. PICK k \in 1..Len(wire) :
          /\ wire[k].type = "Request"
          /\ inbound' = Append(inbound, [id |-> wire[k].id, reply |-> wire[k].call])
    BY <1>6, Zenon DEF Reply
  <2>2. wire[k] \in Messages /\ request_id[wire[k].call] = wire[k].id
    BY <2>1, SMTT(30) DEF TypeOK, Inv, Labels, Labelled
  <2>3. wire[k].id \in Nat /\ wire[k].call \in Callers
    BY <2>1, <2>2, Zenon DEF Messages
  <2>4. PICK r \in Replies : r = [id |-> wire[k].id, reply |-> wire[k].call]
    BY <2>3, Zenon DEF Replies
  <2>5. /\ Len(inbound') = Len(inbound) + 1 /\ Len(inbound) \in Nat
        /\ \A j \in 1..Len(inbound) : inbound'[j] = inbound[j]
        /\ inbound'[Len(inbound) + 1] = r
    BY <2>1, <2>4, SMTT(30) DEF TypeOK
  <2>6. Rest
    BY <1>6, Zenon DEF Reply
  <2>7. request_id[r.reply] = r.id
    BY <2>2, <2>4, Zenon
  <2>8. \A j \in 1..Len(inbound') : request_id[inbound'[j].reply] = inbound'[j].id
    BY <2>5, <2>7, SMTT(30) DEF Inv, Labels
  <2>9. Labels'
    BY <2>6, <2>8, Zenon DEF Inv, Labels
  <2> QED BY <2>6, <2>9, QuietStep, Zenon
<1>7. CASE Stall
  BY <1>1, <1>7, Zenon DEF Stall
<1>8. CASE Unstall
  BY <1>1, <1>8, Zenon DEF Unstall
<1>9. CASE Eof \/ Break
  BY <1>1, <1>9, Zenon DEF Eof, Break, Disconnect
<1>10. CASE UNCHANGED vars
  BY <1>1, <1>10, Zenon DEF vars
<1> QED BY <1>2, <1>3, <1>4, <1>5, <1>6, <1>7, <1>8, <1>9, <1>10, Zenon

\* A new client satisfies the invariant.
LEMMA InitInv == Init => Inv
<1> SUFFICES ASSUME Init PROVE Inv
  BY Zenon
<1>1. InFlight = {} /\ taken = "none" /\ "none" \notin Callers
  BY EmptyMap, CallersAssumption, Zenon DEF Init, InFlight, Marks
<1>2. \A c \in Callers : ~Holds(c)
  BY <1>1, EmptyContains, Zenon DEF Init, Holds, Queued, Tracked
<1>3. IdsUnique /\ IdsAgree /\ Unsent /\ NoOrphan /\ OwnReply
  BY <1>1, SMTT(30) DEF Init, IdsUnique, IdsAgree, Unsent, NoOrphan, OwnReply, NoId
<1>4. OneHolder /\ HeldUnused /\ QueuedClosed /\ TakenCanceled
  BY <1>1, <1>2, SMTT(30) DEF Init, OneHolder, HeldUnused, QueuedClosed, TakenCanceled, Holds,
                    NoDup
<1>5. Phases /\ Labels /\ MapsAgree
  BY <1>1, SMTT(30) DEF Init, Phases, Labels, Labelled, MapsAgree
<1> QED BY <1>3, <1>4, <1>5, Zenon DEF Inv

-----------------------------------------------------------------------------
(* The theorems about the maps and the ids                                 *)

\* The types and the invariant are inductive, for any set of calls, any limits
\* and any environment.
LEMMA Inductive == Spec => [](TypeOK /\ Inv)
<1>1. Init => TypeOK /\ Inv
  BY InitType, InitInv, Zenon
<1>2. TypeOK /\ Inv /\ [Next]_vars => (TypeOK /\ Inv)'
  BY TypeStep, CallerInv, DispatchInv, EnvironmentInv, Zenon DEF Next, Terminated
<1> QED BY <1>1, <1>2, PTL DEF Spec

\* Every variable of the client keeps its type.
THEOREM TypesKept == Spec => []TypeOK
BY Inductive, PTL

\* The invariant that TLC checks as Inv holds of every reachable state.
THEOREM ClientInvariant == Spec => []Inv
BY Inductive, PTL

\* A request whose caller is gone stays in the dispatch's map only while its
\* cancellation is queued: ResponseGuard::drop loses no cancellation.
THEOREM NoRequestOrphaned == Spec => []NoOrphan
<1>1. Inv => NoOrphan
  BY Zenon DEF Inv
<1> QED BY <1>1, Inductive, PTL

\* A caller is only ever given the response to its own request, in whatever
\* order and however often the server answers.
THEOREM RepliesReachTheirCall == Spec => []OwnReply
<1>1. Inv => OwnReply
  BY Zenon DEF Inv
<1> QED BY <1>1, Inductive, PTL

\* The map and its timers agree, and the expect("Request IDs should be unique")
\* of poll_write_request never fails.
THEOREM RequestIdsUnique == Spec => []MapsAgree
<1>1. Inv => MapsAgree
  BY Zenon DEF Inv
<1> QED BY <1>1, Inductive, PTL


-----------------------------------------------------------------------------
(* Outcomes: what a call is told, and what is written                      *)

\* A call that is dropped, or whose request was never queued.
Abandoned(c) == result[c] = "Dropped" \/ (result[c] = "Shutdown" /\ completion[c] = "gone")

\* Only such a call is canceled.
Results ==
  /\ \A c \in Callers :
       /\ call[c] \in {"idle", "sending", "permitted", "awaiting"} => result[c] = "none"
       /\ call[c] \in {"dropping", "closing"} => Abandoned(c)
  /\ \A i \in Nat : Contains(canceled_requests, i) =>
       \E c \in Callers : request_id[c] = i /\ call[c] = "done" /\ Abandoned(c)

\* The messages written, in their order, and a call none of whose requests is
\* among them.
Sent == wire \o sink
Unwritten(c) == \A m \in Messages : Contains(Sent, m) /\ m.type = "Request" => m.call # c

\* An error is in a oneshot for a reason that is still there.
Reason(v, c) ==
  /\ v = "gone" /\ call[c] = "awaiting" => rx # "open"
  /\ v = "Channel" => terminal_error /\ rx # "open"
  /\ v = "Send" => Unwritten(c)
  /\ v = "DeadlineExceeded" => c \in late
  /\ v # "Shutdown"
Told(c) ==
  /\ result[c] = "Shutdown" => rx # "open"
  /\ result[c] = "Channel" => terminal_error /\ rx # "open"
  /\ result[c] = "Send" => completion[c] = "Send"
  /\ result[c] = "DeadlineExceeded" => c \in late
Reasons ==
  /\ terminal_error => pc \in {"shutdown", "drain", "parked", "ended"}
  /\ pc \in {"shutdown", "drain"} => terminal_error
  /\ pc = "drain" => rx # "open"
  /\ \A c \in Callers : Reason(completion[c], c) /\ Told(c)

\* A call borrows the Channel, so that nothing can be canceled once both its
\* halves are dropped.
Closing ==
  /\ handle # "held" => \A c \in Callers : call[c] \in {"idle", "done"}
  /\ polled.cancels = "none" => handle = "dropped" /\ canceled_requests = << >>
  /\ polled.write = "none" => polled.cancels = "none"

\* A request is sent when it is inserted, and never taken again; a
\* cancellation is sent when its request leaves the map.
RequestOf(i, c) == [type |-> "Request", id |-> i, call |-> c]
Gone(c) == /\ call[c] \notin {"idle", "sending", "permitted"}
           /\ ~Queued(c) /\ taken # c
Ordered(s) ==
  \A k \in 1..Len(s) : s[k].type = "Cancel" =>
    \E j \in 1..(k - 1) : /\ s[j].type = "Request" /\ s[j].id = s[k].id
                          /\ result[s[j].call] = "Dropped"
Sends ==
  /\ NoDup(Sent) /\ Ordered(Sent)
  /\ \A i \in InFlight : Contains(Sent, RequestOf(i, request_data[i]))
  /\ \A m \in Messages : Contains(Sent, m) =>
       /\ m.type = "Request" => request_id[m.call] = m.id /\ Gone(m.call)
       /\ m.type = "Cancel" => m.id \notin InFlight

Outcomes == Results /\ Reasons /\ Closing /\ Sends

-----------------------------------------------------------------------------
(* What a step may do to the map, to the messages and to what is final     *)

\* Only poll_write_request inserts.
Shrunk ==
  /\ InFlight' \subseteq InFlight
  /\ \A i \in InFlight' : request_data'[i] = request_data[i]

\* complete_request, cancel_request and the clearing of the map only remove.
LEMMA MapShrinks ==
  /\ UNCHANGED mapVars => Shrunk
  /\ \A i : Forget(i) => Shrunk /\ i \notin InFlight'
  /\ \A i, v : complete_request(i, v) => Shrunk /\ i \notin InFlight'
  /\ request_data' = << >> => Shrunk /\ InFlight' = {}
<1>1. UNCHANGED mapVars => Shrunk
  BY Zenon DEF mapVars, Shrunk, InFlight
<1>2. \A i : Forget(i) => Shrunk /\ i \notin InFlight'
  BY Zenon DEF Forget, Shrunk, InFlight
<1>3. \A i, v : complete_request(i, v) => Shrunk /\ i \notin InFlight'
  BY <1>1, <1>2, Zenon DEF complete_request, mapVars, InFlight
<1>4. request_data' = << >> => Shrunk /\ InFlight' = {}
  BY EmptyMap, Zenon DEF Shrunk, InFlight
<1> QED BY <1>1, <1>2, <1>3, <1>4, Zenon

\* A step other than poll_write_request adds nothing to the map.
LEMMA StepShrinks ==
  ASSUME [Next]_vars
  PROVE WriteRequest \/ Shrunk
<1> USE MapShrinks
<1>1. ASSUME NEW c \in Callers, Caller(c) PROVE UNCHANGED mapVars
  BY <1>1, Zenon
     DEF Caller, Call, Reserve, Push, SendError, Response, DropCall, CloseResponse,
              Cancel
<1>2. ASSUME NEW c \in Callers, Late(c) PROVE UNCHANGED mapVars
  BY <1>2, Zenon DEF Late
<1>3. CASE \/ DropToDispatch \/ DropCancellation \/ Reply \/ Stall \/ Unstall \/ Eof
           \/ Break \/ Terminated \/ UNCHANGED vars
  BY <1>3, Zenon DEF DropToDispatch, DropCancellation, Reply, Stall, Unstall, Eof, Break,
              Disconnect, Terminated, vars
<1>4. CASE Dropped
  BY <1>4, Zenon DEF Dropped
<1>5. CASE Poll \/ ReadPending \/ ReadClosed \/ ReadError \/ PollReady \/ PopRequest
           \/ PopNoRequest \/ PollCancelReady \/ PopNoCancel \/ NoneExpired \/ Finish
  BY <1>5, Zenon
     DEF Poll, ReadPending, ReadClosed, ReadError, PollReady, PopRequest, PopNoRequest,
              PollCancelReady, PopNoCancel, NoneExpired, Finish
<1>6. CASE ReadResponse \/ Expire
  BY <1>6, Zenon DEF ReadResponse, Expire
<1>7. CASE PopCancel
  BY <1>7, Zenon DEF PopCancel, write_cancel, cancel_request, mapVars
<1>8. CASE ShutDown
  BY <1>8, Zenon DEF ShutDown, complete_all_requests
<1>9. CASE Run \/ Drain \/ Abandon
  BY <1>4, <1>9, Zenon DEF Run, Drain, Abandon
<1> QED BY <1>1, <1>2, <1>3, <1>5, <1>6, <1>7, <1>8, <1>9, Zenon DEF Next, Dispatch

\* Flushing moves the messages, start_send adds one at the end.
LEMMA SentFlush ==
  ASSUME TypeOK
  PROVE /\ Sent \in Seq(Messages)
        /\ UNCHANGED sinkVars => Sent' = Sent
        /\ Flush => Sent' = Sent
        /\ \A m \in Messages : start_send(m) => Sent' = Append(Sent, m)
<1>1. sink \in Seq(Messages) /\ wire \in Seq(Messages)
  BY Zenon DEF TypeOK
<1>2. wire \o sink \in Seq(Messages)
  BY <1>1, SMTT(30)
<1>3. (wire \o sink) \o << >> = wire \o sink
  BY <1>2, SMTT(30)
<1>4. \A m \in Messages : wire \o Append(sink, m) = Append(wire \o sink, m)
  BY <1>1, SMTT(30)
<1> QED BY <1>2, <1>3, <1>4, Zenon DEF Sent, Flush, start_send, sinkVars

\* Only poll_write_request and poll_write_cancel send.
LEMMA StepSends ==
  ASSUME TypeOK, [Next]_vars
  PROVE WriteRequest \/ PopCancel \/ Sent' = Sent
<1> USE SentFlush
<1>1. ASSUME NEW c \in Callers, Caller(c) PROVE UNCHANGED sinkVars
  BY <1>1, Zenon
     DEF Caller, Call, Reserve, Push, SendError, Response, DropCall, CloseResponse,
              Cancel
<1>2. ASSUME NEW c \in Callers, Late(c) PROVE UNCHANGED sinkVars
  BY <1>2, Zenon DEF Late
<1>3. CASE \/ DropToDispatch \/ DropCancellation \/ Reply \/ Stall \/ Unstall \/ Eof
           \/ Break \/ Terminated \/ UNCHANGED vars
  BY <1>3, Zenon DEF DropToDispatch, DropCancellation, Reply, Stall, Unstall, Eof, Break,
              Disconnect, Terminated, vars
<1>4. CASE Dropped
  BY <1>4, Zenon DEF Dropped
<1>5. CASE Poll \/ ReadResponse \/ ReadPending \/ ReadClosed \/ ReadError \/ PopRequest
           \/ PopNoRequest \/ PopNoCancel \/ Expire \/ NoneExpired \/ ShutDown
  BY <1>5, Zenon DEF Poll, ReadResponse, ReadPending, ReadClosed, ReadError, PopRequest,
              PopNoRequest, PopNoCancel, Expire, NoneExpired, ShutDown
<1>6. CASE PollReady \/ PollCancelReady \/ Finish
  BY <1>6, Zenon DEF PollReady, PollCancelReady, Finish, ensure_writeable
<1>7. CASE Run \/ Drain \/ Abandon
  BY <1>4, <1>7, Zenon DEF Run, Drain, Abandon
<1> QED BY <1>1, <1>2, <1>3, <1>5, <1>6, <1>7, Zenon DEF Next, Dispatch

-----------------------------------------------------------------------------
(* What a call returned, and what is canceled                              *)

\* A step of a calling task, or one that leaves the calls alone.
CallsKept == UNCHANGED <<call, request_id, result>>

\* Only a calling task moves a call or sets its result.
LEMMA StepCalls ==
  ASSUME [Next]_vars
  PROVE (\E c \in Callers : Caller(c)) \/ CallsKept
<1> USE DEF callVars, CallsKept
<1>1. ASSUME NEW c \in Callers, Late(c) PROVE CallsKept
  BY <1>1, Zenon DEF Late
<1>2. CASE \/ DropToDispatch \/ DropCancellation \/ Reply \/ Stall \/ Unstall \/ Eof
           \/ Break \/ Terminated \/ UNCHANGED vars
  BY <1>2, Zenon DEF DropToDispatch, DropCancellation, Reply, Stall, Unstall, Eof, Break,
              Disconnect, Terminated, vars
<1>3. CASE Dropped
  BY <1>3, Zenon DEF Dropped
<1>4. CASE Poll \/ ReadResponse \/ ReadPending \/ ReadClosed \/ ReadError \/ PollReady
           \/ PopRequest \/ PopNoRequest \/ WriteRequest
  BY <1>4, Zenon DEF Poll, ReadResponse, ReadPending, ReadClosed, ReadError, PollReady,
              PopRequest, PopNoRequest, WriteRequest
<1>5. CASE PollCancelReady \/ PopCancel \/ PopNoCancel \/ Expire \/ NoneExpired \/ Finish
           \/ ShutDown
  BY <1>5, Zenon
     DEF PollCancelReady, PopCancel, PopNoCancel, Expire, NoneExpired, Finish, ShutDown
<1>6. CASE Run \/ Drain \/ Abandon
  BY <1>3, <1>6, Zenon DEF Run, Drain, Abandon
<1> QED BY <1>1, <1>2, <1>4, <1>5, <1>6, Zenon DEF Next, Dispatch

\* The oneshot of a call has its value, or its sender is gone.
Resolved(v) == v \notin {"none", "open"}

\* No step resolves again a oneshot that was: each sender is used up by send, or
\* dropped.
LEMMA ResolvedOnce ==
  ASSUME TypeOK, Inv, [Next]_vars
  PROVE \A c \in Callers : Resolved(completion[c]) /\ call[c] # "idle"
                             => completion'[c] = completion[c]
<1> DEFINE Kept == \A c \in Callers : Resolved(completion[c]) /\ call[c] # "idle"
                                        => completion'[c] = completion[c]
<1>1. \A s, v : completion' = Completed(s, v) => Kept
  BY Zenon DEF Completed, Resolved
<1>2. UNCHANGED completion => Kept
  BY Zenon
<1> USE <1>1, <1>2
<1>3. ASSUME NEW d \in Callers, Caller(d) PROVE Kept
  <2>1. CASE Call(d)
    BY <2>1, Zenon DEF Call, TypeOK
  <2>2. CASE Reserve(d) \/ Push(d) \/ SendError(d) \/ Response(d)
    BY <2>2, Zenon DEF Reserve, Push, SendError, Response
  <2>3. CASE DropCall(d) \/ CloseResponse(d) \/ Cancel(d)
    BY <2>3, Zenon DEF DropCall, CloseResponse, Cancel
  <2> QED BY <1>3, <2>1, <2>2, <2>3, Zenon DEF Caller
<1>4. ASSUME NEW d \in Callers, Late(d) PROVE Kept
  BY <1>4, Zenon DEF Late
<1>5. CASE \/ DropToDispatch \/ DropCancellation \/ Reply \/ Stall \/ Unstall \/ Eof
           \/ Break \/ Terminated \/ UNCHANGED vars
  BY <1>5, Zenon DEF DropToDispatch, DropCancellation, Reply, Stall, Unstall, Eof, Break,
              Disconnect, Terminated, vars
<1>6. CASE Dropped
  BY <1>6, Zenon DEF Dropped
<1>7. CASE Poll \/ ReadPending \/ ReadClosed \/ ReadError \/ PollReady
           \/ PopRequest \/ PopNoRequest \/ WriteRequest
  BY <1>7, Zenon DEF Poll, ReadPending, ReadClosed, ReadError, PollReady,
              PopRequest, PopNoRequest, WriteRequest
<1>8. CASE ReadResponse \/ Expire
  BY <1>8, Zenon DEF ReadResponse, Expire, complete_request
<1>9. CASE PollCancelReady \/ PopCancel \/ PopNoCancel \/ NoneExpired \/ Finish \/ ShutDown
  BY <1>9, Zenon
     DEF PollCancelReady, PopCancel, PopNoCancel, NoneExpired, Finish, ShutDown,
              write_cancel, cancel_request, complete_all_requests
<1>10. CASE Run \/ Drain \/ Abandon
  BY <1>6, <1>10, Zenon DEF Run, Drain, Abandon
<1> QED BY <1>3, <1>4, <1>5, <1>7, <1>8, <1>9, <1>10, Zenon DEF Next, Dispatch

\* The cancellation queue: RequestCancellation::cancel adds, the dispatch removes.
LEMMA CanceledShrinks ==
  ASSUME TypeOK, [Next]_vars
  PROVE \/ \E c \in Callers : Cancel(c)
        \/ \A i : Contains(canceled_requests', i) => Contains(canceled_requests, i)
<1> DEFINE Fewer == \A i : Contains(canceled_requests', i) => Contains(canceled_requests, i)
<1>1. UNCHANGED canceled_requests => Fewer
  BY Zenon
<1>2. canceled_requests' = << >> => Fewer
  BY EmptyContains, Zenon
<1>3. canceled_requests # << >> /\ canceled_requests' = Tail(canceled_requests) => Fewer
  BY TailContains, Zenon DEF TypeOK
<1> SUFFICES (\E c \in Callers : Cancel(c)) \/ Fewer
  BY Zenon
<1> HIDE DEF Fewer
<1> USE <1>1, <1>2, <1>3 DEF queueVars
<1>4. ASSUME NEW c \in Callers, Caller(c) PROVE Cancel(c) \/ UNCHANGED canceled_requests
  BY <1>4, Zenon
     DEF Caller, Call, Reserve, Push, SendError, Response, DropCall, CloseResponse
<1>5. ASSUME NEW c \in Callers, Late(c) PROVE UNCHANGED canceled_requests
  BY <1>5, Zenon DEF Late
<1>6. CASE \/ DropToDispatch \/ DropCancellation \/ Reply \/ Stall \/ Unstall \/ Eof
           \/ Break \/ Terminated \/ UNCHANGED vars
  BY <1>6, Zenon DEF DropToDispatch, DropCancellation, Reply, Stall, Unstall, Eof, Break,
              Disconnect, Terminated, vars
<1>7. CASE Dropped
  BY <1>7, Zenon DEF Dropped
<1>8. CASE Poll \/ ReadResponse \/ ReadPending \/ ReadClosed \/ ReadError \/ PollReady
           \/ PopRequest \/ PopNoRequest \/ WriteRequest
  BY <1>8, Zenon DEF Poll, ReadResponse, ReadPending, ReadClosed, ReadError, PollReady,
              PopRequest, PopNoRequest, WriteRequest
<1>9. CASE PollCancelReady \/ PopCancel \/ PopNoCancel \/ Expire \/ NoneExpired \/ Finish
           \/ ShutDown
  BY <1>9, Zenon
     DEF PollCancelReady, PopCancel, PopNoCancel, Expire, NoneExpired, Finish, ShutDown
<1>10. CASE Run \/ Drain \/ Abandon
  BY <1>7, <1>10, Zenon DEF Run, Drain, Abandon
<1> QED BY <1>4, <1>5, <1>6, <1>8, <1>9, <1>10, Zenon DEF Next, Dispatch

\* A call is canceled by the guard it leaves behind, and by nothing else: a
\* dropped call, or one whose request was refused.
LEMMA ResultsStep ==
  ASSUME TypeOK, Inv, Results, [Next]_vars
  PROVE Results'
<1>1. \A c \in Callers : call[c] # "idle" /\ completion[c] = "gone"
                           => completion'[c] = "gone"
  BY ResolvedOnce, Zenon DEF Resolved
<1>2. CASE CallsKept /\ \A c \in Callers : ~Cancel(c)
  <2>1. \A c \in Callers : call[c] # "idle" /\ Abandoned(c) => Abandoned(c)'
    BY <1>1, <1>2, Zenon DEF Abandoned, CallsKept
  <2>2. \A i : Contains(canceled_requests', i) => Contains(canceled_requests, i)
    BY <1>2, CanceledShrinks, Zenon
  <2> QED BY <1>2, <2>1, <2>2, Zenon DEF Results, CallsKept
<1>3. ASSUME NEW c \in Callers, Caller(c) PROVE Results'
  <2>1. call[c] # "idle" => request_id'[c] = request_id[c]
    BY <1>3, Zenon
       DEF Caller, Call, Reserve, Push, SendError, Response, DropCall, CloseResponse,
                Cancel
  <2>2. /\ \A d \in Callers \ {c} : call'[d] = call[d] /\ result'[d] = result[d]
                                    /\ request_id'[d] = request_id[d]
        /\ call[c] # "done"
    BY <1>3, SMTT(30) DEF TypeOK, Caller, Call, Reserve, Push, SendError, Response, DropCall,
                CloseResponse, Cancel
  <2>3. \A d \in Callers \ {c} : call[d] # "idle" /\ Abandoned(d) => Abandoned(d)'
    BY <1>1, <2>2, Zenon DEF Abandoned
  <2>4. \A i \in Nat : Contains(canceled_requests, i) =>
          \E d \in Callers : request_id'[d] = i /\ call'[d] = "done" /\ Abandoned(d)'
    BY <2>2, <2>3, SMTT(30) DEF Results
  <2>5. /\ call'[c] \in {"idle", "sending", "permitted", "awaiting"} => result'[c] = "none"
        /\ call'[c] \in {"dropping", "closing"} => Abandoned(c)'
    <3>1. CASE Call(c) \/ Reserve(c) \/ Push(c) \/ Response(c)
      BY <3>1, SMTT(30) DEF TypeOK, Results, Call, Reserve, Push, Response
    <3>2. CASE SendError(c)
      <4>1. completion[c] = "open" /\ completion'[c] = "gone"
        BY <3>2, Zenon DEF Inv, Unsent, SendError, Completed
      <4> QED BY <3>2, <4>1, Zenon DEF TypeOK, SendError, Abandoned
    <3>3. CASE DropCall(c)
      BY <3>3, Zenon DEF TypeOK, DropCall, Abandoned
    <3>4. CASE CloseResponse(c)
      <4>1. Abandoned(c) /\ result'[c] = result[c] /\ call'[c] = "closing"
        BY <3>4, Zenon DEF TypeOK, Results, CloseResponse
      <4>2. call[c] # "idle"
        BY <3>4, Zenon DEF CloseResponse
      <4> QED BY <1>1, <4>1, <4>2, Zenon DEF Abandoned
    <3>5. CASE Cancel(c)
      BY <3>5, Zenon DEF TypeOK, Cancel
    <3> QED BY <1>3, <3>1, <3>2, <3>3, <3>4, <3>5, Zenon DEF Caller
  <2>6. \A i \in Nat : Contains(canceled_requests', i) =>
          \E d \in Callers : request_id'[d] = i /\ call'[d] = "done" /\ Abandoned(d)'
    <3>1. CASE Cancel(c) /\ rx # "dropped"
      <4>1. request_id[c] \in Nat /\ canceled_requests \in Seq(Nat)
        BY <3>1, IdsGiven, Zenon DEF TypeOK, Cancel
      <4>2. canceled_requests' = Append(canceled_requests, request_id[c])
        BY <3>1, Zenon DEF Cancel, cancel
      <4>3. \A i : Contains(canceled_requests', i)
              => Contains(canceled_requests, i) \/ i = request_id[c]
        BY <4>1, <4>2, AppendContains, Zenon
      <4>4. call'[c] = "done" /\ Abandoned(c)' /\ request_id'[c] = request_id[c]
        BY <3>1, <1>1, SMTT(30) DEF TypeOK, Cancel, Results, Abandoned
      <4> QED BY <2>4, <4>3, <4>4, Zenon
    <3>2. CASE ~Cancel(c) \/ rx = "dropped"
      <4>1. UNCHANGED canceled_requests
        BY <1>3, <3>2, Zenon
           DEF Caller, Call, Reserve, Push, SendError, Response, DropCall,
                          CloseResponse, Cancel, cancel, queueVars
      <4> QED BY <2>4, <4>1, Zenon
    <3> QED BY <3>1, <3>2, Zenon
  <2> QED BY <2>2, <2>3, <2>5, <2>6, ZenonT(40) DEF Results
<1> QED BY <1>2, <1>3, StepCalls, Zenon DEF Caller

-----------------------------------------------------------------------------
(* What a call is told                                                     *)

\* A closed receiver stays closed, a terminal error stays, a lost transport
\* stays lost and a deadline stays past.
Final ==
  /\ rx # "open" => rx' # "open"
  /\ terminal_error => terminal_error'
  /\ net # "up" => net' # "up"
  /\ late \subseteq late'

\* No step takes one of these back.
LEMMA StepFinal ==
  ASSUME TypeOK, [Next]_vars
  PROVE Final
<1> USE DEF Final, queueVars, runVars, netVars
<1>1. ASSUME NEW c \in Callers, Caller(c) PROVE Final
  BY <1>1, SMTT(30) DEF Caller, Call, Reserve, Push, SendError, Response, DropCall, CloseResponse,
              Cancel
<1>2. ASSUME NEW c \in Callers, Late(c) PROVE Final
  BY <1>2, Zenon DEF Late
<1>3. CASE \/ DropToDispatch \/ DropCancellation \/ Reply \/ Stall \/ Unstall \/ Eof
           \/ Break \/ Terminated \/ UNCHANGED vars
  BY <1>3, SMTT(30) DEF DropToDispatch, DropCancellation, Reply, Stall, Unstall, Eof, Break,
              Disconnect, Terminated, vars
<1>4. CASE Dropped
  BY <1>4, Zenon DEF Dropped
<1>5. CASE Poll \/ ReadResponse \/ ReadPending \/ ReadClosed \/ ReadError \/ PopRequest
           \/ PopNoRequest \/ WriteRequest
  BY <1>5, SMTT(30) DEF Poll, ReadResponse, ReadPending, ReadClosed, ReadError, PopRequest,
              PopNoRequest, WriteRequest, Fail
<1>6. CASE PollReady \/ PollCancelReady \/ Finish
  BY <1>6, SMTT(30) DEF PollReady, PollCancelReady, Finish, ensure_writeable, Fail
<1>7. CASE PopCancel
  BY <1>7, SMTT(30) DEF PopCancel, write_cancel, Fail
<1>8. CASE PopNoCancel \/ Expire \/ NoneExpired \/ ShutDown
  BY <1>8, SMTT(30) DEF PopNoCancel, Expire, NoneExpired, ShutDown
<1>9. CASE Run \/ Drain \/ Abandon
  BY <1>4, <1>9, SMTT(30) DEF Run, Drain, Abandon
<1> QED BY <1>1, <1>2, <1>3, <1>5, <1>6, <1>7, <1>8, <1>9, ZenonT(40) DEF Next, Dispatch

\* The dispatch is shutting down exactly when it has a terminal error, and
\* drains a queue that it has closed.
LEMMA ErrorPoints ==
  ASSUME TypeOK, Reasons, [Next]_vars
  PROVE /\ terminal_error' => pc' \in {"shutdown", "drain", "parked", "ended"}
        /\ pc' \in {"shutdown", "drain"} => terminal_error'
        /\ pc' = "drain" => rx' # "open"
<1> DEFINE Goal == /\ terminal_error' => pc' \in {"shutdown", "drain", "parked", "ended"}
                   /\ pc' \in {"shutdown", "drain"} => terminal_error'
                   /\ pc' = "drain" => rx' # "open"
<1>a. /\ terminal_error => pc \in {"shutdown", "drain", "parked", "ended"}
      /\ pc \in {"shutdown", "drain"} => terminal_error
      /\ pc = "drain" => rx # "open"
  BY Zenon DEF Reasons
<1> USE <1>a DEF runVars, queueVars
<1>1. ASSUME NEW c \in Callers, Caller(c) PROVE Goal
  BY <1>1, SMTT(30) DEF Caller, Call, Reserve, Push, SendError, Response, DropCall, CloseResponse,
              Cancel
<1>2. ASSUME NEW c \in Callers, Late(c) PROVE Goal
  BY <1>2, Zenon DEF Late
<1>3. CASE \/ DropToDispatch \/ DropCancellation \/ Reply \/ Stall \/ Unstall \/ Eof
           \/ Break \/ Terminated \/ UNCHANGED vars
  BY <1>3, SMTT(30) DEF DropToDispatch, DropCancellation, Reply, Stall, Unstall, Eof, Break,
              Disconnect, Terminated, vars
<1>4. CASE Dropped
  BY <1>4, Zenon DEF Dropped
<1>5. CASE Poll \/ ReadResponse \/ ReadPending \/ ReadClosed \/ ReadError \/ PopRequest
           \/ PopNoRequest \/ WriteRequest
  BY <1>5, SMTT(30) DEF Poll, ReadResponse, ReadPending, ReadClosed, ReadError, PopRequest,
              PopNoRequest, WriteRequest, Fail
<1>6. CASE PollReady \/ PollCancelReady \/ Finish
  BY <1>6, SMTT(30) DEF PollReady, PollCancelReady, Finish, ensure_writeable, Fail
<1>7. CASE PopCancel
  BY <1>7, SMTT(30) DEF PopCancel, write_cancel, Fail
<1>8. CASE PopNoCancel \/ Expire \/ NoneExpired \/ ShutDown
  BY <1>8, SMTT(30) DEF PopNoCancel, Expire, NoneExpired, ShutDown
<1>9. CASE Run \/ Drain \/ Abandon
  BY <1>4, <1>9, SMTT(30) DEF Run, Drain, Abandon
<1> QED BY <1>1, <1>2, <1>3, <1>5, <1>6, <1>7, <1>8, <1>9, Zenon DEF Next, Dispatch

\* Only poll_write_request writes a Request, and its call has an unused oneshot
\* then: one told that it was not sent is not sent later.
LEMMA UnwrittenKept ==
  ASSUME TypeOK, Inv, [Next]_vars, NEW c \in Callers, Unwritten(c),
         completion[c] \notin {"open", "closed"}
  PROVE Unwritten(c)'
<1>1. CASE Sent' = Sent
  BY <1>1, Zenon DEF Unwritten
<1>2. ASSUME NEW m \in Messages, start_send(m), m.type = "Request" => m.call # c
      PROVE Unwritten(c)'
  <2>1. PICK s : s = Sent
    BY Zenon
  <2>2. s \in Seq(Messages) /\ Sent' = Append(s, m)
    BY <1>2, <2>1, SentFlush, Zenon
  <2>3. \A n : Contains(Append(s, m), n) <=> Contains(s, n) \/ n = m
    BY <1>2, <2>2, AppendContains, Zenon
  <2> QED BY <1>2, <2>1, <2>2, <2>3, Zenon DEF Unwritten
<1>3. CASE WriteRequest
  <2>1. pc = "write" /\ taken \in Callers /\ request_id[taken] \in Nat
    BY <1>3, IdsGiven, Zenon DEF WriteRequest
  <2>2. taken # c
    BY <2>1, Zenon DEF Inv, HeldUnused, Holds
  <2>3. PICK m : m = [type |-> "Request", id |-> request_id[taken], call |-> taken]
    BY Zenon
  <2>4. m \in Messages /\ m.call = taken
    BY <2>1, <2>3, Zenon DEF Messages
  <2> QED BY <1>1, <1>2, <1>3, <2>2, <2>3, <2>4, WriteCases, SentFlush, Zenon
<1>4. CASE PopCancel
  <2>1. PICK i, m : i = Head(canceled_requests) /\ m = [type |-> "Cancel", id |-> i]
    BY Zenon
  <2>2. i \in Nat
    BY <1>4, <2>1, SMTT(30) DEF TypeOK, PopCancel
  <2>3. m \in Messages /\ m.type # "Request"
    BY <2>1, <2>2, Zenon DEF Messages
  <2> QED BY <1>1, <1>2, <1>4, <2>1, <2>3, SentFlush, Zenon DEF PopCancel, write_cancel
<1> QED BY <1>1, <1>3, <1>4, StepSends, Zenon

\* An oneshot that a step leaves alone keeps its reason: a call starts waiting
\* with its oneshot open (Push).
LEMMA ReasonKept ==
  ASSUME TypeOK, Inv, Reasons, [Next]_vars, NEW c \in Callers, completion'[c] = completion[c]
  PROVE Reason(completion[c], c)'
<1>1. Final /\ Reason(completion[c], c)
  BY StepFinal, Zenon DEF Reasons
<1>2. call'[c] = "awaiting" => call[c] = "awaiting" \/ completion[c] = "open"
  <2>1. CASE CallsKept
    BY <2>1, ZenonT(40) DEF CallsKept
  <2>2. ASSUME NEW d \in Callers, Caller(d)
        PROVE call'[c] = "awaiting" => call[c] \in {"awaiting", "permitted"}
    BY <2>2, SMTT(30) DEF TypeOK, Caller, Call, Reserve, Push, SendError, Response, DropCall,
                CloseResponse, Cancel
  <2> QED BY <2>1, <2>2, StepCalls, Zenon DEF Inv, Unsent
<1>3. completion[c] = "Send" => Unwritten(c)'
  BY <1>1, UnwrittenKept, Zenon DEF Reason
<1> QED BY <1>1, <1>2, <1>3, Zenon DEF Reason, Final

\* Oneshots are resolved with a value that has its reason.
LEMMA ReasonGiven ==
  ASSUME TypeOK, Inv, Reasons, [Next]_vars, NEW calls, NEW v,
         completion' = Completed(calls, v),
         \A c \in calls \cap Callers : Reason(v, c)'
  PROVE \A c \in Callers : Reason(completion[c], c)'
<1> SUFFICES ASSUME NEW c \in Callers PROVE Reason(completion[c], c)'
  BY Zenon
<1>1. CASE completion'[c] = completion[c]
  BY <1>1, ReasonKept, Zenon
<1>2. CASE c \in calls /\ completion'[c] = v
  BY <1>2, Zenon DEF Reason
<1> QED BY <1>1, <1>2, Zenon DEF Completed

\* Each place that resolves a oneshot.
LEMMA CompletionsExplained ==
  ASSUME TypeOK, Inv, Results, Reasons, Sends, [Next]_vars
  PROVE \A c \in Callers : Reason(completion[c], c)'
<1> DEFINE Goal == \A c \in Callers : Reason(completion[c], c)'
<1>1. UNCHANGED completion => Goal
  BY ReasonKept, Zenon
<1>2. ASSUME NEW d \in Callers, Caller(d) PROVE Goal
  <2>1. CASE Call(d)
    <3>1. \A c \in Callers \ {d} : completion'[c] = completion[c]
      BY <2>1, Zenon DEF TypeOK, Call
    <3>2. completion'[d] = "open"
      BY <2>1, Zenon DEF TypeOK, Call
    <3> QED BY <3>1, <3>2, ReasonKept, Zenon DEF Reason
  <2>2. CASE SendError(d)
    <3>1. completion' = Completed({d}, "gone") /\ call'[d] = "dropping"
      BY <2>2, Zenon DEF TypeOK, SendError
    <3>2. Reason("gone", d)'
      BY <3>1, Zenon DEF Reason
    <3> QED BY <3>1, <3>2, ReasonGiven, SMTT(30)
  <2>3. CASE DropCall(d)
    <3>1. call'[d] = "dropping"
      BY <2>3, Zenon DEF TypeOK, DropCall
    <3>2. Reason("gone", d)'
      BY <3>1, Zenon DEF Reason
    <3> QED BY <1>1, <2>3, <3>2, ReasonGiven, SMTT(30) DEF DropCall
  <2>4. CASE CloseResponse(d)
    <3>1. Reason("closed", d)'
      BY Zenon DEF Reason
    <3> QED BY <2>4, <3>1, ReasonGiven, SMTT(30) DEF CloseResponse
  <2>5. CASE Reserve(d) \/ Push(d) \/ Response(d) \/ Cancel(d)
    BY <1>1, <2>5, Zenon DEF Reserve, Push, Response, Cancel
  <2> QED BY <1>2, <2>1, <2>2, <2>3, <2>4, <2>5, Zenon DEF Caller
<1>3. ASSUME NEW i, NEW v, complete_request(i, v),
             \A d : i \in InFlight /\ d = request_data[i] => Reason(v, d)'
      PROVE Goal
  <2>1. CASE i \notin InFlight
    BY <1>1, <1>3, <2>1, Zenon DEF complete_request
  <2>2. CASE i \in InFlight
    <3>1. PICK d : d = request_data[i]
      BY Zenon
    <3>2. completion' = Completed({d}, v) /\ Reason(v, d)'
      BY <1>3, <2>2, <3>1, Zenon DEF complete_request
    <3> QED BY <3>2, ReasonGiven, SMTT(30)
  <2> QED BY <2>1, <2>2, Zenon
<1>4. CASE ReadResponse
  <2>1. PICK r : r = Head(inbound)
    BY Zenon
  <2>2. r \in Replies /\ complete_request(r.id, r.reply)
    BY <1>4, <2>1, SMTT(30) DEF TypeOK, ReadResponse
  <2>3. r.reply \notin Marks
    BY <2>2, CallersAssumption, Zenon DEF Replies
  <2>4. \A c : Reason(r.reply, c)'
    BY <2>3, Zenon DEF Reason, Marks, Errors
  <2> QED BY <1>3, <2>2, <2>4, Zenon
<1>5. CASE Expire
  <2>1. PICK i \in deadlines : Expired(i) /\ complete_request(i, "DeadlineExceeded")
    BY <1>5, Zenon DEF Expire
  <2>2. PICK d \in late : request_id[d] = i
    BY <2>1, Zenon DEF Expired
  <2>3. /\ i \in InFlight /\ i \in Nat /\ request_data[i] \in Callers /\ d \in Callers
        /\ request_id[request_data[i]] = i
    BY <2>1, Zenon DEF TypeOK, Inv, MapsAgree, IdsAgree
  <2>4. request_data[i] = d
    BY <2>2, <2>3, SMTT(30) DEF Inv, IdsUnique, NoId
  <2>5. d \in late'
    BY <2>2, StepFinal, Zenon DEF Final
  <2>6. Reason("DeadlineExceeded", d)'
    BY <2>5, Zenon DEF Reason
  <2>7. \A e : e = request_data[i] => Reason("DeadlineExceeded", e)'
    BY <2>4, <2>6, Zenon
  <2> QED BY <1>3, <2>1, <2>7, Zenon
<1>6. CASE WriteRequest
  <2>1. CASE UNCHANGED completion
    BY <1>1, <2>1, Zenon
  <2>2. CASE completion' = Completed({taken}, "Send") /\ UNCHANGED sinkVars
    <3>1. Sent' = Sent
      BY <2>2, SentFlush, Zenon
    <3>2. \A m \in Messages : Contains(Sent, m) /\ m.type = "Request" => Gone(m.call)
      BY Zenon DEF Sends
    <3>3. Unwritten(taken)
      BY <3>2, Zenon DEF Unwritten, Gone
    <3>4. \A c \in {taken} \cap Callers : Reason("Send", c)'
      BY <1>6, <3>1, <3>3, Zenon DEF Unwritten, Reason, WriteRequest
    <3> QED BY <2>2, <3>4, ReasonGiven, Zenon
  <2> QED BY <1>6, <2>1, <2>2, WriteCases, Zenon
<1>7. CASE PopCancel
  <2>1. CASE UNCHANGED completion
    BY <1>1, <2>1, Zenon
  <2>2. ASSUME NEW i \in InFlight, cancel_request(i), i = Head(canceled_requests),
               canceled_requests # << >>
        PROVE Goal
    <3>1. Contains(canceled_requests, i) /\ i \in Nat
      BY <2>2, TailContains, SMTT(30) DEF TypeOK
    <3>2. PICK c \in Callers : request_id[c] = i /\ call[c] = "done"
      BY <3>1, Zenon DEF Results
    <3>3. request_data[i] \in Callers /\ request_id[request_data[i]] = i
      BY <2>2, Zenon DEF TypeOK, Inv, IdsAgree
    <3>4. request_data[i] = c
      BY <3>1, <3>2, <3>3, SMTT(30) DEF Inv, IdsUnique, NoId
    <3>5. call'[c] = "done"
      BY <1>7, <3>2, Zenon DEF PopCancel, callVars
    <3>6. Reason("gone", c)'
      BY <3>5, Zenon DEF Reason
    <3>7. completion' = Completed({c}, "gone")
      BY <2>2, <3>4, Zenon DEF cancel_request
    <3> QED BY <3>6, <3>7, ReasonGiven, SMTT(30)
  <2> QED BY <1>7, <2>1, <2>2, Zenon DEF PopCancel, write_cancel
<1>8. CASE Dropped
  <2>1. \A c : Reason("gone", c)'
    BY <1>8, Zenon DEF Dropped, Reason
  <2> QED BY <1>8, <2>1, ReasonGiven, Zenon DEF Dropped
<1>9. CASE ShutDown \/ Drain
  <2>1. terminal_error
    BY <1>9, Zenon DEF Reasons, ShutDown, Drain
  <2>2. rx' # "open"
    BY <1>9, StepFinal, Zenon DEF Reasons, Final, ShutDown, Drain
  <2>3. \A c : Reason("Channel", c)'
    BY <2>1, <2>2, StepFinal, Zenon DEF Final, Reason
  <2> QED BY <1>1, <1>8, <1>9, <2>3, ReasonGiven, Zenon
             DEF ShutDown, Drain, complete_all_requests
<1>10. CASE Poll \/ ReadPending \/ ReadClosed \/ ReadError \/ PollReady \/ PopRequest
            \/ PopNoRequest \/ PollCancelReady \/ PopNoCancel \/ NoneExpired \/ Finish
  BY <1>1, <1>10, Zenon
     DEF Poll, ReadPending, ReadClosed, ReadError, PollReady, PopRequest,
                     PopNoRequest, PollCancelReady, PopNoCancel, NoneExpired, Finish
<1>11. CASE Run \/ Abandon
  BY <1>1, <1>8, <1>11, Zenon DEF Run, Abandon
<1>12. ASSUME NEW d \in Callers, Late(d) PROVE Goal
  BY <1>1, <1>12, Zenon DEF Late
<1>13. CASE \/ DropToDispatch \/ DropCancellation \/ Reply \/ Stall \/ Unstall \/ Eof
            \/ Break \/ Terminated \/ UNCHANGED vars
  BY <1>1, <1>13, Zenon
     DEF DropToDispatch, DropCancellation, Reply, Stall, Unstall, Eof, Break,
                     Disconnect, Terminated, vars
<1> QED BY <1>2, <1>4, <1>5, <1>6, <1>7, <1>9, <1>10, <1>11, <1>12, <1>13, Zenon
        DEF Next, Dispatch

\* Channel::call and ResponseGuard::response hand on what is true.
LEMMA ReasonsStep ==
  ASSUME TypeOK, Inv, Results, Reasons, Sends, [Next]_vars
  PROVE Reasons'
<1>1. ASSUME NEW c \in Callers, result'[c] = result[c] PROVE Told(c)'
  <2>1. Told(c) /\ Final
    BY StepFinal, Zenon DEF Reasons
  <2>2. result[c] = "Send" => call[c] # "idle" /\ Resolved(completion[c])
    BY <2>1, Zenon DEF Results, Told, Resolved
  <2>3. result[c] = "Send" => completion'[c] = "Send"
    BY <2>1, <2>2, ResolvedOnce, Zenon DEF Told
  <2> QED BY <1>1, <2>1, <2>3, Zenon DEF Told, Final
<1>2. ASSUME NEW d \in Callers, Caller(d) PROVE \A c \in Callers : Told(c)'
  <2>1. \A c \in Callers \ {d} : result'[c] = result[c]
    BY <1>2, SMTT(30) DEF TypeOK, Caller, Call, Reserve, Push, SendError, Response, DropCall,
                CloseResponse, Cancel
  <2>2. Told(d)'
    <3>1. CASE result'[d] = result[d]
      BY <1>1, <3>1, Zenon
    <3>2. CASE SendError(d)
      BY <3>2, StepFinal, SMTT(30) DEF TypeOK, SendError, SendFails, Final, Told
    <3>3. CASE DropCall(d)
      BY <3>3, ZenonT(40) DEF TypeOK, DropCall, Told
    <3>4. CASE Response(d)
      <4>1. Reason(completion[d], d) /\ Final /\ call[d] = "awaiting"
        BY <3>4, StepFinal, Zenon DEF Reasons, Response
      <4>2. result'[d] = IF completion[d] = "gone" THEN "Shutdown" ELSE completion[d]
        BY <3>4, Zenon DEF TypeOK, Response
      <4>3. completion' = completion
        BY <3>4, Zenon DEF Response
      <4>4. CASE completion[d] = "gone"
        <5>1. result'[d] = "Shutdown" /\ rx' # "open"
          BY <4>1, <4>2, <4>4, Zenon DEF Reason, Final
        <5> QED BY <5>1, Zenon DEF Told
      <4>5. CASE completion[d] # "gone"
        <5>1. result'[d] = completion[d]
          BY <4>2, <4>5, Zenon
        <5> QED BY <4>1, <4>3, <5>1, Zenon DEF Reason, Final, Told
      <4> QED BY <4>4, <4>5, Zenon
    <3>5. CASE Call(d) \/ Reserve(d) \/ Push(d) \/ CloseResponse(d) \/ Cancel(d)
      BY <3>1, <3>5, Zenon DEF Call, Reserve, Push, CloseResponse, Cancel
    <3> QED BY <1>2, <3>2, <3>3, <3>4, <3>5, Zenon DEF Caller
  <2> QED BY <1>1, <2>1, <2>2, ZenonT(40)
<1>3. ASSUME CallsKept PROVE \A c \in Callers : Told(c)'
  BY <1>1, <1>3, Zenon DEF CallsKept
<1>4. \A c \in Callers : Told(c)'
  BY <1>2, <1>3, StepCalls, Zenon
<1> QED BY <1>4, ErrorPoints, CompletionsExplained, Zenon DEF Reasons

-----------------------------------------------------------------------------
(* The end of the queues                                                   *)

\* Once the Channel is dropped no call is under way, and none can cancel.
LEMMA ClosingStep ==
  ASSUME TypeOK, Inv, Closing, [Next]_vars
  PROVE Closing'
<1> DEFINE Quiet == \A c \in Callers : call[c] \in {"idle", "done"}
           Held == handle' # "held" => \A c \in Callers : call'[c] \in {"idle", "done"}
           NoCancels == polled'.cancels = "none"
                          => handle' = "dropped" /\ canceled_requests' = << >>
           NoWrites == polled'.write = "none" => polled'.cancels = "none"
<1>a. /\ handle # "held" => Quiet
      /\ polled.cancels = "none" => handle = "dropped" /\ canceled_requests = << >>
      /\ polled.write = "none" => polled.cancels = "none"
  BY Zenon DEF Closing
<1>b. Unpolled.cancels = "pending" /\ Unpolled.write = "pending"
  BY Zenon DEF Unpolled
<1>c. /\ UNCHANGED <<handle, call>> => Held
      /\ UNCHANGED <<handle, canceled_requests, polled>> => NoCancels /\ NoWrites
      /\ polled' = Unpolled => NoCancels /\ NoWrites
  BY <1>a, <1>b, Zenon
<1> USE DEF callVars, queueVars, runVars
<1>1. ASSUME NEW c \in Callers, Caller(c) PROVE Held /\ NoCancels /\ NoWrites
  <2>1. handle = "held" /\ UNCHANGED <<handle, polled>>
    <3>1. call[c] \notin {"idle", "done"} \/ handle = "held"
      BY <1>1, Zenon DEF Caller, Call, Reserve, Push, SendError, Response, DropCall,
                  CloseResponse, Cancel
    <3>2. UNCHANGED <<handle, polled>>
      BY <1>1, Zenon DEF Caller, Call, Reserve, Push, SendError, Response, DropCall,
                  CloseResponse, Cancel
    <3> QED BY <1>a, <3>1, <3>2, Zenon
  <2> QED BY <1>a, <2>1, Zenon
<1>2. ASSUME NEW c \in Callers, Late(c) PROVE Held /\ NoCancels /\ NoWrites
  BY <1>2, <1>c, Zenon DEF Late
<1>3. CASE Reply \/ Stall \/ Unstall \/ Eof \/ Break \/ Terminated \/ UNCHANGED vars
  <2>1. UNCHANGED <<handle, call, canceled_requests, polled>>
    BY <1>3, Zenon DEF Reply, Stall, Unstall, Eof, Break, Disconnect, Terminated, vars
  <2> QED BY <1>c, <2>1, Zenon DEF Closing
<1>4. CASE DropToDispatch \/ DropCancellation
  <2>1. UNCHANGED <<call, canceled_requests, polled>> /\ Quiet
        /\ handle # "dropped" /\ handle' \in {"half", "dropped"}
    BY <1>4, <1>a, Zenon DEF DropToDispatch, DropCancellation
  <2> QED BY <1>a, <2>1, Zenon DEF Closing
<1>5. CASE Dropped
  <2>1. UNCHANGED <<handle, call>> /\ polled' = Unpolled
    BY <1>5, Zenon DEF Dropped
  <2> QED BY <1>c, <2>1, Zenon DEF Closing
<1>6. ASSUME \/ ReadResponse \/ ReadPending \/ ReadClosed \/ PopNoRequest \/ PopNoCancel
             \/ WriteRequest \/ Expire
      PROVE Held /\ NoCancels /\ NoWrites
  <2>1. /\ UNCHANGED <<handle, call, canceled_requests>>
        /\ polled'.write \in {polled.write, "some"}
        /\ \/ polled'.cancels = polled.cancels
           \/ handle = "dropped" /\ canceled_requests = << >>
    BY <1>6, SMTT(30) DEF TypeOK, ReadResponse, ReadPending, ReadClosed, PopNoRequest, PopNoCancel,
                WriteRequest, Expire
  <2>2. polled.cancels = "none" => polled'.cancels = "none"
    BY <1>6, Zenon
       DEF TypeOK, ReadResponse, ReadPending, ReadClosed, PopNoRequest, PopNoCancel,
                WriteRequest, Expire
  <2> QED BY <1>a, <2>1, <2>2, ZenonT(40)
<1>7. ASSUME Poll \/ ReadError \/ PollReady \/ PopRequest \/ PollCancelReady \/ NoneExpired
             \/ ShutDown
      PROVE Held /\ NoCancels /\ NoWrites
  <2>1. /\ UNCHANGED <<handle, call, canceled_requests>>
        /\ polled' = polled \/ polled' = Unpolled
    BY <1>7, Zenon
       DEF Poll, ReadError, PollReady, PopRequest, PollCancelReady, NoneExpired,
                ShutDown, ensure_writeable, Fail
  <2> QED BY <1>c, <2>1, Zenon
<1>8. ASSUME PopCancel PROVE Held /\ NoCancels /\ NoWrites
  <2>1. UNCHANGED <<handle, call>> /\ canceled_requests # << >>
    BY <1>8, Zenon DEF PopCancel
  <2>2. \/ polled' = polled \/ polled' = Unpolled
        \/ polled'.write = "some" /\ polled'.cancels = polled.cancels
    BY <1>8, Zenon DEF TypeOK, PopCancel, write_cancel, Fail
  <2> QED BY <1>a, <1>b, <2>1, <2>2, Zenon
<1>9. ASSUME Finish PROVE Held /\ NoCancels /\ NoWrites
  <2>1. UNCHANGED <<handle, call, canceled_requests>>
    BY <1>9, Zenon DEF Finish
  <2>2. \/ polled' = polled \/ polled' = Unpolled
        \/ /\ polled'.cancels = polled.cancels
           /\ polled'.write = "none" => polled.cancels = "none"
    BY <1>9, Zenon DEF TypeOK, Finish, Fail
  <2> QED BY <1>a, <1>b, <2>1, <2>2, Zenon
<1>10. CASE Run \/ Drain \/ Abandon
  <2>1. CASE UNCHANGED <<handle, call, canceled_requests>>
             /\ (polled' = polled \/ polled' = Unpolled)
    BY <1>c, <2>1, Zenon DEF Closing
  <2> QED BY <1>5, <1>10, <2>1, Zenon DEF Run, Drain, Abandon
<1>11. Held /\ NoCancels /\ NoWrites => Closing'
  BY Zenon DEF Closing
<1> QED BY <1>1, <1>2, <1>3, <1>4, <1>5, <1>6, <1>7, <1>8, <1>9, <1>10, <1>11, Zenon
        DEF Next, Dispatch

-----------------------------------------------------------------------------
(* What goes on the wire                                                   *)

\* A call whose request the dispatch has passed on does not come back to it,
\* keeps its id, and is dropped for good if it is.
GoneForGood ==
  \A c \in Callers : Gone(c) =>
    /\ Gone(c)' /\ request_id'[c] = request_id[c]
    /\ result[c] = "Dropped" => result'[c] = "Dropped"

\* The queue gains only the call that pushes; the dispatch takes its head.
LEMMA StepGone ==
  ASSUME TypeOK, Inv, Results, [Next]_vars
  PROVE GoneForGood
<1>a. pending_requests \in Seq(Callers) /\ "none" \notin Callers
  BY CallersAssumption, Zenon DEF TypeOK, Marks
<1>1. ASSUME NEW d \in Callers, Caller(d) PROVE GoneForGood
  <2>1. CASE Push(d)
    <3>1. /\ call[d] = "permitted" /\ call' = [call EXCEPT ![d] = "awaiting"]
          /\ pending_requests' = Append(pending_requests, d)
          /\ UNCHANGED <<request_id, result, taken>>
      BY <2>1, Zenon DEF Push, runVars
    <3>2. \A c : Contains(pending_requests', c) => Contains(pending_requests, c) \/ c = d
      BY <1>a, <3>1, AppendContains, Zenon
    <3> QED BY <3>1, <3>2, SMTT(30) DEF TypeOK, GoneForGood, Gone, Queued
  <2>2. CASE ~Push(d)
    <3>1. UNCHANGED <<pending_requests, taken>>
      BY <1>1, <2>2, ZenonT(40)
         DEF Caller, Call, Reserve, SendError, Response, DropCall, CloseResponse,
                        Cancel, queueVars, runVars
    <3>2. \A c \in Callers : call[c] \notin {"idle", "sending", "permitted"} =>
            /\ call'[c] \notin {"idle", "sending", "permitted"}
            /\ request_id'[c] = request_id[c]
      BY <1>1, <2>2, SMTT(30) DEF TypeOK, Caller, Call, Reserve, SendError, Response, DropCall,
                        CloseResponse, Cancel
    <3>3. \A c \in Callers : result[c] = "Dropped" => result'[c] = "Dropped"
      <4>1. result[d] = "Dropped" => call[d] \notin {"sending", "awaiting"}
        BY Zenon DEF Results
      <4> QED BY <1>1, <2>2, <4>1, ZenonT(40)
                 DEF TypeOK, Caller, Call, Reserve, SendError, Response,
                                      DropCall, CloseResponse, Cancel
    <3> QED BY <3>1, <3>2, <3>3, Zenon DEF GoneForGood, Gone, Queued
  <2> QED BY <2>1, <2>2, Zenon
<1>2. ASSUME CallsKept, \A c \in Callers : ~Queued(c) /\ taken # c => ~Queued(c)' /\ taken' # c
      PROVE GoneForGood
  BY <1>2, Zenon DEF GoneForGood, Gone, CallsKept
<1>3. ASSUME UNCHANGED pending_requests, taken' \in {taken, "none"}, CallsKept
      PROVE GoneForGood
  BY <1>2, <1>3, <1>a, Zenon DEF Queued
<1> USE DEF queueVars, runVars
<1>4. ASSUME NEW c \in Callers, Late(c) PROVE taken' = taken /\ UNCHANGED pending_requests
  BY <1>4, Zenon DEF Late
<1>5. CASE CallsKept /\ (\/ DropToDispatch \/ DropCancellation \/ Reply \/ Stall \/ Unstall
                         \/ Eof \/ Break \/ Terminated \/ UNCHANGED vars)
  BY <1>3, <1>5, Zenon
     DEF DropToDispatch, DropCancellation, Reply, Stall, Unstall, Eof, Break,
                    Disconnect, Terminated, vars
<1>6. CASE CallsKept /\ Dropped
  BY <1>2, <1>6, EmptyContains, Zenon DEF Dropped, Queued
<1>7. CASE CallsKept /\ (Poll \/ ReadResponse \/ ReadPending \/ ReadClosed \/ ReadError
                         \/ PollReady \/ PopNoRequest \/ WriteRequest)
  BY <1>3, <1>7, Zenon
     DEF Poll, ReadResponse, ReadPending, ReadClosed, ReadError, PollReady,
                    PopNoRequest, WriteRequest
<1>8. CASE CallsKept /\ PopRequest
  <2>1. pending_requests # << >> /\ pending_requests' = Tail(pending_requests)
        /\ taken' \in {taken, Head(pending_requests)}
    BY <1>8, Zenon DEF PopRequest
  <2>2. \A c : Contains(pending_requests, c)
                 <=> c = Head(pending_requests) \/ Contains(pending_requests', c)
    BY <1>a, <2>1, TailContains, Zenon
  <2> QED BY <1>2, <1>8, <2>1, <2>2, Zenon DEF Queued
<1>9. CASE CallsKept /\ (PollCancelReady \/ PopCancel \/ PopNoCancel \/ Expire
                         \/ NoneExpired \/ Finish \/ ShutDown)
  BY <1>3, <1>9, Zenon
     DEF PollCancelReady, PopCancel, PopNoCancel, Expire, NoneExpired, Finish,
                    ShutDown
<1>10. CASE CallsKept /\ (Run \/ Abandon)
  BY <1>3, <1>6, <1>10, Zenon DEF Run, Abandon
<1>11. CASE CallsKept /\ Drain
  <2>1. CASE pending_requests # << >> /\ pending_requests' = Tail(pending_requests)
             /\ UNCHANGED taken
    <3>1. \A c : Contains(pending_requests, c)
                   <=> c = Head(pending_requests) \/ Contains(pending_requests', c)
      BY <1>a, <2>1, TailContains, Zenon
    <3> QED BY <1>2, <1>11, <2>1, <3>1, Zenon DEF Queued
  <2> QED BY <1>3, <1>6, <1>11, <2>1, Zenon DEF Drain
<1> QED BY <1>1, <1>3, <1>4, <1>5, <1>7, <1>8, <1>9, <1>10, <1>11, StepCalls, ZenonT(40)
        DEF Next, Dispatch

\* A message is added after all the others: a cancellation behind its request.
LEMMA AppendOrdered ==
  ASSUME NEW s \in Seq(Messages), NEW m \in Messages, Ordered(s),
         m.type = "Cancel" => \E j \in 1..Len(s) : /\ s[j].type = "Request" /\ s[j].id = m.id
                                                   /\ result[s[j].call] = "Dropped"
  PROVE Ordered(Append(s, m))
<1>1. /\ Len(Append(s, m)) = Len(s) + 1 /\ Len(s) \in Nat
      /\ \A k \in 1..Len(s) : Append(s, m)[k] = s[k]
      /\ Append(s, m)[Len(s) + 1] = m
  BY SMTT(30)
<1> SUFFICES ASSUME NEW k \in 1..(Len(s) + 1), Append(s, m)[k].type = "Cancel"
             PROVE \E j \in 1..(k - 1) : /\ Append(s, m)[j].type = "Request"
                                         /\ Append(s, m)[j].id = Append(s, m)[k].id
                                         /\ result[Append(s, m)[j].call] = "Dropped"
  BY <1>1, ZenonT(40) DEF Ordered
<1>2. CASE k <= Len(s)
  <2>1. s[k].type = "Cancel" /\ k \in 1..Len(s) /\ Append(s, m)[k] = s[k]
    BY <1>1, <1>2, SMTT(30)
  <2>2. PICK j \in 1..(k - 1) : /\ s[j].type = "Request" /\ s[j].id = s[k].id
                                /\ result[s[j].call] = "Dropped"
    BY <2>1, Zenon DEF Ordered
  <2>3. j \in 1..Len(s)
    BY <1>1, <1>2, SMTT(30)
  <2>4. Append(s, m)[j] = s[j]
    BY <1>1, <2>3, Zenon
  <2> QED BY <2>1, <2>2, <2>4, Zenon
<1>3. CASE k = Len(s) + 1
  <2>1. Append(s, m)[k] = m
    BY <1>1, <1>3, Zenon
  <2>2. PICK j \in 1..Len(s) : /\ s[j].type = "Request" /\ s[j].id = m.id
                               /\ result[s[j].call] = "Dropped"
    BY <2>1, Zenon
  <2>3. j \in 1..(k - 1) /\ Append(s, m)[j] = s[j]
    BY <1>1, <1>3, SMTT(30)
  <2> QED BY <2>1, <2>2, <2>3, Zenon
<1>4. k <= Len(s) \/ k = Len(s) + 1
  BY <1>1, SMTT(30)
<1> QED BY <1>2, <1>3, <1>4, Zenon

\* The order of what is sent does not change when calls move on.
LEMMA OrderKept ==
  ASSUME TypeOK, Sends, GoneForGood
  PROVE /\ \A s : s = Sent => Ordered(s)'
<1> SUFFICES ASSUME NEW s, s = Sent PROVE Ordered(s)'
  BY Zenon
<1>1. s \in Seq(Messages) /\ Ordered(s)
  BY SentFlush, Zenon DEF Sends
<1> SUFFICES ASSUME NEW k \in 1..Len(s), s[k].type = "Cancel"
             PROVE \E j \in 1..(k - 1) : /\ s[j].type = "Request" /\ s[j].id = s[k].id
                                         /\ result'[s[j].call] = "Dropped"
  BY Zenon DEF Ordered
<1>2. PICK j \in 1..(k - 1) : /\ s[j].type = "Request" /\ s[j].id = s[k].id
                              /\ result[s[j].call] = "Dropped"
  BY <1>1, Zenon DEF Ordered
<1>3. Len(s) \in Nat
  BY <1>1, SMTT(30)
<1>4. j \in 1..Len(s)
  BY <1>3, SMTT(30)
<1>5. s[j] \in Messages /\ Contains(s, s[j])
  BY <1>1, <1>4, SMTT(30) DEF Contains
<1>6. Gone(s[j].call)
  BY <1>2, <1>5, Zenon DEF Sends
<1>7. s[j].call \in Callers
  BY <1>2, <1>5, Zenon DEF Messages
<1> QED BY <1>2, <1>6, <1>7, Zenon DEF GoneForGood

\* A step that sends nothing and inserts nothing.
LEMMA SendsKept ==
  ASSUME TypeOK, Sends, GoneForGood, Shrunk, Sent' = Sent
  PROVE Sends'
<1>1. PICK s : s = Sent
  BY Zenon
<1>2. NoDup(s) /\ Ordered(s)'
  BY <1>1, OrderKept, Zenon DEF Sends
<1>3. \A i \in InFlight' : Contains(s, RequestOf(i, request_data'[i]))
  BY <1>1, Zenon DEF Sends, Shrunk
<1>4. \A m \in Messages : Contains(s, m) =>
        /\ m.type = "Request" => request_id'[m.call] = m.id /\ Gone(m.call)'
        /\ m.type = "Cancel" => m.id \notin InFlight'
  <2> SUFFICES ASSUME NEW m \in Messages, Contains(s, m)
               PROVE /\ m.type = "Request" => request_id'[m.call] = m.id /\ Gone(m.call)'
                     /\ m.type = "Cancel" => m.id \notin InFlight'
    BY Zenon
  <2>1. m.type = "Request" => m.call \in Callers /\ request_id[m.call] = m.id /\ Gone(m.call)
    BY <1>1, Zenon DEF Sends, Messages
  <2>2. m.type = "Cancel" => m.id \notin InFlight
    BY <1>1, Zenon DEF Sends
  <2> QED BY <2>1, <2>2, Zenon DEF GoneForGood, Shrunk
<1>5. s = Sent'
  BY <1>1, Zenon
<1> QED BY <1>2, <1>3, <1>4, <1>5, Zenon DEF Sends, RequestOf

\* An id belongs to one call (next_request_id is fetched once per call).
LEMMA SameCall ==
  ASSUME TypeOK, Inv, NEW c \in Callers, NEW d \in Callers,
         request_id[c] \in Nat, request_id[c] = request_id[d]
  PROVE c = d
<1>1. request_id[c] # NoId
  BY SMTT(30) DEF NoId
<1> QED BY <1>1, Zenon DEF Inv, IdsUnique

\* poll_write_request: the request goes out when it enters the map.
LEMMA RequestSends ==
  ASSUME TypeOK, Inv, Results, Sends, GoneForGood, WriteRequest
  PROVE Sends'
<1>1. CASE UNCHANGED <<mapVars, sinkVars>>
  BY <1>1, SendsKept, SentFlush, MapShrinks, Zenon
<1>2. CASE /\ insert_request(request_id[taken], taken)
           /\ start_send([type |-> "Request", id |-> request_id[taken], call |-> taken])
  <2>1. PICK i, c, m : /\ i = request_id[taken] /\ c = taken
                       /\ m = [type |-> "Request", id |-> i, call |-> c]
    BY Zenon
  <2>2. pc = "write" /\ c \in Callers /\ i \in Nat /\ m \in Messages
    BY <2>1, IdsGiven, Zenon DEF WriteRequest, Messages
  <2>3. PICK s : s = Sent
    BY Zenon
  <2>4. s \in Seq(Messages) /\ Sent' = Append(s, m)
    BY <1>2, <2>1, <2>2, <2>3, SentFlush, Zenon
  <2>5. \A n : Contains(Append(s, m), n) <=> Contains(s, n) \/ n = m
    BY <2>2, <2>4, AppendContains, Zenon
  <2>6. m.type = "Request" /\ m.id = i /\ m.call = c
    BY <2>1, Zenon
  <2>7. ~Gone(c) /\ ~Contains(s, m)
    BY <2>1, <2>2, <2>3, <2>6, Zenon DEF Sends, Gone
  <2>8. NoDup(Append(s, m))
    BY <2>2, <2>3, <2>4, <2>7, AppendNoDup, Zenon DEF Sends
  <2>9. Ordered(Append(s, m))'
    <3>1. Ordered(Append(s, m))
      BY <2>2, <2>3, <2>4, <2>6, AppendOrdered, Zenon DEF Sends
    <3>2. UNCHANGED result
      BY Zenon DEF WriteRequest, callVars
    <3> QED BY <3>1, <3>2, Zenon DEF Ordered
  <2>10. /\ InFlight' = InFlight \cup {i} /\ request_data'[i] = c
         /\ \A j \in InFlight : j # i => request_data'[j] = request_data[j]
    BY <1>2, <2>1, Zenon DEF insert_request, InFlight
  <2>11. \A j \in InFlight' : Contains(Append(s, m), RequestOf(j, request_data'[j]))
    <3> SUFFICES ASSUME NEW j \in InFlight'
                 PROVE Contains(Append(s, m), RequestOf(j, request_data'[j]))
      BY Zenon
    <3>1. CASE j = i
      BY <2>1, <2>5, <2>10, <3>1, Zenon DEF RequestOf
    <3>2. CASE j # i
      <4>1. j \in InFlight /\ request_data'[j] = request_data[j]
        BY <2>10, <3>2, Zenon
      <4>2. Contains(s, RequestOf(j, request_data[j]))
        BY <2>3, <4>1, Zenon DEF Sends
      <4> QED BY <2>5, <4>1, <4>2, Zenon
    <3> QED BY <3>1, <3>2, Zenon
  <2>12. request_id'[c] = i /\ Gone(c)'
    <3>1. UNCHANGED <<call, request_id, pending_requests>> /\ taken' = "none"
      BY Zenon DEF WriteRequest, callVars, queueVars
    <3>2. call[c] \notin {"idle", "sending", "permitted"} /\ ~Queued(c)
      BY <2>1, <2>2, Zenon DEF Inv, HeldUnused, Holds, OneHolder
    <3>3. c # "none"
      BY <2>2, CallersAssumption, Zenon DEF Marks
    <3> QED BY <2>1, <3>1, <3>2, <3>3, Zenon DEF Gone, Queued
  <2>13. ASSUME NEW n \in Messages, Contains(s, n)
         PROVE /\ n.type = "Request" => request_id'[n.call] = n.id /\ Gone(n.call)'
               /\ n.type = "Cancel" => n.id \notin InFlight'
    <3>1. CASE n.type = "Request"
      <4>1. n.call \in Callers /\ request_id[n.call] = n.id /\ Gone(n.call)
        BY <2>3, <2>13, <3>1, Zenon DEF Sends, Messages
      <4> QED BY <3>1, <4>1, Zenon DEF GoneForGood
    <3>2. CASE n.type = "Cancel"
      <4>1. n.id \notin InFlight
        BY <2>3, <2>13, <3>2, Zenon DEF Sends
      <4>2. n.id # i
        <5>1. PICK k \in 1..Len(s) : s[k] = n
          BY <2>13, ZenonT(40) DEF Contains
        <5>2. Ordered(s) /\ Len(s) \in Nat
          BY <2>3, <2>4, SMTT(30) DEF Sends
        <5>3. PICK j \in 1..(k - 1) : s[j].type = "Request" /\ s[j].id = n.id
          BY <3>2, <5>1, <5>2, Zenon DEF Ordered
        <5>4. j \in 1..Len(s)
          BY <5>2, SMTT(30)
        <5>5. s[j] \in Messages /\ Contains(s, s[j])
          BY <2>4, <5>4, SMTT(30) DEF Contains
        <5>6. s[j].call \in Callers /\ Gone(s[j].call) /\ request_id[s[j].call] = n.id
          BY <2>3, <5>3, <5>5, Zenon DEF Sends, Messages
        <5>7. s[j].call # c
          BY <2>7, <5>6, Zenon
        <5> QED BY <2>1, <2>2, <5>6, <5>7, SameCall, Zenon
      <4> QED BY <2>10, <3>2, <4>1, <4>2, Zenon
    <3> QED BY <3>1, <3>2, Zenon
  <2>14. \A n \in Messages : Contains(Append(s, m), n) =>
           /\ n.type = "Request" => request_id'[n.call] = n.id /\ Gone(n.call)'
           /\ n.type = "Cancel" => n.id \notin InFlight'
    BY <2>5, <2>6, <2>12, <2>13, Zenon
  <2> QED BY <2>4, <2>8, <2>9, <2>11, <2>14, Zenon DEF Sends, RequestOf
<1> QED BY <1>1, <1>2, WriteCases, Zenon

\* poll_write_cancel: the request is no longer tracked, its caller dropped it,
\* and its Request is on the wire or in the sink.
LEMMA CancelSends ==
  ASSUME TypeOK, Inv, Results, Sends, GoneForGood, PopCancel
  PROVE Sends'
<1>1. CASE UNCHANGED <<mapVars, sinkVars>>
  BY <1>1, SendsKept, SentFlush, MapShrinks, Zenon
<1>2. ASSUME NEW i \in InFlight, i = Head(canceled_requests), canceled_requests # << >>,
             cancel_request(i)
      PROVE Sends'
  <2>1. Shrunk /\ i \notin InFlight'
    BY <1>2, MapShrinks, Zenon DEF cancel_request
  <2>2. CASE UNCHANGED sinkVars
    BY <2>1, <2>2, SendsKept, SentFlush, Zenon
  <2>3. CASE start_send([type |-> "Cancel", id |-> i])
    <3>1. PICK c, m, s : /\ c = request_data[i] /\ m = [type |-> "Cancel", id |-> i]
                         /\ s = Sent
      BY Zenon
    <3>2. i \in Nat /\ c \in Callers /\ m \in Messages /\ m.type = "Cancel" /\ m.id = i
      BY <3>1, Zenon DEF TypeOK, Messages
    <3>3. s \in Seq(Messages) /\ Sent' = Append(s, m)
      BY <2>3, <3>1, <3>2, SentFlush, Zenon
    <3>4. \A n : Contains(Append(s, m), n) <=> Contains(s, n) \/ n = m
      BY <3>2, <3>3, AppendContains, Zenon
    <3>5. ~Contains(s, m)
      BY <3>1, <3>2, Zenon DEF Sends
    <3>6. NoDup(Append(s, m))
      BY <3>1, <3>2, <3>3, <3>5, AppendNoDup, Zenon DEF Sends
    <3>7. result[c] = "Dropped"
      <4>1. Contains(canceled_requests, i)
        BY <1>2, TailContains, SMTT(30) DEF TypeOK
      <4>2. PICK d \in Callers : request_id[d] = i /\ Abandoned(d)
        BY <3>2, <4>1, Zenon DEF Results
      <4>3. request_id[c] = i /\ Tracked(c)
        BY <3>1, Zenon DEF Inv, IdsAgree, Tracked
      <4>4. c = d
        BY <3>2, <4>2, <4>3, SameCall, Zenon
      <4>5. completion[c] # "gone"
        BY <3>2, <4>3, Zenon DEF Inv, HeldUnused, Holds
      <4> QED BY <4>2, <4>4, <4>5, Zenon DEF Abandoned
    <3>8. Contains(s, RequestOf(i, c))
      BY <3>1, Zenon DEF Sends
    <3>9. \E j \in 1..Len(s) : /\ s[j].type = "Request" /\ s[j].id = m.id
                               /\ result[s[j].call] = "Dropped"
      <4>1. PICK j \in 1..Len(s) : s[j] = RequestOf(i, c)
        BY <3>8, Zenon DEF Contains
      <4> QED BY <3>2, <3>7, <4>1, SMTT(30) DEF RequestOf
    <3>10. Ordered(Append(s, m))'
      <4>1. Ordered(Append(s, m))
        BY <3>1, <3>2, <3>3, <3>9, AppendOrdered, Zenon DEF Sends
      <4>2. UNCHANGED result
        BY Zenon DEF PopCancel, callVars
      <4> QED BY <4>1, <4>2, Zenon DEF Ordered
    <3>11. \A j \in InFlight' : Contains(Append(s, m), RequestOf(j, request_data'[j]))
      BY <2>1, <3>1, <3>4, Zenon DEF Sends, Shrunk
    <3>12. ASSUME NEW n \in Messages, Contains(s, n)
           PROVE /\ n.type = "Request" => request_id'[n.call] = n.id /\ Gone(n.call)'
                 /\ n.type = "Cancel" => n.id \notin InFlight'
      <4>1. n.type = "Request" => /\ n.call \in Callers /\ request_id[n.call] = n.id
                                  /\ Gone(n.call)
        BY <3>1, <3>12, Zenon DEF Sends, Messages
      <4>2. n.type = "Cancel" => n.id \notin InFlight
        BY <3>1, <3>12, Zenon DEF Sends
      <4> QED BY <2>1, <4>1, <4>2, Zenon DEF GoneForGood, Shrunk
    <3>13. \A n \in Messages : Contains(Append(s, m), n) =>
             /\ n.type = "Request" => request_id'[n.call] = n.id /\ Gone(n.call)'
             /\ n.type = "Cancel" => n.id \notin InFlight'
      BY <2>1, <3>2, <3>4, <3>12, Zenon
    <3> QED BY <3>3, <3>6, <3>10, <3>11, <3>13, Zenon DEF Sends, RequestOf
  <2> QED BY <1>2, <2>2, <2>3, Zenon DEF PopCancel, write_cancel
<1> QED BY <1>1, <1>2, Zenon DEF PopCancel, write_cancel

\* Every step.
LEMMA SendsStep ==
  ASSUME TypeOK, Inv, Results, Sends, [Next]_vars
  PROVE Sends'
<1>1. GoneForGood
  BY StepGone, Zenon
<1>2. CASE WriteRequest
  BY <1>1, <1>2, RequestSends, Zenon
<1>3. CASE PopCancel
  BY <1>1, <1>3, CancelSends, Zenon
<1>4. CASE ~WriteRequest /\ ~PopCancel
  BY <1>1, <1>4, StepShrinks, StepSends, SendsKept, SMTT(30)
<1> QED BY <1>2, <1>3, <1>4, Zenon

-----------------------------------------------------------------------------
(* The theorems about errors and the wire                                  *)

\* A new client has nothing in flight, nothing sent and no errors.
LEMMA InitOutcomes == Init => Outcomes
<1> SUFFICES ASSUME Init PROVE Outcomes
  BY Zenon
<1>1. InFlight = {}
  BY EmptyMap, Zenon DEF Init, InFlight
<1>3. Results
  BY EmptyContains, Zenon DEF Init, Results
<1>4. Reasons
  BY Zenon DEF Init, Reasons, Reason, Told
<1>5. Closing
  BY Zenon DEF Init, Closing, Unpolled
<1>6. Sent = << >>
  BY SMTT(30) DEF Init, Sent
<1>7. Sends
  BY <1>1, <1>6, EmptyContains, SMTT(30) DEF Sends, NoDup, Ordered
<1> QED BY <1>3, <1>4, <1>5, <1>7, Zenon DEF Outcomes

\* The invariant of this module, on top of the client's, is inductive.
THEOREM OutcomesInvariant == Spec => [](TypeOK /\ Inv /\ Outcomes)
<1>1. Init => Outcomes
  BY InitOutcomes, Zenon
<1>2. TypeOK /\ Inv /\ Outcomes /\ [Next]_vars => Outcomes'
  BY ResultsStep, ReasonsStep, ClosingStep, SendsStep, Zenon DEF Outcomes
<1> QED BY <1>1, <1>2, Inductive, PTL DEF Spec

\* What was written with the id of a call is its request, or follows it.
LEMMA UnwrittenIds ==
  ASSUME TypeOK, Inv, Sends, NEW c \in Callers, Unwritten(c), request_id[c] \in Nat
  PROVE /\ request_id[c] \notin InFlight
        /\ \A k \in 1..Len(Sent) : Sent[k].id # request_id[c]
<1>1. PICK s : s = Sent
  BY Zenon
<1>2. s \in Seq(Messages) /\ Len(s) \in Nat /\ Ordered(s)
  <2>1. s \in Seq(Messages) /\ Ordered(s)
    BY <1>1, SentFlush, Zenon DEF Sends
  <2>2. Len(s) \in Nat
    BY <2>1, SMTT(30)
  <2> QED BY <2>1, <2>2, Zenon
<1>3. ASSUME NEW k \in 1..Len(s) PROVE s[k] \in Messages /\ Contains(s, s[k])
  BY <1>2, <1>3, SMTT(30) DEF Contains
<1>4. ASSUME NEW k \in 1..Len(s), s[k].type = "Request" PROVE s[k].id # request_id[c]
  <2>1. s[k] \in Messages /\ Contains(s, s[k])
    BY <1>3, <1>4, Zenon
  <2>2. s[k].call # c /\ request_id[s[k].call] = s[k].id /\ s[k].call \in Callers
    BY <1>1, <1>4, <2>1, Zenon DEF Unwritten, Sends, Messages
  <2> QED BY <2>2, SameCall, Zenon
<1>5. ASSUME NEW k \in 1..Len(s), s[k].type = "Cancel" PROVE s[k].id # request_id[c]
  <2>1. PICK j \in 1..(k - 1) : s[j].type = "Request" /\ s[j].id = s[k].id
    BY <1>2, <1>5, Zenon DEF Ordered
  <2>2. j \in 1..Len(s)
    BY <1>2, SMTT(30)
  <2> QED BY <1>4, <2>1, <2>2, Zenon
<1>6. ASSUME NEW k \in 1..Len(s) PROVE s[k].type \in {"Request", "Cancel"}
  BY <1>3, <1>6, Zenon DEF Messages
<1>7. request_id[c] \notin InFlight
  <2> SUFFICES ASSUME request_id[c] \in InFlight PROVE FALSE
    BY Zenon
  <2>1. PICK m : m = RequestOf(request_id[c], request_data[request_id[c]])
    BY Zenon
  <2>2. Contains(s, m) /\ m.type = "Request" /\ m.id = request_id[c]
    BY <1>1, <2>1, Zenon DEF Sends, RequestOf
  <2> QED BY <1>4, <2>2, Zenon DEF Contains
<1> QED BY <1>1, <1>4, <1>5, <1>6, <1>7, Zenon

\* The error a call returns has its cause: Shutdown and Channel that the queue is
\* closed, Send that the request was never written, on whatever transport, and
\* DeadlineExceeded that the deadline has passed.
THEOREM ErrorsAreTrue == Spec => []TruthfulErrors
<1>1. TypeOK /\ Inv /\ Outcomes => TruthfulErrors
  <2> SUFFICES ASSUME TypeOK, Inv, Outcomes, NEW c \in Callers
               PROVE /\ result[c] = "Shutdown" => rx # "open"
                     /\ result[c] = "Channel" => terminal_error /\ rx # "open"
                     /\ result[c] = "Send" =>
                          /\ request_id[c] \notin InFlight
                          /\ \A k \in 1..Len(Sent) : Sent[k].id # request_id[c]
                     /\ result[c] = "DeadlineExceeded" => c \in late
    BY Zenon DEF TruthfulErrors, Sent
  <2>1. Told(c) /\ Reason(completion[c], c)
    BY Zenon DEF Outcomes, Reasons
  <2>2. ASSUME result[c] = "Send" PROVE Unwritten(c) /\ request_id[c] \in Nat
    <3>1. call[c] # "idle"
      BY <2>2, Zenon DEF Outcomes, Results
    <3> QED BY <2>1, <2>2, <3>1, IdsGiven, Zenon DEF Told, Reason
  <2> QED BY <2>1, <2>2, UnwrittenIds, Zenon DEF Told, Outcomes
<1> QED BY <1>1, OutcomesInvariant, PTL

\* A request is sent once; a cancellation once, after its request, and only for
\* a call that was dropped; and the write half closes with nothing in flight.
THEOREM WireIsDisciplined == Spec => []WireDiscipline
<1>1. TypeOK /\ Inv /\ Outcomes => WireDiscipline
  <2> SUFFICES ASSUME TypeOK, Inv, Outcomes PROVE WireDiscipline
    BY Zenon
  <2>1. NoDup(wire \o sink) /\ Ordered(wire \o sink)
    BY Zenon DEF Outcomes, Sends, Sent
  <2>2. polled.write = "none" => InFlight = {}
    <3> SUFFICES ASSUME polled.write = "none", NEW i \in InFlight PROVE FALSE
      BY Zenon
    <3>1. canceled_requests = << >> /\ call[request_data[i]] \in {"idle", "done"}
      BY Zenon DEF TypeOK, Outcomes, Closing
    <3> QED BY <3>1, EmptyContains, Zenon DEF Inv, NoOrphan
  <2> QED BY <2>1, <2>2, Zenon DEF WireDiscipline, NoDup, Ordered
<1> QED BY <1>1, OutcomesInvariant, PTL


-----------------------------------------------------------------------------
(* What a step may do to a call, as its server needs to know it            *)

\* A call keeps its id, and is dropped for good if it is.
LEMMA StepRemembers ==
  ASSUME TypeOK, Inv, Results, [Next]_vars
  PROVE \A c \in Callers :
          /\ request_id[c] # NoId => request_id'[c] = request_id[c]
          /\ result[c] = "Dropped" => result'[c] = "Dropped"
<1> SUFFICES ASSUME NEW d \in Callers, Caller(d)
             PROVE \A c \in Callers :
                     /\ request_id[c] # NoId => request_id'[c] = request_id[c]
                     /\ result[c] = "Dropped" => result'[c] = "Dropped"
  BY StepCalls, Zenon DEF CallsKept
<1>1. /\ call[d] = "idle" => request_id[d] = NoId
      /\ call[d] \in {"sending", "awaiting"} => result[d] = "none"
  BY Zenon DEF Inv, IdsUnique, Results
<1>2. CASE Call(d)
  BY <1>1, <1>2, Zenon DEF Call, TypeOK
<1>3. CASE Reserve(d) \/ Push(d) \/ CloseResponse(d) \/ Cancel(d)
  BY <1>3, Zenon DEF Reserve, Push, CloseResponse, Cancel
<1>4. CASE SendError(d) \/ Response(d)
  BY <1>1, <1>4, Zenon DEF SendError, Response, TypeOK
<1>5. CASE DropCall(d)
  BY <1>5, Zenon DEF DropCall, TypeOK
<1> QED BY <1>2, <1>3, <1>4, <1>5, Zenon DEF Caller

\* The client reads what it has received, in that order.
LEMMA StepInbound ==
  ASSUME \/ \E c \in Callers : Caller(c) \/ Late(c)
         \/ DropToDispatch \/ DropCancellation \/ Dispatch \/ Eof
  PROVE inbound' = inbound \/ (inbound # << >> /\ inbound' = Tail(inbound))
<1> USE DEF netVars
<1>1. ASSUME NEW c \in Callers, Caller(c) \/ Late(c) PROVE inbound' = inbound
  BY <1>1, Zenon DEF Caller, Call, Reserve, Push, SendError, Response, DropCall,
                     CloseResponse, Cancel, Late
<1>2. CASE DropToDispatch \/ DropCancellation \/ Eof
  BY <1>2, Zenon DEF DropToDispatch, DropCancellation, Eof, Disconnect
<1>3. CASE Dropped
  BY <1>3, Zenon DEF Dropped
<1>4. CASE Poll \/ ReadResponse \/ ReadPending \/ ReadClosed \/ ReadError \/ PollReady
           \/ PopRequest \/ PopNoRequest \/ WriteRequest
  BY <1>4, Zenon DEF Poll, ReadResponse, ReadPending, ReadClosed, ReadError, PollReady,
              PopRequest, PopNoRequest, WriteRequest
<1>5. CASE PollCancelReady \/ PopCancel \/ PopNoCancel \/ Expire \/ NoneExpired \/ Finish
           \/ ShutDown
  BY <1>5, Zenon
     DEF PollCancelReady, PopCancel, PopNoCancel, Expire, NoneExpired, Finish, ShutDown
<1>6. CASE Run \/ Drain
  BY <1>3, <1>6, Zenon DEF Run, Drain
<1> QED BY <1>1, <1>2, <1>4, <1>5, <1>6, Zenon DEF Dispatch

\* A oneshot holds an answer, or is none yet, only if it did or was before.
NoAnswer ==
  \A c \in Callers : /\ completion'[c] \in Callers => completion[c] \in Callers
                     /\ completion'[c] = "none" => completion[c] = "none"

\* An error is no answer.
LEMMA MarkGiven ==
  ASSUME NEW calls, NEW v \in Marks \ {"none"}, completion' = Completed(calls, v)
  PROVE NoAnswer
BY CallersAssumption, Zenon DEF Completed, NoAnswer

\* A call is answered when its reply is read, and by nothing else.
LEMMA StepAnswers ==
  ASSUME TypeOK, [Next]_vars
  PROVE NoAnswer \/ ReadResponse
<1>1. UNCHANGED completion => NoAnswer
  BY Zenon DEF NoAnswer
<1> DEFINE Given == Marks \ {"none"}
<1>2. /\ "open" \in Given /\ "closed" \in Given /\ "gone" \in Given /\ "Send" \in Given
      /\ "Channel" \in Given /\ "DeadlineExceeded" \in Given
  BY Zenon DEF Marks, Errors
<1> USE <1>1, <1>2
<1>3. ASSUME NEW i, NEW v \in Given, complete_request(i, v) PROVE NoAnswer
  BY <1>3, MarkGiven, Zenon DEF complete_request
<1>4. ASSUME NEW d \in Callers, Caller(d) PROVE NoAnswer
  <2>1. CASE Call(d)
    BY <2>1, CallersAssumption, Zenon DEF Call, TypeOK, NoAnswer
  <2>2. CASE Reserve(d) \/ Push(d) \/ Response(d) \/ Cancel(d)
    BY <2>2, Zenon DEF Reserve, Push, Response, Cancel
  <2>3. CASE SendError(d) \/ DropCall(d) \/ CloseResponse(d)
    BY <2>3, MarkGiven, Zenon DEF SendError, DropCall, CloseResponse
  <2> QED BY <1>4, <2>1, <2>2, <2>3, Zenon DEF Caller
<1>5. ASSUME NEW d \in Callers, Late(d) PROVE NoAnswer
  BY <1>5, Zenon DEF Late
<1>6. CASE \/ DropToDispatch \/ DropCancellation \/ Reply \/ Stall \/ Unstall \/ Eof
           \/ Break \/ Terminated \/ UNCHANGED vars
  BY <1>6, Zenon DEF DropToDispatch, DropCancellation, Reply, Stall, Unstall, Eof, Break,
              Disconnect, Terminated, vars
<1>7. CASE Dropped
  BY <1>7, MarkGiven, Zenon DEF Dropped
<1>8. CASE Poll \/ ReadPending \/ ReadClosed \/ ReadError \/ PollReady \/ PopRequest
           \/ PopNoRequest \/ PollCancelReady \/ PopNoCancel \/ NoneExpired \/ Finish
  BY <1>8, Zenon
     DEF Poll, ReadPending, ReadClosed, ReadError, PollReady, PopRequest, PopNoRequest,
              PollCancelReady, PopNoCancel, NoneExpired, Finish
<1>9. CASE WriteRequest
  BY <1>9, MarkGiven, Zenon DEF WriteRequest
<1>10. CASE PopCancel
  BY <1>10, MarkGiven, Zenon DEF PopCancel, write_cancel, cancel_request
<1>11. CASE ShutDown
  BY <1>11, MarkGiven, Zenon DEF ShutDown, complete_all_requests
<1>12. CASE Expire
  BY <1>3, <1>12, Zenon DEF Expire
<1>13. CASE Run \/ Drain \/ Abandon
  BY <1>7, <1>13, MarkGiven, Zenon DEF Run, Drain, Abandon
<1> QED BY <1>4, <1>5, <1>6, <1>8, <1>9, <1>10, <1>11, <1>12, <1>13, Zenon
        DEF Next, Dispatch

\* A call that has a oneshot has begun.
LEMMA StepBegins ==
  ASSUME TypeOK, [Next]_vars, \A c \in Callers : completion[c] = "none" => call[c] = "idle"
  PROVE \A c \in Callers : completion'[c] = "none" => call'[c] = "idle"
<1> SUFFICES ASSUME NEW c \in Callers, completion'[c] = "none" PROVE call'[c] = "idle"
  BY Zenon
<1>1. completion[c] = "none"
  <2>1. CASE NoAnswer
    BY <2>1, Zenon DEF NoAnswer
  <2>2. CASE ReadResponse
    <3>1. PICK r : r = Head(inbound)
      BY Zenon
    <3>2. r \in Replies
      BY <2>2, <3>1, SMTT(30) DEF ReadResponse, TypeOK
    <3>3. r.reply # "none"
      BY <3>2, CallersAssumption, Zenon DEF Replies, Marks
    <3> QED BY <2>2, <3>1, <3>3, Zenon DEF ReadResponse, complete_request, Completed
  <2> QED BY <2>1, <2>2, StepAnswers, Zenon
<1>2. call[c] = "idle"
  BY <1>1, Zenon
<1>3. ASSUME NEW d \in Callers, Caller(d), call'[c] # "idle" PROVE FALSE
  <2>1. c = d
    BY <1>2, <1>3, ZenonT(40) DEF Caller, Call, Reserve, Push, SendError, Response, DropCall,
                       CloseResponse, Cancel, TypeOK
  <2>2. Call(c)
    BY <1>2, <1>3, <2>1, Zenon DEF Caller, Reserve, Push, SendError, Response, DropCall,
                       CloseResponse, Cancel
  <2> QED BY <2>2, Zenon DEF Call, TypeOK
<1> QED BY <1>2, <1>3, StepCalls, Zenon DEF CallsKept

\* The deadline of a call passes in a step of its own.
LEMMA StepLate ==
  ASSUME [Next]_vars
  PROVE late' = late \/ \E c \in Callers : Late(c)
<1> USE DEF netVars
<1>1. ASSUME NEW c \in Callers, Caller(c) PROVE late' = late
  BY <1>1, Zenon DEF Caller, Call, Reserve, Push, SendError, Response, DropCall,
                     CloseResponse, Cancel
<1>2. CASE \/ DropToDispatch \/ DropCancellation \/ Reply \/ Stall \/ Unstall \/ Eof
           \/ Break \/ Terminated \/ UNCHANGED vars
  BY <1>2, Zenon DEF DropToDispatch, DropCancellation, Reply, Stall, Unstall, Eof, Break,
              Disconnect, Terminated, vars
<1>3. CASE Dropped
  BY <1>3, Zenon DEF Dropped
<1>4. CASE Poll \/ ReadResponse \/ ReadPending \/ ReadClosed \/ ReadError \/ PollReady
           \/ PopRequest \/ PopNoRequest \/ WriteRequest
  BY <1>4, Zenon DEF Poll, ReadResponse, ReadPending, ReadClosed, ReadError, PollReady,
              PopRequest, PopNoRequest, WriteRequest
<1>5. CASE PollCancelReady \/ PopCancel \/ PopNoCancel \/ Expire \/ NoneExpired \/ Finish
           \/ ShutDown
  BY <1>5, Zenon
     DEF PollCancelReady, PopCancel, PopNoCancel, Expire, NoneExpired, Finish, ShutDown
<1>6. CASE Run \/ Drain \/ Abandon
  BY <1>3, <1>6, Zenon DEF Run, Drain, Abandon
<1> QED BY <1>1, <1>2, <1>4, <1>5, <1>6, Zenon DEF Next, Dispatch
=============================================================================
