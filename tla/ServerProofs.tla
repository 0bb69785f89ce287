---------------------------- MODULE ServerProofs ----------------------------
(***************************************************************************)
(* Proofs about Server: the inductive invariant, facts about the queues,   *)
(* the types, and that every step keeps the invariant, whatever the peer   *)
(* does.  The theorems hold for any set of calls, any limits and any       *)
(* environment.                                                            *)
(***************************************************************************)
EXTENDS Server, Functions, TLAPS

-----------------------------------------------------------------------------
(* What holds of any peer                                                  *)

Sent == wire \o sink
Unread(c) == \E m \in Range(inbound) : m.type = "Request" /\ m.call = c

\* Whatever is on its way carries the id of its call.
Labels ==
  /\ \A c \in Callers : handler[c] # "none" \/ c \in aborted \/ c = yielded
       => request_id[c] # NoId
  /\ \A m \in Range(inbound) : m.type = "Request" => request_id[m.call] = m.id
  /\ \A i \in InFlight : request_id[request_data[i]] = i
  /\ \A r \in Range(pending_responses) :
       r = Response(r.reply) /\ handler[r.reply] = "responded"
  /\ \A r \in Range(Sent) :
       r = Response(r.reply) /\ handler[r.reply] \in {"responded", "throttled"}

\* A request is read once, and is tracked until it is aborted at the latest.
Once ==
  \A j, k \in 1..Len(inbound) :
    /\ inbound[j].type = "Request" /\ inbound[k].type = "Request"
    /\ inbound[j].call = inbound[k].call
    => j = k
Positions ==
  /\ Once
  /\ \A c \in Callers : Unread(c) =>
       handler[c] = "none" /\ c # yielded /\ ~Tracked(c) /\ c \notin aborted
  /\ yielded \in Callers => handler[yielded] = "none"
  /\ \A c \in Callers : Tracked(c) => c \notin aborted

Phases ==
  /\ yielded # "none" <=> polled.read = "some"
  /\ yielded # "none" => pc \in {"ready", "pop", "flush", "decide"}
  /\ pc = "ended" => InFlight = {} /\ pending_responses = << >>
                     /\ canceled_requests = << >>
  /\ cause = "none" <=> pc # "ended"
  /\ polled.write # "pending" => pc = "decide"
  /\ polled.write = "none" => InFlight = {} /\ sink = << >>

Inv == Labels /\ Positions /\ Phases /\ NoOrphan

-----------------------------------------------------------------------------
(* The queues                                                              *)

\* The elements of a sequence are those at its indices.
LEMMA Elements ==
  ASSUME NEW S, NEW s \in Seq(S)
  PROVE /\ Range(s) \subseteq S /\ Len(s) \in Nat
        /\ \A x : x \in Range(s) <=> Contains(s, x)
        /\ \A k \in 1..Len(s) : s[k] \in Range(s) /\ s[k] \in S
BY SMTT(30) DEF Range, Contains

\* An empty queue, as Drop leaves it.
LEMMA EmptyQueue ==
  Range(<< >>) = {} /\ Len(<< >>) = 0 /\ \A S : << >> \in Seq(S)
BY SMTT(30) DEF Range

\* A message is added at the end of a queue.
LEMMA AppendQueue ==
  ASSUME NEW S, NEW s \in Seq(S), NEW e \in S
  PROVE /\ Append(s, e) \in Seq(S)
        /\ Range(Append(s, e)) = Range(s) \cup {e}
        /\ Len(s) \in Nat /\ Len(Append(s, e)) = Len(s) + 1
        /\ \A k \in 1..Len(s) : Append(s, e)[k] = s[k]
        /\ Append(s, e)[Len(s) + 1] = e
<1>1. /\ Append(s, e) \in Seq(S)
      /\ Len(s) \in Nat /\ Len(Append(s, e)) = Len(s) + 1
      /\ \A k \in 1..Len(s) : Append(s, e)[k] = s[k]
      /\ Append(s, e)[Len(s) + 1] = e
  BY SMTT(30)
<1>2. \A k \in 1..(Len(s) + 1) : k \in 1..Len(s) \/ k = Len(s) + 1
  BY <1>1, SMTT(30)
<1>3. \A x : Contains(Append(s, e), x) <=> Contains(s, x) \/ x = e
  BY <1>1, <1>2, SMTT(30) DEF Contains
<1>4. \A x : x \in Range(Append(s, e)) <=> x \in Range(s) \/ x = e
  BY <1>1, <1>3, Elements, Zenon
<1> QED BY <1>1, <1>4, Zenon

\* The first message is taken from a queue.
LEMMA TailQueue ==
  ASSUME NEW S, NEW s \in Seq(S), s # << >>
  PROVE /\ Head(s) \in S /\ Head(s) = s[1] /\ Tail(s) \in Seq(S)
        /\ Head(s) \in Range(s) /\ Range(s) = Range(Tail(s)) \cup {Head(s)}
        /\ Len(s) \in Nat \ {0} /\ Len(Tail(s)) = Len(s) - 1
        /\ \A k \in 1..Len(Tail(s)) : Tail(s)[k] = s[k + 1]
<1>1. /\ Head(s) \in S /\ Head(s) = s[1] /\ Tail(s) \in Seq(S)
      /\ Len(s) \in Nat \ {0} /\ Len(Tail(s)) = Len(s) - 1
      /\ \A k \in 1..Len(Tail(s)) : Tail(s)[k] = s[k + 1]
  BY SMTT(30)
<1>2. ASSUME NEW x, Contains(s, x), x # Head(s) PROVE Contains(Tail(s), x)
  <2>1. PICK k \in 1..Len(s) : s[k] = x
    BY <1>2, Zenon DEF Contains
  <2>2. k - 1 \in 1..Len(Tail(s)) /\ Tail(s)[k - 1] = x
    BY <1>1, <1>2, <2>1, SMTT(30)
  <2> QED BY <2>2, Zenon DEF Contains
<1>3. ASSUME NEW x, Contains(Tail(s), x) PROVE Contains(s, x)
  <2>1. PICK k \in 1..Len(Tail(s)) : Tail(s)[k] = x
    BY <1>3, Zenon DEF Contains
  <2>2. k + 1 \in 1..Len(s) /\ s[k + 1] = x
    BY <1>1, <2>1, SMTT(30)
  <2> QED BY <2>2, Zenon DEF Contains
<1>4. Contains(s, Head(s))
  BY <1>1, SMTT(30) DEF Contains
<1>5. \A x : x \in Range(s) <=> x \in Range(Tail(s)) \/ x = Head(s)
  BY <1>1, <1>2, <1>3, <1>4, Elements, ZenonT(40)
<1> QED BY <1>1, <1>5, Zenon

\* What was flushed, followed by what was not.
LEMMA ConcatQueue ==
  ASSUME NEW S, NEW s \in Seq(S), NEW t \in Seq(S), NEW e \in S
  PROVE /\ s \o t \in Seq(S) /\ s \o << >> = s
        /\ s \o Append(t, e) = Append(s \o t, e)
        /\ Range(s \o t) = Range(s) \cup Range(t)
<1>1. s \o t \in Seq(S) /\ s \o << >> = s /\ s \o Append(t, e) = Append(s \o t, e)
  BY SMTT(30)
<1>2. /\ Len(s \o t) = Len(s) + Len(t) /\ Len(s) \in Nat /\ Len(t) \in Nat
      /\ \A k \in 1..Len(s) : (s \o t)[k] = s[k]
      /\ \A k \in 1..Len(t) : (s \o t)[Len(s) + k] = t[k]
  BY SMTT(30)
<1>3. ASSUME NEW x, Contains(s \o t, x) PROVE Contains(s, x) \/ Contains(t, x)
  <2>1. PICK k \in 1..(Len(s) + Len(t)) : (s \o t)[k] = x
    BY <1>2, <1>3, Zenon DEF Contains
  <2>2. CASE k \in 1..Len(s)
    BY <1>2, <2>1, <2>2, Zenon DEF Contains
  <2>3. CASE k \notin 1..Len(s)
    <3>1. k - Len(s) \in 1..Len(t) /\ Len(s) + (k - Len(s)) = k
      BY <1>2, <2>1, <2>3, SMTT(30)
    <3> QED BY <1>2, <2>1, <3>1, Zenon DEF Contains
  <2> QED BY <2>2, <2>3, Zenon
<1>4. ASSUME NEW x, Contains(s, x) \/ Contains(t, x) PROVE Contains(s \o t, x)
  <2>1. CASE Contains(s, x)
    BY <1>2, <2>1, SMTT(30) DEF Contains
  <2>2. CASE Contains(t, x)
    <3>1. PICK k \in 1..Len(t) : t[k] = x
      BY <2>2, Zenon DEF Contains
    <3>2. Len(s) + k \in 1..Len(s \o t)
      BY <1>2, <3>1, SMTT(30)
    <3> QED BY <1>2, <3>1, <3>2, Zenon DEF Contains
  <2> QED BY <1>4, <2>1, <2>2, Zenon
<1>5. \A x : x \in Range(s \o t) <=> x \in Range(s) \/ x \in Range(t)
  BY <1>1, <1>3, <1>4, Elements, Zenon
<1> QED BY <1>1, <1>5, Zenon

-----------------------------------------------------------------------------
(* Types                                                                   *)

\* A request that was read has a call, and the id it was sent with.
LEMMA RequestRead ==
  ASSUME TypeOK, Labels, Reads("Request")
  PROVE /\ Head(inbound) \in Range(inbound) /\ Head(inbound).type = "Request"
        /\ Head(inbound).call \in Callers /\ Head(inbound).id \in Ids
        /\ request_id[Head(inbound).call] = Head(inbound).id
        /\ Unread(Head(inbound).call)
<1>1. /\ Head(inbound) \in Messages /\ Head(inbound) \in Range(inbound)
      /\ Head(inbound).type = "Request"
  BY TailQueue, Zenon DEF TypeOK, Reads
<1>2. Head(inbound).call \in Callers /\ Head(inbound).id \in Nat
  BY <1>1, Zenon DEF Messages
<1>3. request_id[Head(inbound).call] = Head(inbound).id
  BY <1>1, Zenon DEF Labels
<1> QED BY <1>1, <1>2, <1>3, SMTT(30) DEF TypeOK, NoId, Unread

\* Tail, Append and \o keep the types of the queues.
LEMMA ReadType ==
  ASSUME TypeOK, inbound # << >>
  PROVE Tail(inbound) \in Seq(Messages)
BY TailQueue, Zenon DEF TypeOK

\* poll_flush moves the sink onto the wire.
LEMMA FlushType ==
  ASSUME TypeOK, Flush
  PROVE sink' \in Seq(Replies) /\ wire' \in Seq(Replies)
BY EmptyQueue, SMTT(30) DEF TypeOK, Flush

\* start_send puts one response into the sink.
LEMMA SendType ==
  ASSUME TypeOK, NEW i \in Ids, NEW c \in Callers
  PROVE /\ [id |-> i, reply |-> c] \in Replies
        /\ transport_send([id |-> i, reply |-> c])
             => sink' \in Seq(Replies) /\ wire' \in Seq(Replies)
<1>1. [id |-> i, reply |-> c] \in Replies
  BY NamesAssumption, Zenon DEF Replies
<1>2. PICK r \in Replies : r = [id |-> i, reply |-> c]
  BY <1>1, Zenon
<1>3. sink \in Seq(Replies) /\ wire \in Seq(Replies)
  BY Zenon DEF TypeOK
<1>4. ASSUME transport_send(r) PROVE sink' \in Seq(Replies) /\ wire' \in Seq(Replies)
  BY <1>3, <1>4, AppendQueue, Zenon DEF transport_send
<1> QED BY <1>1, <1>2, <1>4, Zenon

\* The end of the stream leaves every variable with its type.
LEMMA DropType ==
  ASSUME TypeOK, UNCHANGED <<sinkVars>>,
         inbound' \in Seq(Messages), UNCHANGED <<net, stalled, stalls, late, revoked>>,
         NEW why \in {"closed", "error", "dropped"}, NEW ids \in SUBSET InFlight,
         NEW tasks \in [Callers -> {"none"} \cup Live \cup Ended],
         Drop(why, ids, tasks)
  PROVE TypeOK'
<1>1. aborted' \subseteq Callers
  BY SMTT(30) DEF TypeOK, Drop, abort_all
<1>2. /\ InFlight' = {} /\ InFlight' \subseteq Ids
      /\ request_data' \in [InFlight' -> Callers]
  BY SMTT(30) DEF Drop, InFlight
<1>3. polled' \in [cancels : {"ready", "closed"}, write : {"some", "none", "pending"},
                   expired : {"ready", "pending", "closed"},
                   read : {"some", "none", "pending"}]
  BY Zenon DEF Drop, Unpolled
<1>4. /\ pending_responses' \in Seq(Replies) /\ canceled_requests' \in Seq(Ids)
      /\ sink' \in Seq(Replies) /\ wire' \in Seq(Replies)
  BY EmptyQueue, Zenon DEF TypeOK, Drop, sinkVars
<1> QED BY <1>1, <1>2, <1>3, <1>4, Zenon DEF TypeOK, Drop, Points

\* Wakers.
LEMMA WakeType ==
  ASSUME TypeOK
  PROVE /\ \A src \in SUBSET Sources :
             Notify(src) => registered' \subseteq Sources /\ woken' \in BOOLEAN
        /\ \A src \in Sources :
             Register(src) => registered' \subseteq Sources /\ woken' \in BOOLEAN
BY Zenon DEF TypeOK, Notify, Register

\* The steps of a handler.
LEMMA HandlerType ==
  ASSUME TypeOK, Labels, NEW c \in Callers, Handler(c)
  PROVE TypeOK'
<1> USE DEF taskVars, queueVars, mapVars, runVars, wakeVars, sinkVars, netVars, InFlight
<1>1. CASE Execute(c) \/ Serve(c) \/ Abort(c)
  <2>1. PICK h \in {"running", "sending", "aborted"} : Move(c, h)
    BY <1>1, Zenon DEF Execute, Serve, Abort
  <2>2. handler' \in [Callers -> {"none"} \cup Live \cup Ended]
    BY <2>1, SMTT(30) DEF TypeOK, Move, Live, Ended
  <2>3. UNCHANGED <<request_id, aborted, queueVars, mapVars, runVars, wakeVars, sinkVars,
                    netVars>>
    BY <1>1, Zenon DEF Execute, Serve, Abort
  <2> QED BY <2>2, <2>3, SMTT(30) DEF TypeOK
<1>2. CASE SendResponse(c)
  <2>1. request_id[c] \in Ids
    BY <1>2, Zenon DEF SendResponse, Labels, TypeOK
  <2>2. [id |-> request_id[c], reply |-> c] \in Replies
    BY <2>1, SendType, Zenon
  <2>3. handler' \in [Callers -> {"none"} \cup Live \cup Ended]
    BY <1>2, Zenon DEF TypeOK, SendResponse, Move, Ended
  <2>4. pending_responses' \in Seq(Replies)
    <3>1. pending_responses \in Seq(Replies)
      BY Zenon DEF TypeOK
    <3>2. PICK r \in Replies : r = [id |-> request_id[c], reply |-> c]
      BY <2>2, Zenon
    <3>3. pending_responses' \in {pending_responses, Append(pending_responses, r)}
      BY <1>2, <3>2, Zenon DEF SendResponse
    <3> QED BY <3>1, <3>3, AppendQueue, SMTT(30)
  <2>5. registered' \subseteq Sources /\ woken' \in BOOLEAN
    BY <1>2, WakeType, Zenon DEF TypeOK, SendResponse, Sources
  <2> QED BY <1>2, <2>3, <2>4, <2>5, SMTT(30) DEF TypeOK, SendResponse
<1>3. CASE DropHandler(c)
  <2>1. request_id[c] \in Ids
    BY <1>3, Zenon DEF DropHandler, Labels, TypeOK, Live
  <2>2. handler' \in [Callers -> {"none"} \cup Live \cup Ended]
    BY <1>3, Zenon DEF TypeOK, DropHandler, Move, Ended
  <2>3. canceled_requests' \in Seq(Ids)
    <3>1. canceled_requests \in Seq(Ids)
      BY Zenon DEF TypeOK
    <3>2. canceled_requests' \in {canceled_requests,
                                  Append(canceled_requests, request_id[c])}
      BY <1>3, Zenon DEF DropHandler, cancel
    <3> QED BY <2>1, <3>1, <3>2, AppendQueue, SMTT(30)
  <2>4. registered' \subseteq Sources /\ woken' \in BOOLEAN
    BY <1>3, WakeType, Zenon DEF TypeOK, DropHandler, cancel, Sources
  <2> QED BY <1>3, <2>2, <2>3, <2>4, SMTT(30) DEF TypeOK, DropHandler
<1> QED BY <1>1, <1>2, <1>3, Zenon DEF Handler

-----------------------------------------------------------------------------
(* InFlightRequests                                                        *)

\* The requests with the given ids are tracked no more, nor are their timers.
Untracks(ids) ==
  /\ InFlight' = InFlight \ ids
  /\ request_data' \in [InFlight' -> Callers]
  /\ \A j \in InFlight' : request_data'[j] = request_data[j]
  /\ deadlines' = {t \in deadlines : t[1] \notin ids}

Tasks(ids) == {request_data[j] : j \in InFlight \cap ids}

\* remove_request, cancel_request and poll_expired each take one request out,
\* and the latter two abort its handler.
LEMMA Removals ==
  ASSUME TypeOK, NoOrphan, NEW i
  PROVE /\ Remove(i) => Untracks({i})
        /\ remove_request(i) => Untracks({i})
        /\ cancel_request(i) => Untracks({i}) /\ aborted' = aborted \cup Tasks({i})
<1>1. /\ request_data \in [InFlight -> Callers]
      /\ deadlines = {<<j, request_data[j]>> : j \in InFlight}
  BY Zenon DEF TypeOK, NoOrphan
<1>2. ASSUME Remove(i) PROVE Untracks({i})
  BY <1>1, <1>2, Zenon DEF Remove, Untracks, InFlight
<1>3. ASSUME i \notin InFlight, UNCHANGED mapVars PROVE Untracks({i})
  <2>1. {t \in deadlines : t[1] \notin {i}} = deadlines
    BY <1>1, <1>3, SMTT(30)
  <2> QED BY <1>1, <1>3, <2>1, Zenon DEF Untracks, InFlight, mapVars
<1>4. ASSUME i \notin InFlight, UNCHANGED aborted PROVE aborted' = aborted \cup Tasks({i})
  BY <1>4, Zenon DEF Tasks
<1>5. ASSUME i \in InFlight, aborted' = aborted \cup {request_data[i]}
      PROVE aborted' = aborted \cup Tasks({i})
  BY <1>5, Zenon DEF Tasks
<1> QED BY <1>2, <1>3, <1>4, <1>5, Zenon DEF remove_request, cancel_request

\* poll_expired takes out the entry its timer was set for.
LEMMA Expirations ==
  ASSUME TypeOK, NoOrphan, NEW t \in deadlines, expire(t)
  PROVE /\ t[1] \in InFlight /\ t[2] = request_data[t[1]]
        /\ Untracks({t[1]}) /\ aborted' = aborted \cup Tasks({t[1]})
<1>1. /\ request_data \in [InFlight -> Callers]
      /\ deadlines = {<<j, request_data[j]>> : j \in InFlight}
  BY Zenon DEF TypeOK, NoOrphan
<1>2. PICK i \in InFlight : t = <<i, request_data[i]>>
  BY <1>1, Zenon
<1>3. deadlines \ {t} = {u \in deadlines : u[1] \notin {i}}
  BY <1>1, <1>2, SMTT(30)
<1>4. Untracks({i})
  BY <1>1, <1>2, <1>3, Zenon DEF expire, Untracks, InFlight
<1>5. aborted' = aborted \cup Tasks({i})
  BY <1>2, Zenon DEF expire, Tasks
<1> QED BY <1>2, <1>4, <1>5, Zenon

\* start_request.
LEMMA Starts ==
  ASSUME TypeOK, NEW i \in Ids, NEW c \in Callers, Start(i, c), i \notin InFlight
  PROVE /\ InFlight' = InFlight \cup {i} /\ request_data'[i] = c
        /\ request_data' \in [InFlight' -> Callers]
        /\ \A j \in InFlight : request_data'[j] = request_data[j]
        /\ deadlines' = deadlines \cup {<<i, c>>}
<1>1. request_data \in [InFlight -> Callers]
  BY Zenon DEF TypeOK
<1> QED BY <1>1, Zenon DEF Start, InFlight

\* The map keeps its type.
LEMMA MapType ==
  ASSUME TypeOK
  PROVE /\ \A ids : Untracks(ids) =>
             /\ InFlight' \subseteq Ids /\ request_data' \in [InFlight' -> Callers]
             /\ deadlines' \subseteq Ids \X Callers
             /\ Tasks(ids) \subseteq Callers
<1>1. InFlight \subseteq Ids /\ deadlines \subseteq Ids \X Callers
      /\ request_data \in [InFlight -> Callers]
  BY Zenon DEF TypeOK
<1> QED BY <1>1, Zenon DEF Untracks, Tasks

-----------------------------------------------------------------------------
(* The types, of the steps of the channel task                             *)


\* The polls of Requests::poll_next.
LEMMA ChannelType ==
  ASSUME TypeOK, Inv, ChannelTask
  PROVE TypeOK'
<1> USE DEF taskVars, queueVars, mapVars, runVars, wakeVars, sinkVars, netVars
<1> DEFINE Maps == /\ InFlight' \subseteq Ids /\ request_data' \in [InFlight' -> Callers]
                   /\ deadlines' \subseteq Ids \X Callers
           Wakes == registered' \subseteq Sources /\ woken' \in BOOLEAN
           Sinks == sink' \in Seq(Replies) /\ wire' \in Seq(Replies)
<1>a. /\ \A x \in Sources : Register(x) => Wakes
      /\ Flush => Sinks
      /\ (UNCHANGED wakeVars => Wakes) /\ (UNCHANGED sinkVars => Sinks)
      /\ (UNCHANGED mapVars => Maps)
  BY WakeType, FlushType, Zenon DEF TypeOK, InFlight
<1> HIDE DEF Maps, Wakes, Sinks
<1>1. CASE Poll
  <2>1. /\ woken' \in BOOLEAN /\ pc' = "limit"
        /\ UNCHANGED <<taskVars, queueVars, mapVars, polled, throttling, yielded,
                       cause, registered, sinkVars, netVars>>
    BY <1>1, Zenon DEF Poll
  <2> QED BY <2>1, SMTT(30) DEF TypeOK, Points, InFlight
<1>2. CASE CheckLimit
  <2>1. Wakes /\ Sinks
    BY <1>2, <1>a, Zenon DEF CheckLimit, Sources
  <2> QED BY <1>2, <2>1, SMTT(30) DEF TypeOK, CheckLimit, Points, InFlight, OverLimit, Wakes, Sinks
<1>3. CASE CheckLimitError \/ ReadError \/ WriteError
  <2>1. Fail(InFlight) /\ UNCHANGED <<sinkVars, netVars>>
    BY <1>3, Zenon DEF CheckLimitError, ReadError, WriteError
  <2> DEFINE tasks == [c \in Callers |-> IF c = yielded THEN "dropped" ELSE handler[c]]
  <2>2. tasks \in [Callers -> {"none"} \cup Live \cup Ended]
    BY Zenon DEF TypeOK, Ended
  <2>3. inbound' \in Seq(Messages)
    BY <2>1, Zenon DEF TypeOK
  <2> QED BY <2>1, <2>2, <2>3, DropType, Zenon DEF Fail
<1>4. CASE PollCanceled
  <2>1. CASE canceled_requests # << >>
    <3>1. Maps
      BY <1>4, <2>1, Removals, MapType, Zenon DEF PollCanceled, Maps, Inv
    <3>2. canceled_requests' \in Seq(Ids)
      <4>1. canceled_requests' = Tail(canceled_requests)
            /\ canceled_requests \in Seq(Ids)
        BY <1>4, <2>1, Zenon DEF TypeOK, PollCanceled
      <4> QED BY <2>1, <4>1, TailQueue, Zenon
    <3> QED BY <1>4, <2>1, <3>1, <3>2, ZenonT(40) DEF TypeOK, PollCanceled, Points, Maps
  <2>2. CASE canceled_requests = << >>
    <3>1. Wakes /\ Maps
      BY <1>4, <2>2, <1>a, Zenon DEF PollCanceled, Sources
    <3> QED BY <1>4, <2>2, <3>1, Zenon DEF TypeOK, PollCanceled, Points, Maps, Wakes
  <2> QED BY <2>1, <2>2, Zenon
<1>5. CASE PollExpired
  <2>1. ASSUME NEW t \in deadlines, expire(t) PROVE Maps /\ aborted' \subseteq Callers
    BY <2>1, Expirations, MapType, Zenon DEF TypeOK, Maps, Inv
  <2>2. Maps /\ aborted' \subseteq Callers
    BY <1>5, <1>a, <2>1, Zenon DEF PollExpired, TypeOK
  <2>3. Wakes
    BY <1>5, <1>a, Zenon DEF PollExpired, Sources
  <2> QED BY <1>5, <2>2, <2>3, ZenonT(40) DEF TypeOK, PollExpired, Points, Maps, Wakes
<1>6. CASE ReadDuplicate
  <2>1. inbound' \in Seq(Messages)
    BY <1>6, ReadType, Zenon DEF ReadDuplicate, Reads
  <2> QED BY <1>6, <2>1, SMTT(30) DEF TypeOK, ReadDuplicate, Points, InFlight
<1>7. CASE ReadRequest
  <2>1. inbound' \in Seq(Messages)
    BY <1>7, ReadType, Zenon DEF ReadRequest, Reads
  <2>2. Head(inbound).call \in Callers /\ Head(inbound).id \in Ids
    BY <1>7, RequestRead, Zenon DEF ReadRequest, Inv
  <2>3. Maps
    BY <1>7, <2>2, Starts, SMTT(30) DEF TypeOK, ReadRequest, Maps
  <2> QED BY <1>7, <2>1, <2>2, <2>3, Zenon DEF TypeOK, ReadRequest, Points, Maps
<1>8. CASE ReadThrottled
  <2>1. inbound' \in Seq(Messages)
    BY <1>8, ReadType, Zenon DEF ReadThrottled, Reads
  <2>2. PICK c \in Callers, i \in Ids : c = Head(inbound).call /\ i = Head(inbound).id
    BY <1>8, RequestRead, Zenon DEF ReadThrottled, Inv
  <2>3. /\ [handler EXCEPT ![c] = "throttled"] \in [Callers -> {"none"} \cup Live \cup Ended]
        /\ [handler EXCEPT ![c] = "dropped"] \in [Callers -> {"none"} \cup Live \cup Ended]
    BY Zenon DEF TypeOK, Ended
  <2>4. CASE Drop("error", InFlight, [handler EXCEPT ![c] = "dropped"])
             /\ UNCHANGED sinkVars
    BY <1>8, <2>1, <2>3, <2>4, DropType, Zenon DEF ReadThrottled
  <2>5. CASE /\ transport_send([id |-> i, reply |-> c])
             /\ Move(c, "throttled") /\ pc' = "limit"
             /\ UNCHANGED <<request_id, aborted, queueVars, mapVars, polled,
                            throttling, yielded, cause, wakeVars>>
    <3>1. Sinks
      BY <2>5, SendType, Zenon DEF Sinks
    <3> QED BY <1>8, <2>1, <2>3, <2>5, <3>1, SMTT(30) DEF TypeOK, ReadThrottled, Move, Points,
                                            InFlight, Sinks
  <2> QED BY <1>8, <2>2, <2>4, <2>5, Zenon DEF ReadThrottled
<1>9. CASE ReadCancel
  <2>1. inbound' \in Seq(Messages)
    BY <1>9, ReadType, Zenon DEF ReadCancel, Reads
  <2>2. Maps /\ aborted' \subseteq Callers
    BY <1>9, Removals, MapType, Zenon DEF TypeOK, ReadCancel, Maps, Inv
  <2> QED BY <1>9, <2>1, <2>2, SMTT(30) DEF TypeOK, ReadCancel, Points, Maps
<1>10. CASE ReadNothing
  <2>1. Wakes
    BY <1>10, <1>a, Zenon DEF ReadNothing, Sources
  <2> QED BY <1>10, <2>1, SMTT(30) DEF TypeOK, ReadNothing, Combined, Points, InFlight, Wakes
<1>11. CASE EnsureWriteable
  <2>1. Wakes /\ Sinks
    BY <1>11, <1>a, Zenon DEF EnsureWriteable, Sources
  <2> QED BY <1>11, <2>1, SMTT(30) DEF TypeOK, EnsureWriteable, Points, InFlight, Wakes, Sinks
<1>12. CASE WriteResponse
  <2>1. /\ Head(pending_responses) \in Replies
        /\ Tail(pending_responses) \in Seq(Replies)
    BY <1>12, TailQueue, Zenon DEF TypeOK, WriteResponse
  <2>2. CASE Fail(InFlight \ {Head(pending_responses).id}) /\ UNCHANGED sinkVars
    <3> DEFINE tasks == [c \in Callers |-> IF c = yielded THEN "dropped" ELSE handler[c]]
    <3>1. tasks \in [Callers -> {"none"} \cup Live \cup Ended]
      BY Zenon DEF TypeOK, Ended
    <3>2. inbound' \in Seq(Messages) /\ UNCHANGED netVars
      BY <1>12, Zenon DEF WriteResponse, TypeOK
    <3> QED BY <2>2, <3>1, <3>2, DropType, Zenon DEF Fail
  <2>3. CASE /\ remove_request(Head(pending_responses).id)
             /\ IF sends(Head(pending_responses).id)
                THEN transport_send(Head(pending_responses)) ELSE UNCHANGED sinkVars
             /\ pending_responses' = Tail(pending_responses)
             /\ polled' = [polled EXCEPT !.write = "some"]
             /\ pc' = "decide"
             /\ UNCHANGED <<taskVars, canceled_requests, throttling, yielded, cause,
                            wakeVars>>
    <3>1. Maps
      BY <2>3, Removals, MapType, Zenon DEF Maps, Inv
    <3>2. Sinks
      <4>1. sink \in Seq(Replies) /\ wire \in Seq(Replies)
        BY Zenon DEF TypeOK
      <4>2. CASE transport_send(Head(pending_responses))
        BY <2>1, <4>1, <4>2, AppendQueue, Zenon DEF transport_send, Sinks
      <4> QED BY <1>a, <2>3, <4>2, Zenon
    <3> QED BY <1>12, <2>1, <2>3, <3>1, <3>2, ZenonT(40)
               DEF TypeOK, WriteResponse, Points, Maps,
                                               Sinks
  <2> QED BY <1>12, <2>2, <2>3, Zenon DEF WriteResponse
<1>13. CASE NoResponse
  <2>1. Wakes
    BY <1>13, <1>a, Zenon DEF NoResponse, Sources
  <2> QED BY <1>13, <2>1, SMTT(30) DEF TypeOK, NoResponse, Points, InFlight, Wakes
<1>14. CASE FlushResponses
  <2>1. Wakes /\ Sinks
    BY <1>14, <1>a, Zenon DEF FlushResponses, Sources
  <2> QED BY <1>14, <2>1, SMTT(30) DEF TypeOK, FlushResponses, Points, InFlight, Wakes, Sinks
<1>15. CASE EndStream
  <2>1. inbound' \in Seq(Messages)
    BY <1>15, Zenon DEF TypeOK, EndStream
  <2> QED BY <1>15, <2>1, DropType, Zenon DEF TypeOK, EndStream
<1>16. CASE Yield
  BY <1>16, Zenon DEF TypeOK, Yield, Move, Unpolled, Points, InFlight, Live, Inv, Phases
<1>17. CASE LoopOrPark
  BY <1>17, ZenonT(40) DEF TypeOK, LoopOrPark, Unpolled, Points, InFlight
<1> QED BY <1>1, <1>2, <1>3, <1>4, <1>5, <1>6, <1>7, <1>8, <1>9, <1>10, <1>11, <1>12,
           <1>13, <1>14, <1>15, <1>16, <1>17, Zenon DEF ChannelTask

\* The application, the clock, the network and the peer.
LEMMA EnvironmentType ==
  ASSUME TypeOK,
         \/ \E c \in Callers : SendRequest(c) \/ SendCancel(c) \/ Late(c)
         \/ Stop \/ Stall \/ Unstall \/ Eof \/ Break \/ UNCHANGED vars
  PROVE TypeOK'
<1> USE DEF taskVars, queueVars, mapVars, runVars, wakeVars, sinkVars, netVars
<1> DEFINE Wakes == registered' \subseteq Sources /\ woken' \in BOOLEAN
<1>a. \A src \in SUBSET Sources : Notify(src) => Wakes
  BY WakeType, Zenon
<1>b. UNCHANGED wakeVars => Wakes
  BY Zenon DEF TypeOK
<1> HIDE DEF Wakes
<1>1. ASSUME NEW c \in Callers, SendRequest(c) PROVE TypeOK'
  <2>1. PICK i \in Ids :
          /\ request_id' = [request_id EXCEPT ![c] = i]
          /\ inbound' = Append(inbound, [type |-> "Request", id |-> i, call |-> c])
    BY <1>1, Zenon DEF SendRequest
  <2>2. PICK m \in Messages : m = [type |-> "Request", id |-> i, call |-> c]
    BY NamesAssumption, Zenon DEF Messages
  <2>3. inbound \in Seq(Messages)
    BY Zenon DEF TypeOK
  <2>4. inbound' \in Seq(Messages)
    BY <2>1, <2>2, <2>3, AppendQueue, Zenon
  <2>5. Wakes
    BY <1>1, <1>a, Zenon DEF SendRequest, Sources
  <2> QED BY <1>1, <2>1, <2>4, <2>5, SMTT(30) DEF TypeOK, SendRequest, InFlight, Wakes
<1>2. ASSUME NEW c \in Callers, SendCancel(c) PROVE TypeOK'
  <2>1. request_id[c] \in Ids
    BY <1>2, Zenon DEF TypeOK, SendCancel
  <2>2. PICK m \in Messages : m = [type |-> "Cancel", id |-> request_id[c]]
    BY <2>1, NamesAssumption, Zenon DEF Messages
  <2>3. inbound \in Seq(Messages) /\ inbound' = Append(inbound, m)
    BY <1>2, <2>2, Zenon DEF TypeOK, SendCancel
  <2>4. inbound' \in Seq(Messages)
    BY <2>3, AppendQueue, Zenon
  <2>5. Wakes
    BY <1>2, <1>a, Zenon DEF SendCancel, Sources
  <2> QED BY <1>2, <2>4, <2>5, SMTT(30) DEF TypeOK, SendCancel, InFlight, Wakes
<1>3. ASSUME NEW c \in Callers, Late(c) PROVE TypeOK'
  <2>1. Wakes
    BY <1>3, <1>a, <1>b, Zenon DEF Late, Sources
  <2> QED BY <1>3, <2>1, SMTT(30) DEF TypeOK, Late, InFlight, Wakes
<1>4. CASE Stop
  <2>1. inbound' \in Seq(Messages)
    BY <1>4, Zenon DEF TypeOK, Stop
  <2> QED BY <1>4, <2>1, DropType, Zenon DEF TypeOK, Stop
<1>5. CASE Stall
  <2>1. stalled' \in BOOLEAN /\ stalls' \in Nat
    BY <1>5, SMTT(30) DEF TypeOK, Stall
  <2>2. UNCHANGED <<taskVars, queueVars, mapVars, runVars, wakeVars, sinkVars,
                    inbound, net, late, revoked>>
    BY <1>5, Zenon DEF Stall
  <2> QED BY <2>1, <2>2, SMTT(30) DEF TypeOK, InFlight
<1>6. CASE Unstall
  <2>1. Wakes /\ stalled' \in BOOLEAN
    BY <1>6, <1>a, Zenon DEF Unstall, Sources
  <2>2. UNCHANGED <<taskVars, queueVars, mapVars, runVars, sinkVars, inbound, net,
                    stalls, late, revoked>>
    BY <1>6, Zenon DEF Unstall
  <2> QED BY <2>1, <2>2, SMTT(30) DEF TypeOK, InFlight, Wakes
<1>7. CASE Eof \/ Break
  <2>1. Wakes
    BY <1>7, <1>a, Zenon DEF Eof, Break, Disconnect, Sources
  <2> QED BY <1>7, <2>1, Zenon DEF TypeOK, Eof, Break, Disconnect, InFlight, Wakes
<1>8. CASE UNCHANGED vars
  BY <1>8, SMTT(30) DEF TypeOK, vars, InFlight
<1> QED BY <1>1, <1>2, <1>3, <1>4, <1>5, <1>6, <1>7, <1>8, Zenon

\* A new channel has its types.
LEMMA InitType == Init => TypeOK
<1> SUFFICES ASSUME Init PROVE TypeOK
  BY Zenon
<1>1. InFlight = {} /\ request_data \in [InFlight -> Callers]
  BY SMTT(30) DEF Init, InFlight
<1> QED BY <1>1, EmptyQueue, Zenon DEF Init, TypeOK, Unpolled, Points, NoId

\* Any step keeps the types, given the invariant.
LEMMA TypeStep ==
  ASSUME TypeOK, Inv, [Next]_vars
  PROVE TypeOK'
<1>1. ASSUME NEW c \in Callers, Handler(c) PROVE TypeOK'
  BY <1>1, HandlerType, Zenon DEF Inv
<1> QED BY <1>1, ChannelType, EnvironmentType, Zenon DEF Next, Terminated

-----------------------------------------------------------------------------
(* The parts of the invariant                                              *)

\* NoOrphan in terms of the elements of the queues.
Owned(i, c) ==
  \/ c = yielded \/ handler[c] \in Live
  \/ Response(c) \in Range(pending_responses)
  \/ i \in Range(canceled_requests)
Owners == \A i \in InFlight : Owned(i, request_data[i])
Timers == deadlines = {<<i, request_data[i]>> : i \in InFlight}

\* The invariant speaks of the elements of the queues, which is what pushes and
\* pops are known to change.
LEMMA NoOrphanElements == TypeOK => (NoOrphan <=> Owners /\ Timers)
<1> SUFFICES ASSUME TypeOK PROVE NoOrphan <=> Owners /\ Timers
  BY Zenon
<1>1. \A x : x \in Range(pending_responses) <=> Contains(pending_responses, x)
  BY Elements, Zenon DEF TypeOK
<1>2. \A x : x \in Range(canceled_requests) <=> Contains(canceled_requests, x)
  BY Elements, Zenon DEF TypeOK
<1> QED BY <1>1, <1>2, Zenon DEF NoOrphan, Owned, Owners, Timers

\* The same of the next state.
LEMMA NoOrphanNext == TypeOK' => (NoOrphan' <=> Owners' /\ Timers')
BY NoOrphanElements, PTL

\* What was sent does not change by a flush, and grows by a send.
LEMMA SentFlush ==
  ASSUME TypeOK
  PROVE /\ Sent \in Seq(Replies) /\ Range(Sent) \subseteq Replies
        /\ UNCHANGED sinkVars => Sent' = Sent
        /\ Flush => Sent' = Sent
        /\ \A m \in Replies : transport_send(m) => Sent' = Append(Sent, m)
<1>1. sink \in Seq(Replies) /\ wire \in Seq(Replies) /\ << >> \in Seq(Replies)
  BY EmptyQueue, Zenon DEF TypeOK
<1>2. wire \o sink \in Seq(Replies)
  BY <1>1, SMTT(30)
<1>3. (wire \o sink) \o << >> = wire \o sink
  BY <1>2, SMTT(30)
<1>4. \A m \in Replies : wire \o Append(sink, m) = Append(wire \o sink, m)
  BY <1>1, ConcatQueue, SMTT(30)
<1> QED BY <1>2, <1>3, <1>4, Elements, Zenon DEF Sent, Flush, transport_send, sinkVars

\* What is queued was said by a caller, or to one.
LEMMA Named ==
  ASSUME TypeOK
  PROVE /\ \A r \in Range(pending_responses) : r.reply \in Callers
        /\ \A r \in Range(Sent) : r.reply \in Callers
        /\ \A m \in Range(inbound) : m.type = "Request" => m.call \in Callers
<1>1. pending_responses \in Seq(Replies) /\ inbound \in Seq(Messages)
  BY Zenon DEF TypeOK
<1>2. /\ Range(pending_responses) \subseteq Replies /\ Range(Sent) \subseteq Replies
      /\ Range(inbound) \subseteq Messages
  BY <1>1, Elements, SentFlush, Zenon
<1> QED BY <1>2, Zenon DEF Replies, Messages

\* A message is read: the requests behind it are still to be read, once.
LEMMA ReadOnce ==
  ASSUME TypeOK, Once, inbound # << >>, inbound' = Tail(inbound)
  PROVE /\ Once' /\ Range(inbound') \subseteq Range(inbound)
        /\ \A c : Unread(c)' => Unread(c)
        /\ Head(inbound).type = "Request" =>
             \A c : c = Head(inbound).call => ~Unread(c)'
<1>1. inbound \in Seq(Messages)
  BY Zenon DEF TypeOK
<1>2. /\ inbound' \in Seq(Messages) /\ Head(inbound) = inbound[1]
      /\ Range(inbound') \subseteq Range(inbound)
      /\ Len(inbound) \in Nat \ {0} /\ Len(inbound') = Len(inbound) - 1
      /\ \A k \in 1..Len(inbound') : inbound'[k] = inbound[k + 1]
  BY <1>1, TailQueue, Zenon
<1>3. \A k \in 1..Len(inbound') : k + 1 \in 1..Len(inbound) /\ k + 1 # 1
  BY <1>2, SMTT(30)
<1>4. Once'
  <2> SUFFICES ASSUME NEW j \in 1..Len(inbound'), NEW k \in 1..Len(inbound'),
                      inbound'[j].type = "Request", inbound'[k].type = "Request",
                      inbound'[j].call = inbound'[k].call
               PROVE j + 1 = k + 1
    BY <1>2, SMTT(30) DEF Once
  <2> QED BY <1>2, <1>3, ZenonT(40) DEF Once
<1>5. ASSUME NEW c, Head(inbound).type = "Request", c = Head(inbound).call, Unread(c)'
      PROVE FALSE
  <2>1. PICK m \in Range(inbound') : m.type = "Request" /\ m.call = c
    BY <1>5, Zenon DEF Unread
  <2>2. PICK k \in 1..Len(inbound') : inbound'[k] = m
    <3>1. PICK s \in Seq(Messages) : s = inbound'
      BY <1>2, Zenon
    <3>2. Contains(s, m)
      BY <2>1, <3>1, Elements, Zenon
    <3> QED BY <3>1, <3>2, Zenon DEF Contains
  <2>3. inbound[k + 1] = m /\ k + 1 \in 1..Len(inbound) /\ 1 \in 1..Len(inbound)
    BY <1>2, <1>3, <2>2, SMTT(30)
  <2>4. k + 1 = 1
    BY <1>2, <1>5, <2>1, <2>3, Zenon DEF Once
  <2> QED BY <1>3, <2>4, Zenon
<1> QED BY <1>2, <1>4, <1>5, Zenon DEF Unread

-----------------------------------------------------------------------------
(* Steps of the channel task that leave the requests alone                 *)

\* Nothing changes for the requests and their handlers.
LEMMA QuietInv ==
  ASSUME TypeOK, Inv, TypeOK',
         UNCHANGED <<taskVars, queueVars, mapVars, yielded, inbound>>, Sent' = Sent,
         Phases'
  PROVE Inv'
<1> USE DEF taskVars, queueVars, mapVars
<1>1. UNCHANGED InFlight /\ \A c : Unread(c)' = Unread(c) /\ Tracked(c)' = Tracked(c)
  BY Zenon DEF InFlight, Unread, Tracked
<1>2. \A c : Response(c)' = Response(c)
  BY Zenon DEF Response
<1>3. Labels'
  BY <1>1, <1>2, Zenon DEF Inv, Labels
<1>4. Positions'
  BY <1>1, Zenon DEF Inv, Positions, Once
<1>5. NoOrphan'
  BY <1>1, <1>2, Zenon DEF Inv, NoOrphan
<1> QED BY <1>3, <1>4, <1>5, Zenon DEF Inv

\* Polls of the channel task that find nothing, flush, or only decide.
LEMMA QuietChannelInv ==
  ASSUME TypeOK, Inv, TypeOK',
         Poll \/ CheckLimit \/ EnsureWriteable \/ NoResponse \/ FlushResponses
           \/ LoopOrPark \/ ReadNothing
  PROVE Inv'
<1> USE DEF taskVars, queueVars, mapVars, wakeVars, sinkVars, netVars
<1>1. CASE Poll
  <2>1. /\ pc = "parked" /\ pc' = "limit"
        /\ UNCHANGED <<taskVars, queueVars, mapVars, polled, throttling, yielded,
                       cause, sinkVars, netVars>>
    BY <1>1, Zenon DEF Poll
  <2>2. Phases' /\ Sent' = Sent
    BY <2>1, SentFlush, Zenon DEF Inv, Phases, InFlight
  <2> QED BY <2>1, <2>2, QuietInv, Zenon
<1>2. CASE CheckLimit
  <2>1. /\ pc = "limit"
        /\ UNCHANGED <<taskVars, queueVars, mapVars, polled, yielded, cause, netVars>>
    BY <1>2, Zenon DEF CheckLimit
  <2>2. /\ pc' \in {"ready", "cancels"} /\ Sent' = Sent
        /\ Flush \/ UNCHANGED sinkVars
    BY <1>2, SentFlush, Zenon DEF CheckLimit
  <2>3. Phases'
    BY <2>1, <2>2, Zenon DEF Inv, Phases, InFlight, Flush
  <2> QED BY <2>1, <2>2, <2>3, QuietInv, Zenon
<1>3. CASE EnsureWriteable
  <2>1. /\ pc = "ready" /\ pc' \in {"flush", "pop"}
        /\ Flush \/ UNCHANGED sinkVars
        /\ UNCHANGED <<taskVars, queueVars, mapVars, polled, throttling, yielded,
                       cause, netVars>>
    BY <1>3, Zenon DEF EnsureWriteable
  <2>2. Sent' = Sent
    BY <2>1, SentFlush, Zenon
  <2>3. Phases'
    BY <2>1, Zenon DEF Inv, Phases, InFlight, Flush
  <2> QED BY <2>1, <2>2, <2>3, QuietInv, Zenon
<1>4. CASE NoResponse
  <2>1. /\ pc = "pop" /\ pc' = "flush"
        /\ UNCHANGED <<taskVars, queueVars, mapVars, polled, throttling, yielded,
                       cause, sinkVars, netVars>>
    BY <1>4, Zenon DEF NoResponse
  <2>2. Phases' /\ Sent' = Sent
    BY <2>1, SentFlush, Zenon DEF Inv, Phases, InFlight
  <2> QED BY <2>1, <2>2, QuietInv, Zenon
<1>5. CASE FlushResponses
  <2>1. /\ pc = "flush" /\ pc' = "decide"
        /\ UNCHANGED <<taskVars, queueVars, mapVars, throttling, yielded, cause,
                       netVars>>
    BY <1>5, Zenon DEF FlushResponses
  <2>2. CASE Flush /\ polled' = [polled EXCEPT !.write =
                          IF polled.read = "none" /\ InFlight = {}
                          THEN "none" ELSE "pending"]
    <3>1. polled'.read = polled.read /\ (polled'.write = "none" => InFlight = {})
      BY <2>2, SMTT(30) DEF TypeOK
    <3>2. sink' = << >> /\ Sent' = Sent
      BY <2>2, SentFlush, Zenon DEF Flush
    <3>3. Phases'
      BY <2>1, <3>1, <3>2, Zenon DEF Inv, Phases, InFlight
    <3> QED BY <2>1, <3>2, <3>3, QuietInv, Zenon
  <2>3. CASE UNCHANGED <<sinkVars, polled>>
    <3>1. Phases' /\ Sent' = Sent
      BY <2>1, <2>3, SentFlush, Zenon DEF Inv, Phases, InFlight
    <3> QED BY <2>1, <3>1, QuietInv, Zenon
  <2> QED BY <1>5, <2>2, <2>3, Zenon DEF FlushResponses
<1>6. CASE LoopOrPark
  <2>1. /\ pc = "decide" /\ pc' \in {"limit", "parked"} /\ polled.read # "some"
        /\ polled'.read = "pending" /\ polled'.write = "pending"
        /\ UNCHANGED <<taskVars, queueVars, mapVars, throttling, yielded, cause,
                       sinkVars, netVars>>
    BY <1>6, Zenon DEF LoopOrPark, Unpolled
  <2>2. Phases' /\ Sent' = Sent
    BY <2>1, SentFlush, Zenon DEF Inv, Phases, InFlight
  <2> QED BY <2>1, <2>2, QuietInv, Zenon
<1>7. CASE ReadNothing
  <2>1. /\ pc = "read" /\ pc' \in {"cancels", "ready"}
        /\ polled'.read # "some" /\ polled'.write = polled.write
        /\ UNCHANGED <<taskVars, queueVars, mapVars, throttling, yielded, cause,
                       sinkVars, netVars>>
    BY <1>7, SMTT(30) DEF ReadNothing, Combined, Inv, Phases, TypeOK
  <2>2. Phases' /\ Sent' = Sent
    BY <2>1, SentFlush, Zenon DEF Inv, Phases, InFlight
  <2> QED BY <2>1, <2>2, QuietInv, Zenon
<1> QED BY <1>1, <1>2, <1>3, <1>4, <1>5, <1>6, <1>7, Zenon

-----------------------------------------------------------------------------
(* Steps of a handler                                                      *)

\* The guard of InFlightRequest::execute: a handler that comes to its end
\* leaves its response or its cancellation behind, or was aborted.
LEMMA MoveInv ==
  ASSUME TypeOK, Inv, TypeOK',
         NEW c \in Callers, handler[c] \in Live, NEW to \in Live \cup Ended,
         Move(c, to),
         UNCHANGED <<request_id, aborted, mapVars, runVars, sinkVars, inbound>>,
         Range(pending_responses') =
           Range(pending_responses) \cup (IF to = "responded" THEN {Response(c)} ELSE {}),
         Range(canceled_requests) \subseteq Range(canceled_requests'),
         pc = "ended" => UNCHANGED queueVars,
         \/ to \in Live \/ to = "responded" \/ c \in aborted \/ InFlight = {}
         \/ request_id[c] \in Range(canceled_requests')
  PROVE Inv'
<1> USE DEF mapVars, runVars, sinkVars
<1>1. /\ UNCHANGED InFlight /\ \A x : Unread(x)' = Unread(x) /\ Tracked(x)' = Tracked(x)
      /\ \A x : Response(x)' = Response(x)
      /\ Sent' = Sent
  BY Zenon DEF InFlight, Unread, Tracked, Response, Sent
<1>2. /\ handler'[c] = to /\ \A x \in Callers \ {c} : handler'[x] = handler[x]
      /\ handler[c] \notin {"none", "responded", "throttled"} /\ handler'[c] # "none"
  BY SMTT(30) DEF TypeOK, Move, Live, Ended
<1>3. Response(c).reply = c
  BY Zenon DEF Response
<1>4. /\ \A r \in Range(pending_responses) : r.reply \in Callers
      /\ \A r \in Range(Sent) : r.reply \in Callers
  BY Named, Zenon
<1>5. Labels'
  <2>1. \A r \in Range(pending_responses') :
          r = Response(r.reply) /\ handler'[r.reply] = "responded"
    BY <1>2, <1>3, <1>4, SMTT(30) DEF Inv, Labels
  <2>2. \A r \in Range(Sent) :
          r = Response(r.reply) /\ handler'[r.reply] \in {"responded", "throttled"}
    BY <1>2, <1>4, Zenon DEF Inv, Labels
  <2>3. \A x \in Callers : handler'[x] # "none" \/ x \in aborted \/ x = yielded
          => request_id[x] # NoId
    BY <1>2, SMTT(30) DEF Inv, Labels
  <2> QED BY <1>1, <2>1, <2>2, <2>3, Zenon DEF Inv, Labels
<1>6. Positions'
  BY <1>1, <1>2, Zenon DEF Inv, Positions, Once
<1>7. Phases'
  BY <1>1, Zenon DEF Inv, Phases, queueVars
<1>8. NoOrphan'
  <2> SUFFICES ASSUME NEW i \in InFlight
               PROVE Owned(i, request_data[i])'
    <3>1. Timers'
      BY <1>1, NoOrphanElements, Zenon DEF Inv, Timers
    <3> QED BY <1>1, <3>1, NoOrphanNext, Zenon DEF Owners
  <2>1. request_data[i] \in Callers /\ Owned(i, request_data[i])
        /\ i = request_id[request_data[i]]
    BY NoOrphanElements, Zenon DEF Inv, TypeOK, Labels, Owners
  <2>2. CASE request_data[i] = c
    <3>1. c \notin aborted /\ InFlight # {}
      BY <2>2, Zenon DEF Inv, Positions, Tracked
    <3> QED BY <1>1, <1>2, <2>1, <2>2, <3>1, Zenon DEF Owned
  <2>3. CASE request_data[i] # c
    BY <1>1, <1>2, <2>1, <2>3, Zenon DEF Owned
  <2> QED BY <2>2, <2>3, Zenon
<1> QED BY <1>5, <1>6, <1>7, <1>8, Zenon DEF Inv

\* Every step of a handler, from execute to the end of its response guard.
LEMMA HandlerInv ==
  ASSUME TypeOK, Inv, TypeOK', NEW c \in Callers, Handler(c)
  PROVE Inv'
<1> USE DEF queueVars, mapVars, runVars, wakeVars, sinkVars, netVars
<1>1. CASE Execute(c)
  BY <1>1, MoveInv, Zenon DEF Execute, Live, Ended
<1>2. CASE Serve(c)
  BY <1>2, MoveInv, Zenon DEF Serve, Live, Ended
<1>3. CASE Abort(c)
  BY <1>3, MoveInv, Zenon DEF Abort, Live, Ended
<1>4. CASE SendResponse(c)
  <2>1. handler[c] \in Live
        /\ UNCHANGED <<request_id, aborted, canceled_requests, mapVars, runVars,
                       sinkVars, netVars>>
    BY <1>4, Zenon DEF SendResponse, Live
  <2>2. CASE /\ pc # "ended" /\ Move(c, "responded")
             /\ pending_responses' = Append(pending_responses,
                                            [id |-> request_id[c], reply |-> c])
    <3>1. request_id[c] \in Ids
      BY <2>1, SMTT(30) DEF Inv, Labels, TypeOK, Live
    <3>2. PICK r \in Replies : r = [id |-> request_id[c], reply |-> c]
      BY <3>1, SendType, Zenon
    <3>3. pending_responses \in Seq(Replies)
          /\ pending_responses' = Append(pending_responses, r)
      BY <2>2, <3>2, Zenon DEF TypeOK
    <3>4. Range(pending_responses') = Range(pending_responses) \cup {Response(c)}
      BY <3>2, <3>3, AppendQueue, SMTT(30) DEF Response
    <3> QED BY <2>1, <2>2, <3>4, MoveInv, Zenon DEF Ended
  <2>3. CASE pc = "ended" /\ Move(c, "unsent") /\ UNCHANGED pending_responses
    <3>1. InFlight = {}
      BY <2>3, Zenon DEF Inv, Phases
    <3> QED BY <2>1, <2>3, <3>1, MoveInv, Zenon DEF Ended
  <2> QED BY <1>4, <2>2, <2>3, Zenon DEF SendResponse
<1>5. CASE DropHandler(c)
  <2>1. /\ handler[c] \in Live /\ Move(c, "dropped") /\ cancel(request_id[c])
        /\ UNCHANGED <<request_id, aborted, pending_responses, mapVars, runVars,
                       sinkVars, netVars>>
    BY <1>5, Zenon DEF DropHandler
  <2>2. CASE pc = "ended"
    <3>1. InFlight = {} /\ UNCHANGED canceled_requests
      BY <2>1, <2>2, Zenon DEF Inv, Phases, cancel
    <3> QED BY <2>1, <2>2, <3>1, MoveInv, Zenon DEF Ended
  <2>3. CASE pc # "ended"
    <3>1. request_id[c] \in Ids
      BY <2>1, Zenon DEF Inv, Labels, TypeOK, Live
    <3>2. canceled_requests' = Append(canceled_requests, request_id[c])
          /\ canceled_requests \in Seq(Ids)
      BY <2>1, <2>3, Zenon DEF cancel, TypeOK
    <3>3. Range(canceled_requests') = Range(canceled_requests) \cup {request_id[c]}
      BY <3>1, <3>2, AppendQueue, SMTT(30)
    <3> QED BY <2>1, <2>3, <3>3, MoveInv, Zenon DEF Ended
  <2> QED BY <2>2, <2>3, Zenon
<1> QED BY <1>1, <1>2, <1>3, <1>4, <1>5, Zenon DEF Handler

-----------------------------------------------------------------------------
(* Steps that take a request out of InFlightRequests                       *)

\* A request leaves the map and its response is sent, or its handler is
\* aborted or gone: the others keep what they had.
LEMMA UntrackInv ==
  ASSUME TypeOK, Inv, TypeOK', NEW i, Untracks({i}),
         UNCHANGED <<handler, request_id, yielded>>,
         aborted' = aborted \/ aborted' = aborted \cup Tasks({i}),
         Once', Range(inbound') \subseteq Range(inbound),
         Range(pending_responses') \subseteq Range(pending_responses),
         \A r \in Range(pending_responses) : r.id # i => r \in Range(pending_responses'),
         \A j \in Range(canceled_requests) : j # i => j \in Range(canceled_requests'),
         Range(Sent') \subseteq Range(Sent) \cup Range(pending_responses),
         Phases'
  PROVE Inv'
<1>1. /\ InFlight' = InFlight \ {i}
      /\ \A j \in InFlight' : request_data'[j] = request_data[j]
      /\ \A j \in InFlight : request_data[j] \in Callers
      /\ deadlines' = {t \in deadlines : t[1] # i}
  BY Zenon DEF Untracks, TypeOK
<1>2. /\ \A x : Unread(x)' => Unread(x)
      /\ \A x : Tracked(x)' => Tracked(x)
      /\ \A x : Response(x)' = Response(x)
  BY <1>1, Zenon DEF Unread, Tracked, Response
<1>3. \A x \in Callers : x \in aborted' => x \in aborted \/ (Tracked(x) /\ request_id[x] = i)
  BY <1>1, SMTT(30) DEF Tasks, Tracked, Inv, Labels
<1>4. Labels'
  <2>1. \A x \in Callers : Tracked(x) => request_id[x] # NoId
    BY NamesAssumption, SMTT(30) DEF Inv, Labels, Tracked, TypeOK, NoId
  <2>2. \A x \in Callers : handler[x] # "none" \/ x \in aborted' \/ x = yielded
          => request_id[x] # NoId
    BY <1>3, <2>1, Zenon DEF Inv, Labels
  <2>3. \A j \in InFlight' : request_id[request_data'[j]] = j
    BY <1>1, Zenon DEF Inv, Labels
  <2>4. \A r \in Range(pending_responses') :
          r = Response(r.reply) /\ handler[r.reply] = "responded"
    BY Zenon DEF Inv, Labels
  <2>5. \A r \in Range(Sent') :
          r = Response(r.reply) /\ handler[r.reply] \in {"responded", "throttled"}
    BY Zenon DEF Inv, Labels
  <2>6. \A m \in Range(inbound') : m.type = "Request" => request_id[m.call] = m.id
    BY Zenon DEF Inv, Labels
  <2> QED BY <1>2, <2>2, <2>3, <2>4, <2>5, <2>6, Zenon DEF Labels
<1>5. Positions'
  <2>1. \A x \in Callers : Unread(x)' =>
          handler[x] = "none" /\ x # yielded /\ ~Tracked(x)' /\ x \notin aborted'
    BY <1>2, <1>3, Zenon DEF Inv, Positions
  <2>2. ASSUME NEW x \in Callers, Tracked(x)' PROVE x \notin aborted'
    <3>1. request_id[x] # i
      BY <1>1, <2>2, SMTT(30) DEF Tracked, Inv, Labels
    <3> QED BY <1>2, <1>3, <2>2, <3>1, Zenon DEF Inv, Positions
  <2> QED BY <2>1, <2>2, Zenon DEF Inv, Positions
<1>6. NoOrphan'
  <2>1. Timers'
    <3>1. deadlines = {<<j, request_data[j]>> : j \in InFlight}
      BY Zenon DEF Inv, NoOrphan
    <3> QED BY <1>1, <3>1, SMTT(30) DEF Timers
  <2>2. ASSUME NEW j \in InFlight' PROVE Owned(j, request_data[j])'
    <3>1. PICK x \in Callers : /\ x = request_data[j] /\ x = request_data'[j]
                               /\ Owned(j, x) /\ request_id[x] = j /\ j # i
      BY <1>1, <2>2, NoOrphanElements, Zenon DEF Inv, Owners, Labels
    <3>2. Response(x).id = j
      BY <3>1, Zenon DEF Response
    <3>3. Owned(j, x)'
      BY <1>2, <3>1, <3>2, Zenon DEF Owned
    <3> QED BY <3>1, <3>3, Zenon DEF Owned, Response
  <2> QED BY <2>1, <2>2, NoOrphanNext, Zenon DEF Owners
<1> QED BY <1>4, <1>5, <1>6, Zenon DEF Inv

\* canceled_requests.poll_recv and poll_expired.
LEMMA PollMapInv ==
  ASSUME TypeOK, Inv, TypeOK', PollCanceled \/ PollExpired
  PROVE Inv'
<1> USE DEF taskVars, queueVars, mapVars, wakeVars, sinkVars, netVars
<1>1. /\ pc \in {"cancels", "expire"} /\ pc' \in {"expire", "read"}
      /\ polled'.read = polled.read /\ polled'.write = polled.write
      /\ UNCHANGED <<handler, request_id, pending_responses, throttling, yielded, cause,
                     sink, wire, inbound>>
  BY SMTT(30) DEF PollCanceled, PollExpired, TypeOK
<1>2. Sent' = Sent /\ Once'
  BY <1>1, Zenon DEF Sent, Once, Inv, Positions
<1>3. ASSUME InFlight' \subseteq InFlight PROVE Phases'
  BY <1>1, <1>3, Zenon DEF Inv, Phases
<1>4. CASE PollCanceled /\ canceled_requests # << >>
  <2>1. PICK i : i = Head(canceled_requests)
    BY Zenon
  <2>2. /\ canceled_requests' = Tail(canceled_requests) /\ canceled_requests \in Seq(Ids)
        /\ remove_request(i) /\ UNCHANGED aborted
    BY <1>4, <2>1, Zenon DEF PollCanceled, TypeOK
  <2>3. Range(canceled_requests) = Range(canceled_requests') \cup {i}
    BY <1>4, <2>1, <2>2, TailQueue, Zenon
  <2>4. Untracks({i})
    BY <2>2, Removals, Zenon DEF Inv
  <2>5. Phases'
    BY <1>3, <2>4, Zenon DEF Untracks
  <2> QED BY <1>1, <1>2, <2>2, <2>3, <2>4, <2>5, UntrackInv, Zenon
<1>5. CASE \E t \in deadlines : PollExpired /\ expire(t)
  <2>1. PICK t \in deadlines : PollExpired /\ expire(t)
    BY <1>5, Zenon
  <2>2. PICK i : i = t[1]
    BY Zenon
  <2>3. Untracks({i}) /\ aborted' = aborted \cup Tasks({i})
    BY <2>1, <2>2, Expirations, Zenon DEF Inv
  <2>4. Phases'
    BY <1>3, <2>3, Zenon DEF Untracks
  <2>5. UNCHANGED canceled_requests
    BY <2>1, Zenon DEF PollExpired
  <2> QED BY <1>1, <1>2, <2>3, <2>4, <2>5, UntrackInv, Zenon
<1>6. CASE UNCHANGED <<taskVars, queueVars, mapVars>>
  <2>1. InFlight' = InFlight
    BY <1>6, Zenon DEF InFlight
  <2>2. Phases'
    BY <1>3, <2>1, Zenon
  <2> QED BY <1>1, <1>2, <1>6, <2>2, QuietInv, Zenon
<1> QED BY <1>4, <1>5, <1>6, Zenon DEF PollCanceled, PollExpired

\* A cancellation from the client.
LEMMA ReadCancelInv ==
  ASSUME TypeOK, Inv, TypeOK', ReadCancel
  PROVE Inv'
<1> USE DEF taskVars, queueVars, mapVars, wakeVars, sinkVars, netVars
<1>1. PICK i : i = Head(inbound).id
  BY Zenon
<1>2. /\ pc = "read" /\ pc' = "cancels" /\ cancel_request(i)
      /\ inbound # << >> /\ inbound' = Tail(inbound)
      /\ UNCHANGED <<handler, request_id, pending_responses, canceled_requests, polled,
                     throttling, yielded, cause, sink, wire>>
  BY <1>1, Zenon DEF ReadCancel, Reads
<1>3. Untracks({i}) /\ aborted' = aborted \cup Tasks({i})
  BY <1>2, Removals, Zenon DEF Inv
<1>4. InFlight' \subseteq InFlight
  BY <1>3, Zenon DEF Untracks
<1>5. Phases'
  BY <1>2, <1>4, Zenon DEF Inv, Phases
<1>6. Once' /\ Range(inbound') \subseteq Range(inbound) /\ Sent' = Sent
  BY <1>2, ReadOnce, Zenon DEF Inv, Positions, Sent
<1> QED BY <1>2, <1>3, <1>5, <1>6, UntrackInv, Zenon

\* start_send: the response of a tracked request is sent and the request is
\* forgotten; any other response is discarded.
LEMMA WriteResponseInv ==
  ASSUME TypeOK, Inv, TypeOK', NEW response, response = Head(pending_responses),
         pc = "pop", pending_responses # << >>, UNCHANGED netVars,
         remove_request(response.id),
         IF sends(response.id) THEN transport_send(response) ELSE UNCHANGED sinkVars,
         pending_responses' = Tail(pending_responses),
         polled' = [polled EXCEPT !.write = "some"], pc' = "decide",
         UNCHANGED <<taskVars, canceled_requests, throttling, yielded, cause, wakeVars>>
  PROVE Inv'
<1> USE DEF taskVars, wakeVars, sinkVars, netVars
<1>1. pending_responses \in Seq(Replies) /\ sink \in Seq(Replies)
  BY Zenon DEF TypeOK
<1>2. /\ response \in Range(pending_responses) /\ response \in Replies
      /\ Range(pending_responses) = Range(pending_responses') \cup {response}
  BY <1>1, TailQueue, Zenon
<1>3. Untracks({response.id})
  BY Removals, Zenon DEF Inv
<1>4. InFlight' \subseteq InFlight
  BY <1>3, Zenon DEF Untracks
<1>5. Range(Sent') \subseteq Range(Sent) \cup Range(pending_responses)
  <2>1. Sent \in Seq(Replies) /\ (Sent' = Sent \/ Sent' = Append(Sent, response))
    BY <1>2, SentFlush, Zenon
  <2>2. PICK s \in Seq(Replies) : s = Sent
    BY <2>1, Zenon
  <2>3. Range(Append(s, response)) = Range(s) \cup {response}
    BY <1>2, AppendQueue, SMTT(30)
  <2> QED BY <1>2, <2>1, <2>2, <2>3, Zenon
<1>6. Phases'
  <2>1. polled'.read = polled.read /\ polled'.write = "some"
    BY Zenon DEF TypeOK
  <2> QED BY <2>1, Zenon DEF Inv, Phases
<1>7. Once' /\ Range(inbound') = Range(inbound)
  BY Zenon DEF Inv, Positions, Once
<1> QED BY <1>2, <1>3, <1>5, <1>6, <1>7, UntrackInv, Zenon

-----------------------------------------------------------------------------
(* The end of the stream                                                   *)

\* InFlightRequests::drop: nothing is tracked any more, and every handler
\* that was is aborted.
LEMMA DropInv ==
  ASSUME TypeOK, Inv, TypeOK', UNCHANGED sinkVars,
         NEW why \in {"closed", "error", "dropped"}, NEW ids \in SUBSET InFlight,
         NEW tasks \in [Callers -> {"none"} \cup Live \cup Ended],
         Drop(why, ids, tasks), Once', Range(inbound') \subseteq Range(inbound),
         \A c \in Callers : \/ tasks[c] = handler[c]
                            \/ /\ handler[c] = "none" /\ request_id[c] # NoId
                               /\ ~Unread(c)'
  PROVE Inv'
<1>1. /\ InFlight' = {} /\ deadlines' = {} /\ handler' = tasks /\ request_id' = request_id
      /\ pending_responses' = << >> /\ canceled_requests' = << >> /\ yielded' = "none"
      /\ aborted' = aborted \cup {request_data[i] : i \in ids}
      /\ pc' = "ended" /\ cause' = why
      /\ polled'.read = "pending" /\ polled'.write = "pending"
  BY SMTT(30) DEF Drop, InFlight, abort_all, Unpolled
<1>2. Sent' = Sent /\ \A c : Response(c)' = Response(c) /\ ~Tracked(c)'
  BY <1>1, Zenon DEF Sent, sinkVars, Response, Tracked
<1>3. \A c \in Callers : c \in aborted' => c \in aborted \/ (Tracked(c) /\ request_id[c] # NoId)
  BY <1>1, NamesAssumption, SMTT(30) DEF Tracked, Inv, Labels, TypeOK, NoId
<1>4. Labels'
  <2>1. \A c \in Callers : tasks[c] # "none" \/ c \in aborted' => request_id[c] # NoId
    BY <1>3, Zenon DEF Inv, Labels
  <2>2. \A r \in Range(Sent) :
          r = Response(r.reply) /\ tasks[r.reply] \in {"responded", "throttled"}
    BY Named, Zenon DEF Inv, Labels
  <2>3. \A m \in Range(inbound') : m.type = "Request" => request_id[m.call] = m.id
    BY Zenon DEF Inv, Labels
  <2> QED BY <1>1, <1>2, <2>1, <2>2, <2>3, EmptyQueue, NamesAssumption, Zenon DEF Labels
<1>5. Positions'
  <2>1. ASSUME NEW c \in Callers, Unread(c)' PROVE tasks[c] = "none" /\ c \notin aborted'
    <3>1. Unread(c)
      BY <2>1, Zenon DEF Unread
    <3> QED BY <1>3, <2>1, <3>1, Zenon DEF Inv, Positions
  <2> QED BY <1>1, <1>2, <2>1, NamesAssumption, Zenon DEF Positions
<1>6. Phases'
  BY <1>1, Zenon DEF Phases
<1>7. NoOrphan'
  BY <1>1, NoOrphanNext, Zenon DEF Owners, Timers
<1> QED BY <1>4, <1>5, <1>6, <1>7, Zenon DEF Inv

\* A failure of the transport, the end of the stream, and its drop.
LEMMA EndInv ==
  ASSUME TypeOK, Inv, TypeOK', UNCHANGED <<sinkVars, netVars>>,
         \/ \E ids \in SUBSET InFlight : Fail(ids)
         \/ \E why \in {"closed", "dropped"} : Drop(why, InFlight, handler)
  PROVE Inv'
<1>1. Once' /\ Range(inbound') = Range(inbound) /\ \A c : Unread(c)' = Unread(c)
  BY Zenon DEF Inv, Positions, Once, netVars, Unread
<1>2. ASSUME NEW ids \in SUBSET InFlight, Fail(ids) PROVE Inv'
  <2> DEFINE tasks == [c \in Callers |-> IF c = yielded THEN "dropped" ELSE handler[c]]
  <2>1. tasks \in [Callers -> {"none"} \cup Live \cup Ended]
    BY Zenon DEF TypeOK, Ended
  <2>2. \A c \in Callers : \/ tasks[c] = handler[c]
                           \/ /\ handler[c] = "none" /\ request_id[c] # NoId
                              /\ ~Unread(c)'
    BY <1>1, Zenon DEF Inv, Positions, Labels
  <2>3. Drop("error", ids, tasks)
    BY <1>2, Zenon DEF Fail
  <2> HIDE DEF tasks
  <2> QED BY <1>1, <2>1, <2>2, <2>3, DropInv, Zenon
<1>3. ASSUME NEW why \in {"closed", "dropped"}, Drop(why, InFlight, handler) PROVE Inv'
  <2>1. handler \in [Callers -> {"none"} \cup Live \cup Ended]
    BY Zenon DEF TypeOK
  <2> QED BY <1>1, <1>3, <2>1, DropInv, Zenon
<1> QED BY <1>2, <1>3, Zenon

-----------------------------------------------------------------------------
(* Steps that read a request, and the one that hands it on                 *)

\* The request at the head: it has an id, and nothing knows of its call yet.
LEMMA HeadRequest ==
  ASSUME TypeOK, Inv, Reads("Request"), inbound' = Tail(inbound)
  PROVE \E c \in Callers, i \in Ids :
          /\ c = Head(inbound).call /\ i = Head(inbound).id /\ request_id[c] = i /\ i # NoId
          /\ handler[c] = "none" /\ c # yielded /\ ~Tracked(c) /\ c \notin aborted
          /\ ~Unread(c)'
          /\ \A r \in Range(Sent) \cup Range(pending_responses) : r.reply # c
          /\ Once' /\ Range(inbound') \subseteq Range(inbound)
          /\ \A x : Unread(x)' => Unread(x)
<1>1. PICK c \in Callers, i \in Ids : c = Head(inbound).call /\ i = Head(inbound).id
  BY RequestRead, Zenon DEF Inv
<1>2. request_id[c] = i /\ Unread(c) /\ Head(inbound).type = "Request" /\ inbound # << >>
  BY <1>1, RequestRead, Zenon DEF Inv, Reads
<1>3. handler[c] = "none" /\ c # yielded /\ ~Tracked(c) /\ c \notin aborted
  BY <1>2, Zenon DEF Inv, Positions
<1>4. \A r \in Range(Sent) \cup Range(pending_responses) : r.reply # c
  BY <1>3, Zenon DEF Inv, Labels
<1>5. /\ Once' /\ Range(inbound') \subseteq Range(inbound) /\ ~Unread(c)'
      /\ \A x : Unread(x)' => Unread(x)
  BY <1>1, <1>2, ReadOnce, Zenon DEF Inv, Positions
<1>6. i # NoId
  BY NamesAssumption, SMTT(30) DEF NoId
<1> QED BY <1>1, <1>2, <1>3, <1>4, <1>5, <1>6, Zenon

\* A request whose id is in use is skipped.
LEMMA ReadDuplicateInv ==
  ASSUME TypeOK, Inv, TypeOK', ReadDuplicate
  PROVE Inv'
<1> USE DEF taskVars, queueVars, mapVars, wakeVars, sinkVars
<1>1. /\ pc = "read" /\ pc' = "cancels"
      /\ UNCHANGED <<handler, request_id, aborted, pending_responses, canceled_requests,
                     request_data, deadlines, polled, throttling, yielded, cause, sink, wire>>
  BY Zenon DEF ReadDuplicate, Reads
<1>2. Once' /\ Range(inbound') \subseteq Range(inbound) /\ \A x : Unread(x)' => Unread(x)
  BY HeadRequest, Zenon DEF ReadDuplicate
<1>3. /\ UNCHANGED InFlight /\ Sent' = Sent
      /\ \A c : Tracked(c)' = Tracked(c) /\ Response(c)' = Response(c)
  BY <1>1, Zenon DEF InFlight, Tracked, Response, Sent
<1>4. Labels'
  BY <1>1, <1>2, <1>3, Zenon DEF Inv, Labels
<1>5. Positions'
  BY <1>1, <1>2, <1>3, Zenon DEF Inv, Positions
<1>6. Phases'
  BY <1>1, <1>3, Zenon DEF Inv, Phases
<1>7. NoOrphan'
  BY <1>1, <1>3, Zenon DEF Inv, NoOrphan
<1> QED BY <1>4, <1>5, <1>6, <1>7, Zenon DEF Inv

\* start_request.
LEMMA ReadRequestInv ==
  ASSUME TypeOK, Inv, TypeOK', ReadRequest
  PROVE Inv'
<1> USE DEF taskVars, queueVars, wakeVars, sinkVars
<1>1. PICK c \in Callers, i \in Ids :
        /\ c = Head(inbound).call /\ i = Head(inbound).id /\ request_id[c] = i /\ i # NoId
        /\ handler[c] = "none" /\ c # yielded /\ ~Tracked(c) /\ c \notin aborted
        /\ ~Unread(c)'
        /\ \A r \in Range(Sent) \cup Range(pending_responses) : r.reply # c
        /\ Once' /\ Range(inbound') \subseteq Range(inbound)
        /\ \A x : Unread(x)' => Unread(x)
  BY HeadRequest, Zenon DEF ReadRequest
<1>2. /\ pc = "read" /\ pc' = "ready" /\ ~throttling /\ i \notin InFlight /\ Start(i, c)
      /\ yielded' = c /\ polled'.read = "some" /\ polled'.write = polled.write
      /\ UNCHANGED <<handler, request_id, aborted, pending_responses, canceled_requests,
                     throttling, cause, sink, wire>>
  BY <1>1, SMTT(30) DEF ReadRequest, Reads, TypeOK
<1>3. /\ InFlight' = InFlight \cup {i} /\ request_data'[i] = c
      /\ \A j \in InFlight : request_data'[j] = request_data[j]
      /\ deadlines' = deadlines \cup {<<i, c>>}
  BY <1>2, Starts, Zenon
<1>4. /\ \A x : Tracked(x)' <=> Tracked(x) \/ x = c
      /\ \A x : Response(x)' = Response(x)
      /\ Sent' = Sent
  BY <1>2, <1>3, Zenon DEF Tracked, Response, Sent
<1>5. yielded = "none" /\ c # "none"
  BY <1>2, NamesAssumption, Zenon DEF Inv, Phases
<1>6. Labels'
  <2>1. \A j \in InFlight' : request_id[request_data'[j]] = j
    BY <1>1, <1>3, Zenon DEF Inv, Labels
  <2> QED BY <1>1, <1>2, <1>4, <2>1, Zenon DEF Inv, Labels
<1>7. Positions'
  BY <1>1, <1>2, <1>4, Zenon DEF Inv, Positions
<1>8. Phases'
  BY <1>2, <1>5, Zenon DEF Inv, Phases
<1>9. NoOrphan'
  <2>1. Timers'
    <3>1. deadlines = {<<j, request_data[j]>> : j \in InFlight}
      BY Zenon DEF Inv, NoOrphan
    <3> QED BY <1>3, <3>1, Zenon DEF Timers
  <2>2. ASSUME NEW j \in InFlight' PROVE Owned(j, request_data[j])'
    <3>1. CASE j = i
      BY <1>2, <1>3, <3>1, Zenon DEF Owned
    <3>2. CASE j \in InFlight
      <4>1. Owned(j, request_data[j])
        BY <3>2, NoOrphanElements, Zenon DEF Inv, Owners
      <4>2. request_data[j] \in Callers /\ "none" \notin Callers
        BY <3>2, NamesAssumption, Zenon DEF TypeOK
      <4>3. request_data[j] # "none"
        BY <4>2, Zenon
      <4> QED BY <1>2, <1>3, <1>5, <3>2, <4>1, <4>3, Zenon DEF Owned, Response
    <3> QED BY <1>3, <2>2, <3>1, <3>2, Zenon
  <2> QED BY <2>1, <2>2, NoOrphanNext, Zenon DEF Owners
<1> QED BY <1>6, <1>7, <1>8, <1>9, Zenon DEF Inv

\* start_send adds one response to those that were sent.
LEMMA SentGrows ==
  ASSUME TypeOK, NEW m \in Replies, transport_send(m)
  PROVE /\ Range(Sent') = Range(Sent) \cup {m}
        /\ Sent \in Seq(Replies) /\ Sent' = Append(Sent, m)
        /\ Len(sink) \in Nat /\ Len(sink') = Len(sink) + 1
<1>1. Sent \in Seq(Replies) /\ Sent' = Append(Sent, m)
  BY SentFlush, Zenon
<1>2. PICK s \in Seq(Replies) : s = Sent
  BY <1>1, Zenon
<1>3. Range(Append(s, m)) = Range(s) \cup {m}
  BY AppendQueue, SMTT(30)
<1>4. sink \in Seq(Replies) /\ sink' = Append(sink, m)
  BY Zenon DEF TypeOK, transport_send
<1>5. Len(sink) \in Nat /\ Len(sink') = Len(sink) + 1
  BY <1>4, AppendQueue, Zenon
<1> QED BY <1>1, <1>2, <1>3, <1>5, Zenon

\* MaxRequests answers a request over the limit, or fails to.
LEMMA ReadThrottledInv ==
  ASSUME TypeOK, Inv, TypeOK', ReadThrottled
  PROVE Inv'
<1> USE DEF queueVars, mapVars, wakeVars
<1>1. PICK c \in Callers, i \in Ids :
        /\ c = Head(inbound).call /\ i = Head(inbound).id /\ request_id[c] = i /\ i # NoId
        /\ handler[c] = "none" /\ c # yielded /\ ~Tracked(c) /\ c \notin aborted
        /\ ~Unread(c)'
        /\ \A r \in Range(Sent) \cup Range(pending_responses) : r.reply # c
        /\ Once' /\ Range(inbound') \subseteq Range(inbound)
        /\ \A x : Unread(x)' => Unread(x)
  BY HeadRequest, Zenon DEF ReadThrottled
<1>2. CASE Drop("error", InFlight, [handler EXCEPT ![c] = "dropped"]) /\ UNCHANGED sinkVars
  <2> DEFINE tasks == [handler EXCEPT ![c] = "dropped"]
  <2>1. tasks \in [Callers -> {"none"} \cup Live \cup Ended]
    BY Zenon DEF TypeOK, Ended
  <2>2. \A x \in Callers : \/ tasks[x] = handler[x]
                           \/ /\ handler[x] = "none" /\ request_id[x] # NoId
                              /\ ~Unread(x)'
    BY <1>1, Zenon DEF TypeOK
  <2>3. Drop("error", InFlight, tasks) /\ UNCHANGED sinkVars
    BY <1>2, Zenon
  <2> HIDE DEF tasks
  <2> QED BY <1>1, <2>1, <2>2, <2>3, DropInv, Zenon
<1>3. CASE /\ transport_send([id |-> i, reply |-> c])
           /\ Move(c, "throttled") /\ pc' = "limit"
           /\ UNCHANGED <<request_id, aborted, queueVars, mapVars, polled,
                          throttling, yielded, cause, wakeVars>>
  <2>1. PICK m \in Replies : m = [id |-> i, reply |-> c]
    BY SendType, Zenon
  <2>2. /\ Range(Sent') = Range(Sent) \cup {m}
        /\ Len(sink) \in Nat /\ Len(sink') = Len(sink) + 1
    BY <1>3, <2>1, SentGrows, Zenon
  <2>3. /\ handler'[c] = "throttled" /\ \A x \in Callers \ {c} : handler'[x] = handler[x]
        /\ UNCHANGED InFlight
        /\ \A x : Tracked(x)' = Tracked(x) /\ Response(x)' = Response(x)
        /\ m = Response(c) /\ m.reply = c
    BY <1>1, <1>3, <2>1, Zenon DEF TypeOK, Move, InFlight, Tracked, Response
  <2>4. pc = "read" /\ throttling
    BY Zenon DEF ReadThrottled, Reads
  <2>5. Labels'
    <3>1. \A r \in Range(Sent') :
            r = Response(r.reply) /\ handler'[r.reply] \in {"responded", "throttled"}
      BY <1>1, <2>2, <2>3, Named, Zenon DEF Inv, Labels
    <3>2. \A r \in Range(pending_responses) :
            r = Response(r.reply) /\ handler'[r.reply] = "responded"
      BY <1>1, <2>3, Named, Zenon DEF Inv, Labels
    <3>3. \A x \in Callers : handler'[x] # "none" \/ x \in aborted \/ x = yielded
            => request_id[x] # NoId
      BY <1>1, <2>3, Zenon DEF Inv, Labels
    <3> QED BY <1>1, <1>3, <2>3, <3>1, <3>2, <3>3, Zenon DEF Inv, Labels
  <2>6. Positions'
    BY <1>1, <1>3, <2>3, Zenon DEF Inv, Positions
  <2>7. Phases'
    BY <1>3, <2>3, <2>4, Zenon DEF Inv, Phases
  <2>8. NoOrphan'
    <3>1. Timers'
      BY <1>3, <2>3, NoOrphanElements, Zenon DEF Inv, Timers
    <3>2. ASSUME NEW j \in InFlight' PROVE Owned(j, request_data[j])'
      <4>1. Owned(j, request_data[j]) /\ request_data[j] # c /\ request_data[j] \in Callers
        BY <1>1, <2>3, <3>2, NoOrphanElements, Zenon DEF Inv, Owners, Tracked, TypeOK
      <4> QED BY <1>3, <2>3, <4>1, Zenon DEF Owned
    <3> QED BY <3>1, <3>2, NoOrphanNext, Zenon DEF Owners
  <2> QED BY <2>5, <2>6, <2>7, <2>8, Zenon DEF Inv
<1> QED BY <1>1, <1>2, <1>3, Zenon DEF ReadThrottled

\* The application gets the request.
LEMMA YieldInv ==
  ASSUME TypeOK, Inv, TypeOK', Yield
  PROVE Inv'
<1> USE DEF queueVars, mapVars, wakeVars, sinkVars, netVars
<1>1. PICK c \in Callers : c = yielded
  BY Zenon DEF Yield, Inv, Phases, TypeOK
<1>2. /\ pc = "decide" /\ pc' = "limit" /\ yielded' = "none" /\ Move(c, "held")
      /\ polled'.read = "pending" /\ polled'.write = "pending"
      /\ UNCHANGED <<request_id, aborted, queueVars, mapVars, throttling, cause, sinkVars,
                     netVars>>
  BY <1>1, Zenon DEF Yield, Unpolled
<1>3. /\ handler'[c] = "held" /\ \A x \in Callers \ {c} : handler'[x] = handler[x]
      /\ UNCHANGED InFlight /\ Sent' = Sent /\ "none" \notin Callers
      /\ \A x : Tracked(x)' = Tracked(x) /\ Response(x)' = Response(x)
      /\ \A x : Unread(x)' = Unread(x)
  BY <1>2, NamesAssumption, Zenon
     DEF TypeOK, Move, InFlight, Tracked, Response, Unread, Sent
<1>4. handler[c] = "none" /\ request_id[c] # NoId /\ ~Unread(c)
  BY <1>1, Zenon DEF Inv, Positions, Labels
<1>5. Labels'
  <2>1. /\ \A r \in Range(Sent) :
             r = Response(r.reply) /\ handler'[r.reply] \in {"responded", "throttled"}
        /\ \A r \in Range(pending_responses) :
             r = Response(r.reply) /\ handler'[r.reply] = "responded"
    BY <1>3, <1>4, Named, Zenon DEF Inv, Labels
  <2>2. \A x \in Callers : handler'[x] # "none" \/ x \in aborted => request_id[x] # NoId
    BY <1>3, <1>4, Zenon DEF Inv, Labels
  <2> QED BY <1>2, <1>3, <2>1, <2>2, Zenon DEF Inv, Labels
<1>6. Positions'
  BY <1>2, <1>3, <1>4, Zenon DEF Inv, Positions, Once
<1>7. Phases'
  BY <1>2, <1>3, Zenon DEF Inv, Phases
<1>8. NoOrphan'
  <2>1. Timers'
    BY <1>2, <1>3, NoOrphanElements, Zenon DEF Inv, Timers
  <2>2. ASSUME NEW j \in InFlight' PROVE Owned(j, request_data[j])'
    <3>1. Owned(j, request_data[j]) /\ request_data[j] \in Callers
      BY <1>3, <2>2, NoOrphanElements, Zenon DEF Inv, Owners, TypeOK
    <3> QED BY <1>1, <1>2, <1>3, <3>1, Zenon DEF Owned, Live
  <2> QED BY <2>1, <2>2, NoOrphanNext, Zenon DEF Owners
<1> QED BY <1>5, <1>6, <1>7, <1>8, Zenon DEF Inv

-----------------------------------------------------------------------------
(* The environment                                                         *)

\* A new request comes in: no one has heard of its call.
LEMMA SendRequestInv ==
  ASSUME TypeOK, Inv, TypeOK', NEW c \in Callers, SendRequest(c)
  PROVE Inv'
<1> USE DEF queueVars, mapVars, runVars, sinkVars
<1>1. /\ request_id[c] = NoId /\ pc # "ended"
      /\ UNCHANGED <<handler, aborted, queueVars, mapVars, runVars, sinkVars>>
  BY Zenon DEF SendRequest
<1>2. PICK i \in Ids :
        /\ request_id' = [request_id EXCEPT ![c] = i]
        /\ inbound' = Append(inbound, [type |-> "Request", id |-> i, call |-> c])
  BY Zenon DEF SendRequest
<1>3. PICK m \in Messages : m = [type |-> "Request", id |-> i, call |-> c]
  BY NamesAssumption, Zenon DEF Messages
<1>4. inbound \in Seq(Messages) /\ inbound' = Append(inbound, m)
  BY <1>2, <1>3, Zenon DEF TypeOK
<1>5. /\ Range(inbound') = Range(inbound) \cup {m}
      /\ Len(inbound) \in Nat /\ Len(inbound') = Len(inbound) + 1
      /\ \A k \in 1..Len(inbound) : inbound'[k] = inbound[k] /\ inbound[k] \in Range(inbound)
      /\ inbound'[Len(inbound) + 1] = m
  BY <1>4, AppendQueue, Elements, SMTT(30)
<1>6. /\ request_id'[c] = i /\ i # NoId
      /\ \A x \in Callers \ {c} : request_id'[x] = request_id[x]
      /\ m.type = "Request" /\ m.call = c /\ m.id = i
  <2>1. i # NoId
    BY NamesAssumption, SMTT(30) DEF NoId
  <2>2. request_id'[c] = i /\ \A x \in Callers \ {c} : request_id'[x] = request_id[x]
    BY <1>2, Zenon DEF TypeOK
  <2> QED BY <1>3, <2>1, <2>2, Zenon
<1>7. /\ handler[c] = "none" /\ c \notin aborted /\ c # yielded
      /\ \A x \in Range(inbound) : x.type = "Request" => x.call # c /\ x.call \in Callers
  <2>1. \A x \in Range(inbound) : x.id # NoId
    <3>1. Range(inbound) \subseteq Messages
      BY <1>4, Elements, Zenon
    <3> QED BY <3>1, SMTT(30) DEF Messages, NoId
  <2>2. \A x \in Range(inbound) : x.type = "Request" => x.call # c
    BY <1>1, <2>1, ZenonT(40) DEF Inv, Labels
  <2>3. handler[c] = "none" /\ c \notin aborted /\ c # yielded
    BY <1>1, Zenon DEF Inv, Labels
  <2> QED BY <2>2, <2>3, Named, Zenon
<1>8. ~Tracked(c) /\ ~Unread(c)
  <2>1. \A j \in InFlight : j # NoId /\ request_id[request_data[j]] = j
    BY NamesAssumption, SMTT(30) DEF Inv, Labels, TypeOK, NoId
  <2> QED BY <1>1, <1>7, <2>1, Zenon DEF Tracked, Unread
<1>9. /\ UNCHANGED InFlight /\ Sent' = Sent /\ \A x : Tracked(x)' = Tracked(x)
      /\ \A x \in Callers \ {c} : Response(x)' = Response(x)
      /\ \A x : Unread(x)' <=> Unread(x) \/ x = c
  BY <1>1, <1>5, <1>6, Zenon DEF InFlight, Sent, Tracked, Response, Unread
<1>10. \A r \in Range(Sent) \cup Range(pending_responses) : r.reply \in Callers \ {c}
  BY <1>7, Named, Zenon DEF Inv, Labels
<1>11. \A j \in InFlight : request_data[j] \in Callers \ {c}
  BY <1>8, Zenon DEF Tracked, TypeOK
<1>12. Labels'
  <2>1. ASSUME NEW r \in Range(Sent) \cup Range(pending_responses)
        PROVE \E x \in Callers \ {c} : x = r.reply /\ r = Response(x)'
    <3>1. PICK x \in Callers \ {c} : x = r.reply
      BY <1>10, Zenon
    <3>2. r = Response(x)
      BY <3>1, Zenon DEF Inv, Labels
    <3> QED BY <1>9, <3>1, <3>2, Zenon
  <2>2. /\ \A r \in Range(Sent) : handler[r.reply] \in {"responded", "throttled"}
        /\ \A r \in Range(pending_responses) : handler[r.reply] = "responded"
    BY Zenon DEF Inv, Labels
  <2>3. \A x \in Range(inbound') : x.type = "Request" => request_id'[x.call] = x.id
    BY <1>5, <1>6, <1>7, SMTT(30) DEF Inv, Labels
  <2>4. \A j \in InFlight : request_id'[request_data[j]] = j
    BY <1>6, <1>11, Zenon DEF Inv, Labels
  <2>5. \A x \in Callers : handler[x] # "none" \/ x \in aborted \/ x = yielded
          => request_id'[x] # NoId
    BY <1>6, Zenon DEF Inv, Labels
  <2> QED BY <1>1, <1>9, <2>1, <2>2, <2>3, <2>4, <2>5, SMTT(30) DEF Labels, Response
<1>13. Positions'
  <2>1. Once'
    <3> SUFFICES ASSUME NEW j \in 1..Len(inbound'), NEW k \in 1..Len(inbound'),
                        inbound'[j].type = "Request", inbound'[k].type = "Request",
                        inbound'[j].call = inbound'[k].call
                 PROVE j = k
      BY Zenon DEF Once
    <3>1. \A l \in 1..Len(inbound') : l \in 1..Len(inbound) \/ l = Len(inbound) + 1
      BY <1>5, SMTT(30)
    <3>2. CASE j \in 1..Len(inbound) /\ k \in 1..Len(inbound)
      BY <1>5, <3>2, Zenon DEF Inv, Positions, Once
    <3>3. CASE j = Len(inbound) + 1 /\ k \in 1..Len(inbound)
      BY <1>5, <1>6, <1>7, <3>3, Zenon
    <3>4. CASE k = Len(inbound) + 1 /\ j \in 1..Len(inbound)
      BY <1>5, <1>6, <1>7, <3>4, Zenon
    <3> QED BY <3>1, <3>2, <3>3, <3>4, Zenon
  <2> QED BY <1>1, <1>7, <1>8, <1>9, <2>1, Zenon DEF Inv, Positions
<1>14. Phases'
  BY <1>1, <1>9, Zenon DEF Inv, Phases
<1>15. NoOrphan'
  <2>1. Timers'
    BY <1>1, <1>9, NoOrphanElements, Zenon DEF Inv, Timers
  <2>2. ASSUME NEW j \in InFlight' PROVE Owned(j, request_data[j])'
    <3>1. PICK x \in Callers \ {c} : x = request_data[j] /\ Owned(j, x)
      BY <1>9, <1>11, <2>2, NoOrphanElements, Zenon DEF Inv, Owners
    <3>2. Owned(j, x)'
      BY <1>1, <1>9, <3>1, Zenon DEF Owned
    <3> QED BY <1>1, <3>1, <3>2, Zenon DEF Owned, Response
  <2> QED BY <2>1, <2>2, NoOrphanNext, Zenon DEF Owners
<1> QED BY <1>12, <1>13, <1>14, <1>15, Zenon DEF Inv

\* A cancellation comes in: it is not a request.
LEMMA SendCancelInv ==
  ASSUME TypeOK, Inv, TypeOK', NEW c \in Callers, SendCancel(c)
  PROVE Inv'
<1> USE DEF taskVars, queueVars, mapVars, runVars, sinkVars
<1>1. UNCHANGED <<taskVars, queueVars, mapVars, runVars, sinkVars>>
  BY Zenon DEF SendCancel
<1>2. PICK m \in Messages : m = [type |-> "Cancel", id |-> request_id[c]]
  <2>1. request_id[c] \in Nat
    BY NamesAssumption, Zenon DEF SendCancel, TypeOK
  <2> QED BY <2>1, Zenon DEF Messages
<1>3. inbound \in Seq(Messages) /\ inbound' = Append(inbound, m) /\ m.type # "Request"
  BY <1>2, Zenon DEF TypeOK, SendCancel
<1>4. /\ Range(inbound') = Range(inbound) \cup {m}
      /\ Len(inbound) \in Nat /\ Len(inbound') = Len(inbound) + 1
      /\ \A k \in 1..Len(inbound) : inbound'[k] = inbound[k]
      /\ inbound'[Len(inbound) + 1] = m
  BY <1>3, AppendQueue, SMTT(30)
<1>5. /\ UNCHANGED InFlight /\ Sent' = Sent
      /\ \A x : Tracked(x)' = Tracked(x) /\ Response(x)' = Response(x)
      /\ \A x : Unread(x)' = Unread(x)
  BY <1>1, <1>3, <1>4, Zenon DEF InFlight, Sent, Tracked, Response, Unread
<1>6. Once'
  <2>1. \A l \in 1..Len(inbound') : inbound'[l].type = "Request" => l \in 1..Len(inbound)
    BY <1>3, <1>4, SMTT(30)
  <2> QED BY <1>4, <2>1, Zenon DEF Inv, Positions, Once
<1>7. Labels'
  BY <1>1, <1>3, <1>4, <1>5, Zenon DEF Inv, Labels
<1>8. Positions'
  BY <1>1, <1>5, <1>6, Zenon DEF Inv, Positions
<1>9. Phases' /\ NoOrphan'
  BY <1>1, <1>5, Zenon DEF Inv, Phases, NoOrphan
<1> QED BY <1>7, <1>8, <1>9, Zenon DEF Inv

\* The clock and the network, and steps that change nothing.
LEMMA QuietEnvironmentInv ==
  ASSUME TypeOK, Inv, TypeOK',
         \/ \E c \in Callers : Late(c)
         \/ Stall \/ Unstall \/ Eof \/ Break \/ UNCHANGED vars
  PROVE Inv'
<1> USE DEF taskVars, queueVars, mapVars, runVars, sinkVars, wakeVars, netVars
<1>1. UNCHANGED <<taskVars, queueVars, mapVars, runVars, sinkVars, inbound>>
  BY Zenon DEF Late, Stall, Unstall, Eof, Break, Disconnect, vars
<1>2. Phases' /\ Sent' = Sent
  BY <1>1, Zenon DEF Inv, Phases, InFlight, Sent
<1> QED BY <1>1, <1>2, QuietInv, Zenon

-----------------------------------------------------------------------------
(* Any peer                                                                *)

\* A new channel has nothing in flight and nothing queued.
LEMMA InitInv == Init => Inv
<1> SUFFICES ASSUME Init PROVE Inv
  BY Zenon
<1>1. /\ InFlight = {} /\ Sent = << >> /\ Len(<< >>) = 0 /\ Range(<< >>) = {}
  BY EmptyQueue, SMTT(30) DEF Init, InFlight, Sent
<1>2. \A c : ~Unread(c) /\ ~Tracked(c)
  BY <1>1, Zenon DEF Init, Unread, Tracked
<1>3. Labels
  BY <1>1, NamesAssumption, Zenon DEF Init, Labels
<1>4. Positions
  BY <1>1, <1>2, NamesAssumption, SMTT(30) DEF Init, Positions, Once
<1>5. Phases
  BY <1>1, Zenon DEF Init, Phases, Unpolled
<1>6. NoOrphan
  BY <1>1, Zenon DEF Init, NoOrphan
<1> QED BY <1>3, <1>4, <1>5, <1>6, Zenon DEF Inv

\* Every step keeps the invariant, whatever the peer does.
LEMMA StepInv ==
  ASSUME TypeOK, Inv, [Next]_vars
  PROVE TypeOK' /\ Inv'
<1>1. TypeOK'
  BY TypeStep, Zenon
<1>2. ASSUME NEW c \in Callers, Handler(c) \/ SendRequest(c) \/ SendCancel(c) \/ Late(c)
      PROVE Inv'
  BY <1>1, <1>2, HandlerInv, SendRequestInv, SendCancelInv, QuietEnvironmentInv, Zenon
<1>3. CASE ChannelTask
  <2>1. CASE WriteResponse
    <3>1. PICK response : response = Head(pending_responses)
      BY Zenon
    <3>2. CASE Fail(InFlight \ {response.id}) /\ UNCHANGED sinkVars
      BY <1>1, <2>1, <3>2, EndInv, Zenon DEF WriteResponse
    <3>3. CASE /\ remove_request(response.id)
               /\ IF sends(response.id) THEN transport_send(response)
                                        ELSE UNCHANGED sinkVars
               /\ pending_responses' = Tail(pending_responses)
               /\ polled' = [polled EXCEPT !.write = "some"]
               /\ pc' = "decide"
               /\ UNCHANGED <<taskVars, canceled_requests, throttling, yielded, cause,
                              wakeVars>>
      BY <1>1, <2>1, <3>1, <3>3, WriteResponseInv, Zenon DEF WriteResponse
    <3> QED BY <2>1, <3>1, <3>2, <3>3, Zenon DEF WriteResponse
  <2>2. CASE CheckLimitError \/ ReadError \/ WriteError
    BY <1>1, <2>2, EndInv, Zenon DEF CheckLimitError, ReadError, WriteError
  <2>3. CASE EndStream
    BY <1>1, <2>3, EndInv, Zenon DEF EndStream
  <2> QED BY <1>1, <1>3, <2>1, <2>2, <2>3, QuietChannelInv, PollMapInv, ReadCancelInv,
             ReadDuplicateInv, ReadRequestInv, ReadThrottledInv, YieldInv, Zenon
             DEF ChannelTask
<1>4. CASE Stop
  BY <1>1, <1>4, EndInv, Zenon DEF Stop
<1> QED BY <1>1, <1>2, <1>3, <1>4, QuietEnvironmentInv, Zenon DEF Next, Terminated

\* The server's invariant holds in every reachable state.
THEOREM ServerInvariant == Spec => [](TypeOK /\ Inv)
<1>1. Init => TypeOK /\ Inv
  BY InitType, InitInv, Zenon
<1>2. TypeOK /\ Inv /\ [Next]_vars => (TypeOK /\ Inv)'
  BY StepInv, Zenon
<1> QED BY <1>1, <1>2, PTL DEF Spec

\* The variables of the channel and its handlers keep their types.
THEOREM ServerTypesKept == Spec => []TypeOK
BY ServerInvariant, PTL

\* The channel forgets no request and keeps none: an entry of InFlightRequests
\* has a handler that runs, or a response or cancellation queued that will
\* remove it, and a timer exists for exactly the requests tracked, also when a
\* peer uses ids again.
THEOREM NoRequestLeaks == Spec => []NoOrphan
<1>1. TypeOK /\ Inv => NoOrphan
  BY Zenon DEF Inv
<1> QED BY <1>1, ServerInvariant, PTL
=============================================================================
