------------------------------ MODULE RpcProofs -----------------------------
(***************************************************************************)
(* Proof that Client, Server and the connection between them implement     *)
(* Calls.  Every step of Rpc is a step of the client's specification and   *)
(* one of the server's, or leaves it alone, so that what ClientProofs and  *)
(* ServerProofs show of each end for any peer holds of these two.          *)
(* What is added is Link, what each end knows of the other, and for every  *)
(* step what Calls sees of it.  The steps of the server are shown for any  *)
(* state with Served, so that the instance P of the server's proofs is     *)
(* needed at the end only.                                                 *)
(***************************************************************************)
EXTENDS Rpc, ClientProofs

-----------------------------------------------------------------------------
(* Messages, and the sequences that carry them                             *)

\* The ids that the client can give to its calls (next_request_id).
LEMMA IdsAreNumbers == 0..(Cardinality(Callers) - 1) \subseteq Nat
BY SMTT(30)

\* A message has an id, and a request also its call (ClientMessage).
LEMMA MessageShape ==
  ASSUME NEW m \in Messages
  PROVE /\ m.id \in Nat /\ m.id # NoId
        /\ m.type = "Request" => m.call \in Callers
BY SMTT(30) DEF Messages, NoId

\* What is made of the id of a message, or of an id and a call, is a message.
LEMMA MessageMade ==
  /\ \A i \in Nat, c \in Callers : [type |-> "Request", id |-> i, call |-> c] \in Messages
  /\ \A i \in Nat : [type |-> "Cancel", id |-> i] \in Messages
BY SMTT(30) DEF Messages

\* What a sequence holds has a place in it.
LEMMA Places ==
  ASSUME NEW T, NEW s \in Seq(T)
  PROVE /\ Len(s) \in Nat /\ DOMAIN s = 1..Len(s)
        /\ \A k \in 1..Len(s) : s[k] \in T
        /\ s # << >> => Head(s) \in T
BY SMTT(30)

\* What was flushed keeps its place before what was not.
LEMMA PlacesBefore ==
  ASSUME NEW T, NEW s \in Seq(T), NEW t \in Seq(T), NEW k \in 1..Len(s)
  PROVE k \in DOMAIN (s \o t) /\ (s \o t)[k] = s[k]
BY SMTT(30)

\* The next place, of a message that was flushed and has not arrived yet.
LEMMA NextPlace ==
  ASSUME NEW n \in Nat, NEW l \in Nat, n < l
  PROVE n + 1 \in Nat /\ n + 1 \in 1..l
BY SMTT(30)

-----------------------------------------------------------------------------
(* What is seen of a step                                                  *)

\* What a call is seen to be, given its result and where it is, ...
SeenAs(v, at) ==
  CASE v = "none" -> IF at = "idle" THEN "idle" ELSE "waiting"
    [] v \in Callers -> "ok"
    [] v = "Dropped" -> "dropped"
    [] v = "DeadlineExceeded" -> "deadline"
    [] v = "Send" -> "unsent"
    [] OTHER -> "disconnected"
\* ... and what an execution is, given its handler.
RunAs(h) ==
  CASE h \in {"none", "held"} -> "none"
    [] h \in {"running", "sending"} -> "running"
    [] h = "responded" -> "finished"
    [] h = "throttled" -> "refused"
    [] OTHER -> "stopped"

\* A call is none of the errors that a result may be.
LEMMA NoCallMarks ==
  Callers \cap {"none", "Dropped", "DeadlineExceeded", "Shutdown", "Send", "Channel"} = {}
BY CallersAssumption, Zenon DEF Marks, Errors

\* A call without a result waits, once it was made (Channel::call).
LEMMA SeenWaiting ==
  /\ SeenAs("none", "idle") = "idle"
  /\ \A at : at # "idle" => SeenAs("none", at) = "waiting"
BY NoCallMarks, SMT DEF SeenAs

\* Where a call is under way is not seen, ...
LEMMA SeenSame ==
  ASSUME NEW v, NEW at, NEW to, at # "idle", to # "idle"
  PROVE SeenAs(v, at) = SeenAs(v, to)
BY SMT DEF SeenAs

\* ... and a call that was made is not idle again, nor unsent if it was sent.
LEMMA SeenBegun ==
  ASSUME NEW v, NEW at, at # "idle", v # "Send"
  PROVE SeenAs(v, at) \notin {"idle", "unsent"}
<1>1. CASE v = "none"
  BY <1>1, SeenWaiting, SMT
<1>2. CASE v # "none"
  BY <1>2, SMT DEF SeenAs
<1> QED BY <1>1, <1>2, Zenon

\* A response is seen as an answer, and each RpcError as what it reports.
LEMMA SeenReturned ==
  /\ \A v \in Callers : \A at : SeenAs(v, at) = "ok"
  /\ \A at : SeenAs("Dropped", at) = "dropped"
  /\ \A at : SeenAs("DeadlineExceeded", at) = "deadline"
  /\ \A at : SeenAs("Send", at) = "unsent"
  /\ \A v \in {"Shutdown", "Channel"} : \A at : SeenAs(v, at) = "disconnected"
<1>1. /\ \A v \in Callers : \A at : SeenAs(v, at) = "ok"
      /\ \A at : SeenAs("Dropped", at) = "dropped"
  BY NoCallMarks, SMT DEF SeenAs
<1>2. /\ \A at : SeenAs("DeadlineExceeded", at) = "deadline"
      /\ \A at : SeenAs("Send", at) = "unsent"
      /\ \A v \in {"Shutdown", "Channel"} : \A at : SeenAs(v, at) = "disconnected"
  BY NoCallMarks, SMT DEF SeenAs
<1> QED BY <1>1, <1>2, Zenon

\* An execution is seen from serve's start to the response being handed over
\* (InFlightRequest::execute), or as what kept it from that.
LEMMA RunValues ==
  /\ RunAs("none") = "none" /\ RunAs("held") = "none"
  /\ RunAs("running") = "running" /\ RunAs("sending") = "running"
  /\ RunAs("responded") = "finished" /\ RunAs("throttled") = "refused"
  /\ RunAs("unsent") = "stopped" /\ RunAs("aborted") = "stopped"
  /\ RunAs("dropped") = "stopped"
BY SMT DEF RunAs

\* What is seen before a step and after it.
LEMMA SeenNow ==
  \A c : /\ CallSeen(c) = SeenAs(result[c], call[c])
         /\ CallSeen(c)' = SeenAs(result'[c], call'[c])
         /\ ExecSeen(c) = RunAs(s_handler[c])
         /\ ExecSeen(c)' = RunAs(s_handler'[c])
<1>1. \A c : CallSeen(c) = SeenAs(result[c], call[c]) /\ ExecSeen(c) = RunAs(s_handler[c])
  BY Zenon DEF CallSeen, SeenAs, ExecSeen, RunAs
<1>2. \A c : /\ CallSeen(c)' = SeenAs(result'[c], call'[c])
             /\ ExecSeen(c)' = RunAs(s_handler'[c])
  BY Zenon DEF CallSeen, SeenAs, ExecSeen, RunAs
<1> QED BY <1>1, <1>2, Zenon

\* What a call or an execution is seen to be is a function of the calls: a step
\* that changes it for one call only is an update of that function.
LEMMA SeenCalls ==
  ASSUME NEW c \in Callers, NEW how, CallSeen(c)' = how,
         \A d \in Callers \ {c} : CallSeen(d)' = CallSeen(d)
  PROVE [d \in Callers |-> CallSeen(d)]'
          = [[d \in Callers |-> CallSeen(d)] EXCEPT ![c] = how]
BY Zenon

\* The same of executions.
LEMMA SeenExecs ==
  ASSUME NEW c \in Callers, NEW to, ExecSeen(c)' = to,
         \A d \in Callers \ {c} : ExecSeen(d)' = ExecSeen(d)
  PROVE [d \in Callers |-> ExecSeen(d)]'
          = [[d \in Callers |-> ExecSeen(d)] EXCEPT ![c] = to]
BY Zenon

CallsSeenKept == \A d \in Callers : CallSeen(d)' = CallSeen(d)
ExecsSeenKept == \A d \in Callers : ExecSeen(d)' = ExecSeen(d)

\* What no step changes for any call is not changed.
LEMMA SeenKept ==
  /\ CallsSeenKept => [d \in Callers |-> CallSeen(d)]' = [d \in Callers |-> CallSeen(d)]
  /\ ExecsSeenKept => [d \in Callers |-> ExecSeen(d)]' = [d \in Callers |-> ExecSeen(d)]
  /\ (OverSeen' <=> OverSeen) => OverSeen' = OverSeen
<1>1. CallsSeenKept => [d \in Callers |-> CallSeen(d)]' = [d \in Callers |-> CallSeen(d)]
  BY Zenon DEF CallsSeenKept
<1>2. ExecsSeenKept => [d \in Callers |-> ExecSeen(d)]' = [d \in Callers |-> ExecSeen(d)]
  BY Zenon DEF ExecsSeenKept
<1>3. (OverSeen' <=> OverSeen) => OverSeen' = OverSeen
  BY SMT DEF OverSeen
<1> QED BY <1>1, <1>2, <1>3, Zenon

\* A call returns.
LEMMA SeenReturn ==
  ASSUME NEW c \in Callers, NEW how, CallSeen(c) = "waiting", CallSeen(c)' = how,
         \A d \in Callers \ {c} : CallSeen(d)' = CallSeen(d),
         ExecsSeenKept, late' = late, OverSeen' = OverSeen
  PROVE Promise!Returns(c, how)
<1>1. [d \in Callers |-> CallSeen(d)]'
          = [[d \in Callers |-> CallSeen(d)] EXCEPT ![c] = how]
  BY SeenCalls, Zenon
<1>2. [d \in Callers |-> ExecSeen(d)]' = [d \in Callers |-> ExecSeen(d)]
  BY SeenKept, Zenon
<1> QED BY <1>1, <1>2, Zenon DEF Promise!Returns

\* An execution moves on.
LEMMA SeenExecution ==
  ASSUME NEW c \in Callers, NEW from, NEW to, ExecSeen(c) = from, ExecSeen(c)' = to,
         \A d \in Callers \ {c} : ExecSeen(d)' = ExecSeen(d),
         CallsSeenKept, late' = late, OverSeen' = OverSeen
  PROVE Promise!Executes(c, from, to)
<1>1. [d \in Callers |-> ExecSeen(d)]'
          = [[d \in Callers |-> ExecSeen(d)] EXCEPT ![c] = to]
  BY SeenExecs, Zenon
<1>2. [d \in Callers |-> CallSeen(d)]' = [d \in Callers |-> CallSeen(d)]
  BY SeenKept, Zenon
<1> QED BY <1>1, <1>2, Zenon DEF Promise!Executes

\* Nothing is seen, except perhaps that the connection is over.
LEMMA SeenQuiet ==
  ASSUME CallsSeenKept, ExecsSeenKept, late' = late, OverSeen => OverSeen'
  PROVE [Promise!Next]_(Promise!vars)
<1>1. /\ [d \in Callers |-> CallSeen(d)]' = [d \in Callers |-> CallSeen(d)]
      /\ [d \in Callers |-> ExecSeen(d)]' = [d \in Callers |-> ExecSeen(d)]
  BY SeenKept, Zenon
<1>2. CASE ~OverSeen /\ OverSeen'
  <2>1. Promise!Over
    BY <1>1, <1>2, Zenon DEF Promise!Over
  <2> QED BY <2>1, Zenon DEF Promise!Next
<1>3. CASE OverSeen' <=> OverSeen
  <2>1. OverSeen' = OverSeen
    BY <1>3, SeenKept, Zenon
  <2> QED BY <1>1, <2>1, Zenon DEF Promise!vars
<1> QED BY <1>2, <1>3, Zenon

-----------------------------------------------------------------------------
(* What each end knows of the other                                        *)

Answered == {"responded", "throttled"}

\* What ServerProofs shows of the server, as far as it is needed here.
Served ==
  /\ s_handler \in [Callers -> {"none"} \cup S!Live \cup S!Ended]
  /\ s_request_id \in [Callers -> Nat \cup {NoId}]
  /\ s_inbound \in Seq(Messages) /\ s_wire \in Seq(Replies)
  /\ s_aborted \subseteq Callers
  /\ \A c \in Callers : s_handler[c] # "none" => s_request_id[c] # NoId
  /\ s_yielded \in Callers =>
       s_handler[s_yielded] = "none" /\ s_request_id[s_yielded] # NoId
  /\ s_yielded = "none" <=> s_polled.read # "some"
  /\ s_yielded \in Callers \cup {"none"}
  /\ \A m \in Messages : Contains(s_inbound, m) /\ m.type = "Request"
       => s_handler[m.call] = "none" /\ s_request_id[m.call] # NoId
  /\ \A i \in DOMAIN s_request_data :
       s_request_data[i] \in Callers /\ s_request_id[s_request_data[i]] = i
  /\ s_deadlines = {<<i, s_request_data[i]>> : i \in DOMAIN s_request_data}
  /\ \A r \in Replies : Contains(s_wire, r) => s_handler[r.reply] \in Answered

\* A request keeps the id of its call on the way, which has written it, ...
IdsMatch ==
  \A c \in Callers : s_request_id[c] # NoId =>
    s_request_id[c] = request_id[c] /\ ~Unwritten(c)
\* ... a cancellation was sent for a call that was dropped, ...
CancelsMeant ==
  \A m \in Messages : Contains(s_inbound, m) /\ m.type = "Cancel" =>
    \E c \in Callers : request_id[c] = m.id /\ result[c] = "Dropped"
\* ... and so the server aborts a handler for a reason the client knows of.
AbortsMeant == \A c \in s_aborted : result[c] = "Dropped" \/ c \in late \/ s_pc = "ended"
\* A reply comes from a handler that has returned, or from the throttle, ...
RepliesMeant == \A r \in Replies : Contains(inbound, r) => s_handler[r.reply] \in Answered
\* ... and so does the answer a call is given.
AnswersMeant == \A c \in Callers : completion[c] \in Callers => s_handler[c] \in Answered

Link ==
  /\ delivered \in Nat /\ returned \in Nat
  /\ s_late \subseteq late
  /\ \A c \in Callers : completion[c] = "none" => call[c] = "idle"
  /\ IdsMatch /\ CancelsMeant /\ AbortsMeant /\ RepliesMeant /\ AnswersMeant

-----------------------------------------------------------------------------
(* The steps of the client                                                 *)

\* What was written stays written.
LEMMA StepWrites ==
  ASSUME TypeOK, Inv, [Next]_vars
  PROVE \A m \in Messages : Contains(Sent, m) => Contains(Sent, m)'
<1>1. CASE Sent' = Sent
  BY <1>1, Zenon
<1>2. ASSUME NEW m \in Messages, start_send(m)
      PROVE \A n \in Messages : Contains(Sent, n) => Contains(Sent, n)'
  <2>1. PICK s : s = Sent
    BY Zenon
  <2>2. s \in Seq(Messages) /\ Sent' = Append(s, m)
    BY <1>2, <2>1, SentFlush, Zenon
  <2>3. \A n : Contains(Append(s, m), n) <=> Contains(s, n) \/ n = m
    BY <1>2, <2>2, AppendContains, Zenon
  <2> QED BY <2>1, <2>2, <2>3, Zenon
<1>3. CASE WriteRequest
  <2>1. taken \in Callers /\ request_id[taken] \in Nat
    BY <1>3, IdsGiven, Zenon DEF WriteRequest
  <2>2. [type |-> "Request", id |-> request_id[taken], call |-> taken] \in Messages
    BY <2>1, MessageMade, Zenon
  <2> QED BY <1>1, <1>2, <1>3, <2>2, WriteCases, SentFlush, Zenon
<1>4. CASE PopCancel
  <2>1. PICK i : i = Head(canceled_requests)
    BY Zenon
  <2>2. i \in Nat
    BY <1>4, <2>1, SMTT(30) DEF TypeOK, PopCancel
  <2>3. [type |-> "Cancel", id |-> i] \in Messages
    BY <2>2, MessageMade, Zenon
  <2> QED BY <1>1, <1>2, <1>4, <2>1, <2>3, SentFlush, Zenon DEF PopCancel, write_cancel
<1> QED BY <1>1, <1>3, <1>4, StepSends, Zenon

\* A step of the client, the server standing still, keeps what they know.
LEMMA ClientLink ==
  ASSUME TypeOK, Inv, Outcomes, OwnReply', Served, Link, [Next]_vars, UNCHANGED s_vars,
         delivered' \in Nat, returned' \in Nat,
         \/ inbound' = inbound
         \/ inbound # << >> /\ inbound' = Tail(inbound)
         \/ \E r \in Replies : inbound' = Append(inbound, r) /\ s_handler[r.reply] \in Answered
  PROVE Link'
<1>0. /\ s_handler' = s_handler /\ s_request_id' = s_request_id /\ s_inbound' = s_inbound
      /\ s_aborted' = s_aborted /\ s_pc' = s_pc /\ s_late' = s_late
  BY Zenon DEF s_vars
<1>1. \A c \in Callers : /\ request_id[c] # NoId => request_id'[c] = request_id[c]
                         /\ result[c] = "Dropped" => result'[c] = "Dropped"
  BY StepRemembers, Zenon DEF Outcomes
<1>2. Final
  BY StepFinal, Zenon
<1>3. s_late' \subseteq late'
  BY <1>0, <1>2, Zenon DEF Link, Final
<1>4. \A c : ~Unwritten(c) => ~Unwritten(c)'
  BY StepWrites, Zenon DEF Unwritten
<1>a. \A c \in Callers : completion'[c] = "none" => call'[c] = "idle"
  BY StepBegins, Zenon DEF Link
<1>5. IdsMatch'
  BY <1>0, <1>1, <1>4, Zenon DEF Link, IdsMatch
<1>6. CancelsMeant'
  <2> SUFFICES ASSUME NEW m \in Messages, Contains(s_inbound, m), m.type = "Cancel"
               PROVE \E c \in Callers : request_id'[c] = m.id /\ result'[c] = "Dropped"
    BY <1>0, Zenon DEF CancelsMeant
  <2>1. PICK c \in Callers : request_id[c] = m.id /\ result[c] = "Dropped"
    BY Zenon DEF Link, CancelsMeant
  <2>2. request_id[c] # NoId
    BY <2>1, Zenon DEF Inv, IdsUnique, Outcomes, Results
  <2> QED BY <1>1, <2>1, <2>2, Zenon
<1>7. AbortsMeant'
  BY <1>0, <1>1, <1>2, Zenon DEF Link, AbortsMeant, Final, Served
<1>8. RepliesMeant'
  <2>1. inbound \in Seq(Replies)
    BY Zenon DEF TypeOK
  <2>2. CASE inbound' = inbound
    BY <1>0, <2>2, Zenon DEF Link, RepliesMeant
  <2>3. CASE inbound # << >> /\ inbound' = Tail(inbound)
    <3>1. \A r : Contains(Tail(inbound), r) => Contains(inbound, r)
      BY <2>1, <2>3, TailContains, Zenon
    <3> QED BY <1>0, <2>3, <3>1, Zenon DEF Link, RepliesMeant
  <2>4. ASSUME NEW r \in Replies, inbound' = Append(inbound, r),
               s_handler[r.reply] \in Answered
        PROVE RepliesMeant'
    <3>1. \A x : Contains(Append(inbound, r), x) => Contains(inbound, x) \/ x = r
      BY <2>1, AppendContains, Zenon
    <3> QED BY <1>0, <2>4, <3>1, Zenon DEF Link, RepliesMeant
  <2> QED BY <2>2, <2>3, <2>4, Zenon
<1>9. AnswersMeant'
  <2> SUFFICES ASSUME NEW c \in Callers, completion'[c] \in Callers, completion[c] \notin Callers
               PROVE s_handler[c] \in Answered
    BY <1>0, Zenon DEF Link, AnswersMeant
  <2>1. ReadResponse
    BY StepAnswers, Zenon DEF NoAnswer
  <2>2. PICK r : r = Head(inbound)
    BY Zenon
  <2>3. inbound \in Seq(Replies) /\ inbound # << >>
    BY <2>1, Zenon DEF ReadResponse, TypeOK
  <2>4. r \in Replies
    BY <2>2, <2>3, SMTT(30)
  <2>5. Contains(inbound, r)
    BY <2>2, <2>3, TailContains, Zenon
  <2>6. completion'[c] = r.reply
    BY <2>1, <2>2, Zenon DEF ReadResponse, complete_request, Completed
  <2>7. completion'[c] = c
    BY Zenon DEF OwnReply
  <2> QED BY <2>4, <2>5, <2>6, <2>7, Zenon DEF Link, RepliesMeant
<1> QED BY <1>3, <1>a, <1>5, <1>6, <1>7, <1>8, <1>9, Zenon DEF Link

\* A call that waits returns, for a reason Calls allows.
LEMMA ReturnSeen ==
  ASSUME NEW c \in Callers, NEW v, NEW at, CallSeen(c) = "waiting",
         CallSeen(c)' = SeenAs(v, at),
         \A d \in Callers \ {c} : CallSeen(d)' = CallSeen(d),
         ExecsSeenKept, late' = late, OverSeen' = OverSeen,
         \/ v = "Dropped"
         \/ v = "DeadlineExceeded" /\ c \in late
         \/ v = "Send" /\ s_handler[c] = "none"
         \/ v \in {"Shutdown", "Channel"} /\ OverSeen
         \/ v \in Callers /\ s_handler[c] \in Answered
  PROVE Promise!Next
<1>1. \A how : CallSeen(c)' = how => Promise!Returns(c, how)
  BY SeenReturn, Zenon
<1>2. CASE v = "Dropped"
  BY <1>1, <1>2, SeenReturned, Zenon DEF Promise!Next, Promise!GiveUp
<1>3. CASE v = "DeadlineExceeded" /\ c \in late
  BY <1>1, <1>3, SeenReturned, Zenon DEF Promise!Next, Promise!Expire
<1>4. CASE v \in {"Shutdown", "Channel"} /\ OverSeen
  BY <1>1, <1>4, SeenReturned, Zenon DEF Promise!Next, Promise!Disconnected
<1>6. CASE v = "Send" /\ s_handler[c] = "none"
  <2>1. [d \in Callers |-> ExecSeen(d)][c] = "none"
    BY <1>6, SeenNow, RunValues, Zenon
  <2>2. Promise!Returns(c, "unsent")
    BY <1>1, <1>6, SeenReturned, Zenon
  <2> QED BY <2>1, <2>2, Zenon DEF Promise!Next, Promise!Unsent
<1>5. CASE v \in Callers /\ s_handler[c] \in Answered
  <2>1. [d \in Callers |-> ExecSeen(d)][c] \in {"finished", "refused"}
    BY <1>5, SeenNow, RunValues, Zenon DEF Answered
  <2>2. Promise!Returns(c, "ok")
    BY <1>1, <1>5, SeenReturned, Zenon
  <2> QED BY <2>1, <2>2, Zenon DEF Promise!Next, Promise!Answer
<1> QED BY <1>2, <1>3, <1>4, <1>5, <1>6, Zenon

\* What the server does not do the callers do: a call begins, is given up, or
\* returns with an answer or an error, for the reasons Calls allows; or the
\* client's end of the connection is over.
LEMMA ClientPromise ==
  ASSUME TypeOK, Inv, Outcomes, Served, Link, [Next]_vars, UNCHANGED s_vars
  PROVE [Promise!Next]_(Promise!vars)
<1>0. s_handler' = s_handler /\ s_pc' = s_pc /\ s_net' = s_net
  BY Zenon DEF s_vars
<1>1. ExecsSeenKept
  BY <1>0, SeenNow, Zenon DEF ExecsSeenKept
<1>2. OverSeen => OverSeen'
  BY <1>0, StepFinal, Zenon DEF OverSeen, Final
<1>3. rx' = rx /\ net' = net => OverSeen' = OverSeen
  BY <1>0, Zenon DEF OverSeen
<1>4. CallsKept => CallsSeenKept
  BY SeenNow, Zenon DEF CallsKept, CallsSeenKept
<1>5. ASSUME NEW c \in Callers, Late(c) PROVE Promise!Next
  <2>1. late' = late \cup {c} /\ rx' = rx /\ net' = net /\ CallsKept
    BY <1>5, Zenon DEF Late, queueVars, callVars, CallsKept
  <2>2. /\ [d \in Callers |-> CallSeen(d)]' = [d \in Callers |-> CallSeen(d)]
        /\ [d \in Callers |-> ExecSeen(d)]' = [d \in Callers |-> ExecSeen(d)]
    BY <1>1, <1>4, <2>1, SeenKept, Zenon
  <2>3. Promise!Late(c)
    BY <1>3, <2>1, <2>2, Zenon DEF Promise!Late
  <2> QED BY <2>3, Zenon DEF Promise!Next
<1>6. CASE CallsKept /\ late' = late
  BY <1>1, <1>2, <1>4, <1>6, SeenQuiet, Zenon
<1>7. ASSUME NEW c \in Callers, Caller(c) PROVE [Promise!Next]_(Promise!vars)
  <2>1. late' = late /\ rx' = rx /\ net' = net
    BY <1>7, Zenon DEF Caller, Call, Reserve, Push, SendError, Response, DropCall,
                       CloseResponse, Cancel, netVars, queueVars
  <2>2. OverSeen' = OverSeen
    BY <1>3, <2>1, Zenon
  <2>3. /\ call \in [Callers -> CallStates] /\ c \in DOMAIN call /\ c \in DOMAIN result
        /\ call[c] \in {"idle", "sending", "permitted", "awaiting"} => result[c] = "none"
    BY Zenon DEF TypeOK, Outcomes, Results
  <2>4. ASSUME NEW at, NEW v, call' = [call EXCEPT ![c] = at],
               result' = [result EXCEPT ![c] = v]
        PROVE /\ CallSeen(c)' = SeenAs(v, at)
              /\ \A d \in Callers \ {c} : CallSeen(d)' = CallSeen(d)
    BY <2>3, <2>4, SeenNow, Zenon DEF TypeOK
  <2>5. ASSUME call[c] \in {"sending", "awaiting"} PROVE CallSeen(c) = "waiting"
    <3>1. result[c] = "none" /\ call[c] # "idle"
      BY <2>3, <2>5, Zenon
    <3>2. CallSeen(c) = SeenAs("none", call[c])
      BY <3>1, SeenNow, Zenon
    <3> QED BY <3>1, <3>2, SeenWaiting, Zenon
  <2>6. ASSUME NEW at, call' = [call EXCEPT ![c] = at], result' = result
        PROVE /\ CallSeen(c)' = SeenAs(result[c], at)
              /\ \A d \in Callers \ {c} : CallSeen(d)' = CallSeen(d)
    BY <2>3, <2>6, SeenNow, Zenon
  <2>7. CASE Call(c)
    <3>1. /\ call[c] = "idle" /\ call' = [call EXCEPT ![c] = "sending"] /\ result' = result
          /\ result[c] = "none"
      BY <2>3, <2>7, Zenon DEF Call
    <3>2. /\ CallSeen(c)' = "waiting" /\ CallSeen(c) = "idle"
          /\ \A d \in Callers \ {c} : CallSeen(d)' = CallSeen(d)
      <4>1. /\ CallSeen(c)' = SeenAs(result[c], "sending")
            /\ \A d \in Callers \ {c} : CallSeen(d)' = CallSeen(d)
        BY <2>6, <3>1, Zenon
      <4>2. CallSeen(c) = SeenAs("none", "idle")
        BY <3>1, SeenNow, Zenon
      <4>3. SeenAs("none", "sending") = "waiting" /\ SeenAs("none", "idle") = "idle"
        BY SeenWaiting, Zenon
      <4> QED BY <3>1, <4>1, <4>2, <4>3, Zenon
    <3>3. [d \in Callers |-> CallSeen(d)]'
            = [[d \in Callers |-> CallSeen(d)] EXCEPT ![c] = "waiting"]
      BY <3>2, SeenCalls, Zenon
    <3>4. [d \in Callers |-> ExecSeen(d)]' = [d \in Callers |-> ExecSeen(d)]
      BY <1>1, SeenKept, Zenon
    <3>5. Promise!Begin(c)
      BY <2>1, <2>2, <3>2, <3>3, <3>4, Zenon DEF Promise!Begin
    <3> QED BY <3>5, Zenon DEF Promise!Next
  <2>8. CASE Reserve(c) \/ Push(c) \/ CloseResponse(c) \/ Cancel(c)
    <3>1. PICK at : at # "idle" /\ call' = [call EXCEPT ![c] = at]
      BY <2>8, Zenon DEF Reserve, Push, CloseResponse, Cancel
    <3>2. call[c] # "idle" /\ result' = result
      BY <2>8, Zenon DEF Reserve, Push, CloseResponse, Cancel
    <3>3. CallSeen(c)' = CallSeen(c) /\ \A d \in Callers \ {c} : CallSeen(d)' = CallSeen(d)
      <4>1. /\ CallSeen(c)' = SeenAs(result[c], at)
            /\ \A d \in Callers \ {c} : CallSeen(d)' = CallSeen(d)
        BY <2>6, <3>1, <3>2, Zenon
      <4>2. CallSeen(c) = SeenAs(result[c], call[c])
        BY SeenNow, Zenon
      <4>3. SeenAs(result[c], at) = SeenAs(result[c], call[c])
        BY <3>1, <3>2, SeenSame, Zenon
      <4> QED BY <4>1, <4>2, <4>3, Zenon
    <3>4. CallsSeenKept
      BY <3>3, Zenon DEF CallsSeenKept
    <3> QED BY <1>1, <1>2, <2>1, <3>4, SeenQuiet, Zenon
  <2>9. CASE SendError(c)
    <3>1. /\ call[c] = "sending" /\ call' = [call EXCEPT ![c] = "dropping"]
          /\ result' = [result EXCEPT ![c] = "Shutdown"] /\ rx # "open"
      BY <2>9, Zenon DEF SendError, SendFails
    <3>2. /\ CallSeen(c)' = SeenAs("Shutdown", "dropping")
          /\ \A d \in Callers \ {c} : CallSeen(d)' = CallSeen(d)
      BY <2>4, <3>1, Zenon
    <3>3. OverSeen /\ CallSeen(c) = "waiting"
      BY <2>5, <3>1, Zenon DEF OverSeen
    <3>4. Promise!Next
      BY <1>1, <2>1, <2>2, <3>2, <3>3, ReturnSeen, Zenon
    <3> QED BY <3>4, Zenon
  <2>10. CASE DropCall(c)
    <3>1. /\ call[c] \in {"sending", "awaiting"} /\ call' = [call EXCEPT ![c] = "dropping"]
          /\ result' = [result EXCEPT ![c] = "Dropped"]
      BY <2>10, Zenon DEF DropCall
    <3>2. /\ CallSeen(c)' = SeenAs("Dropped", "dropping")
          /\ \A d \in Callers \ {c} : CallSeen(d)' = CallSeen(d)
      BY <2>4, <3>1, Zenon
    <3>3. CallSeen(c) = "waiting"
      BY <2>5, <3>1, Zenon
    <3>4. Promise!Next
      BY <1>1, <2>1, <2>2, <3>2, <3>3, ReturnSeen, Zenon
    <3> QED BY <3>4, Zenon
  <2>11. CASE Response(c)
    <3>1. PICK v : v = IF completion[c] = "gone" THEN "Shutdown" ELSE completion[c]
      BY Zenon
    <3>2. /\ call[c] = "awaiting" /\ call' = [call EXCEPT ![c] = "done"]
          /\ result' = [result EXCEPT ![c] = v] /\ completion[c] \notin {"open", "closed"}
      BY <2>11, <3>1, Zenon DEF Response, IsReady
    <3>3. Reason(completion[c], c) /\ (Unwritten(c) => s_handler[c] = "none")
      BY Zenon DEF Outcomes, Reasons, Served, Link, IdsMatch
    <3>4. completion[c] \in {"gone"} \cup Errors \cup Callers
      <4>1. completion[c] # "none"
        BY <3>2, Zenon DEF Link
      <4> QED BY <3>2, <4>1, Zenon DEF TypeOK
    <3>5. \/ v = "DeadlineExceeded" /\ c \in late
          \/ v = "Send" /\ s_handler[c] = "none"
          \/ v \in {"Shutdown", "Channel"} /\ OverSeen
          \/ v \in Callers /\ s_handler[c] \in Answered
      <4>1. CASE completion[c] = "gone"
        BY <3>1, <3>2, <3>3, <4>1, Zenon DEF Reason, OverSeen
      <4>2. CASE completion[c] \in Errors /\ completion[c] # "gone"
        BY <3>1, <3>3, <4>2, Zenon DEF Reason, OverSeen, Errors
      <4>3. CASE completion[c] \in Callers /\ completion[c] # "gone"
        BY <3>1, <4>3, Zenon DEF Link, AnswersMeant
      <4> QED BY <3>4, <4>1, <4>2, <4>3, Zenon
    <3>6. /\ CallSeen(c)' = SeenAs(v, "done")
          /\ \A d \in Callers \ {c} : CallSeen(d)' = CallSeen(d)
      BY <2>4, <3>2, Zenon
    <3>7. CallSeen(c) = "waiting"
      BY <2>5, <3>2, Zenon
    <3>8. Promise!Next
      BY <1>1, <2>1, <2>2, <3>5, <3>6, <3>7, ReturnSeen, Zenon
    <3> QED BY <3>8, Zenon
  <2> QED BY <1>7, <2>7, <2>8, <2>9, <2>10, <2>11, Zenon DEF Caller
<1> QED BY <1>5, <1>6, <1>7, StepCalls, StepLate, Zenon

-----------------------------------------------------------------------------
(* The steps of the server                                                 *)

Moved(c, to) == s_handler' = [s_handler EXCEPT ![c] = to]

\* A stream that fails drops the request it had read, and only that.
LEMMA FailMoves ==
  ASSUME Served, NEW ids, S!Fail(ids)
  PROVE \/ s_handler' = s_handler
        \/ \E c \in Callers : /\ s_handler[c] = "none" /\ s_request_id[c] # NoId
                               /\ Moved(c, "dropped")
<1>1. s_handler' = [c \in Callers |-> IF c = s_yielded THEN "dropped" ELSE s_handler[c]]
  BY Zenon DEF S!Fail, S!Drop
<1>2. CASE s_yielded \in Callers
  BY <1>1, <1>2, Zenon DEF Served, Moved
<1>3. CASE s_yielded \notin Callers
  BY <1>1, <1>3, Zenon DEF Served
<1> QED BY <1>2, <1>3, Zenon

\* What a step of the channel's task does to a handler: it begins, is refused,
\* or is dropped before it begins, and that only by a stream that ends.
ChannelMoves ==
  \/ s_handler' = s_handler
  \/ \E c \in Callers : s_handler[c] = "none" /\ Moved(c, "held")
  \/ \E c \in Callers :
       /\ s_handler[c] = "none" /\ s_request_id[c] # NoId /\ Moved(c, "throttled")
       /\ s_pc' # "ended"
  \/ \E c \in Callers :
       /\ s_handler[c] = "none" /\ s_request_id[c] # NoId /\ Moved(c, "dropped")
       /\ s_pc' = "ended"

\* The polls of Requests, MaxRequests and BaseChannel leave ids, clock and
\* transport, read one message at most, and move handlers as said.
LEMMA ChannelStep ==
  ASSUME Served, S!ChannelTask
  PROVE /\ s_pc # "ended" /\ s_net' = s_net
        /\ s_request_id' = s_request_id /\ s_late' = s_late
        /\ s_inbound' = s_inbound \/ (s_inbound # << >> /\ s_inbound' = Tail(s_inbound))
        /\ ChannelMoves
<1> USE DEF S!taskVars, S!netVars
<1>1. CASE \/ S!Poll \/ S!CheckLimit \/ S!PollCanceled \/ S!PollExpired \/ S!ReadNothing
           \/ S!EnsureWriteable \/ S!NoResponse \/ S!FlushResponses \/ S!LoopOrPark
  <2>1. s_handler' = s_handler /\ s_request_id' = s_request_id /\ s_inbound' = s_inbound
        /\ s_net' = s_net /\ s_late' = s_late
    BY <1>1, Zenon DEF S!Poll, S!CheckLimit, S!PollCanceled, S!PollExpired, S!ReadNothing,
         S!EnsureWriteable, S!NoResponse, S!FlushResponses, S!LoopOrPark
  <2>2. s_pc # "ended"
    BY <1>1, Zenon DEF S!Poll, S!CheckLimit, S!PollCanceled, S!PollExpired, S!ReadNothing,
         S!EnsureWriteable, S!NoResponse, S!FlushResponses, S!LoopOrPark
  <2> QED BY <2>1, <2>2, Zenon DEF ChannelMoves
<1>2. CASE S!ReadDuplicate \/ S!ReadRequest \/ S!ReadCancel
  <2>1. s_handler' = s_handler /\ s_request_id' = s_request_id
        /\ s_inbound # << >> /\ s_inbound' = Tail(s_inbound)
        /\ s_net' = s_net /\ s_late' = s_late /\ s_pc # "ended"
    BY <1>2, Zenon DEF S!ReadDuplicate, S!ReadRequest, S!ReadCancel, S!Reads
  <2> QED BY <2>1, Zenon DEF ChannelMoves
<1>3. CASE S!ReadThrottled
  <2>1. PICK m : m = Head(s_inbound)
    BY Zenon
  <2>2. /\ s_request_id' = s_request_id /\ s_inbound # << >> /\ s_inbound' = Tail(s_inbound)
        /\ s_net' = s_net /\ s_late' = s_late /\ s_pc # "ended" /\ m.type = "Request"
        /\ \/ Moved(m.call, "throttled") /\ s_pc' # "ended"
           \/ Moved(m.call, "dropped") /\ s_pc' = "ended"
    BY <1>3, <2>1, Zenon DEF S!ReadThrottled, S!Reads, S!Move, S!Drop, Moved
  <2>3. m \in Messages
    BY <2>1, <2>2, SMTT(30) DEF Served
  <2>4. Contains(s_inbound, m)
    BY <2>1, <2>2, TailContains, Zenon DEF Served
  <2>5. m.call \in Callers
    BY <2>2, <2>3, SMTT(30) DEF Messages
  <2>6. s_handler[m.call] = "none" /\ s_request_id[m.call] # NoId
    BY <2>2, <2>3, <2>4, Zenon DEF Served
  <2> QED BY <2>2, <2>5, <2>6, Zenon DEF ChannelMoves
<1>4. ASSUME NEW ids, S!Fail(ids)
      PROVE ChannelMoves /\ s_request_id' = s_request_id
  BY <1>4, FailMoves, Zenon DEF ChannelMoves, S!Fail, S!Drop
<1>5. CASE S!CheckLimitError \/ S!WriteError \/ S!ReadError
  <2>1. PICK ids : S!Fail(ids)
    BY <1>5, Zenon DEF S!CheckLimitError, S!WriteError, S!ReadError
  <2>2. s_net' = s_net /\ s_late' = s_late /\ s_inbound' = s_inbound /\ s_pc # "ended"
    BY <1>5, Zenon DEF S!CheckLimitError, S!WriteError, S!ReadError
  <2> QED BY <1>4, <2>1, <2>2, Zenon
<1>6. CASE S!WriteResponse
  <2>1. s_net' = s_net /\ s_late' = s_late /\ s_inbound' = s_inbound /\ s_pc # "ended"
    BY <1>6, Zenon DEF S!WriteResponse
  <2>2. \/ s_handler' = s_handler /\ s_request_id' = s_request_id
        \/ \E ids : S!Fail(ids)
    BY <1>6, Zenon DEF S!WriteResponse
  <2> QED BY <1>4, <2>1, <2>2, Zenon DEF ChannelMoves
<1>7. CASE S!EndStream
  BY <1>7, Zenon DEF S!EndStream, S!Drop, ChannelMoves
<1>8. CASE S!Yield
  <2>1. /\ Moved(s_yielded, "held") /\ s_request_id' = s_request_id /\ s_polled.read = "some"
        /\ s_net' = s_net /\ s_late' = s_late /\ s_inbound' = s_inbound /\ s_pc # "ended"
    BY <1>8, Zenon DEF S!Yield, S!Move, Moved
  <2>2. s_yielded \in Callers /\ s_handler[s_yielded] = "none"
    BY <2>1, Zenon DEF Served
  <2> QED BY <2>1, <2>2, Zenon DEF ChannelMoves
<1> QED BY <1>1, <1>2, <1>3, <1>5, <1>6, <1>7, <1>8, Zenon DEF S!ChannelTask

\* The channel's task aborts a handler for a cancellation it has read, for a
\* deadline that has passed, or because it ends.
LEMMA ChannelAborts ==
  ASSUME TypeOK, Inv, Served, Link, S!ChannelTask
  PROVE \A c \in s_aborted' : \/ c \in s_aborted \/ result[c] = "Dropped" \/ c \in late
                              \/ s_pc' = "ended"
<1> USE DEF S!taskVars
<1>1. CASE \/ S!Poll \/ S!CheckLimit \/ S!PollCanceled \/ S!ReadNothing
           \/ S!EnsureWriteable \/ S!NoResponse \/ S!FlushResponses \/ S!LoopOrPark
           \/ S!ReadDuplicate \/ S!ReadRequest \/ S!Yield
  BY <1>1, Zenon DEF S!Poll, S!CheckLimit, S!PollCanceled, S!ReadNothing,
       S!EnsureWriteable, S!NoResponse, S!FlushResponses, S!LoopOrPark,
       S!ReadDuplicate, S!ReadRequest, S!Yield
<1>2. CASE \/ S!CheckLimitError \/ S!WriteError \/ S!ReadError \/ S!EndStream
           \/ S!WriteResponse \/ S!ReadThrottled
  BY <1>2, Zenon DEF S!CheckLimitError, S!WriteError, S!ReadError, S!EndStream,
       S!WriteResponse, S!ReadThrottled, S!Fail, S!Drop
<1>3. CASE S!PollExpired
  <2>1. CASE s_aborted' = s_aborted
    BY <2>1, Zenon
  <2>2. ASSUME NEW t \in s_deadlines, t[2] \in s_late, S!expire(t)
        PROVE \A c \in s_aborted' : c \in s_aborted \/ c \in late
    <3>1. PICK i \in DOMAIN s_request_data : t = <<i, s_request_data[i]>>
      BY Zenon DEF Served
    <3>2. t[1] = i /\ t[2] = s_request_data[i]
      BY <3>1, SMTT(30)
    <3> QED BY <2>2, <3>2, Zenon DEF S!expire, S!InFlight, Link
  <2> QED BY <1>3, <2>1, <2>2, Zenon DEF S!PollExpired
<1>4. CASE S!ReadCancel
  <2>1. PICK m : m = Head(s_inbound)
    BY Zenon
  <2>2. s_inbound # << >> /\ m.type = "Cancel" /\ S!cancel_request(m.id)
    BY <1>4, <2>1, Zenon DEF S!ReadCancel, S!Reads
  <2>3. m \in Messages
    BY <2>1, <2>2, SMTT(30) DEF Served
  <2>4. Contains(s_inbound, m)
    BY <2>1, <2>2, TailContains, Zenon DEF Served
  <2>5. PICK c \in Callers : request_id[c] = m.id /\ result[c] = "Dropped"
    BY <2>2, <2>3, <2>4, Zenon DEF Link, CancelsMeant
  <2>6. CASE m.id \in DOMAIN s_request_data
    <3>1. PICK d : d = s_request_data[m.id]
      BY Zenon
    <3>2. d \in Callers /\ s_request_id[d] = m.id
      BY <2>6, <3>1, Zenon DEF Served
    <3>3. m.id # NoId
      BY <2>3, MessageShape, Zenon
    <3>4. request_id[d] = m.id
      BY <3>2, <3>3, Zenon DEF Link, IdsMatch
    <3>5. d = c
      BY <2>5, <3>2, <3>3, <3>4, Zenon DEF Inv, IdsUnique
    <3>6. s_aborted' = s_aborted \cup {d}
      BY <2>2, <2>6, <3>1, Zenon DEF S!cancel_request, S!InFlight
    <3> QED BY <2>5, <3>5, <3>6, Zenon
  <2>7. CASE m.id \notin DOMAIN s_request_data
    BY <2>2, <2>7, Zenon DEF S!cancel_request, S!InFlight
  <2> QED BY <2>6, <2>7, Zenon
<1> QED BY <1>1, <1>2, <1>3, <1>4, Zenon DEF S!ChannelTask

\* A step of the server, the client standing still, keeps what they know if it
\* aborts for a reason, and leaves what is answered.
LEMMA ServerLink ==
  ASSUME Served, Link, UNCHANGED vars, delivered' \in Nat, returned' \in Nat,
         s_late' \subseteq late, IdsMatch', CancelsMeant',
         \A c \in Callers : s_handler[c] \in Answered => s_handler'[c] \in Answered,
         \A c \in s_aborted' : \/ c \in s_aborted \/ result[c] = "Dropped" \/ c \in late
                               \/ s_pc' = "ended",
         s_pc = "ended" => s_pc' = "ended"
  PROVE Link'
<1>1. /\ late' = late
      /\ result' = result /\ inbound' = inbound /\ completion' = completion /\ call' = call
  BY Zenon DEF vars, callVars, queueVars, netVars, sinkVars, wakeVars, runVars, mapVars
<1>2. AbortsMeant'
  BY <1>1, Zenon DEF Link, AbortsMeant
<1>3. RepliesMeant'
  <2> SUFFICES ASSUME NEW r \in Replies, Contains(inbound, r)
               PROVE s_handler'[r.reply] \in Answered
    BY <1>1, Zenon DEF RepliesMeant
  <2>1. r.reply \in Callers
    BY SMTT(30) DEF Replies
  <2> QED BY <2>1, Zenon DEF Link, RepliesMeant
<1>4. AnswersMeant'
  BY <1>1, Zenon DEF Link, AnswersMeant
<1> QED BY <1>1, <1>2, <1>3, <1>4, Zenon DEF Link

\* The ids stay, and so do the cancellations that are not read.
LEMMA ServerReads ==
  ASSUME Served, Link, UNCHANGED vars, s_request_id' = s_request_id,
         s_inbound' = s_inbound \/ (s_inbound # << >> /\ s_inbound' = Tail(s_inbound))
  PROVE IdsMatch' /\ CancelsMeant'
<1>1. request_id' = request_id /\ result' = result /\ Sent' = Sent
  BY Zenon DEF vars, callVars, sinkVars, Sent
<1>2. \A m : Contains(s_inbound', m) => Contains(s_inbound, m)
  <2>1. CASE s_inbound' = s_inbound
    BY <2>1, Zenon
  <2>2. CASE s_inbound # << >> /\ s_inbound' = Tail(s_inbound)
    <3>1. \A m : Contains(Tail(s_inbound), m) => Contains(s_inbound, m)
      BY <2>2, TailContains, Zenon DEF Served
    <3> QED BY <2>2, <3>1, Zenon
  <2> QED BY <2>1, <2>2, Zenon
<1>3. IdsMatch'
  BY <1>1, Zenon DEF Link, IdsMatch, Unwritten
<1>4. CancelsMeant'
  BY <1>1, <1>2, Zenon DEF Link, CancelsMeant
<1> QED BY <1>3, <1>4, Zenon

\* A step that moves one handler is seen of that one only.
LEMMA MovedSeen ==
  ASSUME Served, NEW c \in Callers, NEW to, Moved(c, to)
  PROVE /\ ExecSeen(c) = RunAs(s_handler[c]) /\ ExecSeen(c)' = RunAs(to)
        /\ \A d \in Callers \ {c} : ExecSeen(d)' = ExecSeen(d)
        /\ \A d \in Callers : d # c => s_handler'[d] = s_handler[d]
        /\ s_handler'[c] = to
<1>1. s_handler'[c] = to /\ \A d \in Callers \ {c} : s_handler'[d] = s_handler[d]
  BY Zenon DEF Served, Moved
<1> QED BY <1>1, SeenNow, Zenon

\* A step of the server is not seen at a call.
LEMMA StillSeen ==
  ASSUME UNCHANGED vars
  PROVE /\ CallsSeenKept /\ late' = late
        /\ s_pc' = s_pc /\ s_net' = s_net => OverSeen' = OverSeen
        /\ s_net # "up" /\ s_net' # "up" => OverSeen' = OverSeen
<1>1. result' = result /\ call' = call /\ late' = late /\ rx' = rx /\ net' = net
  BY Zenon DEF vars, callVars, queueVars, netVars
<1>2. CallsSeenKept
  BY <1>1, SeenNow, Zenon DEF CallsSeenKept
<1>3. s_pc' = s_pc /\ s_net' = s_net => OverSeen' = OverSeen
  BY <1>1, Zenon DEF OverSeen
<1>4. s_net # "up" /\ s_net' # "up" => (OverSeen' <=> OverSeen)
  BY Zenon DEF OverSeen
<1> QED BY <1>1, <1>2, <1>3, <1>4, SeenKept, Zenon

\* A request that has an id was made by a call, and sent.
LEMMA CallBegun ==
  ASSUME TypeOK, Inv, Outcomes, Link, NEW c \in Callers, s_request_id[c] # NoId
  PROVE Promise!Reached(c)
<1>1. request_id[c] # NoId
  BY Zenon DEF Link, IdsMatch
<1>2. call[c] # "idle"
  BY <1>1, Zenon DEF Inv, IdsUnique
<1>3. result[c] # "Send"
  BY Zenon DEF Link, IdsMatch, Outcomes, Reasons, Told, Reason
<1>4. SeenAs(result[c], call[c]) \notin {"idle", "unsent"}
  BY <1>2, <1>3, SeenBegun, Zenon
<1> QED BY <1>4, SeenNow, Zenon DEF Promise!Reached

\* What a step is to show: that it keeps Link, and is a step of Calls.
Allowed == Link' /\ [Promise!Next]_(Promise!vars)

\* A handler is executed, returns, hands its response over, or is aborted.
LEMMA HandlerAllowed ==
  ASSUME TypeOK, Inv, Outcomes, Served, Link, NEW c \in Callers, S!Progress(c) \/ S!Serve(c),
         ServerSide
  PROVE Allowed
<1>1. /\ UNCHANGED vars /\ delivered' = delivered /\ returned' = returned
      /\ CallsSeenKept /\ late' = late
  BY StillSeen, Zenon DEF ServerSide
<1>2. /\ s_request_id' = s_request_id /\ s_aborted' = s_aborted /\ s_pc' = s_pc
      /\ s_net' = s_net /\ s_late' = s_late /\ s_inbound' = s_inbound
  BY Zenon DEF S!Progress, S!Execute, S!Serve, S!SendResponse, S!Abort, S!runVars, S!netVars
<1>3. OverSeen' = OverSeen
  BY <1>1, <1>2, StillSeen, Zenon
<1>4. IdsMatch' /\ CancelsMeant'
  BY <1>1, <1>2, ServerReads, Zenon
<1>5. PICK to : Moved(c, to) /\
         \/ s_handler[c] = "held" /\ to = "running"
         \/ s_handler[c] = "running" /\ to = "sending"
         \/ s_handler[c] = "sending" /\ to = "responded"
         \/ s_handler[c] = "sending" /\ to = "unsent" /\ s_pc = "ended"
         \/ s_handler[c] \in {"running", "sending"} /\ to = "aborted" /\ c \in s_aborted
  BY Zenon DEF S!Progress, S!Execute, S!Serve, S!SendResponse, S!Abort, S!Move, Moved
<1>6. /\ ExecSeen(c) = RunAs(s_handler[c]) /\ ExecSeen(c)' = RunAs(to)
      /\ \A d \in Callers \ {c} : ExecSeen(d)' = ExecSeen(d)
      /\ \A d \in Callers : d # c => s_handler'[d] = s_handler[d]
      /\ s_handler'[c] = to
  BY <1>5, MovedSeen, Zenon
<1>7. \A d \in Callers : s_handler[d] \in Answered => s_handler'[d] \in Answered
  BY <1>5, <1>6, Zenon DEF Answered
<1>8. Link'
  <2>1. delivered' \in Nat /\ returned' \in Nat /\ s_late' \subseteq late
    BY <1>1, <1>2, Zenon DEF Link
  <2> QED BY <1>1, <1>2, <1>4, <1>7, <2>1, ServerLink, Zenon
<1>9. Promise!Executes(c, RunAs(s_handler[c]), RunAs(to))
  BY <1>1, <1>3, <1>6, SeenExecution, Zenon
<1>10. CASE s_handler[c] = "held" /\ to = "running"
  <2>1. Promise!Executes(c, "none", "running")
    BY <1>9, <1>10, RunValues, Zenon
  <2>2. Promise!Reached(c)
    BY <1>10, CallBegun, Zenon DEF Served
  <2>3. Promise!Execute(c)
    BY <2>1, <2>2, Zenon DEF Promise!Execute
  <2> QED BY <1>8, <2>3, Zenon DEF Promise!Next, Allowed
<1>11. CASE s_handler[c] = "running" /\ to = "sending"
  <2>1. ExecSeen(c)' = ExecSeen(c)
    BY <1>6, <1>11, RunValues, Zenon
  <2>2. ExecsSeenKept
    BY <1>6, <2>1, Zenon DEF ExecsSeenKept
  <2> QED BY <1>1, <1>3, <1>8, <2>2, SeenQuiet, Zenon DEF Allowed
<1>12. CASE s_handler[c] = "sending" /\ to = "responded"
  <2>1. Promise!Executes(c, "running", "finished")
    BY <1>9, <1>12, RunValues, Zenon
  <2> QED BY <1>8, <2>1, Zenon DEF Promise!Next, Promise!Finish, Allowed
<1>13. CASE \/ s_handler[c] = "sending" /\ to = "unsent" /\ s_pc = "ended"
            \/ s_handler[c] \in {"running", "sending"} /\ to = "aborted" /\ c \in s_aborted
  <2>1. Promise!Executes(c, "running", "stopped")
    <3>1. RunAs(s_handler[c]) = "running" /\ RunAs(to) = "stopped"
      BY <1>13, RunValues, Zenon
    <3> QED BY <1>9, <3>1, Zenon
  <2>2. result[c] = "Dropped" \/ c \in late \/ s_pc = "ended"
    BY <1>13, Zenon DEF Link, AbortsMeant
  <2>3. [d \in Callers |-> CallSeen(d)][c] = "dropped" \/ c \in late \/ OverSeen
    BY <2>2, SeenNow, SeenReturned, Zenon DEF OverSeen
  <2>4. Promise!Stop(c)
    BY <2>1, <2>3, Zenon DEF Promise!Stop
  <2> QED BY <1>8, <2>4, Zenon DEF Promise!Next, Allowed
<1> QED BY <1>5, <1>10, <1>11, <1>12, <1>13, Zenon

\* The channel's task reads, hands a request up, refuses one, answers, or ends.
LEMMA ChannelAllowed ==
  ASSUME TypeOK, Inv, Outcomes, Served, Link, S!ChannelTask, ServerSide
  PROVE Allowed
<1>1. /\ UNCHANGED vars /\ delivered' = delivered /\ returned' = returned
      /\ CallsSeenKept /\ late' = late
  BY StillSeen, Zenon DEF ServerSide
<1>2. /\ s_pc # "ended" /\ s_net' = s_net
      /\ s_request_id' = s_request_id /\ s_late' = s_late
      /\ s_inbound' = s_inbound \/ (s_inbound # << >> /\ s_inbound' = Tail(s_inbound))
      /\ ChannelMoves
  BY ChannelStep, Zenon
<1>3. IdsMatch' /\ CancelsMeant'
  BY <1>1, <1>2, ServerReads, Zenon
<1>4. ASSUME \A d \in Callers : s_handler[d] \in Answered => s_handler'[d] \in Answered
      PROVE Link'
  <2>1. delivered' \in Nat /\ returned' \in Nat /\ s_late' \subseteq late
    BY <1>1, <1>2, Zenon DEF Link
  <2> QED BY <1>1, <1>2, <1>3, <1>4, <2>1, ChannelAborts, ServerLink, Zenon
<1>5. OverSeen => OverSeen'
  <2>1. rx' = rx /\ net' = net
    BY <1>1, Zenon DEF vars, queueVars, netVars
  <2> QED BY <1>2, <2>1, Zenon DEF OverSeen
<1>6. s_pc' # "ended" => (OverSeen' <=> OverSeen)
  <2>1. rx' = rx /\ net' = net
    BY <1>1, Zenon DEF vars, queueVars, netVars
  <2> QED BY <1>2, <2>1, Zenon DEF OverSeen
<1>7. /\ s_pc' # "ended" => OverSeen' = OverSeen
      /\ OverSeen => OverSeen' = OverSeen
  BY <1>5, <1>6, SeenKept, Zenon
<1>8. CASE s_handler' = s_handler
  <2>1. Link'
    BY <1>4, <1>8, Zenon
  <2>2. ExecsSeenKept
    BY <1>8, SeenNow, Zenon DEF ExecsSeenKept
  <2> QED BY <1>1, <1>5, <2>1, <2>2, SeenQuiet, Zenon DEF Allowed
<1>9. ASSUME NEW c \in Callers, NEW to, s_handler[c] = "none", Moved(c, to)
      PROVE /\ Link' /\ ExecSeen(c) = "none" /\ ExecSeen(c)' = RunAs(to)
            /\ \A d \in Callers \ {c} : ExecSeen(d)' = ExecSeen(d)
  <2>1. /\ ExecSeen(c) = RunAs("none") /\ ExecSeen(c)' = RunAs(to)
        /\ \A d \in Callers \ {c} : ExecSeen(d)' = ExecSeen(d)
        /\ \A d \in Callers : d # c => s_handler'[d] = s_handler[d]
    BY <1>9, MovedSeen, Zenon
  <2>2. \A d \in Callers : s_handler[d] \in Answered => s_handler'[d] \in Answered
    BY <1>9, <2>1, Zenon DEF Answered
  <2> QED BY <1>4, <2>1, <2>2, RunValues, Zenon
<1>10. ASSUME NEW c \in Callers, s_handler[c] = "none", Moved(c, "held") PROVE Allowed
  <2>1. /\ Link' /\ ExecSeen(c) = "none" /\ ExecSeen(c)' = RunAs("held")
        /\ \A d \in Callers \ {c} : ExecSeen(d)' = ExecSeen(d)
    BY <1>9, <1>10, Zenon
  <2>2. ExecsSeenKept
    BY <2>1, RunValues, Zenon DEF ExecsSeenKept
  <2> QED BY <1>1, <1>5, <2>1, <2>2, SeenQuiet, Zenon DEF Allowed
<1>11. ASSUME NEW c \in Callers, s_handler[c] = "none", s_request_id[c] # NoId,
              Moved(c, "throttled"), s_pc' # "ended"
       PROVE Allowed
  <2>1. /\ Link' /\ ExecSeen(c) = "none" /\ ExecSeen(c)' = RunAs("throttled")
        /\ \A d \in Callers \ {c} : ExecSeen(d)' = ExecSeen(d)
    BY <1>9, <1>11, Zenon
  <2>2. Promise!Executes(c, "none", "refused")
    BY <1>1, <1>7, <1>11, <2>1, RunValues, SeenExecution, Zenon
  <2>3. Promise!Reached(c)
    BY <1>11, CallBegun, Zenon
  <2>4. Promise!Refuse(c)
    BY <2>2, <2>3, Zenon DEF Promise!Refuse
  <2> QED BY <2>1, <2>4, Zenon DEF Promise!Next, Allowed
<1>12. ASSUME NEW c \in Callers, s_handler[c] = "none", s_request_id[c] # NoId,
              Moved(c, "dropped"), s_pc' = "ended"
       PROVE Allowed
  <2>1. /\ Link' /\ ExecSeen(c) = "none" /\ ExecSeen(c)' = "stopped"
        /\ \A d \in Callers \ {c} : ExecSeen(d)' = ExecSeen(d)
    BY <1>9, <1>12, RunValues, Zenon
  <2>2. Promise!Reached(c)
    BY <1>12, CallBegun, Zenon
  <2>3. CASE OverSeen
    <3>1. Promise!Executes(c, "none", "stopped")
      BY <1>1, <1>7, <2>1, <2>3, SeenExecution, Zenon
    <3>2. Promise!Stop(c)
      BY <2>2, <2>3, <3>1, Zenon DEF Promise!Stop
    <3> QED BY <2>1, <3>2, Zenon DEF Promise!Next, Allowed
  <2>4. CASE ~OverSeen
    <3>1. OverSeen'
      BY <1>12, Zenon DEF OverSeen
    <3>2. [d \in Callers |-> ExecSeen(d)]'
            = [[d \in Callers |-> ExecSeen(d)] EXCEPT ![c] = "stopped"]
      BY <2>1, SeenExecs, Zenon
    <3>3. [d \in Callers |-> CallSeen(d)]' = [d \in Callers |-> CallSeen(d)]
      BY <1>1, SeenKept, Zenon
    <3>4. [d \in Callers |-> ExecSeen(d)][c] = "none"
      BY <2>1, Zenon
    <3>5. Promise!Over
      BY <1>1, <2>2, <2>4, <3>1, <3>2, <3>3, <3>4, Zenon DEF Promise!Over
    <3> QED BY <2>1, <3>5, Zenon DEF Promise!Next, Allowed
  <2> QED BY <2>3, <2>4, Zenon
<1> QED BY <1>2, <1>8, <1>10, <1>11, <1>12, Zenon DEF ChannelMoves

-----------------------------------------------------------------------------
(* The connection                                                          *)

\* What was flushed was sent.
LEMMA FlushedSent ==
  ASSUME TypeOK, NEW k \in 1..Len(wire)
  PROVE /\ wire[k] \in Messages /\ Sent \in Seq(Messages)
        /\ k \in 1..Len(Sent) /\ Sent[k] = wire[k]
<1>1. wire \in Seq(Messages) /\ sink \in Seq(Messages)
  BY Zenon DEF TypeOK
<1> HIDE DEF Messages
<1>2. Sent \in Seq(Messages) /\ Len(Sent) = Len(wire) + Len(sink)
  BY <1>1, SMTT(30) DEF Sent
<1>3. Len(wire) \in Nat /\ Len(sink) \in Nat /\ wire[k] \in Messages
  BY <1>1, SMTT(30)
<1>4. Sent[k] = wire[k]
  BY <1>1, SMTT(30) DEF Sent
<1>5. k \in 1..Len(Sent)
  BY <1>2, <1>3, SMTT(30)
<1> QED BY <1>2, <1>3, <1>4, <1>5, Zenon

\* A request that was flushed carries its call's id, and a cancellation the id
\* of a call that was dropped.
LEMMA FlushedMeant ==
  ASSUME TypeOK, Outcomes, NEW k \in 1..Len(wire)
  PROVE /\ wire[k].type = "Request" =>
             request_id[wire[k].call] = wire[k].id /\ ~Unwritten(wire[k].call)
        /\ wire[k].type = "Cancel" =>
             \E c \in Callers : request_id[c] = wire[k].id /\ result[c] = "Dropped"
<1>1. /\ wire[k] \in Messages /\ Sent \in Seq(Messages)
      /\ k \in 1..Len(Sent) /\ Sent[k] = wire[k]
  BY FlushedSent, Zenon
<1>2. ASSUME NEW j \in 1..Len(Sent), Sent[j].type = "Request"
      PROVE /\ Sent[j] \in Messages /\ request_id[Sent[j].call] = Sent[j].id
            /\ ~Unwritten(Sent[j].call)
  <2>1. Sent[j] \in Messages
    BY <1>1, SMTT(30)
  <2>2. Contains(Sent, Sent[j])
    BY Zenon DEF Contains
  <2> QED BY <1>2, <2>1, <2>2, Zenon DEF Outcomes, Sends, Unwritten
<1>3. ASSUME wire[k].type = "Cancel"
      PROVE \E c \in Callers : request_id[c] = wire[k].id /\ result[c] = "Dropped"
  <2>1. PICK j \in 1..(k - 1) : /\ Sent[j].type = "Request" /\ Sent[j].id = Sent[k].id
                                /\ result[Sent[j].call] = "Dropped"
    BY <1>1, <1>3, Zenon DEF Outcomes, Sends, Ordered
  <2>2. j \in 1..Len(Sent)
    <3>1. Len(Sent) \in Nat
      BY <1>1, SMTT(30)
    <3> QED BY <1>1, <3>1, SMTT(30)
  <2>3. Sent[j] \in Messages /\ request_id[Sent[j].call] = Sent[j].id
    BY <1>2, <2>1, <2>2, Zenon
  <2>4. Sent[j].call \in Callers
    BY <2>1, <2>3, MessageShape, Zenon
  <2> QED BY <1>1, <2>1, <2>3, <2>4, Zenon
<1> QED BY <1>1, <1>2, <1>3, Zenon

\* A step that touches no handler is seen as nothing, or as the end.
LEMMA QuietAllowed ==
  ASSUME Served, Link, UNCHANGED vars, delivered' \in Nat, returned' \in Nat,
         s_late' \subseteq late, IdsMatch', CancelsMeant', s_handler' = s_handler,
         s_aborted' = s_aborted \/ s_pc' = "ended",
         s_pc = "ended" => s_pc' = "ended", s_net # "up" => s_net' # "up"
  PROVE Allowed
<1>1. Link'
  BY ServerLink, Zenon
<1>2. CallsSeenKept /\ late' = late /\ rx' = rx /\ net' = net
  BY StillSeen, Zenon DEF vars, queueVars, netVars
<1>3. ExecsSeenKept
  BY SeenNow, Zenon DEF ExecsSeenKept
<1>4. OverSeen => OverSeen'
  BY <1>2, Zenon DEF OverSeen
<1> QED BY <1>1, <1>2, <1>3, <1>4, SeenQuiet, Zenon DEF Allowed

\* A message of the client arrives.
LEMMA DeliverAllowed ==
  ASSUME TypeOK, Inv, Outcomes, Served, Link, Deliver
  PROVE Allowed
<1>a. s_inbound \in Seq(Messages)
  BY Zenon DEF Served
<1>1. PICK m : m = wire[delivered + 1]
  BY Zenon
<1>2. delivered + 1 \in 1..Len(wire) /\ delivered' \in Nat
  <2>1. delivered \in Nat /\ wire \in Seq(Messages)
    BY Zenon DEF Link, TypeOK
  <2>2. Len(wire) \in Nat
    BY <2>1, Places, Zenon
  <2>3. delivered < Len(wire) /\ delivered' = delivered + 1
    BY Zenon DEF Deliver
  <2> QED BY <2>1, <2>2, <2>3, NextPlace, Zenon
<1>3. m \in Messages
  BY <1>1, <1>2, FlushedSent, Zenon
<1>4. /\ m.type = "Request" => request_id[m.call] = m.id /\ ~Unwritten(m.call)
      /\ m.type = "Cancel" => \E c \in Callers : request_id[c] = m.id /\ result[c] = "Dropped"
  BY <1>1, <1>2, FlushedMeant, Zenon
<1>5. /\ UNCHANGED vars /\ returned' \in Nat /\ request_id' = request_id /\ result' = result
      /\ \A c : Unwritten(c)' <=> Unwritten(c)
  <2>1. UNCHANGED vars /\ returned' \in Nat
    BY Zenon DEF Deliver, Link
  <2>2. request_id' = request_id /\ result' = result /\ Sent' = Sent
    BY <2>1, Zenon DEF vars, callVars, sinkVars, Sent
  <2> QED BY <2>1, <2>2, Zenon DEF Unwritten
<1>6. CASE m.type = "Request" /\ S!SendRequest(m.call) /\ s_request_id'[m.call] = m.id
  <2>1. PICK i \in 0..(Cardinality(Callers) - 1) :
          /\ s_request_id' = [s_request_id EXCEPT ![m.call] = i]
          /\ s_inbound' = Append(s_inbound, [type |-> "Request", id |-> i, call |-> m.call])
    BY <1>6, Zenon DEF S!SendRequest
  <2>2. m.call \in Callers
    BY <1>3, <1>6, MessageShape, Zenon
  <2>3. PICK e : e = [type |-> "Request", id |-> i, call |-> m.call]
    BY Zenon
  <2>4. e \in Messages /\ e.type # "Cancel"
    BY <2>2, <2>3, IdsAreNumbers, MessageMade, Zenon
  <2>5. IdsMatch'
    <3>1. \A d \in Callers : d # m.call => s_request_id'[d] = s_request_id[d]
      BY <2>1, Zenon DEF Served
    <3> QED BY <1>4, <1>5, <1>6, <3>1, Zenon DEF Link, IdsMatch
  <2>6. CancelsMeant'
    <3>1. \A x : Contains(Append(s_inbound, e), x) <=> Contains(s_inbound, x) \/ x = e
      BY <1>a, <2>4, AppendContains, Zenon
    <3>2. s_inbound' = Append(s_inbound, e)
      BY <2>1, <2>3, Zenon
    <3> QED BY <1>5, <2>4, <3>1, <3>2, Zenon DEF Link, CancelsMeant
  <2>7. /\ s_handler' = s_handler /\ s_aborted' = s_aborted /\ s_pc' = s_pc
        /\ s_net' = s_net /\ s_late' = s_late
    BY <1>6, Zenon DEF S!SendRequest, S!runVars
  <2>8. s_late' \subseteq late
    BY <2>7, Zenon DEF Link
  <2> QED BY <1>2, <1>5, <2>5, <2>6, <2>7, <2>8, QuietAllowed, Zenon
<1>7. ASSUME m.type = "Cancel", NEW c \in Callers, s_request_id[c] = m.id, S!SendCancel(c)
      PROVE Allowed
  <2>1. PICK e : e = [type |-> "Cancel", id |-> m.id]
    BY Zenon
  <2>2. e \in Messages /\ e.id = m.id
    BY <1>3, <1>7, <2>1, MessageShape, MessageMade, Zenon
  <2>3. s_inbound' = Append(s_inbound, e) /\ s_request_id' = s_request_id
    BY <1>7, <2>1, Zenon DEF S!SendCancel, S!taskVars
  <2>4. IdsMatch'
    BY <1>5, <2>3, Zenon DEF Link, IdsMatch
  <2>5. CancelsMeant'
    <3>1. \A x : Contains(Append(s_inbound, e), x) <=> Contains(s_inbound, x) \/ x = e
      BY <1>a, <2>2, AppendContains, Zenon
    <3> QED BY <1>4, <1>5, <1>7, <2>2, <2>3, <3>1, Zenon DEF Link, CancelsMeant
  <2>6. /\ s_handler' = s_handler /\ s_aborted' = s_aborted /\ s_pc' = s_pc
        /\ s_net' = s_net /\ s_late' = s_late
    BY <1>7, Zenon DEF S!SendCancel, S!runVars, S!taskVars
  <2>7. s_late' \subseteq late
    BY <2>6, Zenon DEF Link
  <2> QED BY <1>2, <1>5, <2>4, <2>5, <2>6, <2>7, QuietAllowed, Zenon
<1>8. CASE s_pc = "ended" /\ UNCHANGED s_vars
  <2>1. /\ s_handler' = s_handler /\ s_aborted' = s_aborted /\ s_pc' = s_pc
        /\ s_net' = s_net /\ s_late' = s_late /\ s_inbound' = s_inbound
        /\ s_request_id' = s_request_id
    BY <1>8, Zenon DEF s_vars
  <2>2. s_late' \subseteq late /\ IdsMatch' /\ CancelsMeant'
    BY <1>5, <2>1, ServerReads, Zenon DEF Link
  <2> QED BY <1>2, <1>5, <2>1, <2>2, QuietAllowed, Zenon
<1> QED BY <1>1, <1>6, <1>7, <1>8, Zenon DEF Deliver

\* The server's clock, the end of its stream, and an application that stops.
LEMMA AroundAllowed ==
  ASSUME Served, Link, ClientGone \/ Stops \/ \E c \in Callers : ServerLate(c)
  PROVE Allowed
<1>1. UNCHANGED vars /\ delivered' \in Nat /\ returned' \in Nat
  BY Zenon DEF ClientGone, Stops, ServerLate, ServerSide, Link
<1>2. /\ s_request_id' = s_request_id /\ s_inbound' = s_inbound /\ s_handler' = s_handler
      /\ s_aborted' = s_aborted \/ s_pc' = "ended"
      /\ s_pc = "ended" => s_pc' = "ended"
      /\ s_net # "up" => s_net' # "up"
  BY Zenon DEF ClientGone, Stops, ServerLate, S!Eof, S!Disconnect, S!Stop, S!Drop, S!Late,
       S!taskVars, S!runVars, S!netVars
<1>3. s_late' \subseteq late
  <2>1. CASE ClientGone \/ Stops
    BY <2>1, Zenon DEF ClientGone, Stops, S!Eof, S!Disconnect, S!Stop, S!netVars, Link
  <2>2. ASSUME NEW c \in Callers, ServerLate(c) PROVE s_late' \subseteq late
    BY <2>2, Zenon DEF ServerLate, S!Late, Link
  <2> QED BY <2>1, <2>2, Zenon
<1>4. IdsMatch' /\ CancelsMeant'
  BY <1>1, <1>2, ServerReads, Zenon
<1> QED BY <1>1, <1>2, <1>3, <1>4, QuietAllowed, Zenon

\* A step of the client, or a response that arrives.
LEMMA ClientAllowed ==
  ASSUME TypeOK, Inv, Outcomes, OwnReply', Served, Link,
         \/ ClientRuns \/ Leaves \/ ServerGone \/ Reach
         \/ \E c \in Callers : Begins(c) \/ GivesUp(c) \/ ClientLate(c)
  PROVE Allowed
<1>1. UNCHANGED s_vars /\ delivered' = delivered
  BY Zenon DEF ClientRuns, Leaves, Reach, ServerGone, Begins, GivesUp, ClientLate, ClientSide
<1>2. [Next]_vars
  BY Zenon DEF ClientRuns, Leaves, Reach, ServerGone, Begins, GivesUp, ClientLate, Next,
               Caller, Progress
<1>3. [Promise!Next]_(Promise!vars)
  BY <1>1, <1>2, ClientPromise, Zenon
<1>4. delivered' \in Nat /\ delivered \in Nat /\ returned \in Nat
  BY <1>1, Zenon DEF Link
<1>5. CASE \/ ClientRuns \/ Leaves \/ ServerGone
           \/ \E c \in Callers : Begins(c) \/ GivesUp(c) \/ ClientLate(c)
  <2>1. returned' \in Nat
    BY <1>4, <1>5, Zenon DEF ClientRuns, Leaves, ServerGone, Begins, GivesUp, ClientLate,
                             ClientSide
  <2>2. \/ \E c \in Callers : Caller(c) \/ Late(c)
        \/ DropToDispatch \/ DropCancellation \/ Dispatch \/ Eof
    BY <1>5, Zenon DEF ClientRuns, Leaves, ServerGone, Begins, GivesUp, ClientLate,
                       Caller, Progress
  <2>3. inbound' = inbound \/ (inbound # << >> /\ inbound' = Tail(inbound))
    BY <2>2, StepInbound, Zenon
  <2>4. Link'
    BY <1>1, <1>2, <1>4, <2>1, <2>3, ClientLink, Zenon
  <2> QED BY <1>3, <2>4, Zenon DEF Allowed
<1>6. CASE Reach
  <2>1. PICK r : r = s_wire[returned + 1]
    BY Zenon
  <2>2. returned' \in Nat /\ returned + 1 \in 1..Len(s_wire) /\ r \in Replies
    <3>1. returned < Len(s_wire) /\ returned' = returned + 1
      BY <1>6, Zenon DEF Reach
    <3>2. s_wire \in Seq(Replies)
      BY Zenon DEF Served
    <3> HIDE DEF Replies
    <3>3. Len(s_wire) \in Nat
      BY <3>2, Places, Zenon
    <3>4. returned' \in Nat /\ returned + 1 \in 1..Len(s_wire)
      BY <1>4, <3>1, <3>3, NextPlace, Zenon
    <3>5. r \in Replies
      BY <2>1, <3>2, <3>4, Places, Zenon
    <3> QED BY <3>4, <3>5, Zenon
  <2>3. Contains(s_wire, r)
    BY <2>1, <2>2, Zenon DEF Contains
  <2>4. s_handler[r.reply] \in Answered
    BY <2>2, <2>3, Zenon DEF Served
  <2>5. inbound' = Append(inbound, r) \/ inbound' = inbound
    BY <1>6, <2>1, Zenon DEF Reach, vars, netVars
  <2>6. Link'
    BY <1>1, <1>2, <1>4, <2>2, <2>4, <2>5, ClientLink, Zenon
  <2> QED BY <1>3, <2>6, Zenon DEF Allowed
<1> QED BY <1>5, <1>6, Zenon

\* Every step of the two ends and of the connection keeps what they know of
\* each other, and is one that Calls allows.
LEMMA StepAllowed ==
  ASSUME TypeOK, Inv, Outcomes, Inv', Served, Link, [RpcNext]_rpc_vars
  PROVE Allowed
<1>1. CASE UNCHANGED rpc_vars
  <2>1. UNCHANGED vars /\ UNCHANGED s_vars /\ delivered' \in Nat /\ returned' \in Nat
    BY <1>1, Zenon DEF rpc_vars, Link
  <2>2. /\ s_handler' = s_handler /\ s_aborted' = s_aborted /\ s_pc' = s_pc
        /\ s_net' = s_net /\ s_late' = s_late /\ s_inbound' = s_inbound
        /\ s_request_id' = s_request_id
    BY <2>1, Zenon DEF s_vars
  <2>3. s_late' \subseteq late /\ IdsMatch' /\ CancelsMeant'
    BY <2>1, <2>2, ServerReads, Zenon DEF Link
  <2> QED BY <2>1, <2>2, <2>3, QuietAllowed, Zenon
<1>2. OwnReply'
  BY Zenon DEF Inv
<1>3. CASE \/ ClientRuns \/ Leaves \/ ServerGone \/ Reach
           \/ \E c \in Callers : Begins(c) \/ GivesUp(c) \/ ClientLate(c)
  BY <1>2, <1>3, ClientAllowed, Zenon
<1>4. CASE ServerRuns \/ \E c \in Callers : Serves(c)
  BY <1>4, HandlerAllowed, ChannelAllowed, Zenon DEF ServerRuns, Serves
<1>5. CASE Deliver
  BY <1>5, DeliverAllowed, Zenon
<1>6. CASE ClientGone \/ Stops \/ \E c \in Callers : ServerLate(c)
  BY <1>6, AroundAllowed, Zenon
<1>7. CASE RpcTerminated
  BY <1>1, <1>7, Zenon DEF RpcTerminated
<1> QED BY <1>1, <1>3, <1>4, <1>5, <1>6, <1>7, Zenon DEF RpcNext, Steps, Connection

\* Before the first call nothing was sent, and nothing is seen.
LEMMA InitAllowed ==
  ASSUME RpcInit
  PROVE Link /\ Promise!Init
<1>1. /\ call = [c \in Callers |-> "idle"] /\ request_id = [c \in Callers |-> NoId]
      /\ result = [c \in Callers |-> "none"] /\ completion = [c \in Callers |-> "none"]
      /\ ~terminal_error /\ inbound = << >> /\ net = "up" /\ rx = "open" /\ late = {}
      /\ delivered = 0 /\ returned = 0
  BY Zenon DEF RpcInit, Init
<1>2. /\ s_handler = [c \in Callers |-> "none"] /\ s_aborted = {} /\ s_pc = "parked"
      /\ s_request_id = [c \in Callers |-> NoId]
      /\ s_net = "up" /\ s_late = {} /\ s_inbound = << >>
  BY Zenon DEF RpcInit, S!Init, S!NoId, NoId
<1>3. delivered \in Nat /\ returned \in Nat
  BY <1>1, SMTT(30)
<1>4. IdsMatch /\ AbortsMeant
  BY <1>2, Zenon DEF IdsMatch, AbortsMeant
<1>5. CancelsMeant /\ RepliesMeant
  BY <1>1, <1>2, EmptyContains, Zenon DEF CancelsMeant, RepliesMeant
<1>6. AnswersMeant
  BY <1>1, NoCallMarks, Zenon DEF AnswersMeant
<1>7. Link
  BY <1>1, <1>2, <1>3, <1>4, <1>5, <1>6, Zenon DEF Link
<1>8. \A c \in Callers : CallSeen(c) = "idle" /\ ExecSeen(c) = "none"
  <2> SUFFICES ASSUME NEW c \in Callers PROVE CallSeen(c) = "idle" /\ ExecSeen(c) = "none"
    BY Zenon
  <2>1. CallSeen(c) = SeenAs("none", "idle") /\ ExecSeen(c) = RunAs("none")
    BY <1>1, <1>2, SeenNow, Zenon
  <2> QED BY <2>1, SeenWaiting, RunValues, Zenon
<1>9. OverSeen = FALSE
  BY <1>1, <1>2, SMTT(30) DEF OverSeen
<1>10. Promise!Init
  BY <1>1, <1>8, <1>9, Zenon DEF Promise!Init
<1> QED BY <1>7, <1>10, Zenon

-----------------------------------------------------------------------------
(* Each end by itself                                                      *)

\* The proofs about Server, of this server.
P == INSTANCE ServerProofs WITH
       Ids <- 0..(Cardinality(Callers) - 1), Faults <- ServerFaults,
       handler <- s_handler, request_id <- s_request_id, aborted <- s_aborted,
       pending_responses <- s_pending_responses,
       canceled_requests <- s_canceled_requests, pc <- s_pc,
       polled <- s_polled, throttling <- s_throttling, yielded <- s_yielded,
       request_data <- s_request_data, deadlines <- s_deadlines,
       cause <- s_cause, registered <- s_registered, woken <- s_woken,
       sink <- s_sink, wire <- s_wire, inbound <- s_inbound, net <- s_net,
       stalled <- s_stalled, stalls <- s_stalls, late <- s_late,
       revoked <- s_revoked

\* The server is given the calls of the client, and ids that it may use.
LEMMA ServerAssumptions == P!NamesAssumption /\ P!BoundsAssumption
<1>1. IsFiniteSet(Callers) /\ "none" \notin Callers
  BY CallersAssumption, Zenon DEF Marks
<1>2. P!IsFiniteSet(Callers)
  BY <1>1, Zenon DEF IsFiniteSet, P!IsFiniteSet
<1>3. 0..(Cardinality(Callers) - 1) \subseteq Nat
  BY IdsAreNumbers, Zenon
<1>4. P!NamesAssumption
  BY <1>1, <1>2, <1>3, Zenon DEF P!NamesAssumption
<1>5. P!BoundsAssumption
  BY BoundsAssumption, EndsAssumption, Zenon
     DEF P!BoundsAssumption, P!AllFaults, S!AllFaults
<1> QED BY <1>4, <1>5, Zenon

\* The actions Rpc takes from Server are those the proofs are about.
LEMMA SameServer ==
  /\ S!Init => P!Init
  /\ S!Next => P!Next
  /\ UNCHANGED s_vars => UNCHANGED P!vars
<1>1. S!Init => P!Init
  BY Zenon DEF S!Init, P!Init, S!NoId, P!NoId, S!Unpolled, P!Unpolled
<1>2. S!Next => P!Next
  <2> USE DEF S!Next, S!Handler, S!Execute, S!Serve, S!SendResponse, S!Abort,
        S!DropHandler, S!Move, S!cancel, S!Live, S!SendRequest, S!SendCancel, S!Late,
        S!ChannelTask, S!Poll, S!CheckLimit, S!CheckLimitError, S!PollCanceled,
        S!PollExpired, S!ReadDuplicate, S!ReadRequest, S!ReadThrottled, S!ReadCancel,
        S!ReadNothing, S!ReadError, S!EnsureWriteable, S!WriteResponse, S!NoResponse,
        S!FlushResponses, S!WriteError, S!EndStream, S!Yield, S!LoopOrPark, S!Stop,
        S!Stall, S!Unstall, S!Eof, S!Break, S!Disconnect, S!Terminated, S!Start,
        S!Remove, S!remove_request, S!cancel_request, S!expire, S!MayFail, S!MayRefuse, S!Full,
        S!Flush, S!CanFlush, S!transport_send, S!abort_all, S!Drop, S!Fail,
        S!OverLimit, S!Reads, S!Combined, S!sends, S!Register, S!Notify, S!InFlight,
        S!Unpolled, S!NoId, S!Cardinality, S!taskVars, S!queueVars, S!mapVars,
        S!runVars, S!wakeVars, S!sinkVars, S!netVars, S!vars
  <2> USE DEF P!Next, P!Handler, P!Execute, P!Serve, P!SendResponse, P!Abort,
        P!DropHandler, P!Move, P!cancel, P!Live, P!SendRequest, P!SendCancel, P!Late,
        P!ChannelTask, P!Poll, P!CheckLimit, P!CheckLimitError, P!PollCanceled,
        P!PollExpired, P!ReadDuplicate, P!ReadRequest, P!ReadThrottled, P!ReadCancel,
        P!ReadNothing, P!ReadError, P!EnsureWriteable, P!WriteResponse, P!NoResponse,
        P!FlushResponses, P!WriteError, P!EndStream, P!Yield, P!LoopOrPark, P!Stop,
        P!Stall, P!Unstall, P!Eof, P!Break, P!Disconnect, P!Terminated, P!Start,
        P!Remove, P!remove_request, P!cancel_request, P!expire, P!MayFail, P!MayRefuse, P!Full,
        P!Flush, P!CanFlush, P!transport_send, P!abort_all, P!Drop, P!Fail,
        P!OverLimit, P!Reads, P!Combined, P!sends, P!Register, P!Notify, P!InFlight,
        P!Unpolled, P!NoId, P!Cardinality, P!taskVars, P!queueVars, P!mapVars,
        P!runVars, P!wakeVars, P!sinkVars, P!netVars, P!vars
  <2> QED BY Zenon
<1>3. UNCHANGED s_vars => UNCHANGED P!vars
  BY Zenon DEF s_vars, P!vars, P!taskVars, P!queueVars, P!mapVars, P!runVars,
               P!wakeVars, P!sinkVars, P!netVars
<1> QED BY <1>1, <1>2, <1>3, Zenon

\* A step of Rpc is one of the client, or leaves it alone, and one of the
\* server, or leaves it alone.
LEMMA StepEnds ==
  ASSUME TypeOK, delivered \in Nat, [RpcNext]_rpc_vars
  PROVE [Next]_vars /\ [P!Next]_(P!vars)
<1>1. CASE UNCHANGED rpc_vars
  <2>1. UNCHANGED vars /\ UNCHANGED s_vars
    BY <1>1, Zenon DEF rpc_vars
  <2> QED BY <2>1, SameServer, Zenon
<1>2. CASE \/ ClientRuns \/ Leaves \/ Reach \/ ServerGone
           \/ \E c \in Callers : Begins(c) \/ GivesUp(c) \/ ClientLate(c)
  <2>1. [Next]_vars
    BY <1>2, Zenon DEF ClientRuns, Leaves, Reach, ServerGone, Begins, GivesUp,
                       ClientLate, Next, Caller, Progress
  <2>2. UNCHANGED s_vars
    BY <1>2, Zenon DEF ClientRuns, Leaves, Reach, ServerGone, Begins, GivesUp,
                       ClientLate, ClientSide
  <2> QED BY <2>1, <2>2, SameServer, Zenon
<1>3. CASE \/ ServerRuns \/ Stops \/ Deliver \/ ClientGone \/ RpcTerminated
           \/ \E c \in Callers : Serves(c) \/ ServerLate(c)
  <2>1. UNCHANGED vars
    BY <1>3, Zenon DEF ServerRuns, Stops, Deliver, ClientGone, RpcTerminated, Serves,
                       ServerLate, ServerSide, rpc_vars
  <2>2. CASE ServerRuns \/ Stops \/ ClientGone
    BY <2>1, <2>2, SameServer, Zenon DEF ServerRuns, Stops, ClientGone, S!Next,
                       S!Progress, S!Handler
  <2>3. CASE \E c \in Callers : Serves(c) \/ ServerLate(c)
    BY <2>1, <2>3, SameServer, Zenon DEF Serves, ServerLate, S!Next, S!Handler
  <2>4. CASE RpcTerminated
    BY <2>1, <2>4, SameServer, Zenon DEF RpcTerminated, rpc_vars
  <2>5. CASE Deliver
    <3>1. PICK m : m = wire[delivered + 1]
      BY Zenon
    <3>2. m \in Messages
      <4>1. wire \in Seq(Messages) /\ delivered < Len(wire)
        BY <2>5, Zenon DEF TypeOK, Deliver
      <4>2. delivered + 1 \in 1..Len(wire)
        BY <4>1, Places, NextPlace, Zenon
      <4> QED BY <3>1, <4>1, <4>2, Places, Zenon
    <3>3. m.type = "Request" => m.call \in Callers
      BY <3>2, MessageShape, Zenon
    <3>4. \/ m.type = "Request" /\ S!SendRequest(m.call)
          \/ \E c \in Callers : S!SendCancel(c)
          \/ UNCHANGED s_vars
      BY <2>5, <3>1, Zenon DEF Deliver
    <3> QED BY <2>1, <3>3, <3>4, SameServer, Zenon DEF S!Next
  <2> QED BY <1>3, <2>2, <2>3, <2>4, <2>5, Zenon
<1> QED BY <1>1, <1>2, <1>3, Zenon DEF RpcNext, Steps, Connection

Ends == TypeOK /\ Inv /\ Outcomes /\ P!TypeOK /\ P!Inv

\* So either end keeps the invariant it has with any peer.
LEMMA EndsStep ==
  ASSUME Ends, delivered \in Nat, [RpcNext]_rpc_vars
  PROVE Ends'
<1>1. [Next]_vars /\ [P!Next]_(P!vars)
  BY StepEnds, Zenon DEF Ends
<1>2. TypeOK' /\ Inv'
  BY <1>1, TypeStep, CallerInv, DispatchInv, EnvironmentInv, Zenon
     DEF Ends, Next, Terminated
<1>3. Outcomes'
  BY <1>1, ResultsStep, ReasonsStep, ClosingStep, SendsStep, Zenon DEF Ends, Outcomes
<1>4. P!TypeOK' /\ P!Inv'
  BY <1>1, P!StepInv, ServerAssumptions, Zenon DEF Ends
<1> QED BY <1>2, <1>3, <1>4, Zenon DEF Ends

\* Both ends begin as they would with any peer.
LEMMA InitEnds == RpcInit => Ends
<1> SUFFICES ASSUME RpcInit PROVE Ends
  BY Zenon
<1>1. Init /\ P!Init
  BY SameServer, Zenon DEF RpcInit
<1>2. TypeOK /\ Inv /\ Outcomes
  BY <1>1, InitType, InitInv, InitOutcomes, Zenon
<1>3. P!TypeOK /\ P!Inv
  BY <1>1, P!InitType, P!InitInv, ServerAssumptions, Zenon
<1> QED BY <1>2, <1>3, Zenon DEF Ends

\* What was said of any server is what the client relies on here.
LEMMA EndsServed == P!TypeOK /\ P!Inv => Served
<1> SUFFICES ASSUME P!TypeOK, P!Inv PROVE Served
  BY Zenon
<1>1. P!Messages = Messages /\ P!Replies = Replies
  BY Zenon DEF P!Messages, P!Replies, Messages, Replies
<1>2. /\ s_inbound \in Seq(Messages) /\ s_wire \in Seq(Replies) /\ s_sink \in Seq(Replies)
      /\ s_aborted \subseteq Callers /\ s_yielded \in Callers \cup {"none"}
      /\ s_handler \in [Callers -> {"none"} \cup S!Live \cup S!Ended]
  BY <1>1, Zenon DEF P!TypeOK, P!Live, S!Live, P!Ended, S!Ended
<1>3. s_request_id \in [Callers -> Nat \cup {NoId}]
  <2>1. 0..(Cardinality(Callers) - 1) \subseteq Nat
    BY ServerAssumptions, Zenon DEF P!NamesAssumption
  <2>2. s_request_id \in [Callers -> 0..(Cardinality(Callers) - 1) \cup {NoId}]
    BY Zenon DEF P!TypeOK, P!NoId, NoId
  <2> QED BY <2>1, <2>2, Zenon
<1>4. \A c \in Callers : s_handler[c] # "none" => s_request_id[c] # NoId
  BY Zenon DEF P!Inv, P!Labels, P!NoId, NoId
<1>5. /\ s_yielded \in Callers =>
           s_handler[s_yielded] = "none" /\ s_request_id[s_yielded] # NoId
      /\ s_yielded = "none" <=> s_polled.read # "some"
  BY Zenon DEF P!Inv, P!Positions, P!Phases, P!Labels, P!NoId, NoId
<1>6. /\ \A i \in DOMAIN s_request_data :
           s_request_data[i] \in Callers /\ s_request_id[s_request_data[i]] = i
      /\ s_deadlines = {<<i, s_request_data[i]>> : i \in DOMAIN s_request_data}
  BY Zenon DEF P!TypeOK, P!Inv, P!Labels, P!NoOrphan, P!InFlight
<1>7. \A m \in Messages : Contains(s_inbound, m) /\ m.type = "Request"
        => s_handler[m.call] = "none" /\ s_request_id[m.call] # NoId
  <2> SUFFICES ASSUME NEW m \in Messages, Contains(s_inbound, m), m.type = "Request"
               PROVE s_handler[m.call] = "none" /\ s_request_id[m.call] # NoId
    BY Zenon
  <2>1. m.call \in Callers /\ m.id # NoId
    BY MessageShape, Zenon
  <2>2. m \in P!Range(s_inbound)
    <3>1. DOMAIN s_inbound = 1..Len(s_inbound)
      BY <1>2, Places, Zenon
    <3> QED BY <3>1, Zenon DEF Contains, P!Range
  <2>3. s_request_id[m.call] = m.id
    BY <2>2, Zenon DEF P!Inv, P!Labels
  <2>4. s_handler[m.call] = "none"
    BY <2>1, <2>2, Zenon DEF P!Inv, P!Positions, P!Unread
  <2> QED BY <2>1, <2>3, <2>4, Zenon
<1>8. \A r \in Replies : Contains(s_wire, r) => s_handler[r.reply] \in Answered
  <2> SUFFICES ASSUME NEW r \in Replies, Contains(s_wire, r)
               PROVE s_handler[r.reply] \in Answered
    BY Zenon
  <2>1. r \in P!Range(P!Sent)
    <3>1. PICK k \in 1..Len(s_wire) : s_wire[k] = r
      BY Zenon DEF Contains
    <3> HIDE DEF Replies
    <3>2. k \in DOMAIN (s_wire \o s_sink) /\ (s_wire \o s_sink)[k] = r
      BY <1>2, <3>1, PlacesBefore, Zenon
    <3> QED BY <3>2, Zenon DEF P!Range, P!Sent
  <2> QED BY <2>1, Zenon DEF P!Inv, P!Labels, Answered
<1> QED BY <1>2, <1>3, <1>4, <1>5, <1>6, <1>7, <1>8, Zenon DEF Served

\* A client and a server with a connection between them, for any number of
\* calls, any buffers and limits and any faults of the server's end, do to each
\* call only what Calls allows.  It is executed at most once, and not before it
\* was made.  Its answer is that of its own execution, which has finished
\* (BaseChannel::start_send, DispatchResponse), or of MaxRequests.  A call told
\* that it could not be sent (poll_write_request) was not and is not executed,
\* also if the connection goes on.  Any other error, an abort by the server
\* (InFlightRequests) and a request that is dropped unserved have a reason.
THEOREM CallsAreKept == RpcSpec => KeepsPromise
<1>1. RpcInit => Ends /\ Link /\ Promise!Init
  BY InitEnds, InitAllowed, Zenon
<1>2. Ends /\ Link /\ [RpcNext]_rpc_vars
        => (Ends /\ Link)' /\ [Promise!Next]_(Promise!vars)
  <2> SUFFICES ASSUME Ends, Link, [RpcNext]_rpc_vars
               PROVE Ends' /\ Link' /\ [Promise!Next]_(Promise!vars)
    BY Zenon
  <2>1. Ends'
    BY EndsStep, Zenon DEF Link
  <2>2. Served
    BY EndsServed, Zenon DEF Ends
  <2>3. Allowed
    BY <2>1, <2>2, StepAllowed, Zenon DEF Ends
  <2> QED BY <2>1, <2>3, Zenon DEF Allowed
<1> QED BY <1>1, <1>2, PTL DEF RpcSpec, KeepsPromise, Promise!Spec
=============================================================================
