--------------------------------- MODULE Rpc --------------------------------
(***************************************************************************)
(* A client and a server at the two ends of a connection.  Client is       *)
(* extended, and Server instantiated with its variables prefixed by s_.    *)
(* What one end has flushed is what the other receives, in order; an end   *)
(* that is gone is the end of the stream for the other; and a deadline     *)
(* passes at the server after it has at the client (module Contexts).      *)
(***************************************************************************)
EXTENDS Client

CONSTANTS
  ResponseBuffer, Limit,   \* see Server
  ServerFaults             \* the faults of the server's end

VARIABLES
  s_handler, s_request_id, s_aborted, s_pending_responses,
  s_canceled_requests, s_pc, s_polled, s_throttling, s_yielded,
  s_request_data, s_deadlines, s_cause, s_registered, s_woken, s_sink, s_wire,
  s_inbound, s_net, s_stalled, s_stalls, s_late, s_revoked,
  delivered,   \* how many messages of `wire` have reached the server
  returned     \* how many messages of `s_wire` have reached the client

s_vars == <<s_handler, s_request_id, s_aborted, s_pending_responses,
            s_canceled_requests, s_pc, s_polled, s_throttling, s_yielded,
            s_request_data, s_deadlines, s_cause, s_registered, s_woken, s_sink,
            s_wire, s_inbound, s_net, s_stalled, s_stalls, s_late, s_revoked>>
rpc_vars == <<vars, s_vars, delivered, returned>>

S == INSTANCE Server WITH
       Ids <- 0..(Cardinality(Callers) - 1), Faults <- ServerFaults,
       handler <- s_handler, request_id <- s_request_id, aborted <- s_aborted,
       pending_responses <- s_pending_responses,
       canceled_requests <- s_canceled_requests, pc <- s_pc,
       polled <- s_polled, throttling <- s_throttling, yielded <- s_yielded,
       request_data <- s_request_data, deadlines <- s_deadlines,
       cause <- s_cause, registered <- s_registered, woken <- s_woken,
       sink <- s_sink, wire <- s_wire, inbound <- s_inbound, net <- s_net,
       stalled <- s_stalled, stalls <- s_stalls, late <- s_late,
       revoked <- s_revoked

ASSUME EndsAssumption ==
  /\ ResponseBuffer \in Nat \ {0} /\ Limit \in Nat
  /\ ServerFaults \subseteq S!AllFaults

RpcInit == Init /\ S!Init /\ delivered = 0 /\ returned = 0

-----------------------------------------------------------------------------
(* The connection                                                          *)

\* A message of the client arrives; nobody reads it if the server is gone.
Deliver ==
  /\ delivered < Len(wire)
  /\ delivered' = delivered + 1
  /\ LET m == wire[delivered + 1] IN
     \/ m.type = "Request" /\ S!SendRequest(m.call) /\ s_request_id'[m.call] = m.id
     \/ m.type = "Cancel" /\ \E c \in Callers :
          s_request_id[c] = m.id /\ S!SendCancel(c)
     \/ s_pc = "ended" /\ UNCHANGED s_vars
  /\ UNCHANGED <<vars, returned>>

\* A response arrives, or is lost on a dispatch that is gone.
Reach ==
  /\ returned < Len(s_wire)
  /\ returned' = returned + 1
  /\ \/ Reply /\ inbound' = Append(inbound, s_wire[returned + 1])
     \/ pc = "ended" /\ UNCHANGED vars
  /\ UNCHANGED <<s_vars, delivered>>

\* The transport of an end that is gone is dropped, after what it had sent.
ServerGone ==
  /\ s_pc = "ended" /\ returned = Len(s_wire)
  /\ Eof
  /\ UNCHANGED <<s_vars, delivered, returned>>

ClientGone ==
  /\ pc = "ended" /\ delivered = Len(wire)
  /\ S!Eof
  /\ UNCHANGED <<vars, delivered, returned>>

-----------------------------------------------------------------------------
ClientSide == UNCHANGED <<s_vars, delivered, returned>>
ServerSide == UNCHANGED <<vars, delivered, returned>>

\* The caller's choices, and those of the service and its application.
Begins(c) == Call(c) /\ ClientSide
GivesUp(c) == DropCall(c) /\ ClientSide
Leaves == (DropToDispatch \/ DropCancellation) /\ ClientSide
Serves(c) == S!Serve(c) /\ ServerSide
Stops == S!Stop /\ ServerSide

\* Time passes, here and there: the server's deadline is the time that was
\* left, counted from when the request was decoded.
ClientLate(c) == Late(c) /\ ClientSide
ServerLate_early(c) == S!Late(c) /\ ServerSide   \* mutant: a clock ahead
ServerLate(c) == c \in late /\ S!Late(c) /\ ServerSide

\* What the executors and the network do.
ClientRuns == (Dispatch \/ \E c \in Callers : Progress(c)) /\ ClientSide
ServerRuns == (S!ChannelTask \/ \E c \in Callers : S!Progress(c)) /\ ServerSide
Connection == \/ Deliver \/ Reach \/ ServerGone \/ ClientGone
              \/ \E c \in Callers : ServerLate(c)

RpcTerminated ==
  /\ pc = "ended" /\ handle = "dropped" /\ s_pc = "ended"
  /\ \A c \in Callers : s_handler[c] \notin S!Live
  /\ UNCHANGED rpc_vars

Steps ==
  \/ ClientRuns \/ ServerRuns \/ Connection
  \/ \E c \in Callers : Begins(c) \/ Serves(c)
  \/ Leaves \/ Stops \/ RpcTerminated

RpcNext == Steps \/ \E c \in Callers : GivesUp(c) \/ ClientLate(c)

\* Each end runs while some task of it is ready, and the connection delivers.
\* That is less than the executors give, which are fair to every task, and
\* enough, since there is only so much to do.  serve may never return, no
\* deadline has to come, and nobody has to call, to give up or to leave.
RpcFairness == /\ WF_rpc_vars(ClientRuns) /\ WF_rpc_vars(ServerRuns)
               /\ WF_rpc_vars(Connection)

RpcSpec == RpcInit /\ [][RpcNext]_rpc_vars /\ RpcFairness

-----------------------------------------------------------------------------
(* Properties                                                              *)

\* What a caller and a service see of it.
CallSeen(c) ==
  CASE result[c] = "none" -> IF call[c] = "idle" THEN "idle" ELSE "waiting"
    [] result[c] \in Callers -> "ok"
    [] result[c] = "Dropped" -> "dropped"
    [] result[c] = "DeadlineExceeded" -> "deadline"
    [] result[c] = "Send" -> "unsent"
    [] OTHER -> "disconnected"

ExecSeen(c) ==
  CASE s_handler[c] \in {"none", "held"} -> "none"
    [] s_handler[c] \in {"running", "sending"} -> "running"
    [] s_handler[c] = "responded" -> "finished"
    [] s_handler[c] = "throttled" -> "refused"
    [] OTHER -> "stopped"

OverSeen == rx # "open" \/ net # "up" \/ s_pc = "ended" \/ s_net # "up"

Promise == INSTANCE Calls WITH
             call <- [c \in Callers |-> CallSeen(c)],
             exec <- [c \in Callers |-> ExecSeen(c)],
             over <- OverSeen

\* Client, Server and the connection between them implement Calls: at most
\* one execution a call, no answer but a finished execution's or the
\* throttle's, no error and no abort without its reason.
KeepsPromise == Promise!Spec

\* A call that is past its deadline stops its handler at the other end, however
\* the cancellation, the request and the response overtake each other, even if
\* serve never returns; and so does a call that is dropped, unless the dispatch
\* has failed, of whose end a server with requests in flight takes no notice.
GivenUpStops ==
  \A c \in Callers :
    /\ c \in late ~> s_handler[c] \notin S!Live
    /\ call[c] = "done" /\ result[c] = "Dropped"
         ~> s_handler[c] \notin S!Live \/ terminal_error

\* A response that was handed over reaches its caller, if it still waits.
AnswersArrive ==
  \A c \in Callers : s_handler[c] = "responded" ~> result[c] # "none"
=============================================================================
