------------------------------ MODULE Contexts ------------------------------
(***************************************************************************)
(* What travels with a call (tarpc/src/context.rs, trace.rs, util/serde.rs *)
(* and the ends of it in client.rs and server.rs): a deadline, sent as the *)
(* time that is left; a trace context, kept beside the call and, where an  *)
(* OpenTelemetry subscriber is installed, in the tracing span around it;   *)
(* and, on the way back, the kind of an error.                             *)
(*                                                                         *)
(* One chain of calls: process 0 calls process 1, whose handler calls      *)
(* process 2, and so on; then an error returns along the chain.  Each hop  *)
(* is in memory or serialized.  Span ids are left out: they are random.    *)
(***************************************************************************)
EXTENDS Integers, Sequences

CONSTANTS
  MaxNow,      \* bound on the clock
  Hops,        \* bound on the length of the chain
  Timeouts,    \* the timeouts the first caller may ask for
  Base,        \* a byte is a number below Base, a trace id two bytes
  ErrorKinds   \* the kinds of error a handler may return

VARIABLES
  now,
  at,          \* the process that has the call
  where,       \* "app", "queued", "wire", "failed" or "done"
  installed,   \* whether that process has an OpenTelemetry subscriber
  span,        \* the OpenTelemetry context of the span the code runs in
  ctx,         \* the Context of the call
  wire,        \* the Context on the way
  err,         \* the kind of the error on the way back
  origin,      \* the Context the first call was made with
  transit,     \* the time spent on the wire
  kept,        \* whether every handler passed on its request's Context
  raised       \* the kind of error that was raised

vars == <<now, at, where, installed, span, ctx, wire, err, origin, transit,
          kept, raised>>

\* Without a subscriber, and outside every span, a span has no context.
NoSpan == [active |-> FALSE]
NoContext == [deadline |-> 0, trace_id |-> 0, sampled |-> FALSE]

Init ==
  /\ now = 0 /\ at = 0 /\ where = "new" /\ installed = FALSE /\ span = NoSpan
  /\ ctx = NoContext /\ wire = NoContext /\ origin = NoContext
  /\ err = "none" /\ raised = "none" /\ transit = 0 /\ kept = TRUE

-----------------------------------------------------------------------------
(* Conversions                                                             *)

duration_since_abs(later, earlier) ==            \* mutant: the past as well
  IF later > earlier THEN later - earlier ELSE earlier - later
duration_since(later, earlier) == IF later > earlier THEN later - earlier ELSE 0

to_le_bytes(u) == <<u % Base, u \div Base>>
from_le_bytes(b) == b[1] + Base * b[2]
to_be_bytes(u) == <<u \div Base, u % Base>>
from_be_bytes(b) == Base * b[1] + b[2]

\* trace::Context <-> opentelemetry's SpanContext
otel(c) ==
  [active |-> TRUE, trace_id |-> to_be_bytes(c.trace_id), sampled |-> c.sampled,
   deadline |-> c.deadline]

trace_of(s) == [trace_id |-> from_be_bytes(s.trace_id), sampled |-> s.sampled]

with_trace(c, t) ==
  [c EXCEPT !.trace_id = t.trace_id, !.sampled = t.sampled]

\* Context's serde: the deadline as what is left of it, the id as bytes.
serialize(c) ==
  [deadline |-> duration_since(c.deadline, now),
   trace_id |-> to_le_bytes(c.trace_id), sampled |-> c.sampled]
deserialize(w) ==
  [deadline |-> now + w.deadline, trace_id |-> from_le_bytes(w.trace_id),
   sampled |-> w.sampled]

code ==
  [NotFound |-> 0, PermissionDenied |-> 1, ConnectionRefused |-> 2,
   ConnectionReset |-> 3, ConnectionAborted |-> 4, NotConnected |-> 5,
   AddrInUse |-> 6, AddrNotAvailable |-> 7, BrokenPipe |-> 8,
   AlreadyExists |-> 9, WouldBlock |-> 10, InvalidInput |-> 11,
   InvalidData |-> 12, TimedOut |-> 13, WriteZero |-> 14, Interrupted |-> 15,
   Other |-> 16, UnexpectedEof |-> 17]
serialize_io_error_kind_as_u32(kind) ==
  IF kind \in DOMAIN code THEN code[kind] ELSE 16

kind_of ==
  <<"NotFound", "PermissionDenied", "ConnectionRefused", "ConnectionReset",
    "ConnectionAborted", "NotConnected", "AddrInUse", "AddrNotAvailable",
    "BrokenPipe", "AlreadyExists", "WouldBlock", "InvalidInput", "InvalidData",
    "TimedOut", "WriteZero", "Interrupted", "Other", "UnexpectedEof">>
deserialize_io_error_kind_from_u32(n) ==
  IF n < Len(kind_of) THEN kind_of[n + 1] ELSE "Other"

-----------------------------------------------------------------------------
(* Spans                                                                   *)

\* The trace that the OpenTelemetry SDK starts when a span has no parent, or
\* one whose ids are not valid: a new id, and sampled.
root_trace(p) == [trace_id |-> to_be_bytes(p + 2), sampled |-> TRUE]

\* A span made with the given parent: the parent's trace, with its values.
child_span(parent, p) ==
  IF parent.active /\ from_be_bytes(parent.trace_id) # 0
  THEN parent
  ELSE [active |-> TRUE, deadline |-> IF parent.active THEN parent.deadline ELSE -1,
        trace_id |-> root_trace(p).trace_id, sampled |-> TRUE]

ten_seconds_from_now == now + 10

\* Context::current(): of the span the code runs in, or the default.
current ==
  [deadline |-> IF span.active /\ span.deadline >= 0
                THEN span.deadline ELSE ten_seconds_from_now,
   trace_id |-> IF span.active THEN trace_of(span).trace_id ELSE 0,
   sampled |-> span.active /\ span.sampled]

\* The trace context at either end of a call: that of the span made for it,
\* else a child of the one in the Context.
new_child(c) == [trace_id |-> c.trace_id, sampled |-> c.sampled]
trace_context(s, c) == IF s.active THEN trace_of(s) ELSE new_child(c)

-----------------------------------------------------------------------------
(* The way there                                                           *)

\* The first caller makes up a Context: with a timeout of its own, and with
\* no trace or with one it got elsewhere.
Begin(timeout, trace_id, sampled, subscriber) ==
  /\ where = "new"
  /\ ctx' = [deadline |-> now + timeout, trace_id |-> trace_id, sampled |-> sampled]
  /\ origin' = ctx'
  /\ installed' = subscriber
  /\ span' = IF subscriber /\ trace_id # 0
             THEN [otel(ctx') EXCEPT !.deadline = -1] ELSE NoSpan
  /\ where' = "app"
  /\ UNCHANGED <<now, at, wire, err, transit, kept, raised>>

\* Channel::call with the Context c, inside the span of the request being
\* handled (attached) or in a task outside it.
Call(c, attached) ==
  LET parent == IF attached THEN span ELSE NoSpan
      call_span == IF installed THEN child_span(parent, at) ELSE NoSpan IN
  /\ where = "app" /\ at < Hops
  /\ ctx' = with_trace(c, trace_context(call_span, c))
  /\ where' = "queued"
  /\ kept' = (kept /\ (installed => attached) /\ c = ctx)
  /\ UNCHANGED <<now, at, installed, span, wire, err, origin, transit, raised>>

Send(serde) ==
  /\ where = "queued"
  /\ wire' = IF serde THEN [serde |-> TRUE, message |-> serialize(ctx)]
             ELSE [serde |-> FALSE, message |-> ctx]
  /\ where' = "wire"
  /\ UNCHANGED <<now, at, installed, span, ctx, err, origin, transit, kept, raised>>

\* BaseChannel::start_request: the request's span is a child of the Context
\* it came with.
set_context(c) == otel(c)

StartRequest(subscriber) ==
  LET c == IF wire.serde THEN deserialize(wire.message) ELSE wire.message
      s == IF subscriber THEN child_span(set_context(c), at + 1) ELSE NoSpan IN
  /\ where = "wire"
  /\ at' = at + 1
  /\ installed' = subscriber
  /\ span' = s
  /\ ctx' = with_trace(c, trace_context(s, c))
  /\ wire' = NoContext
  /\ where' = "app"
  /\ UNCHANGED <<now, err, origin, transit, kept, raised>>

Tick ==
  /\ now < MaxNow /\ where \in {"app", "queued", "wire"}
  /\ now' = now + 1
  /\ transit' = IF where = "wire" THEN transit + 1 ELSE transit
  /\ UNCHANGED <<at, where, installed, span, ctx, wire, err, origin, kept, raised>>

-----------------------------------------------------------------------------
(* The way back                                                            *)

\* A handler returns a ServerError, and the Context goes with the handler.
Fail(kind) ==
  /\ where = "app" /\ at > 0
  /\ where' = "failed" /\ err' = kind /\ raised' = kind
  /\ ctx' = NoContext /\ span' = NoSpan /\ installed' = FALSE
  /\ origin' = NoContext /\ transit' = 0 /\ kept' = TRUE
  /\ UNCHANGED <<now, at, wire>>

\* The ServerError goes to the caller, whose handler returns it in turn.
Return(serde) ==
  /\ where = "failed"
  /\ err' = IF serde
            THEN deserialize_io_error_kind_from_u32(
                   serialize_io_error_kind_as_u32(err))
            ELSE err
  /\ at' = at - 1
  /\ where' = IF at' = 0 THEN "done" ELSE "failed"
  /\ UNCHANGED <<now, installed, span, ctx, wire, origin, transit, kept, raised>>

Terminated == where = "done" /\ UNCHANGED vars

Next ==
  \/ \E timeout \in Timeouts, sampled, sub \in BOOLEAN :
       Begin(timeout, 0, FALSE, sub) \/ Begin(timeout, 1, sampled, sub)
  \/ Call(current, TRUE) \/ \E attached \in BOOLEAN : Call(ctx, attached)
  \/ \E serde \in BOOLEAN : Send(serde) \/ Return(serde)
  \/ \E sub \in BOOLEAN : StartRequest(sub)
  \/ \E kind \in ErrorKinds : Fail(kind)
  \/ Tick \/ Terminated

Spec == Init /\ [][Next]_vars

-----------------------------------------------------------------------------
(* Properties                                                              *)

\* The deadline is not moved forward: however many hops a request has made,
\* with whatever clocks, no server gives it up before its first caller does.
NotBeforeCaller == kept /\ where # "wire" => ctx.deadline >= origin.deadline

\* Nor is it moved back by more than the time spent on the wire, which the
\* remaining time that is sent does not see: a request that has expired does
\* not come back to life at the next hop.
NoTimeGained ==
  kept /\ where # "wire" =>
    ctx.deadline <= transit + (IF origin.deadline > now THEN origin.deadline ELSE now)

\* The spans of a chain are one trace, sampled if its start was, through
\* processes with and without a subscriber and through both byte orders.
OneTrace ==
  kept /\ where # "wire" /\ origin.trace_id # 0 =>
    ctx.trace_id = origin.trace_id /\ ctx.sampled = origin.sampled

\* context::current() in a handler is the Context of its request, where a
\* subscriber is installed.
CurrentIsRequest ==
  where = "app" /\ at > 0 /\ installed => current = ctx

\* The kind of an error reaches the first caller, or becomes Other because it
\* has no code; the number of hops does not matter.
KindSurvives ==
  where \in {"failed", "done"} =>
    err = raised \/ (err = "Other" /\ raised \notin DOMAIN code)

\* What travels with a request arrives: deadline and trace on the way there,
\* the kind of the error on the way back, over any number of hops.
Carried ==
  NotBeforeCaller /\ NoTimeGained /\ OneTrace /\ CurrentIsRequest /\ KindSurvives
=============================================================================
