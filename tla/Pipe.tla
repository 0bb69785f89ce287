-------------------------------- MODULE Pipe --------------------------------
(***************************************************************************)
(* What the client and the server rely on in one direction of a transport  *)
(* (tarpc/src/transport.rs): the stream yields what the peer's sink took,  *)
(* whole, once and in order, and nothing after it has ended.  A stream     *)
(* that ends in good order has yielded everything, unless the sink was     *)
(* dropped before it was flushed.                                          *)
(***************************************************************************)
EXTENDS Integers, Sequences

CONSTANTS Items

VARIABLES
  sent,   \* the items start_send has taken
  seen,   \* the items poll_next has yielded
  end,    \* what ended the stream: "none" so far, "eof" or "error"
  unsent  \* whether the sink was dropped with items it had not flushed

vars == <<sent, seen, end, unsent>>

Init == sent = << >> /\ seen = << >> /\ end = "none" /\ unsent = FALSE

Send(i) == sent' = Append(sent, i) /\ UNCHANGED <<seen, end, unsent>>

Yield ==
  /\ end = "none" /\ Len(seen) < Len(sent)
  /\ seen' = Append(seen, sent[Len(seen) + 1])
  /\ UNCHANGED <<sent, end, unsent>>

End ==
  /\ end = "none"
  /\ end' \in {"eof", "error"}
  /\ end' = "eof" => seen = sent \/ unsent
  /\ UNCHANGED <<sent, seen, unsent>>

Drop == unsent' = TRUE /\ UNCHANGED <<sent, seen, end>>

Next == (\E i \in Items : Send(i)) \/ Yield \/ End \/ Drop
Spec == Init /\ [][Next]_vars
=============================================================================
