----------------------------- MODULE Transports -----------------------------
(***************************************************************************)
(* One direction of the transports that come with the library:             *)
(*   unbounded  a pair of tokio's unbounded channels,                      *)
(*   bounded    a pair of futures' channels with a capacity                *)
(*              (both tarpc/src/transport/channel.rs),                     *)
(*   serde      items serialized into length-delimited frames on a byte    *)
(*              stream (tarpc/src/serde_transport.rs).                     *)
(* An item of size n is a frame of n chunks of bytes, each labelled with   *)
(* the item; the first chunk holds the length.                             *)
(***************************************************************************)
EXTENDS Integers, Sequences

CONSTANTS
  Items, size,       \* the items sent over it, and the size of their frames
  MaxSent,           \* bound: items sent
  capacity,          \* of the bounded channel
  Boundary,          \* chunks in the write buffer from which on it is flushed
  max_frame_length   \* end -> the longest frame this end of the pair accepts

VARIABLES
  kind,     \* the transport, "none" before it is made
  sent, seen, end,   \* as in Pipe
  buffer,   \* chunks written by start_send, not yet by the socket
  wire,     \* items (or chunks) between the two ends
  read,     \* chunks read, not yet a frame
  tx, rx,   \* the two ends: open, closed (tx), failed (tx), dropped
  unsent,   \* tx was dropped with chunks in its buffer
  refused   \* whether start_send has refused an item

vars == <<kind, sent, seen, end, buffer, wire, read, tx, rx, unsent, refused>>

Init ==
  /\ kind = "none"
  /\ sent = << >> /\ seen = << >> /\ end = "none"
  /\ buffer = << >> /\ wire = << >> /\ read = << >>
  /\ tx = "open" /\ rx = "open" /\ unsent = FALSE /\ refused = FALSE

Make ==
  /\ kind = "none"
  /\ kind' \in {"unbounded", "bounded", "serde"}
  /\ UNCHANGED <<sent, seen, end, buffer, wire, read, tx, rx, unsent, refused>>

-----------------------------------------------------------------------------
(* The Sink                                                                *)

\* poll_ready: a channel whose receiver is gone fails; a sender that has
\* filled the buffer and its own slot is parked; a long write buffer is
\* flushed first.
unbounded_ready == kind = "unbounded" /\ rx = "open"
bounded_ready == kind = "bounded" /\ rx = "open" /\ Len(wire) <= capacity
serde_ready == kind = "serde" /\ Len(buffer) < Boundary
poll_ready == unbounded_ready \/ bounded_ready \/ serde_ready

frame(i) == [n \in 1..size[i] |-> [item |-> i, chunk |-> n]]

\* start_send: the item goes to the channel, or its frame to the buffer.
send_item(i) == kind # "serde" /\ wire' = Append(wire, i) /\ UNCHANGED buffer
send_frame(i) ==
  /\ kind = "serde" /\ size[i] <= max_frame_length["tx"]
  /\ buffer' = buffer \o frame(i) /\ UNCHANGED wire

Send(i) ==
  /\ tx = "open" /\ poll_ready /\ Len(sent) < MaxSent
  /\ send_item(i) \/ send_frame(i)
  /\ sent' = Append(sent, i)
  /\ UNCHANGED <<kind, seen, end, read, tx, rx, unsent, refused>>

\* start_send refuses an item: its frame is too long, or the receiver has gone
\* since poll_ready.  Nothing is taken, and the sink can be used as before,
\* which is what the dispatch of a client does.
SendErr(i) ==
  /\ tx = "open"
  /\ \/ kind \in {"unbounded", "bounded"} /\ rx = "dropped"
     \/ serde_ready /\ size[i] > max_frame_length["tx"]
  /\ refused' = TRUE
  /\ UNCHANGED <<kind, sent, seen, end, buffer, wire, read, tx, rx, unsent>>

\* poll_ready of a channel fails once the receiver is gone, for good.
ReadyErr ==
  /\ tx = "open" /\ kind \in {"unbounded", "bounded"} /\ rx = "dropped"
  /\ tx' = "failed"
  /\ UNCHANGED <<kind, sent, seen, end, buffer, wire, read, rx, unsent, refused>>

\* poll_flush: the channels have nothing to flush; the socket takes chunk by
\* chunk, or fails because the peer is gone.
Flush_lazy ==                                    \* mutant: only a full buffer
  /\ kind = "serde" /\ tx = "open" /\ Len(buffer) >= Boundary
  /\ IF rx = "open"
     THEN wire' = Append(wire, Head(buffer)) /\ buffer' = Tail(buffer) /\ UNCHANGED tx
     ELSE tx' = "failed" /\ UNCHANGED <<wire, buffer>>
  /\ UNCHANGED <<kind, sent, seen, end, read, rx, unsent, refused>>
Flush ==
  /\ kind = "serde" /\ tx = "open" /\ buffer # << >>
  /\ IF rx = "open"
     THEN wire' = Append(wire, Head(buffer)) /\ buffer' = Tail(buffer) /\ UNCHANGED tx
     ELSE tx' = "failed" /\ UNCHANGED <<wire, buffer>>
  /\ UNCHANGED <<kind, sent, seen, end, read, rx, unsent, refused>>

\* poll_close: "UnboundedSender can't initiate closure"; a Sender disconnects;
\* a framed socket is flushed and then shut down.
shutdown_at_once == kind = "serde"               \* mutant: without the flush
shutdown == kind = "serde" /\ buffer = << >>
disconnect == kind = "bounded"
unbounded_close == UNCHANGED tx

Close ==
  /\ tx = "open"
  /\ \/ disconnect /\ tx' = "closed"
     \/ shutdown /\ tx' = "closed"
     \/ kind = "unbounded" /\ unbounded_close
  /\ UNCHANGED <<kind, sent, seen, end, buffer, wire, read, rx, unsent, refused>>

DropTx ==
  /\ kind # "none" /\ tx # "dropped"
  /\ tx' = "dropped"
  /\ unsent' = (buffer # << >>)
  /\ buffer' = << >>
  /\ UNCHANGED <<kind, sent, seen, end, wire, read, rx, refused>>

-----------------------------------------------------------------------------
(* The Stream                                                              *)

Receive ==
  /\ kind \in {"unbounded", "bounded"} /\ rx = "open" /\ end = "none" /\ wire # << >>
  /\ seen' = Append(seen, Head(wire)) /\ wire' = Tail(wire)
  /\ UNCHANGED <<kind, sent, end, buffer, read, tx, rx, unsent, refused>>

Read ==
  /\ kind = "serde" /\ rx = "open" /\ end = "none" /\ wire # << >>
  /\ read' = Append(read, Head(wire)) /\ wire' = Tail(wire)
  /\ UNCHANGED <<kind, sent, seen, end, buffer, tx, rx, unsent, refused>>

\* The decoder: the length, then as many chunks as it says.  A frame that is
\* too long is an error that ends the stream.
complete == read # << >> /\ Len(read) >= size[Head(read).item]

Decode ==
  /\ rx = "open" /\ end = "none" /\ read # << >>
  /\ LET i == Head(read).item IN
     IF size[i] > max_frame_length["rx"]
     THEN end' = "error" /\ UNCHANGED <<seen, read>>
     ELSE /\ complete
          /\ seen' = Append(seen, i)
          /\ read' = SubSeq(read, size[i] + 1, Len(read))
          /\ UNCHANGED end
  /\ UNCHANGED <<kind, sent, buffer, wire, tx, rx, unsent, refused>>

\* Every sender is gone and everything was read; the rest of a frame is an
\* error.
EndOfStream ==
  /\ rx = "open" /\ end = "none" /\ kind # "none"
  /\ tx \in {"closed", "dropped"} /\ wire = << >>
  /\ read # << >> => ~complete /\ size[Head(read).item] <= max_frame_length["rx"]
  /\ end' = IF read = << >> THEN "eof" ELSE "error"
  /\ UNCHANGED <<kind, sent, seen, buffer, wire, read, tx, rx, unsent, refused>>

DropRx ==
  /\ kind # "none" /\ rx = "open"
  /\ rx' = "dropped" /\ wire' = << >>
  /\ UNCHANGED <<kind, sent, seen, end, buffer, read, tx, unsent, refused>>

-----------------------------------------------------------------------------
Stream == Receive \/ Read \/ Decode \/ EndOfStream

Terminated ==
  /\ kind # "none" /\ tx # "open" /\ (rx = "dropped" \/ end # "none")
  /\ UNCHANGED vars

Next == \/ Make
        \/ \E i \in Items : Send(i) \/ SendErr(i)
        \/ ReadyErr \/ Flush \/ Close \/ DropTx \/ Stream \/ DropRx \/ Terminated

Spec == Init /\ [][Next]_vars

-----------------------------------------------------------------------------
(* Properties                                                              *)

ThePipe == INSTANCE Pipe

\* Backpressure: what a slow reader leaves between the ends is bounded, but
\* in the unbounded transport.
Bounded ==
  /\ kind = "bounded" => Len(wire) <= capacity + 1
  /\ kind = "serde" => Len(buffer) < Boundary + max_frame_length["tx"]

\* The Transport contract: each of the three transports is a pipe, which
\* pushes back.
KeepsContract == ThePipe!Spec /\ []Bounded

\* What the sink took arrives while both ends stay, also around items it
\* refused: nothing is left in the write buffer, on the wire, or half read.
\* A sink that was closed ends the peer's stream.
EverythingArrives ==
  []<>(/\ Len(sent) = MaxSent =>
            \/ Len(seen) = MaxSent \/ end = "error"
            \/ tx \in {"failed", "dropped"} \/ rx = "dropped"
       /\ tx = "closed" => end # "none" \/ rx = "dropped")
=============================================================================
