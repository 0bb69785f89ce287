--------------------------- MODULE MCConnections ----------------------------
(***************************************************************************)
(* The parts of tarpc between the socket and the server's channel, each on *)
(* its own: which one a behaviour is about is chosen in its initial state, *)
(* and the others keep their initial values.                               *)
(***************************************************************************)
EXTENDS ChannelsPerKey

CONSTANTS a1, a2, a3, b1, A, B

MCkeymaker == [ch \in Channels |-> IF ch = b1 THEN B ELSE A]

VARIABLES part,
  t_kind, t_sent, t_seen, t_end, t_buffer, t_wire, t_read, t_tx, t_rx, t_unsent,
  t_refused,
  l_mode, l_socket, l_conn, l_backlog, l_accepting, l_errors, l_channel, l_arrived,
  l_tasks

T == INSTANCE Transports WITH
       Items <- {"a", "b", "large", "huge"},
       size <- [a |-> 1, b |-> 2, large |-> 3, huge |-> 4],
       MaxSent <- 3, capacity <- 1, Boundary <- 2,
       max_frame_length <- [e \in {"tx", "rx"} |-> IF e = "tx" THEN 3 ELSE 2],
       kind <- t_kind, sent <- t_sent, seen <- t_seen, end <- t_end,
       buffer <- t_buffer, wire <- t_wire, read <- t_read, tx <- t_tx, rx <- t_rx,
       unsent <- t_unsent, refused <- t_refused
L == INSTANCE Listener WITH
       Conns <- {"k1", "k2", "k3"}, MaxChannels <- 2, max_in_flight_requests <- 1,
       MaxErrors <- 1,
       mode <- l_mode, socket <- l_socket, conn <- l_conn, backlog <- l_backlog,
       accepting <- l_accepting, errors <- l_errors, channel <- l_channel, arrived <- l_arrived,
       tasks <- l_tasks

t == <<t_kind, t_sent, t_seen, t_end, t_buffer, t_wire, t_read, t_tx, t_rx, t_unsent,
       t_refused>>
l == <<l_mode, l_socket, l_conn, l_backlog, l_accepting, l_errors, l_channel, l_arrived,
       l_tasks>>
all == <<part, vars, t, l>>

MCInit ==
  /\ part \in {"channels_per_key", "transports", "listener"}
  /\ Init /\ T!Init /\ L!Init

\* Only the part in question moves.
AtFilter == part = "channels_per_key" /\ UNCHANGED <<part, t, l>>
AtTransport == part = "transports" /\ UNCHANGED <<part, vars, l>>
AtListener == part = "listener" /\ UNCHANGED <<part, vars, t>>

MCNext == \/ AtFilter /\ Next
          \/ AtTransport /\ T!Next
          \/ AtListener /\ L!Next

\* The executor polls what was woken and the network moves bytes.  Peers,
\* callers and owners owe nothing.
MCSpec ==
  /\ MCInit /\ [][MCNext]_all
  /\ WF_all(AtFilter /\ Filter)
  /\ WF_all(AtTransport /\ T!Flush) /\ WF_all(AtTransport /\ T!Stream)
  /\ WF_all(AtListener /\ L!AcceptSome)
  /\ \A c \in {"k1", "k2", "k3"} : WF_all(AtListener /\ L!Channel(c))

-----------------------------------------------------------------------------
(* What is checked of the parts, besides the invariants of ChannelsPerKey  *)

\* Each transport of the library yields what was sent, whole, once and in
\* order, nothing after the end, and bounds what it buffers.
KeepsContract == T!KeepsContract
\* What start_send took reaches a peer that reads, if it is flushed, and so
\* does the end of the stream.
EverythingArrives == T!EverythingArrives

\* Every connection is let in or shed by the filter, accepted by a listener
\* that has room, and gets its requests going though others hang.
EveryoneProceeds == EveryChannelDecided /\ L!ConnectionsProceed
=============================================================================
