------------------------------ MODULE Listener ------------------------------
(***************************************************************************)
(* From listening socket to running requests: serde_transport's Incoming,  *)
(* server/incoming.rs and the server of example-service.  The accepted     *)
(* connections are run in one of two ways:                                 *)
(*   spawn_incoming    a task for every channel;                           *)
(*   buffer_unordered  the accepting task itself polls up to MaxChannels   *)
(*                     channels, and accepts only below that number.       *)
(* In both every request is a task of its own.  The first is spawned, the  *)
(* second is the task of main, which the process does not outlive.  The    *)
(* socket is a TCP or a Unix one.  What goes on inside a channel is the subject of Server, and  *)
(* who is let in that of ChannelsPerKey.                                   *)
(***************************************************************************)
EXTENDS Integers, Sequences, FiniteSets

CONSTANTS
  Conns,
  MaxChannels,              \* of buffer_unordered
  max_in_flight_requests,   \* of max_concurrent_requests_per_channel
  MaxErrors                 \* bound: accept errors

VARIABLES
  mode,       \* "none" before the server is set up
  socket,     \* "tcp" or "unix"
  conn,       \* the peer's end: new, open, gone
  backlog,    \* connections the kernel holds for accept
  accepting,  \* the accepting task: on, panicked
  errors,     \* accept errors so far
  channel,    \* the channel: none, running, ended
  arrived,    \* whether a request is on the wire
  tasks       \* requests running

vars == <<mode, socket, conn, backlog, accepting, errors, channel, arrived, tasks>>

Init ==
  /\ mode = "none" /\ socket = "tcp" /\ accepting = "on" /\ errors = 0
  /\ conn = [c \in Conns |-> "new"] /\ backlog = << >>
  /\ channel = [c \in Conns |-> "none"]
  /\ arrived = [c \in Conns |-> FALSE]
  /\ tasks = [c \in Conns |-> 0]

running == {c \in Conns : channel[c] = "running"}

Listen(kind) ==
  /\ mode = "none"
  /\ mode' \in {"spawn_incoming", "buffer_unordered"}
  /\ socket' = kind
  /\ UNCHANGED <<conn, backlog, accepting, errors, channel, arrived, tasks>>

ListenTcp == Listen("tcp")
ListenUnix == Listen("unix")

-----------------------------------------------------------------------------
(* The peers                                                               *)

Connect(c) ==
  /\ mode # "none" /\ conn[c] = "new"
  /\ mode = "spawn_incoming" \/ accepting = "on"
  /\ conn' = [conn EXCEPT ![c] = "open"]
  /\ backlog' = Append(backlog, c)
  /\ UNCHANGED <<mode, socket, accepting, errors, channel, arrived, tasks>>

Request(c) ==
  /\ conn[c] = "open" /\ ~arrived[c]
  /\ arrived' = [arrived EXCEPT ![c] = TRUE]
  /\ UNCHANGED <<mode, socket, conn, backlog, accepting, errors, channel, tasks>>

\* The peer resets the connection, accepted or not.
Reset(c) ==
  /\ conn[c] = "open"
  /\ conn' = [conn EXCEPT ![c] = "gone"]
  /\ arrived' = [arrived EXCEPT ![c] = FALSE]
  /\ UNCHANGED <<mode, socket, backlog, accepting, errors, channel, tasks>>

-----------------------------------------------------------------------------
(* The accepting task                                                      *)

polls_listener ==
  mode = "buffer_unordered" => Cardinality(running) < MaxChannels

\* The channel, with its limit, is handed to what executes it.
Execute(c) ==
  /\ channel' = [channel EXCEPT ![c] = "running"]
  /\ UNCHANGED <<accepting, conn, arrived, tasks>>

\* A panic of the accepting task.  A spawned one takes nothing with it but the
\* connection at hand; main's takes the process: the channels and the requests
\* end, and the peers find their connections gone.
Panic(c) ==
  /\ accepting' = "panicked"
  /\ IF mode = "spawn_incoming"
     THEN /\ channel' = [channel EXCEPT ![c] = "ended"]
          /\ UNCHANGED <<conn, arrived, tasks>>
     ELSE /\ channel' = [d \in Conns |-> IF d \in running \cup {c} THEN "ended"
                                                                  ELSE channel[d]]
          /\ conn' = [d \in Conns |-> IF conn[d] = "open" THEN "gone" ELSE conn[d]]
          /\ arrived' = [d \in Conns |-> FALSE]
          /\ tasks' = [d \in Conns |-> 0]

\* Incoming::poll_next.  The key for max_channels_per_key is that of
\* peer_addr().unwrap(): a TCP connection that was reset while it waited may
\* have none.
Accept(c) ==
  /\ mode # "none" /\ accepting = "on" /\ polls_listener
  /\ backlog # << >> /\ c = Head(backlog)
  /\ backlog' = Tail(backlog)
  /\ UNCHANGED <<mode, socket, errors>>

AcceptTcp(c) ==
  /\ socket = "tcp" /\ Accept(c)
  /\ Execute(c) \/ (conn[c] = "gone" /\ Panic(c))

AcceptUnix(c) == socket = "unix" /\ Accept(c) /\ Execute(c)

AcceptSome == \E c \in Conns : AcceptTcp(c) \/ AcceptUnix(c)

\* An accept error is an item of the stream: filter_map drops it.
AcceptError_fatal ==                             \* mutant: the stream ends
  /\ mode # "none" /\ accepting = "on" /\ polls_listener /\ errors < MaxErrors
  /\ errors' = errors + 1 /\ accepting' = "panicked"
  /\ UNCHANGED <<mode, socket, conn, backlog, channel, arrived, tasks>>
AcceptError ==
  /\ mode # "none" /\ accepting = "on" /\ polls_listener /\ errors < MaxErrors
  /\ errors' = errors + 1
  /\ UNCHANGED <<mode, socket, conn, backlog, accepting, channel, arrived, tasks>>

-----------------------------------------------------------------------------
(* The channels: while let Some(request) = channel.next().await            *)

\* max_concurrent_requests_per_channel answers what is over the limit itself.
within_limit(c) == tasks[c] < max_in_flight_requests

ChannelNext_awaits(c) ==                         \* mutant: does not spawn
  /\ channel[c] = "running" /\ arrived[c] /\ \A d \in Conns : tasks[d] = 0
  /\ arrived' = [arrived EXCEPT ![c] = FALSE]
  /\ tasks' = [tasks EXCEPT ![c] = @ + 1]
  /\ UNCHANGED <<mode, socket, conn, backlog, accepting, errors, channel>>
ChannelNext(c) ==
  /\ channel[c] = "running" /\ arrived[c]
  /\ arrived' = [arrived EXCEPT ![c] = FALSE]
  /\ tasks' = IF within_limit(c) THEN [tasks EXCEPT ![c] = @ + 1] ELSE tasks
  /\ UNCHANGED <<mode, socket, conn, backlog, accepting, errors, channel>>

ChannelEnds(c) ==
  /\ channel[c] = "running" /\ conn[c] = "gone"
  /\ channel' = [channel EXCEPT ![c] = "ended"]
  /\ UNCHANGED <<mode, socket, conn, backlog, accepting, errors, arrived, tasks>>

\* A request finishes, or is aborted; it may also run for ever.
Finish(c) ==
  /\ tasks[c] > 0
  /\ tasks' = [tasks EXCEPT ![c] = @ - 1]
  /\ UNCHANGED <<mode, socket, conn, backlog, accepting, errors, channel, arrived>>

-----------------------------------------------------------------------------
Channel(c) == ChannelNext(c) \/ ChannelEnds(c)

Idle ==
  /\ (\A c \in Conns : conn[c] # "new") \/ accepting = "panicked"
  /\ UNCHANGED vars

Next == \/ ListenTcp \/ ListenUnix \/ AcceptSome \/ AcceptError \/ Idle
        \/ \E c \in Conns : Connect(c) \/ Request(c) \/ Reset(c) \/ Channel(c) \/ Finish(c)

-----------------------------------------------------------------------------
(* Properties                                                              *)

\* A peer's own doing: it resets its connection.
ResetBy(c) == conn[c] = "open" /\ conn'[c] = "gone" /\ UNCHANGED <<channel, tasks, accepting>>

\* The one way in which a peer can hurt others: it resets its TCP connection
\* while it waits to be accepted.
DiesOfReset ==
  /\ accepting = "on" /\ accepting' = "panicked"
  /\ socket = "tcp" /\ backlog # << >> /\ conn[Head(backlog)] = "gone"

\* What a step may do to a connection.  Its channel ends and its requests are
\* lost only after its own peer has gone, or when a connection that was reset
\* before it was accepted brings the process down, which spawn_incoming
\* survives.  Nothing else stops the accepting task: neither an accept error
\* nor the end of a channel.
Isolates ==
  /\ accepting' # accepting => DiesOfReset
  /\ \A c \in Conns :
       \/ mode = "buffer_unordered" /\ DiesOfReset
       \/ /\ channel[c] = "running" /\ channel'[c] # "running" => conn[c] = "gone"
          /\ conn'[c] = "gone" => conn[c] = "gone" \/ ResetBy(c)
          /\ arrived[c] /\ ~arrived'[c] =>
               ResetBy(c) \/ tasks'[c] > tasks[c] \/ tasks[c] >= max_in_flight_requests

\* A connection is accepted whatever the channels before it do, unless they
\* take all of MaxChannels for ever or the server has stopped.
Accepted(c) ==
  (\E n \in DOMAIN backlog : backlog[n] = c) =>
    \/ accepting = "panicked"
    \/ mode = "buffer_unordered" /\ Cardinality(running) >= MaxChannels

\* A request of a channel is started or turned away though others hang; in
\* spawn_incoming also after the accepting task has stopped.
Proceeds(c) ==
  channel[c] = "running" /\ arrived[c] =>
    mode = "buffer_unordered" /\ accepting = "panicked"

\* Both, again and again.
ConnectionsProceed == \A c \in Conns : []<>(Accepted(c) /\ Proceeds(c))
=============================================================================
