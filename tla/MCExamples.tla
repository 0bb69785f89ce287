----------------------------- MODULE MCExamples -----------------------------
(***************************************************************************)
(* What is built on clients, each part on its own:                         *)
(*  - PubSub, with two subscribers that share a topic, which the second    *)
(*    lists twice, and a message published under it;                       *)
(*  - Registry, with a name registered twice and a name that is not;       *)
(*  - Stubs, with two callers, and no backend or three of different kinds. *)
(***************************************************************************)
EXTENDS PubSub, TLC

CONSTANTS s1, s2, m1, t1, t2

MCtopics == (s1 :> <<t1, t2>>) @@ (s2 :> <<t2, t2>>)
MCtopic == m1 :> t2

VARIABLES part,
  r_client, r_asked, r_c2s, r_s2c, r_server, r_serving, r_executing,
  r_negotiations, r_calls, r_replies, r_abandoned, r_lost

R == INSTANCE Registry WITH
       services <- <<"write", "read">>, more_services <- <<"write">>,
       discovery <- "list", Names <- {"write", "read", "list", "other"},
       MaxNegotiations <- 2, MaxCalls <- 2,
       client <- r_client, asked <- r_asked, c2s <- r_c2s, s2c <- r_s2c,
       server <- r_server, serving <- r_serving, executing <- r_executing,
       negotiations <- r_negotiations, calls <- r_calls, replies <- r_replies,
       abandoned <- r_abandoned, lost <- r_lost

VARIABLES
  s_strategy, s_stubs, s_up, s_next, s_call, s_attempt, s_index, s_result,
  s_late, s_picks, s_wraps, s_tried, s_alone

S == INSTANCE Stubs WITH
       Callers <- {"a", "b"}, hash <- [c \in {"a", "b"} |-> 4],
       Kinds <- <<"channel", "serve", "mock">>, Lengths <- {0, 3}, Modulus <- 4,
       strategy <- s_strategy, stubs <- s_stubs, up <- s_up, next <- s_next,
       call <- s_call, attempt <- s_attempt, index <- s_index, result <- s_result,
       late <- s_late, picks <- s_picks, wraps <- s_wraps, tried <- s_tried,
       alone <- s_alone

r == <<r_client, r_asked, r_c2s, r_s2c, r_server, r_serving, r_executing,
       r_negotiations, r_calls, r_replies, r_abandoned, r_lost>>
s == <<s_strategy, s_stubs, s_up, s_next, s_call, s_attempt, s_index, s_result,
       s_late, s_picks, s_wraps, s_tried, s_alone>>
all == <<part, vars, r, s>>

\* Only the part in question moves.
AtPubSub == part = "pubsub" /\ UNCHANGED <<part, r, s>>
AtRegistry == part = "registry" /\ UNCHANGED <<part, vars, s>>
AtStubs == part = "stubs" /\ UNCHANGED <<part, vars, r>>

MCInit ==
  /\ part \in {"pubsub", "registry", "stubs"}
  /\ Init /\ R!Init /\ S!Init
MCNext == \/ AtPubSub /\ Next
          \/ AtRegistry /\ R!Next
          \/ AtStubs /\ S!Next

\* The fairness of PubSub's FairSpec; and the two ends of a connection go on
\* when they can, though no client has to ask, call or leave; and a call that
\* is under way in a stub is polled.
MCSpec ==
  /\ MCInit /\ [][MCNext]_all
  /\ WF_all(AtPubSub /\ Manager)
  /\ \A u \in Subscribers :
       /\ WF_all(AtPubSub /\ Collector(u)) /\ WF_all(AtPubSub /\ ListenerGone(u))
       /\ WF_all(AtPubSub /\ (FirstRequest(u) \/ Serve(u) \/ StreamEnds(u)))
  /\ \A m \in Messages : WF_all(AtPubSub /\ Publishing(m))
  /\ WF_all(AtRegistry /\ R!ClientStep) /\ WF_all(AtRegistry /\ R!ServerStep)
  /\ \A c \in {"a", "b"} : WF_all(AtStubs /\ S!Call(c))

-----------------------------------------------------------------------------
(* What is checked of the parts, besides the properties of PubSub          *)

\* After negotiate returned Ok, both ends mean the same service; nothing is
\* lost with its codec, and it refuses only names nobody registered.
Negotiated == R!Negotiated
\* RoundRobin is even and fails over, ConsistentHash is consistent, and Retry
\* returns a success or the last failure.
TriedAsPromised == S!TriedAsPromised
\* What has begun ends: subscribers and publishers are served, but for a call
\* that hangs, negotiate and the task of a connection return, and so do calls
\* of composed stubs.  Each begins a bounded number of times.
WhatBeginsEnds == []<>(NobodyWaits /\ R!Ended /\ S!Returned)
=============================================================================
