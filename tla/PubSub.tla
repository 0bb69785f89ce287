------------------------------- MODULE PubSub -------------------------------
(***************************************************************************)
(* The publish/subscribe program (tarpc/examples/pubsub.rs): subscribers   *)
(* dial in and are then called back by the server, which asks each one for *)
(* its topics and forwards published messages to it.                       *)
(*                                                                         *)
(* Tasks of the server: the subscription manager, which initializes one    *)
(* subscriber at a time; a collector per subscriber, which drives the      *)
(* client dispatch of its connection and unsubscribes it afterwards; the   *)
(* task that accepts the publisher; and a handler per published message.   *)
(* They share the map `clients', behind a Mutex, and the map               *)
(* `subscriptions', behind an RwLock.  A panic under these locks poisons   *)
(* them, and every later lock().unwrap() panics too.                       *)
(*                                                                         *)
(* A call to a subscriber (topics, receive) takes a permit of the queue to *)
(* its dispatch, pushes the request, and waits for the answer.  A dispatch *)
(* that ends because the connection was closed does not wait for those     *)
(* between the two: their request stays in the queue, and nothing answers  *)
(* it.  A connection stands for its peer address.                          *)
(***************************************************************************)
EXTENDS Integers, Sequences, FiniteSets

CONSTANTS
  Subscribers,   \* the processes that may subscribe, one connection each
  Messages,      \* the messages that may be published
  topics,        \* topics[s]: the sequence of topics subscriber s asks for
  topic          \* topic[m]: the topic message m is published under

VARIABLES
  subscriber,    \* subscriber[s]: where Subscriber::connect is
  link,          \* link[s]: the connection of s
  backlog,       \* connections to the subscriber port not yet accepted
  manager, peer, \* where the manager is, and for which subscriber
  gc,            \* gc[s]: where the collector of s is
  ready,         \* subscribers whose ready_tx was sent
  clients,       \* the subscribers in the map clients
  subscriptions, \* topic -> the subscribers of it
  poisoned,      \* the locks of both maps are poisoned
  door,          \* where the task that accepts the publisher is
  publish,       \* publish[m]: where the handler of m is
  clones,        \* clones[m]: the subscriber clients the handler of m holds
  calls,         \* calls[m]: those whose receive() has not returned
  stage,         \* stage[<<m, s>>]: where this receive() is
  received,      \* <<m, s>>: s has executed receive(m)
  expired        \* <<m, s>>: this receive() failed at its deadline

links == <<subscriber, link>>
maps == <<clients, subscriptions, poisoned>>
publishing == <<door, publish, clones, calls, stage, received, expired>>
vars == <<links, backlog, manager, peer, gc, ready, maps, publishing>>

TopicsOf(s) == {topics[s][i] : i \in DOMAIN topics[s]}

ASSUME NamesAssumption ==
  "none" \notin Subscribers /\ \A s \in Subscribers : topics[s] \in Seq(TopicsOf(s))

Init ==
  /\ subscriber = [s \in Subscribers |-> "new"]
  /\ link = [s \in Subscribers |-> "none"]
  /\ backlog = << >>
  /\ manager = "accept" /\ peer = "none"
  /\ gc = [s \in Subscribers |-> "none"]
  /\ ready = {}
  /\ clients = {} /\ subscriptions = << >> /\ poisoned = FALSE
  /\ door = "accept"
  /\ publish = [m \in Messages |-> "new"]
  /\ clones = [m \in Messages |-> {}] /\ calls = [m \in Messages |-> {}]
  /\ stage = [x \in Messages \X Subscribers |-> "unsent"]
  /\ received = {} /\ expired = {}

-----------------------------------------------------------------------------
(* Subscriber::connect                                                     *)

Connect(s) ==
  /\ subscriber[s] = "new" /\ manager # "dead"
  /\ subscriber' = [subscriber EXCEPT ![s] = "connecting"]
  /\ link' = [link EXCEPT ![s] = "open"]
  /\ backlog' = Append(backlog, s)
  /\ UNCHANGED <<manager, peer, gc, ready, maps, publishing>>

\* The first request is executed where it arrives, be it after the manager
\* gave it up; its response leaves with the task that serves the rest.
FirstRequest(s) ==
  /\ subscriber[s] = "connecting" /\ link[s] # "reset"
  /\ gc[s] # "none" /\ ~(peer = s /\ manager \in {"topics", "permit"})
  /\ subscriber' = [subscriber EXCEPT ![s] = "initialized"]
  /\ UNCHANGED <<link, backlog, manager, peer, gc, ready, maps, publishing>>

Serve(s) ==
  /\ subscriber[s] = "initialized"
  /\ subscriber' = [subscriber EXCEPT ![s] = "serving"]
  /\ UNCHANGED <<link, backlog, manager, peer, gc, ready, maps, publishing>>

\* The stream of requests ends: "Server never initialized the subscriber", or
\* the serving task is over.
StreamEnds(s) ==
  /\ subscriber[s] \in {"connecting", "serving"} /\ link[s] # "open"
  /\ subscriber' = [subscriber EXCEPT ![s] = "stopped"]
  /\ UNCHANGED <<link, backlog, manager, peer, gc, ready, maps, publishing>>

\* SubscriberHandle::drop, or the process dies and the connection is reset.
Stop(s) ==
  /\ subscriber[s] \in {"connecting", "initialized", "serving"}
  /\ subscriber' = [subscriber EXCEPT ![s] = "stopped"]
  /\ \E how \in {"closed", "reset"} :
       link' = [link EXCEPT ![s] = IF @ = "open" THEN how ELSE @]
  /\ UNCHANGED <<backlog, manager, peer, gc, ready, maps, publishing>>

-----------------------------------------------------------------------------
(* start_subscription_manager and initialize_subscription                  *)

\* peer_addr().unwrap() fails on a connection that was reset meanwhile.
Accept ==
  /\ manager = "accept" /\ backlog # << >>
  /\ backlog' = Tail(backlog)
  /\ peer' = Head(backlog)
  /\ IF link[peer'] = "reset"
     THEN manager' = "dead" /\ UNCHANGED gc
     ELSE manager' = "topics" /\ gc' = [gc EXCEPT ![peer'] = "dispatch"]
  /\ UNCHANGED <<links, ready, maps, publishing>>

\* subscriber.topics(context::current()).await takes a permit, unless the
\* dispatch has closed its queue, as it does when it ends or fails, ...
ClosedQueue(s) == gc[s] # "dispatch" \/ link[s] = "reset"

TopicsPermit ==
  /\ manager = "topics" /\ gc[peer] = "dispatch"
  /\ manager' = "permit"
  /\ UNCHANGED <<links, backlog, peer, gc, ready, maps, publishing>>

\* ... pushes the request, to a dispatch that may be gone by then, ...
TopicsPush ==
  /\ manager = "permit"
  /\ manager' = IF gc[peer] = "dispatch" THEN "asked" ELSE "hung"
  /\ UNCHANGED <<links, backlog, peer, gc, ready, maps, publishing>>

\* ... and returns: Ok, or an error once the connection is gone or the
\* deadline has passed.
TopicsOk ==
  /\ manager = "asked"
  /\ link[peer] = "open" /\ subscriber[peer] = "serving"
  /\ manager' = "clients"
  /\ UNCHANGED <<links, backlog, peer, gc, ready, maps, publishing>>

TopicsErr ==
  /\ manager = "asked" \/ (manager = "topics" /\ ClosedQueue(peer))
  /\ manager' = "ready"
  /\ UNCHANGED <<links, backlog, peer, gc, ready, maps, publishing>>

InsertClient ==
  /\ manager = "clients"
  /\ IF poisoned THEN manager' = "dead" /\ UNCHANGED clients
                 ELSE manager' = "subscriptions" /\ clients' = clients \cup {peer}
  /\ UNCHANGED <<links, backlog, peer, gc, ready, subscriptions, poisoned,
                 publishing>>

\* entry(topic).or_default().insert(addr, client) for each topic.
subscribe_first(s) ==                            \* mutant: one topic only
  [t \in DOMAIN subscriptions \cup {topics[s][1]} |->
     (IF t \in DOMAIN subscriptions THEN subscriptions[t] ELSE {})
       \cup (IF t = topics[s][1] THEN {s} ELSE {})]
subscribe(s) ==
  [t \in DOMAIN subscriptions \cup TopicsOf(s) |->
     (IF t \in DOMAIN subscriptions THEN subscriptions[t] ELSE {})
       \cup (IF t \in TopicsOf(s) THEN {s} ELSE {})]

InsertSubscriptions ==
  /\ manager = "subscriptions"
  /\ IF poisoned THEN manager' = "dead" /\ UNCHANGED subscriptions
                 ELSE manager' = "ready" /\ subscriptions' = subscribe(peer)
  /\ UNCHANGED <<links, backlog, peer, gc, ready, clients, poisoned, publishing>>

\* ready_tx.send(()).unwrap() panics if the collector is gone.
SendReady ==
  /\ manager = "ready"
  /\ IF gc[peer] \in {"dispatch", "ready"}
     THEN manager' = "accept" /\ ready' = ready \cup {peer}
     ELSE manager' = "dead" /\ UNCHANGED ready
  /\ UNCHANGED <<links, backlog, peer, gc, maps, publishing>>

Manager == Accept \/ TopicsPermit \/ TopicsPush \/ TopicsOk \/ TopicsErr
             \/ InsertClient \/ InsertSubscriptions \/ SendReady

\* A manager that panicked takes its listener and the backlog with it.
ListenerGone(s) ==
  /\ manager = "dead" /\ link[s] = "open" /\ gc[s] = "none"
  /\ link' = [link EXCEPT ![s] = "reset"]
  /\ UNCHANGED <<subscriber, backlog, manager, peer, gc, ready, maps, publishing>>

-----------------------------------------------------------------------------
(* start_subscriber_gc                                                     *)

\* The SubscriberClients of s: the manager's, those in the map, and those of
\* the handlers that are broadcasting.
ClientsOf(s) ==
  \/ peer = s /\ manager \in {"topics", "permit", "asked", "hung", "clients",
                              "subscriptions"}
  \/ \E t \in DOMAIN subscriptions : s \in subscriptions[t]
  \/ \E m \in Messages : s \in clones[m]

\* Those between the permit and the push.
Pushing(s) == \/ peer = s /\ manager = "permit"
              \/ \E m \in Messages : stage[<<m, s>>] = "permit"

\* client_dispatch.await: over when the connection is, or when the last
\* client is dropped, which closes the connection.  A dispatch that failed
\* drains its queue first, and waits for the permits that are out.
DispatchEnds(s) ==
  /\ gc[s] = "dispatch"
  /\ link[s] # "open" \/ ~ClientsOf(s)
  /\ link[s] = "reset" => ~Pushing(s)
  /\ gc' = [gc EXCEPT ![s] = "ready"]
  /\ link' = [link EXCEPT ![s] = IF @ = "open" THEN "closed" ELSE @]
  /\ UNCHANGED <<subscriber, backlog, manager, peer, ready, maps, publishing>>

\* subscriber_ready.await: sent, or canceled with the manager.
is_ready_at_once(s) == TRUE                      \* mutant: does not wait
is_ready_sent(s) == s \in ready                  \* mutant: deaf to the cancel
is_ready(s) == s \in ready \/ manager = "dead"

\* The loop over the first n topics of s, as far as it gets.
unsubscribe(s, n) ==
  LET T == {topics[s][i] : i \in 1..n} IN
  [t \in {u \in DOMAIN subscriptions : u \notin T \/ subscriptions[u] # {s}} |->
     IF t \in T THEN subscriptions[t] \ {s} ELSE subscriptions[t]]

\* get_mut(&topic).unwrap() panics at the i-th topic when the map has no such
\* topic, because an earlier turn of the loop removed it.
panics_at(s) ==
  {i \in DOMAIN topics[s] : topics[s][i] \notin DOMAIN unsubscribe(s, i - 1)}

\* The whole of the two locked sections: the guard of clients lives to the
\* end of the `if let' body.
Unsubscribe(s) ==
  /\ gc[s] = "ready" /\ is_ready(s)
  /\ \/ /\ poisoned
        /\ gc' = [gc EXCEPT ![s] = "panicked"]
        /\ UNCHANGED maps
     \/ /\ ~poisoned /\ s \notin clients
        /\ gc' = [gc EXCEPT ![s] = "done"]
        /\ UNCHANGED maps
     \/ /\ ~poisoned /\ s \in clients
        /\ clients' = clients \ {s}
        /\ poisoned' = (panics_at(s) # {})
        /\ gc' = [gc EXCEPT ![s] = IF poisoned' THEN "panicked" ELSE "done"]
        /\ subscriptions' =
             unsubscribe(s, IF poisoned'
                            THEN (CHOOSE i \in panics_at(s) :
                                    \A j \in panics_at(s) : i <= j) - 1
                            ELSE Len(topics[s]))
  /\ UNCHANGED <<links, backlog, manager, peer, ready, publishing>>

-----------------------------------------------------------------------------
(* Publisher::start and Publisher::publish                                 *)

\* connecting_publishers.next().await.unwrap().unwrap(): one publisher, or
\* an error of accept, of which the task dies.
AcceptPublisher ==
  /\ door = "accept"
  /\ door' \in {"serving", "panicked"}
  /\ UNCHANGED <<links, backlog, manager, peer, gc, ready, maps, publish, clones,
                 calls, stage, received, expired>>

\* The map is cloned under the read lock.
snapshot(m) == subscriptions[topic[m]]

Publish(m) ==
  /\ door = "serving" /\ publish[m] = "new"
  /\ \/ /\ poisoned
        /\ publish' = [publish EXCEPT ![m] = "panicked"]
        /\ UNCHANGED <<clones, calls>>
     \/ /\ ~poisoned /\ topic[m] \notin DOMAIN subscriptions
        /\ publish' = [publish EXCEPT ![m] = "done"]
        /\ UNCHANGED <<clones, calls>>
     \/ /\ ~poisoned /\ topic[m] \in DOMAIN subscriptions
        /\ publish' = [publish EXCEPT ![m] = "sending"]
        /\ clones' = [clones EXCEPT ![m] = snapshot(m)]
        /\ calls' = [calls EXCEPT ![m] = snapshot(m)]
  /\ UNCHANGED <<links, backlog, manager, peer, gc, ready, maps, door, stage,
                 received, expired>>

\* client.receive(..) is sent like topics(); the handler polls one of its
\* calls at a time.
Send(m, s) ==
  /\ s \in calls[m]
  /\ \/ /\ stage[<<m, s>>] = "unsent" /\ gc[s] = "dispatch"
        /\ \A u \in Subscribers : stage[<<m, u>>] # "permit"
        /\ stage' = [stage EXCEPT ![<<m, s>>] = "permit"]
     \/ /\ stage[<<m, s>>] = "permit"
        /\ stage' = [stage EXCEPT ![<<m, s>>] =
                       IF gc[s] = "dispatch" THEN "sent" ELSE "hung"]
  /\ UNCHANGED <<links, backlog, manager, peer, gc, ready, maps, door, publish, clones,
                 calls, received, expired>>

\* It is executed by the subscriber, ...
Receive(m, s) ==
  /\ s \in calls[m] /\ stage[<<m, s>>] = "sent" /\ <<m, s>> \notin received
  /\ link[s] = "open" /\ subscriber[s] = "serving"
  /\ received' = received \cup {<<m, s>>}
  /\ UNCHANGED <<links, backlog, manager, peer, gc, ready, maps, door, publish, clones,
                 calls, stage, expired>>

\* ... then Ok; or an error, because the connection is gone or too late.
Return(m, s) ==
  /\ s \in calls[m]
  /\ \/ stage[<<m, s>>] = "sent" /\ <<m, s>> \in received /\ UNCHANGED expired
     \/ stage[<<m, s>>] = "sent" /\ link[s] # "open" /\ UNCHANGED expired
     \/ /\ stage[<<m, s>>] = "unsent" /\ link[s] # "open" /\ ClosedQueue(s)
        /\ UNCHANGED expired
     \/ /\ stage[<<m, s>>] = "sent" /\ <<m, s>> \notin received
        /\ expired' = expired \cup {<<m, s>>}
  /\ calls' = [calls EXCEPT ![m] = @ \ {s}]
  /\ UNCHANGED <<links, backlog, manager, peer, gc, ready, maps, door, publish, clones,
                 stage, received>>

\* join_all returns when every call has; a failed one does not stop it.
join_all_first(m) == calls[m] # clones[m]        \* mutant: any one is enough
join_all(m) == calls[m] = {}

Published(m) ==
  /\ publish[m] = "sending" /\ join_all(m)
  /\ publish' = [publish EXCEPT ![m] = "done"]
  /\ clones' = [clones EXCEPT ![m] = {}] /\ calls' = [calls EXCEPT ![m] = {}]
  /\ UNCHANGED <<links, backlog, manager, peer, gc, ready, maps, door, stage, received,
                 expired>>

\* The handler is aborted at the deadline of its own request, between two
\* polls.
Abort(m) ==
  /\ publish[m] = "sending"
  /\ \A s \in Subscribers : stage[<<m, s>>] # "permit"
  /\ publish' = [publish EXCEPT ![m] = "aborted"]
  /\ calls' = [calls EXCEPT ![m] = {}] /\ clones' = [clones EXCEPT ![m] = {}]
  /\ UNCHANGED <<links, backlog, manager, peer, gc, ready, maps, door, stage, received,
                 expired>>

-----------------------------------------------------------------------------
Subscriber(s) == Connect(s) \/ FirstRequest(s) \/ Serve(s) \/ StreamEnds(s) \/ Stop(s)
Collector(s) == DispatchEnds(s) \/ Unsubscribe(s)
Publishing(m) == Published(m) \/ \E s \in Subscribers : Send(m, s) \/ Return(m, s)
Handler(m) == Publish(m) \/ Publishing(m) \/ Abort(m)
                \/ \E s \in Subscribers : Receive(m, s)

\* Everything has come to rest; the server waits for connections, or hangs.
Idle ==
  /\ manager \in {"accept", "hung", "dead"}
  /\ \A s \in Subscribers : subscriber[s] \in {"new", "stopped"}
  /\ UNCHANGED vars

Next == \/ \E s \in Subscribers : Subscriber(s) \/ Collector(s) \/ ListenerGone(s)
        \/ Manager \/ AcceptPublisher
        \/ \E m \in Messages : Handler(m)
        \/ Idle

Spec == Init /\ [][Next]_vars

\* The runtime runs every task that can go on, and deadlines pass; nobody has
\* to connect, stop or publish.
FairSpec ==
  /\ Spec
  /\ WF_vars(Manager)
  /\ \A s \in Subscribers :
       /\ WF_vars(Collector(s)) /\ WF_vars(ListenerGone(s))
       /\ WF_vars(FirstRequest(s) \/ Serve(s) \/ StreamEnds(s))
  /\ \A m \in Messages : WF_vars(Publishing(m))

-----------------------------------------------------------------------------
(* Properties                                                              *)

\* The two maps say the same whenever no task is between them: whoever is in
\* clients is under each of its topics, and nobody else is under any.  "Don't
\* clean up the subscriber until initialization is done": one that has been
\* collected is in neither map and does not come back.
MapsAgree ==
  poisoned \/
    /\ \A s \in Subscribers : gc[s] = "done" => s \notin clients
    /\ \A t \in DOMAIN subscriptions : \A s \in subscriptions[t] :
         s \in clients /\ t \in TopicsOf(s)
    /\ \A s \in clients :
         \/ (manager = "subscriptions" /\ peer = s)
         \/ \A t \in TopicsOf(s) : t \in DOMAIN subscriptions /\ s \in subscriptions[t]

\* Every task that panics or hangs has its reason.  The locks are poisoned by
\* the loop of a collector whose subscriber lists a topic twice, and by
\* nothing else.  The manager dies of them, or of a connection reset before it
\* was accepted (peer_addr); it hangs in topics(), and a publish in receive(),
\* only over a dispatch that ended under it.  The task that accepts the
\* publisher dies of an error of accept, before anything is published.
FailuresExplained ==
  /\ poisoned => \E s \in Subscribers :
       gc[s] = "panicked" /\ Cardinality(TopicsOf(s)) < Len(topics[s])
  /\ manager = "dead" => poisoned \/ (link[peer] = "reset" /\ gc[peer] = "none")
  /\ manager = "hung" => link[peer] # "open" /\ gc[peer] = "ready"
  /\ \A s \in Subscribers : gc[s] = "panicked" => poisoned
  /\ \A m \in Messages : publish[m] = "panicked" => poisoned
  /\ \A m \in Messages, s \in Subscribers :
       stage[<<m, s>>] = "hung" => link[s] # "open" /\ gc[s] # "dispatch"
  /\ door # "serving" => \A m \in Messages : publish[m] = "new"

\* A message goes to subscribers of its topic only, and when publish returns
\* each of those it was sent to has it, is gone, or was given up at the
\* deadline.
Delivered ==
  /\ [](\A m \in Messages, s \in Subscribers :
          <<m, s>> \in received => topic[m] \in TopicsOf(s))
  /\ [][\A m \in Messages : publish[m] = "sending" /\ publish'[m] = "done" =>
          \A s \in clones[m] :
            <<m, s>> \in received \cup expired \/ link[s] # "open"]_vars

\* Whoever connects is told: initialized by the manager, however slow the
\* subscribers before it are, or disconnected; unless the manager hangs.
EveryoneInitialized ==
  \A s \in Subscribers : subscriber[s] # "connecting" \/ manager = "hung"

\* A subscriber that is gone is collected, unless the manager hangs in the call
\* to this one.
EveryoneCollected ==
  \A s \in Subscribers :
    gc[s] \in {"dispatch", "ready"} /\ link[s] # "open" => manager = "hung" /\ peer = s

\* A publish returns, however many of its subscribers do not, unless one of its
\* calls hangs.
PublishReturned ==
  \A m \in Messages :
    publish[m] = "sending" => \E s \in calls[m] : stage[<<m, s>>] = "hung"

\* What always comes again: no task of the server waits for ever for a
\* subscriber that is slow, silent or gone, but for a call that hangs, one whose
\* dispatch ended between its permit and its push.  Subscribers connect once and
\* messages are published once, so each is served when nobody waits.
NobodyWaits == EveryoneInitialized /\ EveryoneCollected /\ PublishReturned
=============================================================================
