---------------------------- MODULE PubSubProofs ----------------------------
(***************************************************************************)
(* Proofs about PubSub: its two maps agree, every task that panics or      *)
(* hangs has its reason, and messages reach the subscribers of their       *)
(* topic, for any set of subscribers with any topics and any messages.     *)
(***************************************************************************)
EXTENDS PubSub, FiniteSetTheorems, TLAPS

-----------------------------------------------------------------------------
(* The inductive invariant                                                 *)

Phases == {"accept", "topics", "permit", "asked", "hung", "clients", "subscriptions",
           "ready", "dead"}
Collecting == {"dispatch", "ready"}

Types ==
  /\ subscriber \in [Subscribers ->
                      {"new", "connecting", "initialized", "serving", "stopped"}]
  /\ link \in [Subscribers -> {"none", "open", "closed", "reset"}]
  /\ backlog \in Seq(Subscribers)
  /\ manager \in Phases /\ peer \in Subscribers \cup {"none"}
  /\ gc \in [Subscribers -> Collecting \cup {"none", "done", "panicked"}]
  /\ ready \subseteq Subscribers /\ clients \subseteq Subscribers
  /\ subscriptions \in [DOMAIN subscriptions -> SUBSET Subscribers]
  /\ poisoned \in BOOLEAN
  /\ publish \in [Messages -> {"new", "sending", "done", "aborted", "panicked"}]
  /\ clones \in [Messages -> SUBSET Subscribers]
  /\ calls \in [Messages -> SUBSET Subscribers]
  /\ received \subseteq Messages \X Subscribers
  /\ expired \subseteq Messages \X Subscribers

\* A connection is accepted once, so that it has one collector.
Queued ==
  /\ \A n \in 1..Len(backlog) :
       gc[backlog[n]] = "none" /\ subscriber[backlog[n]] # "new"
  /\ \A m, n \in 1..Len(backlog) : backlog[m] = backlog[n] => m = n

\* Who has not been accepted is known to nobody.
Strangers ==
  \A s \in Subscribers :
    /\ subscriber[s] = "new" => gc[s] = "none"
    /\ gc[s] = "none" =>
         /\ s \notin ready /\ s \notin clients
         /\ \A t \in DOMAIN subscriptions : s \notin subscriptions[t]
         /\ \A m \in Messages : s \notin clones[m]

\* The collector of the subscriber being initialized waits for ready_tx.
Managed ==
  /\ manager # "accept" => peer \in Subscribers
  /\ manager \notin {"accept", "dead"} =>
       gc[peer] \in Collecting /\ peer \notin ready
  /\ manager = "subscriptions" => peer \in clients

\* Who is in clients has yet to be collected.
Collected == ~poisoned => \A s \in clients : gc[s] \in Collecting

\* A handler calls subscribers of its topic; those whose call has returned
\* have the message, are gone or were given up.
Calling ==
  /\ \A m \in Messages : calls[m] \subseteq clones[m]
  /\ \A m \in Messages : \A s \in calls[m] : topic[m] \in TopicsOf(s)
  /\ \A m \in Messages, s \in Subscribers :
       <<m, s>> \in received => topic[m] \in TopicsOf(s)
  /\ \A m \in Messages : publish[m] = "sending" =>
       \A s \in clones[m] \ calls[m] :
         <<m, s>> \in received \cup expired \/ link[s] # "open"

\* The locks are poisoned by a repeated topic, and kill whoever takes them.
Panics ==
  /\ poisoned => \E s \in Subscribers :
       gc[s] = "panicked" /\ Cardinality(TopicsOf(s)) < Len(topics[s])
  /\ manager = "dead" => poisoned \/ (link[peer] = "reset" /\ gc[peer] = "none")
  /\ \A s \in Subscribers : gc[s] = "panicked" => poisoned
  /\ \A m \in Messages : publish[m] = "panicked" => poisoned

\* A call hangs over a dispatch that has ended, and whose connection is gone;
\* and nothing is published before there is a publisher.
Hangs ==
  /\ stage \in [Messages \X Subscribers -> {"unsent", "permit", "sent", "hung"}]
  /\ \A s \in Subscribers : gc[s] \notin {"none", "dispatch"} => link[s] # "open"
  /\ manager = "hung" => gc[peer] = "ready"
  /\ \A m \in Messages, s \in Subscribers :
       stage[<<m, s>>] = "hung" => gc[s] \notin {"none", "dispatch"}
  /\ door # "serving" => \A m \in Messages : publish[m] = "new"

Inv == /\ Types /\ Queued /\ Strangers /\ Managed /\ Collected /\ Calling
       /\ MapsAgree /\ Panics

-----------------------------------------------------------------------------
(* The topics of a subscriber                                              *)

\* A subscriber that lists a topic twice has fewer topics than it lists.
LEMMA Repeated ==
  ASSUME NEW s \in Subscribers, NEW i \in DOMAIN topics[s], NEW j \in DOMAIN topics[s],
         i # j, topics[s][i] = topics[s][j]
  PROVE Cardinality(TopicsOf(s)) < Len(topics[s])
<1>1. PICK T : T = TopicsOf(s)
  BY Zenon
<1>2. PICK q \in Seq(T) : q = topics[s]
  BY <1>1, NamesAssumption, Zenon
<1>3. PICK n \in Nat : n = Len(q) /\ DOMAIN q = 1..n
  BY <1>2, SMTT(30)
<1>4. PICK D : D = (1..n) \ {i}
  BY Zenon
<1>5. IsFiniteSet(D) /\ Cardinality(D) = n - 1
  <2>1. IsFiniteSet(1..n) /\ Cardinality(1..n) = n
    <3>1. 1 \in Int /\ n \in Int
      BY <1>3, SMTT(30)
    <3>2. /\ IsFiniteSet(1..n)
          /\ Cardinality(1..n) = IF 1 > n THEN 0 ELSE n - 1 + 1
      BY <3>1, FS_Interval, Zenon
    <3> QED BY <3>2, SMTT(30)
  <2>2. i \in 1..n
    BY <1>2, <1>3, Zenon
  <2> QED BY <1>4, <2>1, <2>2, FS_RemoveElement, ZenonT(40)
<1>6. PICK f : f = [k \in D |-> q[k]]
  BY Zenon
<1>7. f \in Surjection(D, T)
  <2>1. T = {q[k] : k \in 1..n}
    BY <1>1, <1>2, <1>3, Zenon DEF TopicsOf
  <2>2. f \in [D -> T]
    BY <1>4, <1>6, <2>1, Zenon
  <2>3. ASSUME NEW t \in T PROVE \E k \in D : f[k] = t
    <3>1. PICK k \in 1..n : q[k] = t
      BY <2>1, Zenon
    <3>2. CASE k = i
      BY <1>2, <1>3, <1>4, <1>6, <3>1, <3>2, Zenon
    <3>3. CASE k # i
      BY <1>4, <1>6, <3>1, <3>3, Zenon
    <3> QED BY <3>2, <3>3, Zenon
  <2> QED BY <2>2, <2>3, Zenon DEF Surjection
<1>8. IsFiniteSet(T) /\ Cardinality(T) <= Cardinality(D)
  BY <1>5, <1>7, FS_Surjection, Zenon
<1>9. Cardinality(T) \in Nat
  BY <1>8, FS_CardinalityType, Zenon
<1> QED BY <1>1, <1>2, <1>3, <1>5, <1>8, <1>9, SMTT(30)

\* The loop of a collector panics only at a topic it has met before.
LEMMA PanicsRepeat ==
  ASSUME NEW s \in Subscribers, panics_at(s) # {},
         \A t \in TopicsOf(s) : t \in DOMAIN subscriptions
  PROVE Cardinality(TopicsOf(s)) < Len(topics[s])
<1>1. PICK i \in DOMAIN topics[s] : topics[s][i] \notin DOMAIN unsubscribe(s, i - 1)
  BY Zenon DEF panics_at
<1>2. topics[s][i] \in DOMAIN subscriptions
  BY Zenon DEF TopicsOf
<1>3. topics[s][i] \in {topics[s][j] : j \in 1..(i - 1)}
  BY <1>1, <1>2, Zenon DEF unsubscribe
<1>4. PICK j \in 1..(i - 1) : topics[s][i] = topics[s][j]
  BY <1>3, Zenon
<1>5. j \in DOMAIN topics[s] /\ i # j
  <2>1. PICK n \in Nat : DOMAIN topics[s] = 1..n
    BY NamesAssumption, SMTT(30)
  <2> QED BY <2>1, SMTT(30)
<1> QED BY <1>4, <1>5, Repeated, Zenon

\* The whole loop: nobody else is touched.
LEMMA UnsubscribedAll ==
  ASSUME NEW s \in Subscribers, NEW u, u = unsubscribe(s, Len(topics[s]))
  PROVE /\ \A t \in DOMAIN u : t \in TopicsOf(s) => s \notin u[t]
        /\ \A t \in DOMAIN subscriptions : \A x \in subscriptions[t] \ {s} :
             t \in DOMAIN u /\ x \in u[t]
<1>1. DOMAIN topics[s] = 1..Len(topics[s])
  BY NamesAssumption, SMTT(30)
<1>2. TopicsOf(s) = {topics[s][i] : i \in 1..Len(topics[s])}
  BY <1>1, Zenon DEF TopicsOf
<1>3. ASSUME NEW t \in DOMAIN u, t \in TopicsOf(s) PROVE s \notin u[t]
  BY <1>2, <1>3, Zenon DEF unsubscribe
<1>4. ASSUME NEW t \in DOMAIN subscriptions, NEW x \in subscriptions[t] \ {s}
      PROVE t \in DOMAIN u /\ x \in u[t]
  <2>1. subscriptions[t] # {s}
    BY <1>4, Zenon
  <2> QED BY <1>4, <2>1, Zenon DEF unsubscribe
<1> QED BY <1>3, <1>4, Zenon

-----------------------------------------------------------------------------
(* Steps that leave the server's state alone                               *)

Server == <<manager, peer, gc, ready, clients, subscriptions, poisoned, publish, clones,
            calls, received, expired>>

\* A connection opens once, at the beginning, and never comes back.
LEMMA LinkStep ==
  ASSUME Inv, Types', Queued', UNCHANGED Server,
         \A s \in Subscribers : subscriber'[s] = "new" => subscriber[s] = "new",
         \A s \in Subscribers : \/ link'[s] = link[s] \/ link[s] = "open"
                                \/ subscriber[s] = "new" /\ manager # "dead"
  PROVE Inv'
<1>1. /\ manager' = manager /\ peer' = peer /\ gc' = gc /\ ready' = ready
      /\ clients' = clients /\ subscriptions' = subscriptions /\ poisoned' = poisoned
      /\ publish' = publish /\ clones' = clones /\ calls' = calls
      /\ received' = received /\ expired' = expired
  BY Zenon DEF Server
<1>2. Strangers'
  BY <1>1, Zenon DEF Inv, Strangers
<1>3. Managed' /\ Collected'
  BY <1>1, Zenon DEF Inv, Managed, Collected
<1>4. MapsAgree'
  BY <1>1, Zenon DEF Inv, MapsAgree
<1>5. Calling'
  <2>1. ASSUME NEW m \in Messages, NEW s \in clones[m], link[s] # "open"
        PROVE link'[s] # "open"
    <3>1. s \in Subscribers
      BY Zenon DEF Inv, Types
    <3>2. subscriber[s] # "new"
      BY <3>1, Zenon DEF Inv, Strangers
    <3> QED BY <2>1, <3>1, <3>2, Zenon
  <2>2. ASSUME NEW m \in Messages, publish[m] = "sending", NEW s \in clones[m] \ calls[m]
        PROVE <<m, s>> \in received \cup expired \/ link'[s] # "open"
    BY <2>1, <2>2, Zenon DEF Inv, Calling
  <2>3. /\ \A m \in Messages : calls[m] \subseteq clones[m]
        /\ \A m \in Messages : \A s \in calls[m] : topic[m] \in TopicsOf(s)
        /\ \A m \in Messages, s \in Subscribers :
             <<m, s>> \in received => topic[m] \in TopicsOf(s)
    BY Zenon DEF Inv, Calling
  <2> QED BY <1>1, <2>2, <2>3, Zenon DEF Calling
<1>6. Panics'
  <2>1. ASSUME manager = "dead", link[peer] = "reset" PROVE link'[peer] = "reset"
    <3>1. peer \in Subscribers
      BY <2>1, Zenon DEF Inv, Managed
    <3> QED BY <2>1, <3>1, Zenon
  <2> QED BY <1>1, <2>1, Zenon DEF Inv, Panics
<1> QED BY <1>2, <1>3, <1>4, <1>5, <1>6, Zenon DEF Inv

\* Subscriber::connect, and a connection that the kernel resets.
LEMMA SubscriberInv ==
  ASSUME Inv, NEW s \in Subscribers, Subscriber(s) \/ ListenerGone(s)
  PROVE Inv'
<1> USE DEF maps, publishing
<1>1. UNCHANGED Server
  BY Zenon DEF Subscriber, Connect, FirstRequest, Serve, StreamEnds, Stop, ListenerGone,
               Server
<1>2. CASE Connect(s)
  <2>1. /\ subscriber[s] = "new" /\ manager # "dead" /\ backlog' = Append(backlog, s)
        /\ subscriber' = [subscriber EXCEPT ![s] = "connecting"]
        /\ link' = [link EXCEPT ![s] = "open"]
    BY <1>2, Zenon DEF Connect
  <2>2. /\ subscriber \in [Subscribers ->
                            {"new", "connecting", "initialized", "serving", "stopped"}]
        /\ link \in [Subscribers -> {"none", "open", "closed", "reset"}]
        /\ backlog \in Seq(Subscribers)
    BY Zenon DEF Inv, Types
  <2>3. /\ \A x \in Subscribers \ {s} : subscriber'[x] = subscriber[x] /\ link'[x] = link[x]
        /\ subscriber'[s] = "connecting"
    BY <2>1, <2>2, Zenon
  <2>4. /\ backlog' \in Seq(Subscribers)
        /\ Len(backlog) \in Nat /\ Len(backlog') = Len(backlog) + 1
        /\ \A n \in 1..Len(backlog) : backlog'[n] = backlog[n] /\ backlog[n] \in Subscribers
        /\ backlog'[Len(backlog) + 1] = s
    BY <2>1, <2>2, SMTT(30)
  <2>5. Types'
    <3>1. /\ subscriber' \in [Subscribers ->
                               {"new", "connecting", "initialized", "serving", "stopped"}]
          /\ link' \in [Subscribers -> {"none", "open", "closed", "reset"}]
      BY <2>1, <2>2, SMTT(30)
    <3> QED BY <1>1, <2>4, <3>1, Zenon DEF Inv, Types, Server
  <2>6. \A n \in 1..Len(backlog) : backlog[n] # s
    BY <2>1, Zenon DEF Inv, Queued
  <2>7. Queued'
    <3>1. gc' = gc /\ gc[s] = "none"
      BY <1>1, <2>1, Zenon DEF Server, Inv, Strangers
    <3>2. \A n \in 1..Len(backlog') : n \in 1..Len(backlog) \/ n = Len(backlog) + 1
      BY <2>4, SMTT(30)
    <3>3. ASSUME NEW n \in 1..Len(backlog')
          PROVE gc'[backlog'[n]] = "none" /\ subscriber'[backlog'[n]] # "new"
      <4>1. CASE n \in 1..Len(backlog)
        <5>1. /\ backlog'[n] = backlog[n] /\ backlog[n] \in Subscribers
              /\ backlog[n] # s
          BY <2>4, <2>6, <4>1, Zenon
        <5>2. gc[backlog[n]] = "none" /\ subscriber[backlog[n]] # "new"
          BY <4>1, Zenon DEF Inv, Queued
        <5> QED BY <2>3, <3>1, <5>1, <5>2, Zenon
      <4>2. CASE n = Len(backlog) + 1
        BY <2>3, <2>4, <3>1, <4>2, Zenon
      <4> QED BY <3>2, <4>1, <4>2, Zenon
    <3>4. ASSUME NEW m \in 1..Len(backlog'), NEW n \in 1..Len(backlog'),
                 backlog'[m] = backlog'[n]
          PROVE m = n
      <4>1. CASE m \in 1..Len(backlog) /\ n \in 1..Len(backlog)
        BY <2>4, <3>4, <4>1, Zenon DEF Inv, Queued
      <4>2. CASE m \in 1..Len(backlog) /\ n = Len(backlog) + 1
        BY <2>4, <2>6, <3>4, <4>2, Zenon
      <4>3. CASE m = Len(backlog) + 1 /\ n \in 1..Len(backlog)
        BY <2>4, <2>6, <3>4, <4>3, Zenon
      <4> QED BY <3>2, <4>1, <4>2, <4>3, Zenon
    <3> QED BY <3>3, <3>4, Zenon DEF Queued
  <2> QED BY <1>1, <2>1, <2>3, <2>5, <2>7, LinkStep, Zenon

<1>3. ASSUME /\ UNCHANGED backlog
             /\ \A x \in Subscribers : subscriber'[x] = "new" <=> subscriber[x] = "new"
             /\ subscriber' \in [Subscribers ->
                  {"new", "connecting", "initialized", "serving", "stopped"}]
             /\ link' \in [Subscribers -> {"none", "open", "closed", "reset"}]
             /\ \A x \in Subscribers : link'[x] = link[x] \/ link[x] = "open"
      PROVE Inv'
  <2>1. Types'
    BY <1>1, <1>3, Zenon DEF Inv, Types, Server
  <2>2. \A n \in 1..Len(backlog) : backlog[n] \in Subscribers
    BY SMTT(30) DEF Inv, Types
  <2>3. Queued'
    <3>1. gc' = gc
      BY <1>1, Zenon DEF Server
    <3>2. ASSUME NEW n \in 1..Len(backlog)
          PROVE gc'[backlog[n]] = "none" /\ subscriber'[backlog[n]] # "new"
      BY <1>3, <2>2, <3>1, Zenon DEF Inv, Queued
    <3>3. backlog' = backlog
      BY <1>3, Zenon
    <3>4. \A m, n \in 1..Len(backlog) : backlog[m] = backlog[n] => m = n
      BY Zenon DEF Inv, Queued
    <3> QED BY <3>2, <3>3, <3>4, Zenon DEF Queued
  <2> QED BY <1>1, <1>3, <2>1, <2>3, LinkStep, Zenon
<1>4. CASE FirstRequest(s) \/ Serve(s) \/ StreamEnds(s) \/ Stop(s)
  <2>1. PICK to \in {"initialized", "serving", "stopped"} :
          subscriber' = [subscriber EXCEPT ![s] = to]
    BY <1>4, Zenon DEF FirstRequest, Serve, StreamEnds, Stop
  <2>2. subscriber[s] # "new" /\ UNCHANGED backlog
    BY <1>4, Zenon DEF FirstRequest, Serve, StreamEnds, Stop
  <2>3. UNCHANGED link \/ \E how \in {"closed", "reset"} :
          link' = [link EXCEPT ![s] = IF @ = "open" THEN how ELSE @]
    BY <1>4, Zenon DEF FirstRequest, Serve, StreamEnds, Stop
  <2>4. /\ link' \in [Subscribers -> {"none", "open", "closed", "reset"}]
        /\ \A x \in Subscribers : link'[x] = link[x] \/ link[x] = "open"
    BY <2>3, SMTT(30) DEF Inv, Types
  <2>5. subscriber' \in [Subscribers ->
                  {"new", "connecting", "initialized", "serving", "stopped"}]
    BY <2>1, SMTT(30) DEF Inv, Types
  <2>6. \A x \in Subscribers : subscriber'[x] = "new" <=> subscriber[x] = "new"
    BY <2>1, <2>2, SMTT(30) DEF Inv, Types
  <2> QED BY <1>3, <2>2, <2>4, <2>5, <2>6, Zenon
<1>5. CASE ListenerGone(s)
  <2>1. /\ link[s] = "open" /\ UNCHANGED <<subscriber, backlog>>
        /\ link' = [link EXCEPT ![s] = "reset"]
    BY <1>5, Zenon DEF ListenerGone
  <2>2. /\ link' \in [Subscribers -> {"none", "open", "closed", "reset"}]
        /\ \A x \in Subscribers : link'[x] = link[x] \/ link[x] = "open"
    BY <2>1, SMTT(30) DEF Inv, Types
  <2>3. subscriber' \in [Subscribers ->
                  {"new", "connecting", "initialized", "serving", "stopped"}]
    BY <2>1, Zenon DEF Inv, Types
  <2> QED BY <1>3, <2>1, <2>2, <2>3, Zenon
<1> QED BY <1>2, <1>4, <1>5, Zenon DEF Subscriber

-----------------------------------------------------------------------------
(* start_subscription_manager                                              *)

\* A connection is accepted: it gets its collector, or the manager dies of it.
LEMMA AcceptInv ==
  ASSUME Inv, Accept
  PROVE Inv'
<1>1. PICK s \in Subscribers : s = Head(backlog) /\ s = backlog[1] /\ 1 \in 1..Len(backlog)
  BY SMTT(30) DEF Accept, Inv, Types
<1>2. /\ manager = "accept" /\ backlog # << >> /\ backlog' = Tail(backlog) /\ peer' = s
      /\ \/ link[s] = "reset" /\ manager' = "dead" /\ gc' = gc
         \/ manager' = "topics" /\ gc' = [gc EXCEPT ![s] = "dispatch"]
      /\ ready' = ready
  BY <1>1, Zenon DEF Accept
<1>3. /\ subscriber' = subscriber /\ link' = link /\ clients' = clients
      /\ subscriptions' = subscriptions /\ poisoned' = poisoned /\ publish' = publish
      /\ clones' = clones /\ calls' = calls /\ received' = received /\ expired' = expired
  BY Zenon DEF Accept, links, maps, publishing
<1>4. gc[s] = "none" /\ subscriber[s] # "new" /\ s \notin ready
  <2>1. gc[s] = "none" /\ subscriber[s] # "new"
    BY <1>1, Zenon DEF Inv, Queued
  <2> QED BY <2>1, Zenon DEF Inv, Strangers
<1>5. gc \in [Subscribers -> Collecting \cup {"none", "done", "panicked"}]
  BY Zenon DEF Inv, Types
<1>6. /\ gc' \in [Subscribers -> Collecting \cup {"none", "done", "panicked"}]
      /\ \A x \in Subscribers \ {s} : gc'[x] = gc[x]
      /\ gc'[s] = "none" \/ gc'[s] = "dispatch"
  BY <1>2, <1>4, <1>5, SMTT(30) DEF Collecting
<1>7. /\ backlog' \in Seq(Subscribers)
      /\ \A n \in 1..Len(backlog') : /\ n + 1 \in 1..Len(backlog) /\ n + 1 # 1
                                     /\ backlog'[n] = backlog[n + 1]
                                     /\ backlog[n + 1] \in Subscribers
  BY <1>2, SMTT(30) DEF Inv, Types
<1>8. Types'
  <2>1. manager' \in Phases
    BY <1>2, Zenon DEF Phases
  <2> QED BY <1>2, <1>3, <1>6, <1>7, <2>1, Zenon DEF Inv, Types
<1>9. Queued'
  <2>1. ASSUME NEW n \in 1..Len(backlog')
        PROVE gc'[backlog'[n]] = "none" /\ subscriber'[backlog'[n]] # "new"
    <3>1. PICK x \in Subscribers : x = backlog[n + 1] /\ x = backlog'[n]
      BY <1>7, Zenon
    <3>2. x # s
      BY <1>1, <1>7, <3>1, ZenonT(40) DEF Inv, Queued
    <3>3. gc[x] = "none" /\ subscriber[x] # "new"
      BY <1>7, <3>1, Zenon DEF Inv, Queued
    <3> QED BY <1>3, <1>6, <3>1, <3>2, <3>3, Zenon
  <2>2. ASSUME NEW m \in 1..Len(backlog'), NEW n \in 1..Len(backlog'),
               backlog'[m] = backlog'[n]
        PROVE m = n
    <3>1. /\ m + 1 \in 1..Len(backlog) /\ n + 1 \in 1..Len(backlog)
          /\ backlog[m + 1] = backlog[n + 1]
      BY <1>7, <2>2, Zenon
    <3>2. \A i, j \in 1..Len(backlog) : backlog[i] = backlog[j] => i = j
      BY Zenon DEF Inv, Queued
    <3>3. m + 1 = n + 1
      BY <3>1, <3>2, Zenon
    <3> QED BY <3>3, SMTT(30)
  <2> QED BY <2>1, <2>2, Zenon DEF Queued
<1>10. Strangers'
  BY <1>2, <1>3, <1>4, <1>6, Zenon DEF Inv, Strangers
<1>11. Managed'
  <2>1. gc'[s] = "dispatch" \/ manager' = "dead"
    BY <1>2, <1>5, Zenon
  <2> QED BY <1>2, <1>4, <2>1, Zenon DEF Managed, Collecting
<1>12. Collected'
  <2>1. \A x \in clients : x \in Subscribers
    BY Zenon DEF Inv, Types
  <2>2. s \notin clients
    BY <1>4, Zenon DEF Inv, Strangers
  <2> QED BY <1>3, <1>6, <2>1, <2>2, Zenon DEF Inv, Collected
<1>13. Calling'
  BY <1>3, Zenon DEF Inv, Calling
<1>14. MapsAgree'
  <2>1. \A x \in Subscribers : gc'[x] = "done" => gc[x] = "done"
    BY <1>6, Zenon
  <2> QED BY <1>2, <1>3, <2>1, Zenon DEF Inv, MapsAgree
<1>15. Panics'
  <2>1. \A x \in Subscribers : gc'[x] = "panicked" <=> gc[x] = "panicked"
    BY <1>4, <1>6, Zenon
  <2>2. manager' = "dead" => link[s] = "reset" /\ gc'[s] = "none"
    BY <1>2, <1>4, Zenon
  <2> QED BY <1>2, <1>3, <2>1, <2>2, Zenon DEF Inv, Panics
<1> QED BY <1>8, <1>9, <1>10, <1>11, <1>12, <1>13, <1>14, <1>15, Zenon DEF Inv

\* initialize_subscription and the end of it, for the subscriber accepted.
LEMMA InitializeInv ==
  ASSUME Inv, \/ TopicsPermit \/ TopicsPush \/ TopicsOk \/ TopicsErr
              \/ InsertClient \/ InsertSubscriptions \/ SendReady
  PROVE Inv'
<1>1. /\ subscriber' = subscriber /\ link' = link /\ backlog' = backlog /\ peer' = peer
      /\ gc' = gc /\ poisoned' = poisoned /\ publish' = publish /\ clones' = clones
      /\ calls' = calls /\ received' = received /\ expired' = expired
  BY Zenon DEF TopicsPermit, TopicsPush, TopicsOk, TopicsErr, InsertClient,
               InsertSubscriptions, SendReady, links, maps, publishing
<1>2. manager \notin {"accept", "dead"}
  BY Zenon DEF TopicsPermit, TopicsPush, TopicsOk, TopicsErr, InsertClient,
               InsertSubscriptions, SendReady
<1>3. /\ peer \in Subscribers /\ gc[peer] \in Collecting /\ peer \notin ready
      /\ manager = "subscriptions" => peer \in clients
  BY <1>2, Zenon DEF Inv, Managed
<1>4. gc[peer] # "none" /\ gc[peer] # "done"
  BY <1>3, Zenon DEF Collecting
<1>5. Queued'
  BY <1>1, Zenon DEF Inv, Queued
<1>6. Calling'
  BY <1>1, Zenon DEF Inv, Calling
<1>7. CASE TopicsPermit \/ TopicsPush \/ TopicsOk \/ TopicsErr
  <2>1. /\ manager \in {"topics", "permit", "asked"} /\ ready' = ready
        /\ manager' \in {"permit", "asked", "hung", "clients", "ready"}
        /\ clients' = clients /\ subscriptions' = subscriptions
    BY <1>7, Zenon DEF TopicsPermit, TopicsPush, TopicsOk, TopicsErr, maps
  <2>2. Types'
    BY <1>1, <2>1, Zenon DEF Inv, Types, Phases
  <2>3. Strangers' /\ Managed' /\ Collected'
    BY <1>1, <1>3, <2>1, Zenon DEF Inv, Strangers, Managed, Collected
  <2>4. MapsAgree'
    BY <1>1, <2>1, Zenon DEF Inv, MapsAgree
  <2>5. Panics'
    BY <1>1, <2>1, Zenon DEF Inv, Panics
  <2> QED BY <1>5, <1>6, <2>2, <2>3, <2>4, <2>5, Zenon DEF Inv
<1>8. CASE (InsertClient \/ InsertSubscriptions) /\ poisoned
  <2>1. /\ manager' = "dead" /\ ready' = ready
        /\ clients' = clients /\ subscriptions' = subscriptions
    BY <1>8, Zenon DEF InsertClient, InsertSubscriptions
  <2>2. Types'
    BY <1>1, <2>1, Zenon DEF Inv, Types, Phases
  <2>3. Strangers' /\ Managed' /\ Collected'
    BY <1>1, <1>3, <2>1, Zenon DEF Inv, Strangers, Managed, Collected
  <2>4. MapsAgree'
    BY <1>1, <1>8, Zenon DEF MapsAgree
  <2>5. Panics'
    BY <1>1, <1>8, Zenon DEF Inv, Panics
  <2> QED BY <1>5, <1>6, <2>2, <2>3, <2>4, <2>5, Zenon DEF Inv
<1>9. CASE InsertClient /\ ~poisoned
  <2>1. /\ manager = "clients" /\ manager' = "subscriptions" /\ ready' = ready
        /\ clients' = clients \cup {peer} /\ subscriptions' = subscriptions
    BY <1>9, Zenon DEF InsertClient
  <2>2. Types'
    <3>1. clients' \subseteq Subscribers
      BY <1>3, <2>1, Zenon DEF Inv, Types
    <3> QED BY <1>1, <2>1, <3>1, Zenon DEF Inv, Types, Phases
  <2>3. Strangers' /\ Managed' /\ Collected'
    BY <1>1, <1>3, <1>4, <2>1, Zenon DEF Inv, Strangers, Managed, Collected
  <2>4. MapsAgree'
    BY <1>1, <1>4, <1>9, <2>1, Zenon DEF Inv, MapsAgree
  <2>5. Panics'
    BY <1>1, <2>1, Zenon DEF Inv, Panics
  <2> QED BY <1>5, <1>6, <2>2, <2>3, <2>4, <2>5, Zenon DEF Inv
<1>10. CASE InsertSubscriptions /\ ~poisoned
  <2>1. /\ manager = "subscriptions" /\ manager' = "ready" /\ ready' = ready
        /\ clients' = clients /\ subscriptions' = subscribe(peer)
    BY <1>10, Zenon DEF InsertSubscriptions
  <2>2. /\ DOMAIN subscriptions' = DOMAIN subscriptions \cup TopicsOf(peer)
        /\ \A t \in DOMAIN subscriptions' : subscriptions'[t] =
             (IF t \in DOMAIN subscriptions THEN subscriptions[t] ELSE {})
               \cup (IF t \in TopicsOf(peer) THEN {peer} ELSE {})
        /\ subscriptions' = [t \in DOMAIN subscriptions' |-> subscriptions'[t]]
    BY <2>1, Zenon DEF subscribe
  <2>3. \A t \in DOMAIN subscriptions' : \A s \in subscriptions'[t] :
          \/ s = peer /\ t \in TopicsOf(peer)
          \/ t \in DOMAIN subscriptions /\ s \in subscriptions[t]
    BY <2>2, SMTT(30)
  <2>4. /\ \A t \in TopicsOf(peer) :
             t \in DOMAIN subscriptions' /\ peer \in subscriptions'[t]
        /\ \A t \in DOMAIN subscriptions : \A s \in subscriptions[t] :
             t \in DOMAIN subscriptions' /\ s \in subscriptions'[t]
    BY <2>2, SMTT(30)
  <2>5. Types'
    <3>1. \A t \in DOMAIN subscriptions : subscriptions[t] \subseteq Subscribers
      BY Zenon DEF Inv, Types
    <3>2. \A t \in DOMAIN subscriptions' : subscriptions'[t] \subseteq Subscribers
      BY <1>3, <2>3, <3>1, Zenon
    <3>3. subscriptions' \in [DOMAIN subscriptions' -> SUBSET Subscribers]
      BY <2>2, <3>2, Zenon
    <3> QED BY <1>1, <2>1, <3>3, Zenon DEF Inv, Types, Phases
  <2>6. Strangers'
    BY <1>1, <1>4, <2>1, <2>3, Zenon DEF Inv, Strangers
  <2>7. Managed' /\ Collected'
    BY <1>1, <1>3, <2>1, Zenon DEF Inv, Managed, Collected
  <2>8. MapsAgree'
    <3>1. ASSUME NEW t \in DOMAIN subscriptions', NEW s \in subscriptions'[t]
          PROVE s \in clients /\ t \in TopicsOf(s)
      BY <1>3, <1>10, <2>1, <2>3, Zenon DEF Inv, MapsAgree
    <3>2. ASSUME NEW s \in clients, NEW t \in TopicsOf(s)
          PROVE t \in DOMAIN subscriptions' /\ s \in subscriptions'[t]
      <4>1. CASE s = peer
        BY <2>4, <4>1, Zenon
      <4>2. CASE s # peer
        BY <1>10, <2>4, <4>2, Zenon DEF Inv, MapsAgree
      <4> QED BY <4>1, <4>2, Zenon
    <3>3. \A s \in Subscribers : gc[s] = "done" => s \notin clients
      BY <1>10, Zenon DEF Inv, MapsAgree
    <3> QED BY <1>1, <2>1, <3>1, <3>2, <3>3, Zenon DEF MapsAgree
  <2>9. Panics'
    BY <1>1, <2>1, Zenon DEF Inv, Panics
  <2> QED BY <1>5, <1>6, <2>5, <2>6, <2>7, <2>8, <2>9, Zenon DEF Inv
<1>11. CASE SendReady
  <2>1. /\ manager = "ready" /\ manager' = "accept" /\ ready' = ready \cup {peer}
        /\ clients' = clients /\ subscriptions' = subscriptions
    BY <1>3, <1>11, Zenon DEF SendReady, maps, Collecting
  <2>2. Types'
    <3>1. ready' \subseteq Subscribers
      BY <1>3, <2>1, Zenon DEF Inv, Types
    <3> QED BY <1>1, <2>1, <3>1, Zenon DEF Inv, Types, Phases
  <2>3. Strangers' /\ Managed' /\ Collected'
    BY <1>1, <1>3, <1>4, <2>1, Zenon DEF Inv, Strangers, Managed, Collected
  <2>4. MapsAgree'
    BY <1>1, <2>1, Zenon DEF Inv, MapsAgree
  <2>5. Panics'
    BY <1>1, <2>1, Zenon DEF Inv, Panics
  <2> QED BY <1>5, <1>6, <2>2, <2>3, <2>4, <2>5, Zenon DEF Inv
<1> QED BY <1>7, <1>8, <1>9, <1>10, <1>11, Zenon

-----------------------------------------------------------------------------
(* start_subscriber_gc                                                     *)

\* The dispatch of a connection ends, and with it the connection.
LEMMA DispatchEndsInv ==
  ASSUME Inv, NEW s \in Subscribers, DispatchEnds(s)
  PROVE Inv'
<1>1. /\ subscriber' = subscriber /\ backlog' = backlog /\ manager' = manager
      /\ peer' = peer /\ ready' = ready /\ clients' = clients
      /\ subscriptions' = subscriptions /\ poisoned' = poisoned /\ publish' = publish
      /\ clones' = clones /\ calls' = calls /\ received' = received /\ expired' = expired
  BY Zenon DEF DispatchEnds, maps, publishing
<1>2. /\ gc[s] = "dispatch" /\ gc' = [gc EXCEPT ![s] = "ready"]
      /\ link' = [link EXCEPT ![s] = IF @ = "open" THEN "closed" ELSE @]
  BY Zenon DEF DispatchEnds
<1>3. /\ gc \in [Subscribers -> Collecting \cup {"none", "done", "panicked"}]
      /\ link \in [Subscribers -> {"none", "open", "closed", "reset"}]
      /\ \A n \in 1..Len(backlog) : backlog[n] \in Subscribers
  BY SMTT(30) DEF Inv, Types
<1>4. /\ gc' \in [Subscribers -> Collecting \cup {"none", "done", "panicked"}]
      /\ \A x \in Subscribers : \/ gc'[x] = gc[x]
                                \/ gc[x] = "dispatch" /\ gc'[x] = "ready"
  BY <1>2, <1>3, SMTT(30) DEF Collecting
<1>5. /\ link' \in [Subscribers -> {"none", "open", "closed", "reset"}]
      /\ \A x \in Subscribers : link'[x] = link[x] \/ link[x] = "open"
  BY <1>2, <1>3, SMTT(30)
<1>6. Types'
  BY <1>1, <1>4, <1>5, Zenon DEF Inv, Types
<1>7. Queued'
  <2>1. ASSUME NEW n \in 1..Len(backlog)
        PROVE gc'[backlog[n]] = "none" /\ subscriber[backlog[n]] # "new"
    BY <1>3, <1>4, ZenonT(40) DEF Inv, Queued
  <2>2. \A m, n \in 1..Len(backlog) : backlog[m] = backlog[n] => m = n
    BY Zenon DEF Inv, Queued
  <2> QED BY <1>1, <2>1, <2>2, Zenon DEF Queued
<1>8. Strangers'
  <2>1. \A x \in Subscribers : gc'[x] = "none" <=> gc[x] = "none"
    BY <1>4, Zenon
  <2> QED BY <1>1, <2>1, Zenon DEF Inv, Strangers
<1>9. Managed' /\ Collected'
  <2>1. \A x \in Subscribers : gc[x] \in Collecting => gc'[x] \in Collecting
    BY <1>4, Zenon DEF Collecting
  <2>2. Managed'
    BY <1>1, <2>1, Zenon DEF Inv, Managed
  <2>3. clients \subseteq Subscribers
    BY Zenon DEF Inv, Types
  <2> QED BY <1>1, <2>1, <2>2, <2>3, Zenon DEF Inv, Collected
<1>10. Calling'
  <2>1. \A m \in Messages : clones[m] \subseteq Subscribers
    BY Zenon DEF Inv, Types
  <2>2. ASSUME NEW m \in Messages, publish[m] = "sending", NEW x \in clones[m] \ calls[m]
        PROVE <<m, x>> \in received \cup expired \/ link'[x] # "open"
    <3>1. x \in Subscribers
      BY <2>1, Zenon
    <3>2. link'[x] = "open" => link[x] = "open"
      BY <1>2, <1>3, <3>1, SMTT(30)
    <3> QED BY <2>2, <3>2, Zenon DEF Inv, Calling
  <2>3. /\ \A m \in Messages : calls[m] \subseteq clones[m]
        /\ \A m \in Messages : \A x \in calls[m] : topic[m] \in TopicsOf(x)
        /\ \A m \in Messages, x \in Subscribers :
             <<m, x>> \in received => topic[m] \in TopicsOf(x)
    BY Zenon DEF Inv, Calling
  <2> QED BY <1>1, <2>2, <2>3, Zenon DEF Calling
<1>11. MapsAgree'
  <2>1. \A x \in Subscribers : gc'[x] = "done" <=> gc[x] = "done"
    BY <1>4, Zenon
  <2> QED BY <1>1, <2>1, Zenon DEF Inv, MapsAgree
<1>12. Panics'
  <2>1. \A x \in Subscribers : /\ gc'[x] = "panicked" <=> gc[x] = "panicked"
                               /\ gc'[x] = "none" <=> gc[x] = "none"
    BY <1>4, Zenon
  <2>2. manager = "dead" => peer \in Subscribers
    BY Zenon DEF Inv, Managed
  <2>3. \A x \in Subscribers : link[x] = "reset" => link'[x] = "reset"
    BY <1>5, Zenon
  <2> QED BY <1>1, <2>1, <2>2, <2>3, Zenon DEF Inv, Panics
<1> QED BY <1>6, <1>7, <1>8, <1>9, <1>10, <1>11, <1>12, Zenon DEF Inv

\* A collector unsubscribes its subscriber, or panics, at a lock or in its loop.
LEMMA UnsubscribeInv ==
  ASSUME Inv, NEW s \in Subscribers, Unsubscribe(s)
  PROVE Inv'
<1>1. /\ subscriber' = subscriber /\ link' = link /\ backlog' = backlog
      /\ manager' = manager /\ peer' = peer /\ ready' = ready /\ publish' = publish
      /\ clones' = clones /\ calls' = calls /\ received' = received /\ expired' = expired
  BY Zenon DEF Unsubscribe, links, publishing
<1>2. /\ gc \in [Subscribers -> Collecting \cup {"none", "done", "panicked"}]
      /\ \A n \in 1..Len(backlog) : backlog[n] \in Subscribers
      /\ clients \subseteq Subscribers
      /\ \A t \in DOMAIN subscriptions : subscriptions[t] \subseteq Subscribers
  BY SMTT(30) DEF Inv, Types
<1>3. gc[s] = "ready" /\ (s \in ready \/ manager = "dead")
  BY Zenon DEF Unsubscribe, is_ready
\* What the three outcomes say of the maps.
<1>4. /\ poisoned => /\ poisoned' = poisoned /\ gc' = [gc EXCEPT ![s] = "panicked"]
                     /\ clients' = clients /\ subscriptions' = subscriptions
      /\ ~poisoned /\ s \notin clients =>
           /\ poisoned' = poisoned /\ ~poisoned' /\ gc' = [gc EXCEPT ![s] = "done"]
           /\ clients' = clients /\ subscriptions' = subscriptions
      /\ ~poisoned /\ s \in clients =>
           /\ poisoned' \in BOOLEAN /\ (poisoned' => panics_at(s) # {})
           /\ clients' = clients \ {s}
           /\ gc' = [gc EXCEPT ![s] = IF poisoned' THEN "panicked" ELSE "done"]
           /\ ~poisoned' => subscriptions' = unsubscribe(s, Len(topics[s]))
           /\ \E n : subscriptions' = unsubscribe(s, n)
  <2>1. ASSUME poisoned
        PROVE /\ poisoned' = poisoned /\ gc' = [gc EXCEPT ![s] = "panicked"]
              /\ clients' = clients /\ subscriptions' = subscriptions
    BY <2>1, Zenon DEF Unsubscribe, maps
  <2>2. ASSUME ~poisoned, s \notin clients
        PROVE /\ poisoned' = poisoned /\ ~poisoned' /\ gc' = [gc EXCEPT ![s] = "done"]
              /\ clients' = clients /\ subscriptions' = subscriptions
    <3>1. /\ poisoned' = poisoned /\ gc' = [gc EXCEPT ![s] = "done"]
          /\ clients' = clients /\ subscriptions' = subscriptions
      BY <2>2, Zenon DEF Unsubscribe, maps
    <3>2. ~poisoned'
      BY <2>2, <3>1, SMTT(30)
    <3> QED BY <3>1, <3>2, Zenon
  <2>3. ASSUME ~poisoned, s \in clients
        PROVE /\ poisoned' \in BOOLEAN /\ (poisoned' => panics_at(s) # {})
              /\ clients' = clients \ {s}
              /\ gc' = [gc EXCEPT ![s] = IF poisoned' THEN "panicked" ELSE "done"]
    <3>1. poisoned' = (panics_at(s) # {})
      BY <2>3, Zenon DEF Unsubscribe
    <3>2. poisoned' \in BOOLEAN /\ (poisoned' => panics_at(s) # {})
      BY <3>1, Zenon
    <3> QED BY <2>3, <3>2, Zenon DEF Unsubscribe
  <2>4. ASSUME ~poisoned, s \in clients
        PROVE \E n : subscriptions' = unsubscribe(s, n)
    BY <2>4, Zenon DEF Unsubscribe
  <2>5. ASSUME ~poisoned, s \in clients, ~poisoned'
        PROVE subscriptions' = unsubscribe(s, Len(topics[s]))
    <3> DEFINE n == IF poisoned'
                    THEN (CHOOSE i \in panics_at(s) : \A j \in panics_at(s) : i <= j) - 1
                    ELSE Len(topics[s])
    <3>1. n = Len(topics[s])
      BY <2>5, Zenon
    <3>2. subscriptions' = unsubscribe(s, n)
      BY <2>5, Zenon DEF Unsubscribe
    <3> HIDE DEF n
    <3> QED BY <3>1, <3>2, Zenon
  <2> QED BY <2>1, <2>2, <2>3, <2>4, <2>5, Zenon
<1>5. /\ gc' \in [Subscribers -> Collecting \cup {"none", "done", "panicked"}]
      /\ gc'[s] \in {"done", "panicked"}
      /\ \A x \in Subscribers \ {s} : gc'[x] = gc[x]
      /\ gc'[s] = "panicked" <=> poisoned'
  <2>1. PICK to \in {"done", "panicked"} :
          gc' = [gc EXCEPT ![s] = to] /\ (to = "panicked" <=> poisoned')
    <3>1. CASE poisoned
      BY <1>4, <3>1, Zenon
    <3>2. CASE ~poisoned /\ s \notin clients
      BY <1>4, <3>2, Zenon
    <3>3. CASE ~poisoned /\ s \in clients
      BY <1>4, <3>3, Zenon
    <3> QED BY <3>1, <3>2, <3>3, Zenon
  <2> QED BY <1>2, <2>1, Zenon
<1>6. /\ DOMAIN subscriptions' \subseteq DOMAIN subscriptions
      /\ \A t \in DOMAIN subscriptions' : subscriptions'[t] \subseteq subscriptions[t]
      /\ subscriptions' = [t \in DOMAIN subscriptions' |-> subscriptions'[t]]
  <2>1. subscriptions = [t \in DOMAIN subscriptions |-> subscriptions[t]]
    BY Zenon DEF Inv, Types
  <2>2. CASE subscriptions' = subscriptions
    BY <2>1, <2>2, Zenon
  <2>3. CASE \E n : subscriptions' = unsubscribe(s, n)
    <3>1. PICK n : subscriptions' = unsubscribe(s, n)
      BY <2>3, Zenon
    <3>2. PICK u : u = unsubscribe(s, n)
      BY Zenon
    <3>3. /\ DOMAIN u \subseteq DOMAIN subscriptions
          /\ \A t \in DOMAIN u : u[t] \subseteq subscriptions[t]
          /\ u = [t \in DOMAIN u |-> u[t]]
      BY <3>2, Zenon DEF unsubscribe
    <3>4. subscriptions' = u
      BY <3>1, <3>2, Zenon
    <3> QED BY <3>3, <3>4, Zenon
  <2> QED BY <1>4, <2>2, <2>3, Zenon
<1>7. /\ clients' \subseteq clients /\ clients \ {s} \subseteq clients'
      /\ ~poisoned' => s \notin clients'
      /\ poisoned => poisoned'
  <2>1. CASE poisoned
    BY <1>4, <2>1, Zenon
  <2>2. CASE ~poisoned /\ s \notin clients
    BY <1>4, <2>2, Zenon
  <2>3. CASE ~poisoned /\ s \in clients
    BY <1>4, <2>3, Zenon
  <2> QED BY <2>1, <2>2, <2>3, Zenon
\* Nobody is collected while being initialized.
<1>8. manager \notin {"accept", "dead"} => peer # s
  BY <1>3, Zenon DEF Inv, Managed
<1>9. Types'
  <2>1. clients' \subseteq Subscribers
    BY <1>2, <1>7, Zenon
  <2>2. subscriptions' \in [DOMAIN subscriptions' -> SUBSET Subscribers]
    <3>1. \A t \in DOMAIN subscriptions' : subscriptions'[t] \subseteq Subscribers
      BY <1>2, <1>6, Zenon
    <3> QED BY <1>6, <3>1, Zenon
  <2>3. poisoned' \in BOOLEAN
    BY <1>4, Zenon DEF Inv, Types
  <2> QED BY <1>1, <1>5, <2>1, <2>2, <2>3, Zenon DEF Inv, Types
<1>10. Queued'
  <2>1. ASSUME NEW n \in 1..Len(backlog)
        PROVE gc'[backlog[n]] = "none" /\ subscriber[backlog[n]] # "new"
    BY <1>2, <1>3, <1>5, Zenon DEF Inv, Queued
  <2>2. \A m, n \in 1..Len(backlog) : backlog[m] = backlog[n] => m = n
    BY Zenon DEF Inv, Queued
  <2> QED BY <1>1, <2>1, <2>2, Zenon DEF Queued
<1>11. Strangers'
  <2>1. \A x \in Subscribers : gc'[x] = "none" <=> gc[x] = "none"
    BY <1>3, <1>5, Zenon
  <2> QED BY <1>1, <1>6, <1>7, <2>1, Zenon DEF Inv, Strangers
<1>12. Managed'
  BY <1>1, <1>5, <1>7, <1>8, Zenon DEF Inv, Managed
<1>13. Collected'
  BY <1>2, <1>5, <1>7, Zenon DEF Inv, Collected
<1>14. Calling'
  BY <1>1, Zenon DEF Inv, Calling
<1>15. MapsAgree'
  <2>1. SUFFICES ASSUME ~poisoned' PROVE MapsAgree'
    BY Zenon DEF MapsAgree
  <2>2. ~poisoned
    BY <1>7, <2>1, Zenon
  <2>3. /\ \A x \in Subscribers : gc[x] = "done" => x \notin clients
        /\ \A t \in DOMAIN subscriptions : \A x \in subscriptions[t] :
             x \in clients /\ t \in TopicsOf(x)
        /\ \A x \in clients :
             \/ (manager = "subscriptions" /\ peer = x)
             \/ \A t \in TopicsOf(x) : t \in DOMAIN subscriptions /\ x \in subscriptions[t]
    BY <2>2, Zenon DEF Inv, MapsAgree
  <2>4. ASSUME NEW x \in Subscribers, gc'[x] = "done" PROVE x \notin clients'
    BY <1>5, <1>7, <2>1, <2>3, <2>4, Zenon
  <2>5. \/ s \notin clients /\ subscriptions' = subscriptions
        \/ /\ \A t \in DOMAIN subscriptions' : t \in TopicsOf(s) => s \notin subscriptions'[t]
           /\ \A t \in DOMAIN subscriptions : \A x \in subscriptions[t] \ {s} :
                t \in DOMAIN subscriptions' /\ x \in subscriptions'[t]
    <3>1. CASE s \notin clients
      BY <1>4, <2>2, <3>1, Zenon
    <3>2. CASE s \in clients
      <4>1. PICK u : u = unsubscribe(s, Len(topics[s]))
        BY Zenon
      <4>2. /\ \A t \in DOMAIN u : t \in TopicsOf(s) => s \notin u[t]
            /\ \A t \in DOMAIN subscriptions : \A x \in subscriptions[t] \ {s} :
                 t \in DOMAIN u /\ x \in u[t]
        BY <4>1, UnsubscribedAll, Zenon
      <4>3. subscriptions' = unsubscribe(s, Len(topics[s]))
        BY <1>4, <2>1, <2>2, <3>2, Zenon
      <4>4. subscriptions' = u
        BY <4>1, <4>3, Zenon
      <4> QED BY <4>2, <4>4, Zenon
    <3> QED BY <3>1, <3>2, Zenon
  <2>6. ASSUME NEW t \in DOMAIN subscriptions', NEW x \in subscriptions'[t]
        PROVE x \in clients' /\ t \in TopicsOf(x)
    <3>1. x \in clients /\ t \in TopicsOf(x)
      BY <1>6, <2>3, Zenon
    <3>2. x # s
      BY <2>5, <3>1, Zenon
    <3> QED BY <1>7, <3>1, <3>2, Zenon
  <2>7. ASSUME NEW x \in clients', ~(manager = "subscriptions" /\ peer = x),
               NEW t \in TopicsOf(x)
        PROVE t \in DOMAIN subscriptions' /\ x \in subscriptions'[t]
    <3>1. x # s /\ t \in DOMAIN subscriptions /\ x \in subscriptions[t]
      BY <1>7, <2>1, <2>3, <2>7, Zenon
    <3> QED BY <2>5, <3>1, Zenon
  <2> QED BY <1>1, <2>4, <2>6, <2>7, Zenon DEF MapsAgree
<1>16. Panics'
  <2>1. ASSUME poisoned' PROVE \E x \in Subscribers :
          gc'[x] = "panicked" /\ Cardinality(TopicsOf(x)) < Len(topics[x])
    <3>1. CASE poisoned
      BY <1>3, <1>5, <3>1, Zenon DEF Inv, Panics
    <3>2. CASE ~poisoned
      <4>1. s \in clients /\ panics_at(s) # {}
        BY <1>4, <2>1, <3>2, Zenon
      <4>2. \A t \in TopicsOf(s) : t \in DOMAIN subscriptions
        BY <1>8, <3>2, <4>1, Zenon DEF Inv, MapsAgree
      <4>3. Cardinality(TopicsOf(s)) < Len(topics[s])
        BY <4>1, <4>2, PanicsRepeat, Zenon
      <4> QED BY <1>5, <2>1, <4>3, Zenon
    <3> QED BY <3>1, <3>2, Zenon
  <2>2. manager = "dead" => poisoned' \/ (link[peer] = "reset" /\ gc'[peer] = "none")
    <3>1. manager = "dead" => peer \in Subscribers
      BY Zenon DEF Inv, Managed
    <3> QED BY <1>3, <1>5, <1>7, <3>1, Zenon DEF Inv, Panics
  <2>3. \A x \in Subscribers : gc'[x] = "panicked" => poisoned'
    BY <1>5, <1>7, Zenon DEF Inv, Panics
  <2>4. \A m \in Messages : publish[m] = "panicked" => poisoned'
    BY <1>7, Zenon DEF Inv, Panics
  <2> QED BY <1>1, <2>1, <2>2, <2>3, <2>4, Zenon DEF Panics
<1> QED BY <1>9, <1>10, <1>11, <1>12, <1>13, <1>14, <1>15, <1>16, Zenon DEF Inv

-----------------------------------------------------------------------------
(* Publisher::publish                                                      *)

Tasks == <<subscriber, link, backlog, manager, peer, gc, ready, clients, subscriptions,
           poisoned>>

\* A handler takes clients from the map and leaves the other tasks alone.
LEMMA PublishStep ==
  ASSUME Inv, UNCHANGED Tasks, Types', Calling',
         \A m \in Messages : \A s \in clones'[m] : gc[s] # "none",
         \A m \in Messages : publish'[m] = "panicked" => poisoned
  PROVE Inv'
<1>1. /\ subscriber' = subscriber /\ link' = link /\ backlog' = backlog
      /\ manager' = manager /\ peer' = peer /\ gc' = gc /\ ready' = ready
      /\ clients' = clients /\ subscriptions' = subscriptions /\ poisoned' = poisoned
  BY Zenon DEF Tasks
<1>2. Queued'
  BY <1>1, Zenon DEF Inv, Queued
<1>3. Strangers'
  BY <1>1, Zenon DEF Inv, Strangers
<1>4. Managed' /\ Collected'
  BY <1>1, Zenon DEF Inv, Managed, Collected
<1>5. MapsAgree'
  BY <1>1, Zenon DEF Inv, MapsAgree
<1>6. Panics'
  BY <1>1, Zenon DEF Inv, Panics
<1> QED BY <1>2, <1>3, <1>4, <1>5, <1>6, Zenon DEF Inv

\* A handler that is over: it returns, panics or is aborted.
LEMMA PublishEnds ==
  ASSUME Inv, NEW m \in Messages, UNCHANGED Tasks, UNCHANGED <<received, expired>>,
         NEW to \in {"done", "aborted", "panicked"}, to = "panicked" => poisoned,
         publish' = [publish EXCEPT ![m] = to],
         \/ UNCHANGED <<clones, calls>>
         \/ clones' = [clones EXCEPT ![m] = {}] /\ calls' = [calls EXCEPT ![m] = {}]
  PROVE Inv'
<1>1. /\ publish \in [Messages -> {"new", "sending", "done", "aborted", "panicked"}]
      /\ clones \in [Messages -> SUBSET Subscribers]
      /\ calls \in [Messages -> SUBSET Subscribers]
  BY Zenon DEF Inv, Types
<1>2. /\ publish' \in [Messages -> {"new", "sending", "done", "aborted", "panicked"}]
      /\ \A k \in Messages \ {m} : publish'[k] = publish[k]
      /\ publish'[m] = to
  BY <1>1, Zenon
<1>3. /\ clones' \in [Messages -> SUBSET Subscribers]
      /\ calls' \in [Messages -> SUBSET Subscribers]
      /\ \A k \in Messages \ {m} : clones'[k] = clones[k] /\ calls'[k] = calls[k]
      /\ \/ clones'[m] = clones[m] /\ calls'[m] = calls[m]
         \/ clones'[m] = {} /\ calls'[m] = {}
  BY <1>1, SMTT(30)
<1>4. \A k \in Messages : \A s \in clones'[k] : s \in Subscribers /\ s \in clones[k]
  BY <1>1, <1>3, Zenon
<1>5. Types'
  BY <1>2, <1>3, Zenon DEF Inv, Types, Tasks
<1>6. Calling'
  <2>1. link' = link /\ received' = received /\ expired' = expired
    BY Zenon DEF Tasks
  <2>2. \A k \in Messages : calls'[k] \subseteq clones'[k]
    BY <1>3, Zenon DEF Inv, Calling
  <2>3. ASSUME NEW k \in Messages, NEW s \in calls'[k] PROVE topic[k] \in TopicsOf(s)
    BY <1>3, Zenon DEF Inv, Calling
  <2>4. \A k \in Messages, s \in Subscribers :
          <<k, s>> \in received => topic[k] \in TopicsOf(s)
    BY Zenon DEF Inv, Calling
  <2>5. ASSUME NEW k \in Messages, publish'[k] = "sending",
               NEW s \in clones'[k] \ calls'[k]
        PROVE <<k, s>> \in received \cup expired \/ link[s] # "open"
    <3>1. k # m
      BY <1>2, <2>5, Zenon
    <3>2. publish[k] = "sending" /\ s \in clones[k] \ calls[k]
      BY <1>2, <1>3, <2>5, <3>1, Zenon
    <3> QED BY <3>2, Zenon DEF Inv, Calling
  <2> QED BY <2>1, <2>2, <2>3, <2>4, <2>5, Zenon DEF Calling
<1>7. \A k \in Messages : \A s \in clones'[k] : gc[s] # "none"
  BY <1>4, Zenon DEF Inv, Strangers
<1>8. \A k \in Messages : publish'[k] = "panicked" => poisoned
  BY <1>2, Zenon DEF Inv, Panics
<1> QED BY <1>5, <1>6, <1>7, <1>8, PublishStep, Zenon

\* A broadcast to the subscribers found under the topic.
LEMMA BroadcastInv ==
  ASSUME Inv, NEW m \in Messages, UNCHANGED Tasks, UNCHANGED <<received, expired>>,
         ~poisoned, topic[m] \in DOMAIN subscriptions,
         publish' = [publish EXCEPT ![m] = "sending"],
         clones' = [clones EXCEPT ![m] = snapshot(m)],
         calls' = [calls EXCEPT ![m] = snapshot(m)]
  PROVE Inv'
<1>1. /\ publish \in [Messages -> {"new", "sending", "done", "aborted", "panicked"}]
      /\ clones \in [Messages -> SUBSET Subscribers]
      /\ calls \in [Messages -> SUBSET Subscribers]
  BY Zenon DEF Inv, Types
<1>2. PICK found \in SUBSET Subscribers : found = snapshot(m)
  BY Zenon DEF Inv, Types, snapshot
<1>3. \A s \in found : gc[s] # "none" /\ topic[m] \in TopicsOf(s)
  <2>1. \A s \in found : topic[m] \in TopicsOf(s)
    BY <1>2, Zenon DEF Inv, MapsAgree, snapshot
  <2>2. \A s \in found : gc[s] # "none"
    BY <1>2, Zenon DEF Inv, Strangers, snapshot
  <2> QED BY <2>1, <2>2, Zenon
<1>4. /\ publish' \in [Messages -> {"new", "sending", "done", "aborted", "panicked"}]
      /\ \A k \in Messages \ {m} : publish'[k] = publish[k]
      /\ publish'[m] = "sending"
  BY <1>1, Zenon
<1>5. /\ clones' \in [Messages -> SUBSET Subscribers]
      /\ calls' \in [Messages -> SUBSET Subscribers]
      /\ \A k \in Messages \ {m} : clones'[k] = clones[k] /\ calls'[k] = calls[k]
      /\ clones'[m] = found /\ calls'[m] = found
  BY <1>1, <1>2, Zenon
<1>6. Types'
  BY <1>4, <1>5, Zenon DEF Inv, Types, Tasks
<1>7. Calling'
  <2>1. link' = link /\ received' = received /\ expired' = expired
    BY Zenon DEF Tasks
  <2>2. \A k \in Messages : calls'[k] \subseteq clones'[k]
    BY <1>5, Zenon DEF Inv, Calling
  <2>3. ASSUME NEW k \in Messages, NEW s \in calls'[k] PROVE topic[k] \in TopicsOf(s)
    BY <1>3, <1>5, Zenon DEF Inv, Calling
  <2>4. \A k \in Messages, s \in Subscribers :
          <<k, s>> \in received => topic[k] \in TopicsOf(s)
    BY Zenon DEF Inv, Calling
  <2>5. ASSUME NEW k \in Messages, publish'[k] = "sending",
               NEW s \in clones'[k] \ calls'[k]
        PROVE <<k, s>> \in received \cup expired \/ link[s] # "open"
    <3>1. k # m
      BY <1>5, <2>5, Zenon
    <3>2. publish[k] = "sending" /\ s \in clones[k] \ calls[k]
      BY <1>4, <1>5, <2>5, <3>1, Zenon
    <3> QED BY <3>2, Zenon DEF Inv, Calling
  <2> QED BY <2>1, <2>2, <2>3, <2>4, <2>5, Zenon DEF Calling
<1>8. \A k \in Messages : \A s \in clones'[k] : gc[s] # "none"
  <2>1. \A k \in Messages : \A s \in clones[k] : s \in Subscribers
    BY <1>1, Zenon
  <2>2. \A k \in Messages : \A s \in clones[k] : gc[s] # "none"
    BY <2>1, Zenon DEF Inv, Strangers
  <2> QED BY <1>3, <1>5, <2>2, Zenon
<1>9. \A k \in Messages : publish'[k] = "panicked" => poisoned
  BY <1>4, Zenon DEF Inv, Panics
<1> QED BY <1>6, <1>7, <1>8, <1>9, PublishStep, Zenon

\* A subscriber executes receive(), or its call returns.
LEMMA ReceiveInv ==
  ASSUME Inv, NEW m \in Messages, NEW s \in Subscribers, Receive(m, s) \/ Return(m, s)
  PROVE Inv'
<1>1. UNCHANGED Tasks /\ s \in calls[m] /\ publish' = publish /\ clones' = clones
  BY Zenon DEF Receive, Return, Tasks, links, maps
<1>2. /\ publish \in [Messages -> {"new", "sending", "done", "aborted", "panicked"}]
      /\ clones \in [Messages -> SUBSET Subscribers]
      /\ calls \in [Messages -> SUBSET Subscribers]
      /\ received \subseteq Messages \X Subscribers
      /\ expired \subseteq Messages \X Subscribers
  BY Zenon DEF Inv, Types
<1>3. /\ received \subseteq received' /\ received' \subseteq received \cup {<<m, s>>}
      /\ expired \subseteq expired' /\ expired' \subseteq expired \cup {<<m, s>>}
  BY Zenon DEF Receive, Return
<1>4. \/ calls' = calls
      \/ /\ calls' = [calls EXCEPT ![m] = @ \ {s}]
         /\ <<m, s>> \in received' \cup expired' \/ link[s] # "open"
  BY Zenon DEF Receive, Return
<1>5. /\ calls' \in [Messages -> SUBSET Subscribers]
      /\ \A k \in Messages : calls'[k] \subseteq calls[k]
      /\ \A k \in Messages : \A x \in calls[k] \ calls'[k] :
           /\ k = m /\ x = s
           /\ <<m, s>> \in received' \cup expired' \/ link[s] # "open"
  BY <1>2, <1>4, SMTT(30)
<1>6. Types'
  <2>1. <<m, s>> \in Messages \X Subscribers
    BY Zenon
  <2>2. /\ received' \subseteq Messages \X Subscribers
        /\ expired' \subseteq Messages \X Subscribers
    BY <1>2, <1>3, <2>1, Zenon
  <2> QED BY <1>1, <1>5, <2>2, Zenon DEF Inv, Types, Tasks
<1>7. Calling'
  <2>1. link' = link
    BY <1>1, Zenon DEF Tasks
  <2>2. \A k \in Messages : calls'[k] \subseteq clones[k]
    BY <1>5, Zenon DEF Inv, Calling
  <2>3. ASSUME NEW k \in Messages, NEW x \in calls'[k] PROVE topic[k] \in TopicsOf(x)
    BY <1>5, Zenon DEF Inv, Calling
  <2>4. ASSUME NEW k \in Messages, NEW x \in Subscribers, <<k, x>> \in received'
        PROVE topic[k] \in TopicsOf(x)
    <3>1. CASE <<k, x>> \in received
      BY <3>1, Zenon DEF Inv, Calling
    <3>2. CASE <<k, x>> = <<m, s>>
      <4>1. k = m /\ x = s
        BY <3>2, Zenon
      <4> QED BY <1>1, <4>1, Zenon DEF Inv, Calling
    <3> QED BY <1>3, <2>4, <3>1, <3>2, Zenon
  <2>5. ASSUME NEW k \in Messages, publish[k] = "sending", NEW x \in clones[k] \ calls'[k]
        PROVE <<k, x>> \in received' \cup expired' \/ link[x] # "open"
    <3>1. CASE x \in calls[k]
      BY <1>5, <2>5, <3>1, Zenon
    <3>2. CASE x \notin calls[k]
      <4>1. <<k, x>> \in received \cup expired \/ link[x] # "open"
        BY <2>5, <3>2, Zenon DEF Inv, Calling
      <4> QED BY <1>3, <4>1, Zenon
    <3> QED BY <3>1, <3>2, Zenon
  <2> QED BY <1>1, <2>1, <2>2, <2>3, <2>4, <2>5, Zenon DEF Calling
<1>8. \A k \in Messages : \A x \in clones'[k] : gc[x] # "none"
  <2>1. \A k \in Messages : \A x \in clones[k] : x \in Subscribers
    BY <1>2, Zenon
  <2> QED BY <1>1, <2>1, Zenon DEF Inv, Strangers
<1>9. \A k \in Messages : publish'[k] = "panicked" => poisoned
  BY <1>1, Zenon DEF Inv, Panics
<1> QED BY <1>1, <1>6, <1>7, <1>8, <1>9, PublishStep, Zenon

\* Nothing happens, but to the calls on their way and to the publisher.
LEMMA StutterInv ==
  ASSUME Inv, UNCHANGED Tasks, UNCHANGED <<publish, clones, calls, received, expired>>
  PROVE Inv'
<1>1. Types'
  BY Zenon DEF Inv, Types, Tasks
<1>2. Calling'
  BY Zenon DEF Inv, Calling, Tasks
<1>3. \A m \in Messages : \A s \in clones'[m] : gc[s] # "none"
  <2>1. \A m \in Messages : \A s \in clones[m] : s \in Subscribers
    BY Zenon DEF Inv, Types
  <2> QED BY <2>1, Zenon DEF Inv, Strangers
<1>4. \A m \in Messages : publish'[m] = "panicked" => poisoned
  BY Zenon DEF Inv, Panics
<1> QED BY <1>1, <1>2, <1>3, <1>4, PublishStep, Zenon

\* The steps of a handler.
LEMMA HandlerInv ==
  ASSUME Inv, NEW m \in Messages, Handler(m)
  PROVE Inv'
<1>1. CASE Publish(m)
  <2>1. UNCHANGED Tasks /\ UNCHANGED <<received, expired>>
    BY <1>1, Zenon DEF Publish, Tasks, links, maps
  <2>2. CASE /\ poisoned /\ publish' = [publish EXCEPT ![m] = "panicked"]
             /\ UNCHANGED <<clones, calls>>
    BY <2>1, <2>2, PublishEnds, Zenon
  <2>3. CASE publish' = [publish EXCEPT ![m] = "done"] /\ UNCHANGED <<clones, calls>>
    BY <2>1, <2>3, PublishEnds, Zenon
  <2>4. CASE /\ ~poisoned /\ topic[m] \in DOMAIN subscriptions
             /\ publish' = [publish EXCEPT ![m] = "sending"]
             /\ clones' = [clones EXCEPT ![m] = snapshot(m)]
             /\ calls' = [calls EXCEPT ![m] = snapshot(m)]
    BY <2>1, <2>4, BroadcastInv, Zenon
  <2> QED BY <1>1, <2>2, <2>3, <2>4, Zenon DEF Publish
<1>2. CASE Published(m) \/ Abort(m)
  <2>1. UNCHANGED Tasks /\ UNCHANGED <<received, expired>>
    BY <1>2, Zenon DEF Published, Abort, Tasks, links, maps
  <2>2. PICK to \in {"done", "aborted"} : publish' = [publish EXCEPT ![m] = to]
    BY <1>2, Zenon DEF Published, Abort
  <2>3. clones' = [clones EXCEPT ![m] = {}] /\ calls' = [calls EXCEPT ![m] = {}]
    BY <1>2, Zenon DEF Published, Abort
  <2>4. to \in {"done", "aborted", "panicked"} /\ (to = "panicked" => poisoned)
    BY <2>2, SMTT(30)
  <2> QED BY <2>1, <2>2, <2>3, <2>4, PublishEnds, Zenon
<1>3. CASE \E s \in Subscribers : Receive(m, s) \/ Return(m, s)
  BY <1>3, ReceiveInv, Zenon
<1>4. ASSUME NEW s \in Subscribers, Send(m, s) PROVE Inv'
  BY <1>4, StutterInv, Zenon DEF Send, Tasks, links, maps
<1> QED BY <1>1, <1>2, <1>3, <1>4, Zenon DEF Handler, Publishing

-----------------------------------------------------------------------------
(* The theorems                                                            *)

\* At the start there is nobody.
LEMMA InitInv == Init => Inv
<1> SUFFICES ASSUME Init PROVE Inv
  BY Zenon
<1>1. Types
  <2>1. /\ backlog \in Seq(Subscribers)
        /\ subscriptions \in [DOMAIN subscriptions -> SUBSET Subscribers]
    BY SMTT(30) DEF Init
  <2> QED BY <2>1, Zenon DEF Init, Types, Phases, Collecting
<1>2. Queued
  BY SMTT(30) DEF Init, Queued
<1>3. DOMAIN subscriptions = {}
  BY SMTT(30) DEF Init
<1>4. Strangers /\ Managed /\ Collected
  BY <1>3, Zenon DEF Init, Strangers, Managed, Collected
<1>5. Calling
  BY Zenon DEF Init, Calling
<1>6. MapsAgree /\ Panics
  BY <1>3, Zenon DEF Init, MapsAgree, Panics
<1> QED BY <1>1, <1>2, <1>4, <1>5, <1>6, Zenon DEF Inv

\* Every step keeps the invariant.
LEMMA StepInv == Inv /\ [Next]_vars => Inv'
<1> SUFFICES ASSUME Inv, [Next]_vars PROVE Inv'
  BY Zenon
<1>1. ASSUME NEW s \in Subscribers, Subscriber(s) \/ Collector(s) \/ ListenerGone(s)
      PROVE Inv'
  BY <1>1, SubscriberInv, DispatchEndsInv, UnsubscribeInv, Zenon DEF Collector
<1>2. CASE Manager
  BY <1>2, AcceptInv, InitializeInv, Zenon DEF Manager
<1>3. ASSUME NEW m \in Messages, Handler(m) PROVE Inv'
  BY <1>3, HandlerInv, Zenon
<1>4. CASE Idle \/ UNCHANGED vars
  BY <1>4, StutterInv, Zenon DEF Idle, vars, links, maps, publishing, Tasks
<1>5. CASE AcceptPublisher
  BY <1>5, StutterInv, Zenon DEF AcceptPublisher, links, maps, Tasks
<1> QED BY <1>1, <1>2, <1>3, <1>4, <1>5, Zenon DEF Next

\* The dispatch of a call that hangs is over, and stays so.
LEMMA StepHangs == Inv /\ Hangs /\ [Next]_vars => Hangs'
<1> SUFFICES ASSUME Inv, Hangs, [Next]_vars PROVE Hangs'
  BY Zenon
<1> DEFINE
      Others == UNCHANGED <<manager, peer, gc, stage, door, publish>>
      Call == UNCHANGED <<link, manager, peer, gc, door>>
<1>1. \A s \in Subscribers : subscriber[s] = "new" => gc[s] = "none"
  BY Zenon DEF Inv, Strangers
<1>2. ASSUME NEW s \in Subscribers, Subscriber(s) \/ ListenerGone(s) PROVE Hangs'
  <2>1. Others
    BY <1>2, Zenon DEF Subscriber, Connect, FirstRequest, Serve, StreamEnds, Stop,
                       ListenerGone, publishing
  <2>2. \A x \in Subscribers :
          link'[x] = "open" => link[x] = "open" \/ subscriber[x] = "new"
    <3>1. link \in [Subscribers -> {"none", "open", "closed", "reset"}]
      BY Zenon DEF Inv, Types
    <3>2. CASE Connect(s)
      BY <3>1, <3>2, Zenon DEF Connect
    <3>3. CASE UNCHANGED link
      BY <3>3, Zenon
    <3>4. CASE \E how \in {"closed", "reset"} :
                 link' = [link EXCEPT ![s] = IF @ = "open" THEN how ELSE @]
      BY <3>1, <3>4, SMTT(30)
    <3>5. CASE ListenerGone(s)
      BY <3>1, <3>5, SMTT(30) DEF ListenerGone
    <3> QED BY <1>2, <3>2, <3>3, <3>4, <3>5, Zenon
            DEF Subscriber, FirstRequest, Serve, StreamEnds, Stop
  <2> QED BY <1>1, <2>1, <2>2, Zenon DEF Hangs
<1>3. CASE Accept
  <2>1. PICK s \in Subscribers : s = Head(backlog) /\ gc[s] = "none"
    <3>1. PICK s \in Subscribers : s = Head(backlog) /\ s = backlog[1]
                                   /\ 1 \in 1..Len(backlog)
      BY <1>3, SMTT(30) DEF Accept, Inv, Types
    <3> QED BY <3>1, Zenon DEF Inv, Queued
  <2>2. /\ manager' \in {"dead", "topics"} /\ UNCHANGED <<link, stage, door, publish>>
        /\ gc' = gc \/ gc' = [gc EXCEPT ![s] = "dispatch"]
    BY <1>3, <2>1, Zenon DEF Accept, links, publishing
  <2>3. \A x \in Subscribers : gc'[x] = gc[x] \/ (gc[x] = "none" /\ gc'[x] = "dispatch")
    BY <2>1, <2>2, Zenon DEF Inv, Types
  <2> QED BY <2>2, <2>3, Zenon DEF Hangs
<1>4. CASE \/ TopicsPermit \/ TopicsPush \/ TopicsOk \/ TopicsErr
           \/ InsertClient \/ InsertSubscriptions \/ SendReady
  <2>1. UNCHANGED <<link, peer, gc, stage, door, publish>>
    BY <1>4, Zenon DEF TopicsPermit, TopicsPush, TopicsOk, TopicsErr, InsertClient,
                       InsertSubscriptions, SendReady, links, publishing
  <2>2. manager' = "hung" => manager = "permit" /\ gc[peer] # "dispatch"
    BY <1>4, Zenon DEF TopicsPermit, TopicsPush, TopicsOk, TopicsErr, InsertClient,
                       InsertSubscriptions, SendReady
  <2>3. manager' = "hung" => gc[peer] = "ready"
    BY <2>2, Zenon DEF Inv, Managed, Collecting
  <2> QED BY <2>1, <2>3, Zenon DEF Hangs
<1>5. ASSUME NEW s \in Subscribers, Collector(s) PROVE Hangs'
  <2>1. UNCHANGED <<manager, peer, stage, door, publish>>
    BY <1>5, Zenon DEF Collector, DispatchEnds, Unsubscribe, publishing
  <2>2. /\ gc \in [Subscribers -> Collecting \cup {"none", "done", "panicked"}]
        /\ link \in [Subscribers -> {"none", "open", "closed", "reset"}]
    BY Zenon DEF Inv, Types
  <2>3. CASE DispatchEnds(s)
    <3>1. /\ gc[s] = "dispatch" /\ gc' = [gc EXCEPT ![s] = "ready"]
          /\ link' = [link EXCEPT ![s] = IF @ = "open" THEN "closed" ELSE @]
      BY <2>3, Zenon DEF DispatchEnds
    <3>2. /\ \A x \in Subscribers \ {s} : gc'[x] = gc[x] /\ link'[x] = link[x]
          /\ gc'[s] = "ready" /\ link'[s] # "open"
      BY <2>2, <3>1, SMTT(30)
    <3>3. manager = "hung" => peer \in Subscribers
      BY Zenon DEF Inv, Managed
    <3> QED BY <2>1, <3>1, <3>2, <3>3, Zenon DEF Hangs
  <2>4. CASE Unsubscribe(s)
    <3>1. /\ gc[s] = "ready" /\ (s \in ready \/ manager = "dead") /\ link' = link
          /\ \E to \in {"done", "panicked"} : gc' = [gc EXCEPT ![s] = to]
      BY <2>4, Zenon DEF Unsubscribe, is_ready, links
    <3>2. /\ \A x \in Subscribers \ {s} : gc'[x] = gc[x]
          /\ gc'[s] \in {"done", "panicked"}
      BY <2>2, <3>1, Zenon
    <3>3. manager = "hung" => peer \in Subscribers \ {s}
      BY <3>1, Zenon DEF Inv, Managed
    <3> QED BY <2>1, <3>1, <3>2, <3>3, Zenon DEF Hangs
  <2> QED BY <1>5, <2>3, <2>4, Zenon DEF Collector
<1>6. ASSUME NEW m \in Messages, NEW s \in Subscribers, Send(m, s) PROVE Hangs'
  <2>1. Call /\ UNCHANGED publish /\ s \in calls[m]
    BY <1>6, Zenon DEF Send, links
  <2>2. PICK to \in {"permit", "sent", "hung"} :
          stage' = [stage EXCEPT ![<<m, s>>] = to] /\ (to = "hung" => gc[s] # "dispatch")
    BY <1>6, Zenon DEF Send
  <2>3. gc[s] # "none"
    BY <2>1, Zenon DEF Inv, Strangers, Calling
  <2>4. /\ stage' \in [Messages \X Subscribers -> {"unsent", "permit", "sent", "hung"}]
        /\ \A k \in Messages, x \in Subscribers :
             stage'[<<k, x>>] = stage[<<k, x>>] \/ (k = m /\ x = s /\ stage'[<<k, x>>] = to)
    BY <2>2, SMTT(30) DEF Hangs
  <2> QED BY <2>1, <2>2, <2>3, <2>4, Zenon DEF Hangs
<1>7. ASSUME NEW m \in Messages, Publish(m) \/ Published(m) \/ Abort(m) PROVE Hangs'
  <2>1. Call /\ UNCHANGED stage /\ door = "serving"
    BY <1>7, Zenon DEF Publish, Published, Abort, links, Hangs
  <2> QED BY <2>1, Zenon DEF Hangs
<1>8. ASSUME NEW m \in Messages, NEW s \in Subscribers, Receive(m, s) \/ Return(m, s)
      PROVE Hangs'
  BY <1>8, Zenon DEF Receive, Return, links, Hangs
<1>9. CASE AcceptPublisher
  BY <1>9, Zenon DEF AcceptPublisher, links, Hangs
<1>10. CASE Idle \/ UNCHANGED vars
  BY <1>10, Zenon DEF Idle, vars, links, publishing, Hangs
<1> QED BY <1>2, <1>3, <1>4, <1>5, <1>6, <1>7, <1>8, <1>9, <1>10, Zenon
        DEF Next, Manager, Handler, Publishing

\* The maps clients and subscriptions of pubsub.rs say the same whenever no
\* task is between them, and a subscriber that was collected is in neither.
THEOREM MapsStayEqual == Spec => []MapsAgree
<1>1. Inv => MapsAgree
  BY Zenon DEF Inv
<1> QED BY InitInv, StepInv, <1>1, PTL DEF Spec

\* A task of the publish/subscribe server that panics or hangs has its reason: a
\* subscriber that lists a topic twice poisons the locks; a connection reset
\* before it is accepted kills the manager, and an error of accept the task that
\* waits for the publisher, before anything is published; and topics() and
\* receive() hang only over a dispatch that ended under them.
THEOREM FailuresHaveReasons == Spec => []FailuresExplained
<1>1. Init => Hangs
  <2> SUFFICES ASSUME Init PROVE Hangs
    BY Zenon
  <2>1. stage \in [Messages \X Subscribers -> {"unsent", "permit", "sent", "hung"}]
    BY Zenon DEF Init
  <2>2. \A s \in Subscribers : gc[s] = "none"
    BY Zenon DEF Init
  <2>3. \A m \in Messages, s \in Subscribers : stage[<<m, s>>] = "unsent"
    <3>1. stage = [x \in Messages \X Subscribers |-> "unsent"]
      BY Zenon DEF Init
    <3> QED BY <3>1, Zenon
  <2>4. manager = "accept" /\ \A m \in Messages : publish[m] = "new"
    BY Zenon DEF Init
  <2> QED BY <2>1, <2>2, <2>3, <2>4, Zenon DEF Hangs
<1>2. Inv /\ Hangs => FailuresExplained
  <2> SUFFICES ASSUME Inv, Hangs PROVE FailuresExplained
    BY Zenon
  <2>1. Panics
    BY Zenon DEF Inv
  <2>2. manager = "hung" => link[peer] # "open" /\ gc[peer] = "ready"
    BY Zenon DEF Inv, Managed, Hangs
  <2>3. \A m \in Messages, s \in Subscribers :
          stage[<<m, s>>] = "hung" => link[s] # "open" /\ gc[s] # "dispatch"
    BY Zenon DEF Hangs
  <2>4. door # "serving" => \A m \in Messages : publish[m] = "new"
    BY Zenon DEF Hangs
  <2> QED BY <2>1, <2>2, <2>3, <2>4, Zenon DEF Panics, FailuresExplained
<1> QED BY InitInv, StepInv, StepHangs, <1>1, <1>2, PTL DEF Spec

\* publish() sends to subscribers of the topic only, and returns once each of
\* them has the message, is gone or was given up.
THEOREM MessagesDelivered == Spec => Delivered
<1> DEFINE
      Right == \A m \in Messages, s \in Subscribers :
                 <<m, s>> \in received => topic[m] \in TopicsOf(s)
      Joined == \A m \in Messages : publish[m] = "sending" /\ publish'[m] = "done" =>
                  \A s \in clones[m] :
                    <<m, s>> \in received \cup expired \/ link[s] # "open"
<1>1. Inv => Right
  BY Zenon DEF Inv, Calling
<1>2. Inv /\ [Next]_vars => [Joined]_vars
  <2>1. SUFFICES ASSUME Inv, [Next]_vars, NEW m \in Messages,
                        publish[m] = "sending", publish'[m] = "done"
                 PROVE \A s \in clones[m] :
                         <<m, s>> \in received \cup expired \/ link[s] # "open"
    BY Zenon
  <2>2. calls[m] = {}
    <3>1. publish \in [Messages -> {"new", "sending", "done", "aborted", "panicked"}]
      BY <2>1, Zenon DEF Inv, Types
    <3>2. publish' # publish
      BY <2>1, Zenon
    <3>3. PICK k \in Messages : Publish(k) \/ Published(k) \/ Abort(k)
      BY <2>1, <3>2, Zenon
         DEF Next, Subscriber, Connect, FirstRequest, Serve, StreamEnds, Stop, Collector,
             DispatchEnds, Unsubscribe, ListenerGone, Manager, Accept, TopicsPermit,
             TopicsPush, TopicsOk, TopicsErr, InsertClient, InsertSubscriptions, SendReady,
             AcceptPublisher, Handler, Publishing, Send, Receive, Return, Idle, vars,
             publishing
    <3>4. PICK to : publish' = [publish EXCEPT ![k] = to]
      BY <3>3, Zenon DEF Publish, Published, Abort
    <3>5. k = m
      BY <2>1, <3>1, <3>4, Zenon
    <3>6. Published(m)
      BY <2>1, <3>1, <3>3, <3>5, SMTT(30) DEF Publish, Abort
    <3> QED BY <3>6, Zenon DEF Published, join_all
  <2> QED BY <2>1, <2>2, Zenon DEF Inv, Calling
<1> QED BY InitInv, StepInv, <1>1, <1>2, PTL DEF Spec, Delivered
=============================================================================
