------------------------------ MODULE Registry ------------------------------
(***************************************************************************)
(* Several services behind one port (tarpc/examples/registry.rs): a client *)
(* names the service it wants in a first frame, the server answers with an *)
(* acknowledgement and from then on serves that service on the same stream *)
(* of frames, or refuses and waits for another name.                       *)
(*                                                                         *)
(* A registry is a list of named services; the service is known by its     *)
(* place in the list.  A frame is a record.                                *)
(***************************************************************************)
EXTENDS Integers, Sequences

CONSTANTS
  services, more_services,   \* the names given to the two with_services calls
  discovery,                 \* the name of the discovery service
  Names,                     \* the names a client may ask for
  MaxNegotiations, MaxCalls  \* bounds: negotiations and RPCs of a client

VARIABLES
  client,      \* idle, waiting (for the answer), using (the service), closed
  asked,       \* the name the client asked for last
  c2s, s2c,    \* frames on the way
  server,      \* negotiating, running, done (Ok) or failed (Err)
  serving,     \* the place of the service that runs, or 0
  executing,   \* the call being executed, or 0
  negotiations, calls,   \* how many so far
  replies,     \* the last call that was replied to, or 0
  abandoned,   \* a negotiation was dropped while it waited
  lost         \* frames read by a codec and dropped with it

vars == <<client, asked, c2s, s2c, server, serving, executing, negotiations,
          calls, replies, abandoned, lost>>

-----------------------------------------------------------------------------
(* ServiceList                                                             *)

append_service(registry, name) == Append(registry, name)
\* A tuple is registered from left to right, after what is there.
register(registry, tuple) == registry \o tuple
\* for_each, from the head.
collect(registry) == registry

registered == register(register(<< >>, services), more_services)
with_discovery == append_service(registered, discovery)

\* upgrade: the first service of that name; 0 is NilService.
find_last(name) ==                               \* mutant: the last one
  LET at == {i \in DOMAIN with_discovery : with_discovery[i] = name} IN
  IF at = {} THEN 0 ELSE CHOOSE i \in at : \A j \in at : i >= j
find(name) ==
  LET at == {i \in DOMAIN with_discovery : with_discovery[i] = name} IN
  IF at = {} THEN 0 ELSE CHOOSE i \in at : \A j \in at : i <= j

Init ==
  /\ client = "idle" /\ asked = discovery
  /\ c2s = << >> /\ s2c = << >>
  /\ server = "negotiating" /\ serving = 0 /\ executing = 0
  /\ negotiations = 0 /\ calls = 0 /\ replies = 0
  /\ abandoned = FALSE /\ lost = 0

-----------------------------------------------------------------------------
(* The client: negotiate, then a client of the service on the same stream  *)

Negotiate(name) ==
  /\ client = "idle" /\ negotiations < MaxNegotiations
  /\ negotiations' = negotiations + 1
  /\ asked' = name
  /\ c2s' = Append(c2s, [kind |-> "name", name |-> name])
  /\ client' = "waiting"
  /\ UNCHANGED <<s2c, server, serving, executing, calls, replies, abandoned, lost>>

\* The codec reads as much as there is, takes one frame, and is dropped.
Answered ==
  /\ client = "waiting" /\ s2c # << >>
  /\ client' = CASE Head(s2c).kind = "ok" -> "using"
                 [] Head(s2c).kind = "nack" -> "idle"
                 [] OTHER -> "closed"            \* DecodeResponse
  /\ \E n \in 1..Len(s2c) :
       /\ s2c' = SubSeq(s2c, n + 1, Len(s2c))
       /\ lost' = lost + n - 1
  /\ UNCHANGED <<asked, c2s, server, serving, executing, negotiations, calls,
                 replies, abandoned>>

\* The server hung up: BrokenPipe.
Disconnected ==
  /\ client \in {"waiting", "using"} /\ s2c = << >>
  /\ server \in {"done", "failed"}
  /\ client' = "closed"
  /\ UNCHANGED <<asked, c2s, s2c, server, serving, executing, negotiations, calls,
                 replies, abandoned, lost>>

\* The future of negotiate is dropped, with what its codec has read.
Abandon ==
  /\ client = "waiting"
  /\ client' = "idle" /\ abandoned' = TRUE
  /\ \E n \in 0..Len(s2c) :
       /\ s2c' = SubSeq(s2c, n + 1, Len(s2c))
       /\ lost' = lost + n
  /\ UNCHANGED <<asked, c2s, server, serving, executing, negotiations, calls,
                 replies>>

Call ==
  /\ client = "using" /\ calls < MaxCalls
  /\ calls' = calls + 1
  /\ c2s' = Append(c2s, [kind |-> "call", name |-> asked, call |-> calls'])
  /\ UNCHANGED <<client, asked, s2c, server, serving, executing, negotiations,
                 replies, abandoned, lost>>

Reply ==
  /\ client = "using" /\ s2c # << >>
  /\ IF Head(s2c).kind = "reply"
     THEN replies' = Head(s2c).call /\ UNCHANGED client
     ELSE client' = "closed" /\ UNCHANGED replies
  /\ s2c' = Tail(s2c)
  /\ UNCHANGED <<asked, c2s, server, serving, executing, negotiations, calls,
                 abandoned, lost>>

Close ==
  /\ client \in {"idle", "using"}
  /\ client' = "closed"
  /\ UNCHANGED <<asked, c2s, s2c, server, serving, executing, negotiations, calls,
                 replies, abandoned, lost>>

-----------------------------------------------------------------------------
(* The server: negotiate, upgrade, and FramedJsonRunner::run               *)

\* NilService::upgrade.
ServiceNotFound(name) == [kind |-> "nack", name |-> name]

\* send_response; after it the runner serves, or waits for the next name.
respond(i, name) ==
  s2c' = Append(s2c, IF i = 0 THEN ServiceNotFound(name) ELSE [kind |-> "ok"])

\* Any frame is a name here, also the bytes of a request.
ServiceName(frame) == IF frame.kind = "name" THEN frame.name ELSE "{json}"

Upgrade ==
  /\ server = "negotiating" /\ c2s # << >>
  /\ LET name == ServiceName(Head(c2s)) IN
     \/ /\ respond(find(name), name)
        /\ serving' = find(name)
        /\ server' = IF find(name) = 0 THEN "negotiating" ELSE "running"
     \/ /\ client = "closed"                     \* the send fails
        /\ server' = "failed" /\ UNCHANGED <<s2c, serving>>
  /\ c2s' = Tail(c2s)
  /\ UNCHANGED <<client, asked, executing, negotiations, calls, replies, abandoned,
                 lost>>

BrokenPipe ==
  /\ server = "negotiating" /\ c2s = << >> /\ client = "closed"
  /\ server' = "failed"
  /\ UNCHANGED <<client, asked, c2s, s2c, serving, executing, negotiations, calls,
                 replies, abandoned, lost>>

\* requests.next(): a request of the service, or an error that ends the loop.
RunNext ==
  /\ server = "running" /\ executing = 0 /\ c2s # << >>
  /\ IF Head(c2s).kind = "call" /\ Head(c2s).name = with_discovery[serving]
     THEN executing' = Head(c2s).call /\ UNCHANGED server
     ELSE server' = "done" /\ UNCHANGED executing
  /\ c2s' = Tail(c2s)
  /\ UNCHANGED <<client, asked, s2c, serving, negotiations, calls, replies,
                 abandoned, lost>>

\* request.execute(..).await, and the response written by the next poll, which
\* drops it if it finds the request expired or canceled.
RunExecute ==
  /\ server = "running" /\ executing # 0
  /\ \/ s2c' = Append(s2c, [kind |-> "reply", call |-> executing, by |-> serving,
                            list |-> collect(registered)])
     \/ UNCHANGED s2c
  /\ executing' = 0
  /\ UNCHANGED <<client, asked, c2s, server, serving, negotiations, calls, replies,
                 abandoned, lost>>

RunEnds ==
  /\ server = "running" /\ executing = 0 /\ c2s = << >> /\ client = "closed"
  /\ server' = "done"
  /\ UNCHANGED <<client, asked, c2s, s2c, serving, executing, negotiations, calls,
                 replies, abandoned, lost>>

-----------------------------------------------------------------------------
ClientStep == Answered \/ Disconnected \/ Reply
ServerStep == Upgrade \/ BrokenPipe \/ RunNext \/ RunExecute \/ RunEnds

Terminated == client = "closed" /\ server \in {"done", "failed"} /\ UNCHANGED vars

Next == \/ \E name \in Names : Negotiate(name)
        \/ ClientStep \/ Abandon \/ Call \/ Close
        \/ ServerStep \/ Terminated

-----------------------------------------------------------------------------
(* Properties                                                              *)

\* Client and server mean the same service, the first one registered under
\* the name, unless a negotiation was dropped before its answer arrived.
Agreement ==
  ~abandoned /\ client = "using" =>
    /\ server \in {"running", "done"}
    /\ with_discovery[serving] = asked
    /\ \A i \in 1..(serving - 1) : with_discovery[i] # asked

\* No codec is dropped with a frame that was meant for the next reader.
NothingLost == ~abandoned => lost = 0

\* Calls are executed one by one: replies come in the order of the calls, one
\* for each at most, and from the service in use; discovery lists the names that
\* were registered.
RepliesInOrder ==
  \A i \in DOMAIN s2c : s2c[i].kind = "reply" /\ client = "using" /\ ~abandoned =>
    /\ s2c[i].call > replies
    /\ \A j \in 1..(i - 1) : s2c[j].call < s2c[i].call
    /\ with_discovery[s2c[i].by] = asked
    /\ \A n \in DOMAIN s2c[i].list : find(s2c[i].list[n]) \in 1..n

\* A name is refused only if nothing is registered under it, discovery
\* included, and the server then takes another one.
RefusedOnlyIfAbsent ==
  [][client = "waiting" /\ client' = "idle" /\ ~abandoned' =>
       /\ \A i \in DOMAIN registered : registered[i] # asked
       /\ asked # discovery
       /\ server = "negotiating"]_vars

\* What negotiate promises to both ends.
Negotiated ==
  [](Agreement /\ NothingLost /\ RepliesInOrder) /\ RefusedOnlyIfAbsent

\* A client that waits for the answer gets one, or learns that there is none;
\* and the task of a connection ends after its client has left.
Ended == client # "waiting" /\ (client = "closed" => server \in {"done", "failed"})
=============================================================================
