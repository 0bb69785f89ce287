-------------------------------- MODULE Stubs -------------------------------
(***************************************************************************)
(* The stubs a client can be composed of (tarpc/src/client/stub): Retry    *)
(* over RoundRobin or ConsistentHash over backends that are Channels,      *)
(* servers called in place, or mocks.  Concurrent calls share the stub.    *)
(* The predicate of Retry is that of examples/tracing.rs.                  *)
(***************************************************************************)
EXTENDS Integers, Sequences, FiniteSets

CONSTANTS
  Callers,     \* concurrent calls, one request each
  hash,        \* hash[c]: the hash of the request of c
  Kinds,       \* sequence of the kinds of the backends there may be
  Lengths,     \* the numbers of backends considered
  Modulus      \* 2^w for the w bits of a usize

VARIABLES
  strategy,    \* "none", "round_robin" or "consistent_hash"
  stubs, up,   \* the number of backends, and those that answer with Ok
  next,        \* AtomicCycle's counter
  call,        \* call[c]: idle, picking, calling, done, dropped, panicked
  attempt,     \* attempt[c]: the i of Retry's loop
  index,       \* index[c]: the backend of the current attempt
  result,      \* result[c]: of the last attempt
  late,        \* calls whose deadline has passed
  picks,       \* picks[b]: how often backend b was picked
  wraps,       \* how often the counter wrapped
  tried,       \* tried[c]: the backends c was sent to
  alone        \* calls during which nobody else picked and nothing wrapped

vars == <<strategy, stubs, up, next, call, attempt, index, result, late, picks,
          wraps, tried, alone>>
setup == <<strategy, stubs, up>>
history == <<picks, wraps, tried, alone>>

Init ==
  /\ strategy = "none" /\ stubs = 0 /\ up = {} /\ next = 0
  /\ call = [c \in Callers |-> "idle"]
  /\ attempt = [c \in Callers |-> 0]
  /\ index = [c \in Callers |-> 0]
  /\ result = [c \in Callers |-> "none"]
  /\ late = {}
  /\ picks = [b \in 1..Len(Kinds) |-> 0] /\ wraps = 0
  /\ tried = [c \in Callers |-> {}] /\ alone = {}

\* RoundRobin::new and ConsistentHash::new take any Vec, an empty one too.
New ==
  /\ strategy = "none"
  /\ strategy' \in {"round_robin", "consistent_hash"}
  /\ stubs' \in Lengths
  /\ up' \in SUBSET (1..stubs')
  /\ UNCHANGED <<next, call, attempt, index, result, late, history>>

-----------------------------------------------------------------------------
(* Retry::call                                                             *)

should_retry(res, i) == res # "ok" /\ i < 3

Start(c) ==
  /\ strategy # "none" /\ call[c] = "idle"
  /\ call' = [call EXCEPT ![c] = "picking"]
  /\ attempt' = [attempt EXCEPT ![c] = 1]
  /\ alone' = alone \cup {c}
  /\ UNCHANGED <<setup, next, index, result, late, picks, wraps, tried>>

\* The attempt is over: once more, with the same context, or return.
Again(c, res) ==
  /\ result' = [result EXCEPT ![c] = res]
  /\ IF should_retry(res, attempt[c])
     THEN /\ call' = [call EXCEPT ![c] = "picking"]
          /\ attempt' = [attempt EXCEPT ![c] = @ + 1]
     ELSE call' = [call EXCEPT ![c] = "done"] /\ UNCHANGED attempt

-----------------------------------------------------------------------------
(* The load balancers                                                      *)

\* elements[next % elements.len()] and stubs[hash % stubs_len]: a remainder by
\* zero panics.
cycle(n) == (n % stubs) + 1
consistent(c) == (hash[c] % stubs) + 1

fetch_add_own == UNCHANGED next                  \* mutant: of a copy
fetch_add == next' = (next + 1) % Modulus

Sent(c, b) ==
  /\ call' = [call EXCEPT ![c] = "calling"]
  /\ index' = [index EXCEPT ![c] = b]
  /\ picks' = [picks EXCEPT ![b] = @ + 1]
  /\ tried' = [tried EXCEPT ![c] = @ \cup {b}]

RoundRobin(c) ==
  /\ strategy = "round_robin" /\ call[c] = "picking" /\ stubs > 0
  /\ fetch_add
  /\ Sent(c, cycle(next))
  /\ wraps' = wraps + (IF next' < next THEN 1 ELSE 0)
  /\ alone' = IF next' < next THEN {} ELSE alone \cap {c}
  /\ UNCHANGED <<setup, attempt, result, late>>

ConsistentHash(c) ==
  /\ strategy = "consistent_hash" /\ call[c] = "picking" /\ stubs > 0
  /\ Sent(c, consistent(c))
  /\ UNCHANGED <<setup, next, attempt, result, late, wraps, alone>>

NoStubs(c) ==
  /\ call[c] = "picking" /\ stubs = 0
  /\ call' = [call EXCEPT ![c] = "panicked"]
  /\ next' = IF strategy = "round_robin" THEN (next + 1) % Modulus ELSE next
  /\ UNCHANGED <<setup, attempt, index, result, late, history>>

-----------------------------------------------------------------------------
(* The backends                                                            *)

\* A Channel's call fails at its deadline; a server called in place and a
\* mock do not look at it, and their errors are the server's.
channel_results(c, b) == IF c \in late THEN {"deadline"}
                         ELSE IF b \in up THEN {"ok"} ELSE {"shutdown", "server"}
serve_results(b) == IF b \in up THEN {"ok"} ELSE {"server"}
mock_results(b) == IF b \in up THEN {"ok"} ELSE {"server"}

Results(c, b) == CASE Kinds[b] = "channel" -> channel_results(c, b)
                   [] Kinds[b] = "serve" -> serve_results(b)
                   [] Kinds[b] = "mock" -> mock_results(b)

Return(c) ==
  /\ call[c] = "calling"
  /\ \E res \in Results(c, index[c]) : Again(c, res)
  /\ UNCHANGED <<setup, next, index, late, history>>

Late(c) ==
  /\ call[c] = "calling" /\ c \notin late
  /\ late' = late \cup {c}
  /\ UNCHANGED <<setup, next, call, attempt, index, result, history>>

\* The caller drops the future; no further attempt is made.
Drop(c) ==
  /\ call[c] = "calling"
  /\ call' = [call EXCEPT ![c] = "dropped"]
  /\ UNCHANGED <<setup, next, attempt, index, result, late, history>>

-----------------------------------------------------------------------------
Call(c) == RoundRobin(c) \/ ConsistentHash(c) \/ NoStubs(c) \/ Return(c)

Terminated ==
  /\ \A c \in Callers : call[c] \in {"done", "dropped", "panicked"}
  /\ UNCHANGED vars

Next == \/ New
        \/ \E c \in Callers : Start(c) \/ Call(c) \/ Late(c) \/ Drop(c)
        \/ Terminated

-----------------------------------------------------------------------------
(* Properties                                                              *)

\* Round robin is fair to its backends however calls and retries interleave:
\* the numbers of requests differ by one, and one more for each time the
\* counter wrapped in the middle of a cycle.
Balanced ==
  strategy = "round_robin" =>
    \A a, b \in 1..stubs : picks[a] - picks[b] <= 1 + wraps

\* A call of which no other got in the way fails only after it has tried as
\* many backends as it had attempts, so with up to three an error means that
\* every one of them failed.
FailsOver ==
  \A c \in alone : call[c] = "done" /\ result[c] # "ok" /\ strategy = "round_robin" =>
    tried[c] = 1..stubs

\* "Equivalent requests will use the same stub" (load_balance.rs, 98-99): also
\* those of the retries, and equal hashes go together.
SameStub ==
  strategy = "consistent_hash" =>
    \A c, d \in Callers : hash[c] = hash[d] =>
      \A a \in tried[c], b \in tried[d] : a = b

\* What Retry returns is a success or the third failure; an Ok comes from a
\* backend that is up, and a deadline only from one that looks at it.
RetriedEnough ==
  \A c \in Callers : call[c] = "done" =>
    /\ result[c] = "ok" => index[c] \in up
    /\ result[c] # "ok" => attempt[c] = 3
    /\ result[c] = "deadline" => Kinds[index[c]] = "channel"

\* Each strategy sends calls and retries where it says it does, and Retry
\* gives up when it says.
TriedAsPromised == Balanced /\ FailsOver /\ SameStub /\ RetriedEnough

\* A call returns, though all its backends fail and its deadline has passed.
Returned == \A c \in Callers : call[c] \in {"idle", "done", "dropped", "panicked"}
=============================================================================
