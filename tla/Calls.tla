-------------------------------- MODULE Calls -------------------------------
(***************************************************************************)
(* What a connection promises to those who call through it: a call is      *)
(* executed at most once, its answer is the answer of an execution that    *)
(* has finished, or of a throttle that refused to start one; an error says *)
(* that its deadline has passed, that the connection is over, or that the  *)
(* call was not sent, and then it is never executed; and an execution is   *)
(* stopped only if its call was given up, is late, or has lost the         *)
(* connection.                                                             *)
(***************************************************************************)
CONSTANT Callers

VARIABLES
  call,    \* call[c]: "idle", "waiting", or how it ended: "ok", "dropped",
           \* "deadline", "disconnected", "unsent"
  exec,    \* exec[c]: "none", "running", "finished", "stopped", "refused"
  late,    \* calls whose deadline has passed
  over     \* whether either end has given up the connection

vars == <<call, exec, late, over>>

Init ==
  /\ call = [c \in Callers |-> "idle"]
  /\ exec = [c \in Callers |-> "none"]
  /\ late = {} /\ over = FALSE

Returns(c, how) ==
  /\ call[c] = "waiting"
  /\ call' = [call EXCEPT ![c] = how]
  /\ UNCHANGED <<exec, late, over>>

Executes(c, from, to) ==
  /\ exec[c] = from
  /\ exec' = [exec EXCEPT ![c] = to]
  /\ UNCHANGED <<call, late, over>>

Begin(c) ==
  /\ call[c] = "idle"
  /\ call' = [call EXCEPT ![c] = "waiting"]
  /\ UNCHANGED <<exec, late, over>>

\* A call that may have reached the server.
Reached(c) == call[c] \notin {"idle", "unsent"}

Execute(c) == Reached(c) /\ Executes(c, "none", "running")
Refuse(c) == Reached(c) /\ Executes(c, "none", "refused")
Finish(c) == Executes(c, "running", "finished")
Stop(c) == /\ call[c] = "dropped" \/ c \in late \/ over
           /\ \/ Executes(c, "running", "stopped")
              \/ Reached(c) /\ Executes(c, "none", "stopped")

Answer(c) == exec[c] \in {"finished", "refused"} /\ Returns(c, "ok")
GiveUp(c) == Returns(c, "dropped")
Expire(c) == c \in late /\ Returns(c, "deadline")
Disconnected(c) == over /\ Returns(c, "disconnected")
Unsent(c) == exec[c] = "none" /\ Returns(c, "unsent")

Late(c) ==
  /\ late' = late \cup {c}
  /\ UNCHANGED <<call, exec, over>>

\* The connection ends, perhaps with a request that was not executed yet.
Over ==
  /\ ~over /\ over'
  /\ \/ UNCHANGED exec
     \/ \E c \in Callers : /\ exec[c] = "none" /\ Reached(c)
                            /\ exec' = [exec EXCEPT ![c] = "stopped"]
  /\ UNCHANGED <<call, late>>

Next ==
  \/ \E c \in Callers : \/ Begin(c) \/ Execute(c) \/ Refuse(c) \/ Finish(c) \/ Stop(c)
                        \/ Answer(c) \/ GiveUp(c) \/ Expire(c)
                        \/ Disconnected(c) \/ Unsent(c) \/ Late(c)
  \/ Over

Spec == Init /\ [][Next]_vars
=============================================================================
