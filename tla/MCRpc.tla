-------------------------------- MODULE MCRpc -------------------------------
(***************************************************************************)
(* One call across a client, a connection and a server, for TLC.  In one   *)
(* behaviour the call is dropped or it is late, and not both, which each   *)
(* end is checked for by itself; but a call stranded by a dispatch that    *)
(* ended may be dropped whenever its caller tires of waiting.              *)
(***************************************************************************)
EXTENDS Rpc

MCNext ==
  \/ Steps
  \/ \E c \in Callers : (c \notin late \/ pc = "ended") /\ GivesUp(c)
  \/ \E c \in Callers : result[c] # "Dropped" /\ ClientLate(c)

MCSpec == RpcInit /\ [][MCNext]_rpc_vars /\ RpcFairness
=============================================================================
