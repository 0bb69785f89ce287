----------------------------- MODULE MCRequests -----------------------------
(***************************************************************************)
(* What surrounds a request, each part on its own:                         *)
(*  - Server, with a peer that reuses its ids;                             *)
(*  - Hooks, with up to three hooks in up to two layers;                   *)
(*  - Contexts, along chains of two calls;                                 *)
(*  - ServiceMacro, with attributes of two items and traits of two methods *)
(*    some of which clash, are behind a feature or are not allowed.        *)
(***************************************************************************)
EXTENDS MCServer

VARIABLE part

VARIABLES
  h_layers, h_list, h_hooks, h_phase, h_depth, h_at, h_ctx, h_resp, h_log

H == INSTANCE Hooks WITH
       MaxLayers <- 2, MaxHooks <- 3,
       layers <- h_layers, list <- h_list, hooks <- h_hooks, phase <- h_phase,
       depth <- h_depth, at <- h_at, ctx <- h_ctx, resp <- h_resp, log <- h_log

VARIABLES
  x_now, x_at, x_where, x_installed, x_span, x_ctx, x_wire, x_err, x_origin,
  x_transit, x_kept, x_raised

X == INSTANCE Contexts WITH
       MaxNow <- 3, Hops <- 2, Timeouts <- {1, 2}, Base <- 3,
       ErrorKinds <- {"TimedOut", "UnexpectedEof", "Unsupported"},
       now <- x_now, at <- x_at, where <- x_where, installed <- x_installed,
       span <- x_span, ctx <- x_ctx, wire <- x_wire, err <- x_err,
       origin <- x_origin, transit <- x_transit, kept <- x_kept, raised <- x_raised

VARIABLES
  g_stage, g_serde1, g_metas, g_result, g_rpcs, g_client, g_server, g_codec,
  g_called, g_served

method(name, args, cfg) == [name |-> name, args |-> args, cfg |-> cfg]

G == INSTANCE ServiceMacro WITH
       Rpcs <- {method(<<"a", "_", "b">>, "plain", "none"),
                method(<<"a", "_", "_", "B">>, "plain", "feature"),
                method(<<"a">>, "plain", "none"), method(<<"b">>, "plain", "feature"),
                method(<<"_">>, "plain", "none"), method(<<"n", "e", "w">>, "plain", "none"),
                method(<<"A">>, "pattern", "none")},
       MaxMetas <- 2, MaxRpcs <- 2, Alphabet <- {"_", "a", "B"},
       stage <- g_stage, serde1 <- g_serde1, metas <- g_metas, result <- g_result,
       rpcs <- g_rpcs, client <- g_client, server <- g_server, codec <- g_codec,
       called <- g_called, served <- g_served

h_vars == <<h_layers, h_list, h_hooks, h_phase, h_depth, h_at, h_ctx, h_resp, h_log>>
x_vars == <<x_now, x_at, x_where, x_installed, x_span, x_ctx, x_wire, x_err,
            x_origin, x_transit, x_kept, x_raised>>
g_vars == <<g_stage, g_serde1, g_metas, g_result, g_rpcs, g_client, g_server,
            g_codec, g_called, g_served>>

\* Only the part in question moves.
AtServer == part = "server" /\ UNCHANGED <<part, h_vars, x_vars, g_vars>>
AtHooks == part = "hooks" /\ UNCHANGED <<part, vars, x_vars, g_vars>>
AtContexts == part = "contexts" /\ UNCHANGED <<part, vars, h_vars, g_vars>>
AtMacro == part = "macro" /\ UNCHANGED <<part, vars, h_vars, x_vars>>

MCInit ==
  /\ part \in {"server", "hooks", "contexts", "macro"}
  /\ Init /\ H!Init /\ X!Init /\ G!Init
MCNext == \/ AtServer /\ Next
          \/ AtHooks /\ H!Next
          \/ AtContexts /\ X!Next
          \/ AtMacro /\ G!Next

MCSpec == MCInit /\ [][MCNext]_<<part, vars, h_vars, x_vars, g_vars>>

-----------------------------------------------------------------------------
(* What is checked of the parts that are instances                         *)

\* Hooks run in the order of their layers, around and instead of the handler.
Nested == H!Nested
\* Deadline, trace and error kind survive a chain of calls.
Carried == X!Carried
\* snake_to_camel agrees with its reference.
CamelCase == G!CamelCase
\* The generated code derives what the attribute asks for and runs the method
\* that was called.
Generated == G!Generated
=============================================================================
