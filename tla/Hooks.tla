-------------------------------- MODULE Hooks -------------------------------
(***************************************************************************)
(* Request hooks (tarpc/src/server/request_hook): a service is wrapped in  *)
(* layers that run hooks before it, after it, or both; a list of hooks     *)
(* that run before is one layer.  A request is served by a clone of the    *)
(* whole, which it shares with no other, in a task that may be aborted at  *)
(* any await; one request is therefore enough.                             *)
(*                                                                         *)
(* A hook is a number, given in the order of construction.  A hook may     *)
(* shorten the deadline in the context it is handed.                       *)
(***************************************************************************)
EXTENDS Integers, Sequences, SequencesExt

CONSTANTS
  MaxLayers, MaxHooks   \* bounds of the construction

VARIABLES
  layers,     \* the layers, outermost first: [kind, hooks]
  list,       \* the BeforeRequestList under construction
  hooks,      \* hooks made so far
  phase,      \* of the request: new, down, up, done, aborted
  depth,      \* the layer it is at
  at,         \* how many hooks of that layer have run
  ctx,        \* the context of each layer entered: its deadline
  resp,       \* the response on its way up
  log         \* what ran: [what, hook, deadline]

vars == <<layers, list, hooks, phase, depth, at, ctx, resp, log>>
built == <<layers, list, hooks>>

Kinds == {"before", "after", "before_and_after"}

Init ==
  /\ layers = << >> /\ list = << >> /\ hooks = 0
  /\ phase = "new" /\ depth = 0 /\ at = 0
  /\ ctx = << >> /\ resp = <<"none", 0>> /\ log = << >>

-----------------------------------------------------------------------------
(* Construction                                                            *)

Building == phase = "new"
running == <<phase, depth, at, ctx, resp, log>>

\* Room for one more layer, besides the one a list will be.
Room == Len(layers) + (IF list = << >> THEN 0 ELSE 1) < MaxLayers

layer(kind, hs) == [kind |-> kind, hooks |-> hs]

\* serve.before(hook), .after(hook), .before_and_after(hook): a new outermost
\* layer.
Wrap(kind) ==
  /\ Building /\ Room /\ hooks < MaxHooks
  /\ hooks' = hooks + 1
  /\ layers' = <<layer(kind, <<hooks'>>)>> \o layers
  /\ UNCHANGED <<list, running>>

Before == Wrap("before")
After == Wrap("after")
BeforeAndAfter == Wrap("before_and_after")

\* before().then(hook).then(hook): appended at the end of the list, ...
then(hs, h) == Append(hs, h)

Then ==
  /\ Building /\ Len(layers) < MaxLayers /\ hooks < MaxHooks
  /\ hooks' = hooks + 1
  /\ list' = then(list, hooks')
  /\ UNCHANGED <<layers, running>>

\* ... and .serving(serve): one layer, or none for the empty list.
Serving ==
  /\ Building /\ list # << >>
  /\ layers' = <<layer("before", list)>> \o layers
  /\ list' = << >>
  /\ UNCHANGED <<hooks, running>>

-----------------------------------------------------------------------------
(* Serving a request                                                       *)

runs_before(d) == layers[d].kind # "after"
runs_after(d) == layers[d].kind # "before"

Log(what, h, deadline) ==
  log' = Append(log, [what |-> what, hook |-> h, deadline |-> deadline])

Start ==
  /\ layers # << >> /\ list = << >> /\ phase = "new"
  /\ phase' = "down" /\ depth' = 1 /\ ctx' = <<"given">>
  /\ UNCHANGED <<built, at, resp, log>>

\* hook.before(&mut ctx, &req).await? of the next hook of the layer.
before_err_after(h) ==                           \* mutant: own after hook runs
  phase' = "up" /\ depth' = depth /\ resp' = <<"refused", h>> /\ UNCHANGED at
before_err(h) ==
  phase' = "up" /\ depth' = depth - 1 /\ resp' = <<"refused", h>> /\ UNCHANGED at

RunBefore ==
  /\ phase = "down" /\ depth <= Len(layers)
  /\ runs_before(depth) /\ at < Len(layers[depth].hooks)
  /\ \E deadline \in {ctx[depth], "short"} :
     LET h == layers[depth].hooks[at + 1] IN
     /\ ctx' = [ctx EXCEPT ![depth] = deadline]
     /\ \/ /\ at' = at + 1
           /\ Log("before", h, deadline)
           /\ UNCHANGED <<phase, depth, resp>>
        \/ before_err(h) /\ Log("refused", h, deadline)
  /\ UNCHANGED built

\* serve.serve(ctx, req): the inner layer gets a copy of the context.
Descend ==
  /\ phase = "down" /\ depth <= Len(layers)
  /\ runs_before(depth) => at = Len(layers[depth].hooks)
  /\ depth' = depth + 1 /\ at' = 0
  /\ ctx' = Append(ctx, ctx[depth])
  /\ UNCHANGED <<built, phase, resp, log>>

Serve ==
  /\ phase = "down" /\ depth = Len(layers) + 1
  /\ \E res \in {"ok", "err"} : resp' = <<res, 0>>
  /\ Log("serve", 0, ctx[depth])
  /\ phase' = "up" /\ depth' = depth - 1
  /\ UNCHANGED <<built, at, ctx>>

\* hook.after(&mut ctx, &mut resp).await, on the layer's own context; it may
\* replace the response.
after_ctx == ctx[depth]

RunAfter ==
  /\ phase = "up" /\ depth > 0 /\ runs_after(depth)
  /\ LET h == layers[depth].hooks[1] IN
     /\ resp' \in {resp, <<"replaced", h>>}
     /\ Log("after", h, after_ctx)
  /\ depth' = depth - 1
  /\ UNCHANGED <<built, phase, at, ctx>>

Ascend ==
  /\ phase = "up" /\ depth > 0 /\ ~runs_after(depth)
  /\ depth' = depth - 1
  /\ UNCHANGED <<built, phase, at, ctx, resp, log>>

Respond ==
  /\ phase = "up" /\ depth = 0
  /\ phase' = "done"
  /\ UNCHANGED <<built, depth, at, ctx, resp, log>>

Abort ==
  /\ phase \in {"down", "up"}
  /\ phase' = "aborted"
  /\ UNCHANGED <<built, depth, at, ctx, resp, log>>

-----------------------------------------------------------------------------
Terminated == phase \in {"done", "aborted"} /\ UNCHANGED vars

Next == \/ Before \/ After \/ BeforeAndAfter \/ Then \/ Serving
        \/ Start \/ RunBefore \/ Descend \/ Serve \/ RunAfter \/ Ascend
        \/ Respond \/ Abort \/ Terminated

-----------------------------------------------------------------------------
(* Properties                                                              *)

Ran(what) == SelectSeq(log, LAMBDA e : e.what = what)
Hooks(what) == [k \in DOMAIN Ran(what) |-> Ran(what)[k].hook]

\* The hooks that run before, in the order in which they must: within a layer
\* in the order in which they were given.
AllBefore == FlattenSeq([d \in DOMAIN layers |->
               IF runs_before(d) THEN SetToSortSeq(ToSet(layers[d].hooks), <)
               ELSE << >>])

\* "A list of hooks that run in order before request execution" (before.rs,
\* 25): outermost layer first, a list in the order of then; and those that
\* run after, innermost first.  A request is served after all of the former.
InOrder ==
  /\ IsPrefix(Hooks("before") \o Hooks("refused"), AllBefore)
  /\ Ran("serve") # << >> => Hooks("before") = AllBefore
  /\ \A j, k \in DOMAIN Hooks("after") : j < k =>
       \E c, d \in DOMAIN layers : /\ c < d
                                   /\ layers[c].hooks[1] = Hooks("after")[k]
                                   /\ layers[d].hooks[1] = Hooks("after")[j]

\* "If this function returns an error, the request will not be executed and
\* the error will be returned instead" (before.rs, 17-18), unless a hook
\* further out replaces it.
RefusedNotServed ==
  Ran("refused") # << >> =>
    /\ Ran("serve") = << >>
    /\ phase = "done" =>
         \/ resp = <<"refused", Hooks("refused")[1]>>
         \/ \E c, d \in DOMAIN layers :
              /\ c < d /\ resp = <<"replaced", layers[c].hooks[1]>>
              /\ Contains(layers[d].hooks, Hooks("refused")[1])

\* A hook around a request that is not aborted runs after it exactly if it
\* did not refuse it before: also if the request or an inner hook failed.
Paired ==
  phase = "done" => \A d \in DOMAIN layers : layers[d].kind = "before_and_after" =>
    LET h == layers[d].hooks[1] IN
    Contains(Hooks("before"), h) <=> Contains(Hooks("after"), h)

\* A shortened deadline holds for everything further in, and an after hook
\* sees the context of its own layer, not what was changed inside.
ContextScoped ==
  \A j, k \in DOMAIN log : j < k /\ log[j].what = "before" =>
    /\ log[j].deadline = "short" /\ log[k].what # "after" => log[k].deadline = "short"
    /\ log[k].what = "after" /\ log[k].hook = log[j].hook
         => log[k].deadline = log[j].deadline

\* Layers are nested like calls, in what they run and in what they see, also
\* when a hook refuses, replaces the response or changes the context.
Nested == InOrder /\ RefusedNotServed /\ Paired /\ ContextScoped
=============================================================================
