---------------------------- MODULE ServiceMacro ----------------------------
(***************************************************************************)
(* #[tarpc::service] (plugins/src/lib.rs): what the macro accepts, what it *)
(* generates, and a call from the generated client to the generated        *)
(* server.                                                                 *)
(*                                                                         *)
(* The parser reads the items of the attribute, then the methods of the    *)
(* trait, one at a time; faults are collected, and the ones that make the  *)
(* syntax unusable end it at once.  The generated code is what the         *)
(* compiler makes of it in two builds, one of the client and one of the    *)
(* server, which may enable different features.  A name is a tuple of      *)
(* characters.                                                             *)
(***************************************************************************)
EXTENDS Integers, Sequences, FiniteSets, SequencesExt

CONSTANTS
  Rpcs,        \* the methods a trait may have: [name, args, cfg]
  MaxMetas,    \* bound on the items of the attribute
  MaxRpcs,     \* bound on the methods of the trait
  Alphabet     \* the characters of the names snake_to_camel is checked on

VARIABLES
  stage,       \* "attr", "trait", "built", "call", "served", "returned",
               \* or "refused", "panic", "rustc_error", "decode_error"
  serde1,      \* whether the macro was built with the feature
  metas,       \* the items of the attribute read so far
  result,      \* the DeriveMeta: the number of errors, and what to derive
  rpcs,        \* the methods read so far
  client,      \* the features of the client's build (a method's cfg)
  server,      \* ... and of the server's
  codec,       \* whether variants are sent by number or by name
  called,      \* the method that was called
  served       \* the method that was run for it

vars == <<stage, serde1, metas, result, rpcs, client, server, codec, called, served>>

Init ==
  /\ stage = "new" /\ serde1 = TRUE /\ metas = << >>
  /\ result = [errors |-> 0, derive |-> "none"]
  /\ rpcs = << >> /\ client = {} /\ server = {} /\ codec = "number"
  /\ called = 0 /\ served = 0

Start(feature) ==
  /\ stage = "new" /\ stage' = "attr" /\ serde1' = feature
  /\ UNCHANGED <<metas, result, rpcs, client, server, codec, called, served>>

-----------------------------------------------------------------------------
(* DeriveMeta::parse                                                       *)

\* derive = [..] with paths, with none, or with something else in it;
\* derive_serde = true, false or something else; any other item.
MetaItems ==
  [key : {"derive"}, value : {"paths", "empty", "not_paths", "not_array"}]
    \cup [key : {"derive_serde"}, value : {"true", "false", "not_bool",
                                       "not_literal"}]
    \cup [key : {"other"}, value : {"any"}]

extend_errors(r, n) == [r EXCEPT !.errors = @ + n]

\* result.map: an error stays.
map(r, derive) == IF r.errors = 0 THEN [r EXCEPT !.derive = derive] ELSE r

explicit(item) == IF item.value = "empty" THEN "nothing" ELSE "paths"

parse_meta(r, item) ==
  CASE item.key = "other" -> extend_errors(r, 1)
    [] item.key = "derive" /\ item.value = "not_array" -> extend_errors(r, 1)
    [] item.key = "derive" /\ item.value = "not_paths" -> extend_errors(r, 1)
    [] item.key = "derive" -> map(r, explicit(item))
    [] item.value = "true" /\ serde1 -> map(r, "serde")
    [] item.value = "false" -> map(r, "nothing")
    [] OTHER -> extend_errors(r, 1)

ReadMeta(item) ==
  /\ stage = "attr" /\ Len(metas) < MaxMetas
  /\ metas' = Append(metas, item)
  /\ result' = parse_meta(result, item)
  /\ UNCHANGED <<stage, serde1, rpcs, client, server, codec, called, served>>

\* The items that were kept; one whose value has the wrong form is skipped.
occurrences(key) ==
  Cardinality({n \in 1..Len(metas) :
       metas[n].key = key /\ metas[n].value \notin {"not_array", "not_literal"}})
has(key) == \E n \in 1..Len(metas) : metas[n].key = key
repeated(key) == IF occurrences(key) > 1 THEN occurrences(key) ELSE 0

conflicts ==
  (IF has("derive") /\ has("derive_serde") THEN 1 ELSE 0)
    + repeated("derive") + repeated("derive_serde")

EndAttr ==
  /\ stage = "attr"
  /\ result' = extend_errors(result, conflicts)
  /\ stage' = IF result'.errors = 0 THEN "trait" ELSE "refused"
  /\ UNCHANGED <<serde1, metas, rpcs, client, server, codec, called, served>>

-----------------------------------------------------------------------------
(* Service::parse, RpcMethod::parse                                        *)

ReadRpc(rpc) ==
  /\ stage = "trait" /\ Len(rpcs) < MaxRpcs
  /\ rpcs' = Append(rpcs, rpc)
  /\ stage' = IF rpc.args = "plain" THEN "trait" ELSE "refused"
  /\ UNCHANGED <<serde1, metas, result, client, server, codec, called, served>>

ident_errors ==
  {n \in 1..Len(rpcs) : rpcs[n].name \in {<<"n", "e", "w">>,
                                          <<"s", "e", "r", "v", "e">>}}

lower(c) == CASE c = "A" -> "a" [] c = "B" -> "b" [] OTHER -> c
upper(c) == CASE c = "a" -> "A" [] c = "b" -> "B" [] OTHER -> c

snake_to_camel_lazy(name) ==                     \* mutant: not lower-cased
  FoldLeft(LAMBDA acc, c :
             CASE c = "_" -> [acc EXCEPT !.underscore = TRUE]
               [] acc.underscore -> [underscore |-> FALSE,
                                     camel |-> Append(acc.camel, upper(c))]
               [] OTHER -> [acc EXCEPT !.camel = Append(@, c)],
           [underscore |-> TRUE, camel |-> << >>], name).camel
snake_to_camel(name) ==
  FoldLeft(LAMBDA acc, c :
             CASE c = "_" -> [acc EXCEPT !.underscore = TRUE]
               [] acc.underscore -> [underscore |-> FALSE,
                                     camel |-> Append(acc.camel, upper(c))]
               [] OTHER -> [acc EXCEPT !.camel = Append(@, lower(c))],
           [underscore |-> TRUE, camel |-> << >>], name).camel

camel_case_idents == [n \in 1..Len(rpcs) |-> snake_to_camel(rpcs[n].name)]

\* service: a name with no letter makes Ident::new panic, and two variants of
\* one name do not compile (the response has them all, whatever the cfgs).
EndTrait(c, s, by) ==
  /\ stage = "trait"
  /\ stage' = CASE ident_errors # {} -> "refused"
                [] << >> \in Range(camel_case_idents) -> "panic"
                [] ~IsInjective(camel_case_idents) -> "rustc_error"
                [] OTHER -> "built"
  /\ client' = c /\ server' = s /\ codec' = by
  /\ UNCHANGED <<serde1, metas, result, rpcs, called, served>>

\* What is derived for the request and the response.
derives ==
  CASE result.derive # "none" -> result.derive
    [] serde1 -> "serde"
    [] OTHER -> "nothing"

-----------------------------------------------------------------------------
(* The generated code                                                      *)

\* collect_cfg_attrs: the methods a build has.
Features == {rpc.cfg : rpc \in Rpcs} \ {"none"}

enabled(features) ==
  SelectSeq([n \in 1..Len(rpcs) |-> n],
            LAMBDA n : rpcs[n].cfg = "none" \/ rpcs[n].cfg \in features)

\* enum_request and enum_response: the variants, numbered in order.
enum_request(features) == enabled(features)
enum_response(features) == [n \in 1..Len(rpcs) |-> n]

\* A variant as it is sent, and what the other side makes of it: no variant
\* (0) if it has none of that number or name.
encode(variants, n) ==
  IF codec = "name" THEN camel_case_idents[n]
  ELSE CHOOSE i \in 1..Len(variants) : variants[i] = n
decode(variants, w) ==
  IF codec = "name"
  THEN LET named == {n \in Range(variants) : camel_case_idents[n] = w} IN
       IF named = {} THEN 0 ELSE CHOOSE n \in named : TRUE
  ELSE IF w <= Len(variants) THEN variants[w] ELSE 0

\* impl_client_rpc_methods: a method of the client's build.
Call(n) ==
  /\ stage = "built" /\ n \in Range(enabled(client))
  /\ called' = n
  /\ stage' = "call"
  /\ UNCHANGED <<serde1, metas, result, rpcs, client, server, codec, served>>

\* impl_serve_for_server: the arm of the variant that was received.
serve_next(n) == (n % Len(rpcs)) + 1             \* mutant: zipped askew
serve(n) == n

Serve ==
  LET n == decode(enum_request(server), encode(enum_request(client), called)) IN
  /\ stage = "call"
  /\ served' = IF n = 0 THEN 0 ELSE serve(n)
  /\ stage' = IF n = 0 THEN "decode_error" ELSE "served"
  /\ UNCHANGED <<serde1, metas, result, rpcs, client, server, codec, called>>

\* The client takes the response of its method; another is unreachable!().
Return ==
  LET n == decode(enum_response(client), encode(enum_response(server), served)) IN
  /\ stage = "served"
  /\ stage' = IF n = called THEN "returned" ELSE "panic"
  /\ UNCHANGED <<serde1, metas, result, rpcs, client, server, codec, called, served>>

Terminated ==
  /\ \/ stage \in {"refused", "panic", "rustc_error", "decode_error", "returned"}
     \/ stage = "built" /\ enabled(client) = << >>
  /\ UNCHANGED vars

Next ==
  \/ \E feature \in BOOLEAN : Start(feature)
  \/ \E item \in MetaItems : ReadMeta(item)
  \/ \E rpc \in Rpcs : ReadRpc(rpc)
  \/ \E c, s \in SUBSET Features, by \in {"number", "name"} : EndTrait(c, s, by)
  \/ \E n \in 1..MaxRpcs : Call(n)
  \/ EndAttr \/ Serve \/ Return \/ Terminated

Spec == Init /\ [][Next]_vars

-----------------------------------------------------------------------------
(* Properties                                                              *)

\* The attribute is accepted only with at most one item, and what is derived
\* is what that item asks for; serde's traits are the default.  No fault that
\* was collected is lost on the way.
DeriveAsAsked ==
  stage \notin {"new", "attr", "refused"} =>
    \/ metas = << >> /\ derives = IF serde1 THEN "serde" ELSE "nothing"
    \/ /\ Len(metas) = 1
       /\ derives = CASE metas[1].value = "paths" -> "paths"
                      [] metas[1].value = "true" -> "serde"
                      [] metas[1].value \in {"empty", "false"} -> "nothing"

\* Reference: each word, a longest run without an underscore, begins with a
\* capital and goes on in lower case.
Camel(name) ==
  LET letter(i) == IF i = 1 \/ name[i - 1] = "_" THEN upper(name[i]) ELSE lower(name[i])
      kept == SelectSeq([i \in 1..Len(name) |-> i], LAMBDA i : name[i] # "_") IN
  [j \in 1..Len(kept) |-> letter(kept[j])]

\* snake_to_camel names a variant as the reference does, whatever underscores
\* and capitals the method's name has.
CamelCase ==
  stage = "attr" /\ metas = << >> =>
    \A name \in UNION {[1..k -> Alphabet] : k \in 0..4} :
      snake_to_camel(name) = Camel(name)

\* The method that runs is the one that was called, and its response is the
\* one the client takes: between equal builds, and between builds with
\* different methods when variants are sent by name.
RunsWhatWasCalled ==
  /\ stage = "served" /\ (client = server \/ codec = "name") => served = called
  /\ stage = "panic" /\ called # 0 => client # server /\ codec = "number"
  /\ stage = "decode_error" =>
       client # server /\ (codec = "name" => called \notin Range(enabled(server)))

\* The types that are generated are the ones that were asked for, and so are
\* the calls that are made with them.
Generated == DeriveAsAsked /\ RunsWhatWasCalled
=============================================================================
