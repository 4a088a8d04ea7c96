----------------------------- MODULE ZuBackends -----------------------------
(***************************************************************************)
(* A .zu program run by both of its backends: the Rust that zumar-lang     *)
(* generates, and the wasm that zumar-wasmgc emits, given the same          *)
(* messages.  Either keeps its model; what it shows and which intervals it *)
(* wants follow from that.                                                 *)
(*                                                                         *)
(* A program is a record of                                                *)
(*   fields   the fields of the model, in the order of the declaration     *)
(*   init     an expression for each                                       *)
(*   update   the equations: the binder of the payload ("" if there is     *)
(*            none), the fields they set, in the order written, and an     *)
(*            expression for each                                          *)
(*   accepts  for each equation, the payloads it is run with               *)
(*   texts    the texts and attributes of the view outside of loops        *)
(*   regions  its loops: list, variable, texts and attributes of an item   *)
(*   subs     the subscriptions: Every(site), or SubIf(c, t, f)             *)
(***************************************************************************)
EXTENDS ZuEmit

CONSTANT Programs

VARIABLES
    app,     \* which program
    rust,    \* the model of the Rust
    gc,      \* the model of the wasm module, by value
    trapped  \* it has trapped

vars == <<app, rust, gc, trapped>>

Every(site) == [of |-> "every", site |-> site]
SubIf(c, t, f) == [of |-> "subIf", c |-> c, t |-> t, f |-> f]

P == Programs[app]

-----------------------------------------------------------------------------
(* The Rust.                                                                *)
RustEnv(model) == [x \in {"model"} |-> model]

RustInit(p) == [f \in ToSet(p.fields) |-> RustVal(p.init[f], [x \in {} |-> 0])]

(* Every new field from the model as it was, then the assignments.          *)
RustUpdated(model, u, payload) ==
    LET env == Bound(u.binder, payload, RustEnv(model))
        new == [f \in ToSet(u.sets) |-> RustVal(u.to[f], env)]
    IN  [f \in DOMAIN model |-> IF f \in DOMAIN new THEN new[f] ELSE model[f]]

RustTexts(texts, env) == [i \in DOMAIN texts |-> RustVal(texts[i], env)]

RustItems(region, env, list) ==
    [i \in DOMAIN list |-> RustTexts(region.texts, Bound(region.x, list[i], env))]

RustRegion(region, env) == RustItems(region, env, RustVal(region.list, env))

RustView(p, model) ==
    [texts |-> RustTexts(p.texts, RustEnv(model)),
     regions |-> [j \in DOMAIN p.regions |-> RustRegion(p.regions[j], RustEnv(model))]]

RECURSIVE RustSubs(_, _)
RustSubs(subs, model) ==
    IF subs.of = "every" THEN {subs.site}
    ELSE IF RustVal(subs.c, RustEnv(model)) THEN RustSubs(subs.t, model)
    ELSE RustSubs(subs.f, model)

-----------------------------------------------------------------------------
(* The wasm.  boot and update are a function each; patches is one, with a   *)
(* function for each region.                                                *)
NoVars == [x \in {} |-> <<>>]

FnBoot(p) ==
    Struct(RunAll([i \in DOMAIN p.fields |-> p.init[p.fields[i]]], <<>>, NoVars,
                  Entered(<<>>, 0)),
           p.fields)

(* struct.set of the fields, each from its local.                           *)
Assigned(s, sets, values) ==
    [s EXCEPT !.model = [f \in DOMAIN @ |-> IF f \in ToSet(sets)
                                           THEN values[CHOOSE i \in DOMAIN sets : sets[i] = f]
                                           ELSE @[f]]]

AssignedAll(s, sets) == IF s.trap THEN s ELSE Assigned(s, sets, s.val)

(* Each field set as soon as its value is known.                            *)
FnUpdateInPlace(model, u, payload) ==
    FoldLeft(LAMBDA s, f : AssignedAll(RunAll(<<u.to[f]>>, <<f>>,
                                              Bound(u.binder, <<"payload">>, NoVars), s),
                                       <<f>>),
             Entered(model, payload), u.sets)

FnUpdate(model, u, payload) ==
    AssignedAll(RunAll([i \in DOMAIN u.sets |-> u.to[u.sets[i]]], <<>>,
                       Bound(u.binder, <<"payload">>, NoVars), Entered(model, payload)),
                u.sets)

(* The element of an item is written inline, in the loop over the items.    *)
Written(s, out, it) == SetTo(it, out, Append(Local(s, out), it.val))

ItemLoop(region, out, list) ==
    FoldLeft(LAMBDA s, x : Written(s, out, RunAll(region.texts, <<"body">>,
                                                  Bound(region.x, <<"3">>, NoVars),
                                                  SetTo(s, <<"3">>, x))),
             SetTo(list, out, <<>>), list.val)

RunItems(region, list) ==
    IF list.trap THEN list ELSE Result(ItemLoop(region, <<"out">>, list), <<"out">>)

FnRegion(region, model) == RunItems(region, Run(region.list, <<"list">>, NoVars, Entered(model, 0)))

Patches(texts, regions) ==
    [trap |-> texts.trap \/ \E j \in DOMAIN regions : regions[j].trap,
     shown |-> [texts |-> texts.val,
                regions |-> [j \in DOMAIN regions |-> regions[j].val]]]

FnPatches(p, model) ==
    Patches(RunAll(p.texts, <<>>, NoVars, Entered(model, 0)),
            [j \in DOMAIN p.regions |-> FnRegion(p.regions[j], model)])

(* The sites of intervals, with the conditions on the way to each.          *)
RECURSIVE SubSites(_, _)
SubSites(subs, conds) ==
    IF subs.of = "every" THEN <<[site |-> subs.site, conds |-> conds]>>
    ELSE SubSites(subs.t, Append(conds, [e |-> subs.c, polarity |-> TRUE]))
         \o SubSites(subs.f, Append(conds, [e |-> subs.c, polarity |-> FALSE]))

(* Every condition counts, whichever branch it is of.                       *)
WantedUnnegated(site, model) ==
    \A i \in DOMAIN site.conds :
        Run(site.conds[i].e, <<ToString(i)>>, NoVars, Entered(model, 0)).val

Wanted(site, model) ==
    \A i \in DOMAIN site.conds :
        Run(site.conds[i].e, <<ToString(i)>>, NoVars, Entered(model, 0)).val
            = site.conds[i].polarity

GcSubs(p, model) ==
    {site.site : site \in {s \in ToSet(SubSites(p.subs, <<>>)) : Wanted(s, model)}}

-----------------------------------------------------------------------------
Booted(s) == gc = s.val /\ trapped = s.trap

Init ==
    /\ app \in DOMAIN Programs
    /\ rust = RustInit(P)
    /\ Booted(FnBoot(P))

(* Both take message k.                                                     *)
Updated(s) == gc' = s.model /\ trapped' = s.trap

Turn(k, payload) ==
    /\ ~ trapped
    /\ rust' = RustUpdated(rust, P.update[k], payload)
    /\ Updated(FnUpdate(gc, P.update[k], payload))
    /\ UNCHANGED app

Next == \E k \in DOMAIN P.update : \E payload \in P.accepts[k] : Turn(k, payload)

Spec == Init /\ [][Next]_vars

-----------------------------------------------------------------------------
(* The two models are the same after the same messages: the expressions of  *)
(* the equations have one meaning, and an equation sets its fields from the *)
(* model before it, whichever way it is compiled (gen.rs 206-207,           *)
(* zumar-wasmgc/src/lib.rs 2634).                                           *)
ModelsAgree == ~ trapped => gc = rust

(* The texts and attributes shown are the same, those of loops item by      *)
(* item: what a run left in the locals of an emitted function never shows   *)
(* in the next text it computes.                                            *)
ViewsAgree == ~ trapped => FnPatches(P, gc).shown = RustView(P, rust)

(* The conditions the emitter collects for an interval hold just when the   *)
(* nested ifs of the generated Rust reach it.                               *)
SubsAgree == ~ trapped => GcSubs(P, gc) = RustSubs(P.subs, rust)

(* No message makes the module trap, in its update or in the patches after  *)
(* it: a division by zero is 0, an array is filled exactly as far as it was *)
(* counted, a null reference is never looked into.                          *)
GcNeverTraps == ~ trapped /\ ~ FnPatches(P, gc).trap
=============================================================================
