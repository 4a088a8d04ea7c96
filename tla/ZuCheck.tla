------------------------------ MODULE ZuCheck -------------------------------
(***************************************************************************)
(* crates/zumar-lang/src/check.rs: whether a program is accepted, and the   *)
(* program with its names resolved.  Which error is reported, and where,    *)
(* is left out: a type is inferred, or there is an error.                   *)
(*                                                                         *)
(* Variants are taken to carry types that exist, which the code does not    *)
(* check.                                                                   *)
(***************************************************************************)
EXTENDS ZuAst

Error == [k |-> "error"]

(* A scope: the program, and the types of the variables by name.            *)
Scope(app, vars) == [app |-> app, vars |-> vars]
NoVars == <<>>
ModelVar == [model |-> RecordT(MODEL)]
With(x, t, env) == [env EXCEPT !.vars = (x :> t) @@ @]

-----------------------------------------------------------------------------
(* resolve_ty: a name that is an enum's.                                    *)
RECURSIVE ResolveTy(_, _)
ResolveTy(t, enums) ==
    IF t.k = "Record" /\ t.n \in enums THEN EnumT(t.n)
    ELSE IF t.k \in {"List", "Maybe"} THEN [t EXCEPT !.t = ResolveTy(t.t, enums)] ELSE t

ResolveParts(ps, enums) == [i \in DOMAIN ps |-> [ps[i] EXCEPT !.ty = ResolveTy(@, enums)]]

ResolveDefs(ds, enums) == [i \in DOMAIN ds |-> [ds[i] EXCEPT !.parts = ResolveParts(@, enums)]]

Resolved(app) ==
    LET enums == Names(app.enums)
    IN  [app EXCEPT
            !.model = ResolveParts(@, enums),
            !.records = ResolveDefs(@, enums),
            !.enums = ResolveDefs(@, enums),
            !.msgs = [i \in DOMAIN @ |->
                [@[i] EXCEPT !.parts = [j \in DOMAIN @ |-> ResolveTy(@[j], enums)]]]]

-----------------------------------------------------------------------------
(* The tables of the checker.                                               *)
Records(app) == Append(app.records, Def(MODEL, app.model))

FieldsOf(app, rec) == Named(Records(app), rec).parts

Variants(app) == FlattenSeq([i \in DOMAIN app.enums |-> app.enums[i].parts])

VariantOwner(app, c) == CHOOSE n \in Names(app.enums) : c \in Names(Named(app.enums, n).parts)

EnumIsPlain(app, n) == \A v \in ToSet(Named(app.enums, n).parts) : v.ty = NoTy

RECURSIVE RefersTo(_, _)
RefersTo(t, names) ==
    IF t.k \in {"List", "Maybe"} THEN RefersTo(t.t, names) ELSE t.k = "Record" => t.n \in names

RefsExist(parts, names) == \A i \in DOMAIN parts : RefersTo(parts[i].ty, names)

(* Checker::build.                                                          *)
Built(app) ==
    LET names == Names(Records(app))
    IN  /\ MODEL \notin Names(app.records)
        /\ Distinct(app.records)
        /\ \A r \in ToSet(Records(app)) : Distinct(r.parts) /\ RefsExist(r.parts, names)
        /\ \A m \in ToSet(app.msgs) : \A i \in DOMAIN m.parts : RefersTo(m.parts[i], names)
        /\ Distinct(app.msgs)
        /\ Names(app.enums) \cap names = {}
        /\ Distinct(app.enums)
        /\ Distinct(Variants(app))
        /\ Names(Variants(app)) \cap Names(app.msgs) = {}

-----------------------------------------------------------------------------
(* infer.  want is the expected type, NoTy if none is.                      *)
RECURSIVE Infer(_, _, _)

(* The one place from which Infer is called again, as TLC follows each of   *)
(* them separately when it counts coverage.  For the same reason what is    *)
(* inferred first is a parameter of what depends on it.                     *)
InferPart(e, want, env) == Infer(e, want, env)

(* expect and expect_ty.                                                    *)
Expect(e, want, env) == InferPart(e, want, env) = want

InferVar(x, env) ==
    CASE x \in DOMAIN env.vars -> env.vars[x]
      [] x \notin DOMAIN env.vars /\ x \in Names(Variants(env.app)) ->
            IF Named(Variants(env.app), x).ty = NoTy THEN EnumT(VariantOwner(env.app, x)) ELSE Error
      [] OTHER -> Error

InferCtor(e, env) ==
    IF /\ e.c \in Names(Variants(env.app))
       /\ Named(Variants(env.app), e.c).ty # NoTy
       /\ Expect(e.e, Named(Variants(env.app), e.c).ty, env)
    THEN EnumT(VariantOwner(env.app, e.c)) ELSE Error

FieldTy(app, t, f) ==
    IF t.k = "Record" /\ f \in Names(FieldsOf(app, t.n)) THEN Named(FieldsOf(app, t.n), f).ty ELSE Error

CallHint(fn, want) ==
    CASE fn = "show" -> TInt
      [] fn = "toInt" -> TStr
      [] fn = "not" -> TBool
      [] fn = "some" -> Inside("Maybe", want)
      [] OTHER -> NoTy

CallType(fn, t) ==
    CASE fn = "show" /\ t = TInt -> TStr
      [] fn = "toInt" /\ t = TStr -> TInt
      [] fn = "not" /\ t = TBool -> TBool
      [] fn = "some" /\ t # Error -> MaybeT(t)
      [] fn = "length" /\ t.k = "List" -> TInt
      [] fn = "sum" /\ t = ListT(TInt) -> TInt
      [] fn = "head" /\ t.k = "List" -> MaybeT(t.t)
      [] fn = "reverse" /\ t.k = "List" -> t
      [] OTHER -> Error

InferNth(e, list, env) ==
    IF list.k = "List" /\ Expect(e.i, TInt, env) /\ Expect(e.d, list.t, env) THEN list.t ELSE Error

(* One type for all, or none.                                               *)
Agreed(types) == IF \A i \in DOMAIN types : types[i] = types[1] THEN types[1] ELSE Error

(* The constructors of what is taken apart, and whether they carry a value. *)
Constructors(app, t) ==
    CASE t.k = "Maybe" -> <<Typed("none", NoTy), Typed("some", t.t)>>
      [] t.k = "Enum" -> Named(app.enums, t.n).parts
      [] OTHER -> <<>>

(* Mutant: not every constructor has to be covered.                         *)
CoversSome(arms, ctors) ==
    /\ \A i, j \in DOMAIN arms : arms[i].c = arms[j].c => i = j
    /\ {arms[i].c : i \in DOMAIN arms} \subseteq Names(ctors)
    /\ \A i \in DOMAIN arms : (arms[i].x # NoBinder) <=> (Named(ctors, arms[i].c).ty # NoTy)

CoversOnce(arms, ctors) ==
    /\ \A i, j \in DOMAIN arms : arms[i].c = arms[j].c => i = j
    /\ {arms[i].c : i \in DOMAIN arms} = Names(ctors)
    /\ \A i \in DOMAIN arms : (arms[i].x # NoBinder) <=> (Named(ctors, arms[i].c).ty # NoTy)

ArmScope(arm, ctors, env) ==
    IF arm.x = NoBinder THEN env ELSE With(arm.x, Named(ctors, arm.c).ty, env)

InferArms(arms, ctors, want, env) ==
    IF CoversOnce(arms, ctors)
    THEN Agreed([i \in DOMAIN arms |-> InferPart(arms[i].body, want, ArmScope(arms[i], ctors, env))])
    ELSE Error

InferBin(op, l, r, app) ==
    CASE op \in {"+", "-", "*", "/", "%"} /\ l = TInt /\ r = TInt -> TInt
      [] op = "++" /\ l = r /\ (l = TStr \/ l.k = "List") -> l
      [] op \in {"==", "!="} /\ l = r ->
            IF l.k \in {"Int", "String", "Bool"} \/ (l.k = "Enum" /\ EnumIsPlain(app, l.n))
            THEN TBool ELSE Error
      [] op \in {"<", ">"} /\ l = TInt /\ r = TInt -> TBool
      [] OTHER -> Error

(* The first element's type is expected of the others.                      *)
InferElements(es, first, env) ==
    IF first # Error /\ \A i \in 2 .. Len(es) : Expect(es[i], first, env) THEN ListT(first) ELSE Error

(* resolve_record: the expected one, or the only one with these fields.     *)
Matching(app, fs) == {r \in ToSet(app.records) : Names(r.parts) = Names(fs)}

ResolveRecord(fs, want, app) ==
    IF want.k = "Record" THEN {want.n}
    ELSE IF Cardinality(Matching(app, fs)) = 1 THEN {r.x : r \in Matching(app, fs)} ELSE {}

CheckFields(fs, defs, env) ==
    /\ Names(fs) \subseteq Names(defs)
    /\ \A i \in DOMAIN fs : Expect(fs[i].e, Named(defs, fs[i].x).ty, env)

InferRecord(e, names, env) ==
    IF \E n \in names : /\ CheckFields(e.fs, FieldsOf(env.app, n), env)
                        /\ Distinct(e.fs)
                        /\ Names(e.fs) = Names(FieldsOf(env.app, n))
    THEN RecordT(CHOOSE n \in names : TRUE) ELSE Error

InferUpdate(e, base, env) ==
    IF base.k = "Record" /\ CheckFields(e.fs, FieldsOf(env.app, base.n), env) THEN base ELSE Error

InferFold(e, list, acc, env) ==
    IF /\ list.k = "List" /\ acc # Error
       /\ Expect(e.body, acc, With(e.x, list.t, With(e.acc, acc, env)))
    THEN acc ELSE Error

ListOf(t) == IF t = Error THEN Error ELSE ListT(t)

InferFor(e, list, want, env) ==
    IF /\ list.k = "List"
       /\ e.where = Always \/ Expect(e.where, TBool, With(e.x, list.t, env))
    THEN ListOf(InferPart(e.body, Inside("List", want), With(e.x, list.t, env))) ELSE Error

Infer(e, want, env) ==
    CASE e.of = "lit" -> e.t
      [] e.of = "var" -> InferVar(e.x, env)
      [] e.of = "ctor" -> InferCtor(e, env)
      [] e.of = "field" -> FieldTy(env.app, InferPart(e.e, NoTy, env), e.f)
      [] e.of = "call" -> CallType(e.fn, InferPart(e.e, CallHint(e.fn, want), env))
      [] e.of = "nth" -> InferNth(e, InferPart(e.l, NoTy, env), env)
      [] e.of = "none" -> IF want.k = "Maybe" THEN want ELSE Error
      [] e.of = "case" -> InferArms(e.arms, Constructors(env.app, InferPart(e.e, NoTy, env)), want, env)
      [] e.of = "bin" -> InferBin(e.op, InferPart(e.l, NoTy, env), InferPart(e.r, NoTy, env), env.app)
      [] e.of = "if" ->
            IF Expect(e.c, TBool, env)
            THEN Agreed(<<InferPart(e.t, want, env), InferPart(e.e, want, env)>>) ELSE Error
      [] e.of = "list" ->
            IF e.es = <<>> THEN IF want.k = "List" THEN want ELSE Error
            ELSE InferElements(e.es, InferPart(e.es[1], Inside("List", want), env), env)
      [] e.of = "record" -> InferRecord(e, ResolveRecord(e.fs, want, env.app), env)
      [] e.of = "update" -> InferUpdate(e, InferPart(e.b, want, env), env)
      [] e.of = "fold" -> InferFold(e, InferPart(e.l, NoTy, env), InferPart(e.init, want, env), env)
      [] e.of = "for" -> InferFor(e, InferPart(e.l, NoTy, env), want, env)

-----------------------------------------------------------------------------
(* The payload types of a message; no message has the type Error.           *)
PayloadsOf(app, msg) == IF msg \in Names(app.msgs) THEN Named(app.msgs, msg).parts ELSE <<Error>>

(* check_cmd, and the calls of check_subs.  What answers a command of this  *)
(* kind carries ...                                                         *)
Answers(kind) ==
    CASE kind = "delay" -> {<<>>}
      [] kind = "every" -> {<<>>, <<TInt>>}
      [] kind \in {"httpGet", "httpPost", "topic"} -> {<<TStr>>}

CheckTask(call, env) ==
    /\ \A i \in DOMAIN call.args : Expect(call.args[i], TStr, env)
    /\ call.kind # "publish" => PayloadsOf(env.app, call.msg) \in Answers(call.kind)

CheckTasks(calls, env) == \A i \in DOMAIN calls : CheckTask(calls[i], env)

RECURSIVE CheckSubs(_, _)
CheckSubs(subs, env) ==
    IF subs.of = "subs" THEN CheckTasks(subs.calls, env)
    ELSE /\ Expect(subs.c, TBool, env)
         /\ \A branch \in {subs.t, subs.e} : CheckSubs(branch, env)

CheckMsgCall(call, env) ==
    LET payloads == PayloadsOf(env.app, call.msg)
    IN  /\ call.msg \in Names(env.app.msgs)
        /\ Len(call.args) = Len(payloads)
        /\ \A i \in DOMAIN call.args : Expect(call.args[i], payloads[i], env)

CheckAttr(a, env) ==
    CASE a.of = "str" -> Expect(a.e, TStr, env)
      [] a.of = "on" -> CheckMsgCall(a.call, env)
      [] a.of = "onValue" -> PayloadsOf(env.app, a.msg) = <<a.ty>>

RECURSIVE CheckElement(_, _)
CheckPart(el, env) == CheckElement(el, env)

CheckEach(c, list, env) == list.k = "List" /\ CheckPart(c.el, With(c.x, list.t, env))

CheckChild(c, env) ==
    CASE c.of = "text" -> Expect(c.e, TStr, env)
      [] c.of = "each" -> CheckEach(c, InferPart(c.l, NoTy, env), env)
      [] c.of = "elem" -> CheckPart(c.el, env)

CheckElement(el, env) ==
    /\ \A i \in DOMAIN el.attrs : CheckAttr(el.attrs[i], env)
    /\ \A i \in DOMAIN el.kids : CheckChild(el.kids[i], env)

-----------------------------------------------------------------------------
(* Checker::run.                                                            *)
CheckInit(app) ==
    /\ Distinct(app.init)
    /\ CheckFields(app.init, app.model, Scope(app, NoVars))
    /\ Names(app.model) \subseteq Names(app.init)

(* The payloads are bound from the left: a later name hides an earlier one. *)
Payload(vars, tys, env) ==
    FoldLeft(LAMBDA acc, i : With(vars[i].x, tys[i], acc), env, [i \in DOMAIN vars |-> i])

CheckUpdate(app, u) ==
    LET payloads == PayloadsOf(app, u.x)
    IN  /\ u.x \in Names(app.msgs)
        /\ Len(u.vars) = Len(payloads)
        /\ Distinct(u.sets)
        /\ CheckFields(u.sets, app.model, Payload(u.vars, payloads, Scope(app, ModelVar)))
        /\ CheckTasks(u.cmds, Scope(app, ModelVar))

CheckUpdates(app) ==
    /\ Distinct(app.updates)
    /\ \A i \in DOMAIN app.updates : CheckUpdate(app, app.updates[i])
    /\ Names(app.msgs) \subseteq Names(app.updates)

(* check, of a program whose names are resolved.                            *)
Accepted(app) ==
    /\ Built(app)
    /\ CheckInit(app)
    /\ CheckUpdates(app)
    /\ CheckTasks(app.initCmds, Scope(app, NoVars))
    /\ CheckSubs(app.subs, Scope(app, ModelVar))
    /\ CheckElement(app.view, Scope(app, ModelVar))
=============================================================================
