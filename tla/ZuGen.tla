------------------------------- MODULE ZuGen --------------------------------
(***************************************************************************)
(* crates/zumar-lang/src/gen.rs: the Rust crate generated for a program,    *)
(* as far as types go.  What is emitted for an expression is known by the   *)
(* type the generator takes it to have (t), by the type the Rust code has   *)
(* (r), and by what is wrong with it: the generator panics ("panic"), or    *)
(* rustc refuses the code ("rustc").                                        *)
(*                                                                         *)
(* Rust types are those of rust_ty, references to them, and what rustc may  *)
(* still choose (the elements of Vec::new(), of None).  Names are taken to   *)
(* be free in Rust: no keywords, and distinct where the code lowers them.   *)
(***************************************************************************)
EXTENDS ZuCheck

Unknown == [k |-> "?"]
Ref(t) == [k |-> "Ref", t |-> t]
Deref(r) == IF r.k = "Ref" THEN r.t ELSE r

Code(t, r) == [t |-> t, r |-> r, bad |-> {}]
Bad(why) == [t |-> Unknown, r |-> Unknown, bad |-> {why}]
Panic == Bad("panic")
Refused == Bad("rustc")

(* The code c, of which the codes in cs are parts.                          *)
Using(cs, c) ==
    LET bad == UNION {x.bad : x \in cs}
    IN  IF bad = {} THEN c ELSE [t |-> Unknown, r |-> Unknown, bad |-> bad]

(* ... if rustc accepts it where it stands.                                 *)
Provided(good, c) == IF good THEN c ELSE Refused

(* Whether rustc can take a value of type a for one of type b.              *)
RECURSIVE Unifies(_, _)
Unifies(a, b) ==
    \/ Unknown \in {a, b}
    \/ a = b
    \/ a.k = b.k /\ a.k \in {"List", "Maybe", "Ref"} /\ Unifies(a.t, b.t)

(* Display, PartialEq.                                                      *)
Prints(r) == Deref(r).k \in {"Int", "String", "Bool"}

RECURSIVE Comparable(_)
Comparable(r) ==
    IF r.k \in {"List", "Maybe", "Ref"} THEN Comparable(r.t) ELSE r.k \notin {"Record", "?"}

(* Mutant: nothing is cloned.                                              *)
NeverCopied(t, r) == Code(t, r)

(* clone_if_owned.  The Model is no Clone: what is cloned is the reference. *)
Copied(t, r) ==
    IF t.k \in {"Int", "Bool"} \/ r = Ref(RecordT(MODEL)) THEN Code(t, r) ELSE Code(t, Deref(r))

Variable(t, r) == [t |-> t, r |-> r]
Bind(x, t, r, env) == [env EXCEPT !.vars = (x :> Variable(t, r)) @@ @]

(* A variable that runs over .iter() of a list.                             *)
Each(x, t, list, env) == Bind(x, t, Ref(Deref(list).t), env)

-----------------------------------------------------------------------------
(* type_of, where the code needs a type before it emits: NoTy is a panic.   *)
RECURSIVE TypeOf(_, _)
TypePart(e, env) == TypeOf(e, env)

TypeOfVar(x, env) ==
    CASE x \in DOMAIN env.vars -> env.vars[x].t
      [] x \notin DOMAIN env.vars /\ x \in Names(Variants(env.app)) -> EnumT(VariantOwner(env.app, x))
      [] OTHER -> NoTy

(* resolve_record.  The records are kept in the order of their names; which *)
(* of several is taken is left open.                                        *)
RecordFor(fs, want, app) ==
    IF want.k = "Record" THEN want.n ELSE (CHOOSE r \in Matching(app, fs) : TRUE).x

Wrapped(k, t) == IF t = NoTy THEN NoTy ELSE [k |-> k, t |-> t]

TypeOfField(env, t, f) == LET ty == FieldTy(env.app, t, f) IN IF ty = Error THEN NoTy ELSE ty

TypeOfFor(e, list, env) ==
    IF list.k # "List" THEN NoTy
    ELSE Wrapped("List", TypePart(e.body, Bind(e.x, list.t, Ref(list.t), env)))

TypeOf(e, env) ==
    CASE e.of = "lit" -> e.t
      [] e.of = "var" -> TypeOfVar(e.x, env)
      [] e.of = "field" -> TypeOfField(env, TypePart(e.e, env), e.f)
      [] e.of = "call" /\ e.fn = "show" -> TStr
      [] e.of = "call" /\ e.fn \in {"length", "sum", "toInt"} -> TInt
      [] e.of = "call" /\ e.fn = "not" -> TBool
      [] e.of = "call" /\ e.fn = "head" -> Wrapped("Maybe", Inside("List", TypePart(e.e, env)))
      [] e.of = "call" /\ e.fn = "some" -> Wrapped("Maybe", TypePart(e.e, env))
      [] e.of = "call" /\ e.fn = "reverse" -> TypePart(e.e, env)
      [] e.of = "nth" -> Inside("List", TypePart(e.l, env))
      [] e.of = "none" -> MaybeT(TInt)
      [] e.of = "ctor" -> EnumT(VariantOwner(env.app, e.c))
      [] e.of = "case" -> TypePart(e.arms[1].body, env)
      [] e.of = "bin" ->
            IF e.op \in {"+", "-", "*"} THEN TInt
            ELSE IF e.op = "++" THEN TypePart(e.l, env) ELSE TBool
      [] e.of = "if" -> TypePart(e.t, env)
      [] e.of = "list" -> IF e.es = <<>> THEN ListT(TInt) ELSE Wrapped("List", TypePart(e.es[1], env))
      [] e.of = "record" -> RecordT(RecordFor(e.fs, NoTy, env.app))
      [] e.of = "update" -> TypePart(e.b, env)
      [] e.of = "fold" -> TypePart(e.init, env)
      [] e.of = "for" -> TypeOfFor(e, TypePart(e.l, env), env)

-----------------------------------------------------------------------------
(* emit.  want is the expected type, NoTy if none is.                       *)
RECURSIVE Emit(_, _, _)
EmitPart(e, want, env) == Emit(e, want, env)

(* emit_place: the place a variable or a field is read from, not cloned.    *)
RECURSIVE Place(_, _)

PlaceField(env, base, f) ==
    Using({base}, IF base.t.k # "Record" THEN Panic
                  ELSE LET t == FieldTy(env.app, base.t, f) IN Code(t, t))

Place(e, env) ==
    CASE e.of = "var" ->
            IF e.x \in DOMAIN env.vars THEN Code(env.vars[e.x].t, env.vars[e.x].r) ELSE Panic
      [] e.of = "field" -> PlaceField(env, Place(e.e, env), e.f)
      [] OTHER -> EmitPart(e, NoTy, env)

(* emit_operand is the place of what is one, and else the value.            *)
Operand(e, env) == Place(e, env)

CopiedPlace(c) == Using({c}, Copied(c.t, c.r))

EmitVar(e, env) ==
    CASE e.x \in DOMAIN env.vars -> CopiedPlace(Place(e, env))
      [] e.x \notin DOMAIN env.vars /\ e.x \in Names(Variants(env.app)) ->
            LET t == EnumT(VariantOwner(env.app, e.x)) IN Code(t, t)
      [] OTHER -> Panic

EmitCtor(e, payload, env) ==
    LET arg == EmitPart(e.e, payload, env)
        t   == EnumT(VariantOwner(env.app, e.c))
    IN  Using({arg}, Provided(Unifies(arg.r, payload), Code(t, t)))

(* The built-in functions: code with an argument in it.                     *)
IsList(r) == Deref(r).k = "List"

Applied(fn, arg, elem) ==
    Using({arg},
        CASE fn = "show" -> Provided(Prints(arg.r), Code(TStr, TStr))
          [] fn = "not" -> Provided(Deref(arg.r) = TBool, Code(TBool, TBool))
          [] fn = "toInt" -> Provided(Deref(arg.r) = TStr, Code(TInt, TInt))
          [] fn = "length" -> Provided(IsList(arg.r) \/ Deref(arg.r) = TStr, Code(TInt, TInt))
          [] fn = "sum" -> Provided(Deref(arg.r) = ListT(TInt), Code(TInt, TInt))
          [] fn = "reverse" -> Provided(arg.r.k = "List", arg)
          [] fn = "some" -> Code(MaybeT(arg.t), MaybeT(arg.r))
          [] fn = "head" ->
                IF elem = NoTy THEN Panic
                ELSE Provided(IsList(arg.r), Code(MaybeT(elem), MaybeT(Deref(arg.r).t))))

EmitCall(e, want, env) ==
    CASE e.fn \in {"show", "not"} -> Applied(e.fn, EmitPart(e.e, CallHint(e.fn, NoTy), env), NoTy)
      [] e.fn \in {"length", "sum", "toInt"} -> Applied(e.fn, Operand(e.e, env), NoTy)
      [] e.fn = "head" -> Applied(e.fn, Operand(e.e, env), Inside("List", TypeOf(e.e, env)))
      [] e.fn = "some" -> Applied(e.fn, EmitPart(e.e, Inside("Maybe", want), env), NoTy)
      [] e.fn = "reverse" -> Applied(e.fn, EmitPart(e.e, want, env), NoTy)

EmitNth(e, elem, env) ==
    LET list == Operand(e.l, env)
        i    == EmitPart(e.i, TInt, env)
        d    == EmitPart(e.d, elem, env)
    IN  IF elem = NoTy THEN Panic
        ELSE Using({list, i, d},
                Provided(IsList(list.r) /\ i.r = TInt /\ Unifies(Deref(list.r).t, d.r), Code(elem, d.r)))

(* Branches, elements, arms: rustc wants one type, the generator takes the  *)
(* type of the one it is told.                                              *)
OneOf(cs, at) ==
    Using({cs[i] : i \in DOMAIN cs},
        Provided(\A i, j \in DOMAIN cs : Unifies(cs[i].r, cs[j].r),
                 Code(cs[at].t, IF cs[1].r.k = "?" THEN cs[Len(cs)].r ELSE cs[1].r)))

(* A pattern, and its variable if it has one.                               *)
Pattern(arm, scrut, env) ==
    IF scrut.t.k = "Maybe"
    THEN IF arm.c = "none" THEN env ELSE Bind(arm.x, scrut.t.t, scrut.r.t, env)
    ELSE LET carried == Named(Constructors(env.app, scrut.t), arm.c).ty
         IN  IF arm.x = NoBinder \/ carried = NoTy THEN env ELSE Bind(arm.x, carried, carried, env)

(* match is exhaustive, and the pattern of what carries a value binds it.   *)
Exhausts(arms, ctors) ==
    /\ {arms[i].c : i \in DOMAIN arms} = Names(ctors)
    /\ \A i \in DOMAIN arms : arms[i].x = NoBinder => Named(ctors, arms[i].c).ty = NoTy

EmitCase(e, scrut, want, env) ==
    IF scrut.bad # {} THEN scrut
    ELSE IF scrut.t.k \notin {"Maybe", "Enum"} THEN Panic
    ELSE IF ~ Exhausts(e.arms, Constructors(env.app, scrut.t)) \/ scrut.r.k # scrut.t.k THEN Refused
    ELSE OneOf([i \in DOMAIN e.arms |-> EmitPart(e.arms[i].body, want, Pattern(e.arms[i], scrut, env))],
               Len(e.arms))

(* Rust's operators take Ints by value or by reference, comparisons two of  *)
(* one kind; checked_div and checked_rem take their argument by value.      *)
Operator(op, l, r) ==
    Using({l, r},
        CASE op \in {"+", "-", "*"} -> Provided(Deref(l.r) = TInt /\ Deref(r.r) = TInt, Code(TInt, TInt))
          [] op \in {"/", "%"} -> Provided(Deref(l.r) = TInt /\ r.r = TInt, Code(TInt, TInt))
          [] op = "++" ->
                IF l.t = TStr THEN Provided(Prints(l.r) /\ Prints(r.r), Code(TStr, TStr))
                ELSE IF l.t.k = "List" THEN Provided(r.r.k = "List" /\ Unifies(l.r, r.r), l) ELSE Panic
          [] op \in CmpOps ->
                Provided(Unifies(l.r, r.r) /\ Comparable(l.r) /\ (op \in {"<", ">"} => l.r.k # "Enum"),
                         Code(TBool, TBool)))

OperandHint(op) == IF op \in {"++"} \cup CmpOps THEN NoTy ELSE TInt

EmitBin(e, env) ==
    Operator(e.op, EmitPart(e.l, OperandHint(e.op), env), EmitPart(e.r, OperandHint(e.op), env))

EmitIf(e, want, env) ==
    LET c == EmitPart(e.c, TBool, env)
    IN  Using({c}, Provided(c.r = TBool, OneOf(<<EmitPart(e.t, want, env), EmitPart(e.e, want, env)>>, 1)))

EmitList(e, want, env) ==
    IF e.es = <<>> THEN IF want.k = "List" THEN Code(want, ListT(Unknown)) ELSE Panic
    ELSE LET all == OneOf([i \in DOMAIN e.es |-> EmitPart(e.es[i], Inside("List", want), env)], Len(e.es))
         IN  Using({all}, Code(ListT(all.t), ListT(all.r)))

(* emit_record_fields: every field is emitted for the type it has.  rustc   *)
(* lets a field be set once.                                                *)
EmitFields(fs, defs, env) ==
    LET ForField(f) == LET ty == Named(defs, f.x).ty
                           c  == EmitPart(f.e, ty, env)
                       IN  Using({c}, Provided(Unifies(c.r, ty), c))
    IN  IF ~ Names(fs) \subseteq Names(defs) THEN Panic
        ELSE Using({ForField(fs[i]) : i \in DOMAIN fs}, Provided(Distinct(fs), Code(NoTy, NoTy)))

EmitRecord(e, n, env) ==
    LET fs == EmitFields(e.fs, FieldsOf(env.app, n), env)
    IN  Using({fs}, Provided(Names(e.fs) = Names(FieldsOf(env.app, n)), Code(RecordT(n), RecordT(n))))

(* Name { fields, ..base }: there must be a field before the comma.         *)
EmitUpdate(e, base, env) ==
    IF base.bad # {} THEN base
    ELSE IF base.t.k # "Record" THEN Panic
    ELSE LET fs == EmitFields(e.fs, FieldsOf(env.app, base.t.n), env)
         IN  Using({fs}, Provided(e.fs # <<>> /\ base.r = base.t, base))

(* The list of a loop: emitted, and its type taken once more by type_of.    *)
Source(list, elem) ==
    Using({list}, IF elem.k # "List" THEN Panic ELSE Provided(IsList(list.r), Code(elem, list.r)))

(* let mut f: T = init; for x in (list).iter() { let acc = f; f = body; }: *)
(* of two variables of one name the generator sees the item, rustc acc.     *)
FoldScope(e, list, init, env) ==
    IF e.acc = e.x THEN Bind(e.x, list.t.t, init.t, env)
    ELSE Each(e.x, list.t.t, list.r, Bind(e.acc, init.t, init.t, env))

EmitFold(e, list, init, env) ==
    LET body == EmitPart(e.body, init.t, FoldScope(e, list, init, env))
    IN  IF list.bad \cup init.bad # {} THEN Using({list, init}, list)
        ELSE Using({body}, Provided(Unifies(init.r, init.t) /\ Unifies(body.r, init.t), Code(init.t, init.t)))

(* let mut acc = Vec::new(); for x in (list).iter() { if c { acc.push(body); } } *)
EmitFor(e, list, want, env) ==
    LET inside == Each(e.x, list.t.t, list.r, env)
        body   == EmitPart(e.body, Inside("List", want), inside)
        c      == IF e.where = Always THEN Code(TBool, TBool) ELSE EmitPart(e.where, TBool, inside)
    IN  IF list.bad # {} THEN list
        ELSE Using({body, c}, Provided(c.r = TBool /\ Unifies(body.r, body.t),
                                       Code(ListT(body.t), ListT(body.t))))

Emit(e, want, env) ==
    CASE e.of = "lit" -> Code(e.t, e.t)
      [] e.of = "var" -> EmitVar(e, env)
      [] e.of = "ctor" -> EmitCtor(e, Named(Variants(env.app), e.c).ty, env)
      [] e.of = "field" -> CopiedPlace(Place(e, env))
      [] e.of = "call" -> EmitCall(e, want, env)
      [] e.of = "nth" -> EmitNth(e, Inside("List", TypeOf(e.l, env)), env)
      [] e.of = "none" -> IF want = NoTy THEN Panic ELSE Code(want, MaybeT(Unknown))
      [] e.of = "case" -> EmitCase(e, EmitPart(e.e, NoTy, env), want, env)
      [] e.of = "bin" -> EmitBin(e, env)
      [] e.of = "if" -> EmitIf(e, want, env)
      [] e.of = "list" -> EmitList(e, want, env)
      [] e.of = "record" -> EmitRecord(e, RecordFor(e.fs, want, env.app), env)
      [] e.of = "update" -> EmitUpdate(e, EmitPart(e.b, want, env), env)
      [] e.of = "fold" ->
            EmitFold(e, Source(EmitPart(e.l, NoTy, env), TypeOf(e.l, env)), EmitPart(e.init, want, env), env)
      [] e.of = "for" -> EmitFor(e, Source(EmitPart(e.l, NoTy, env), TypeOf(e.l, env)), want, env)

-----------------------------------------------------------------------------
(* What is wrong with code that has to be of type ty.                       *)
Wrong(c, ty) == Using({c}, Provided(Unifies(c.r, ty), c)).bad

WrongFor(e, ty, env) == Wrong(EmitPart(e, ty, env), ty)

Doubt(good) == IF good THEN {} ELSE {"rustc"}

(* emit_cmds and emit_subs: the constructor that answers, as it is called.  *)
(* delay and every have the message itself, or the clock in its payload.    *)
Constructs(app, msg, tys) ==
    Doubt(msg \in Names(app.msgs) /\ Named(app.msgs, msg).parts = tys)

Clocked(app, msg) == \E m \in ToSet(app.msgs) : m.x = msg /\ m.parts # <<>>

AnswerOf(app, call) ==
    CASE call.kind = "publish" -> {}
      [] call.kind = "delay" -> Constructs(app, call.msg, <<>>)
      [] call.kind = "every" ->
            Constructs(app, call.msg, IF Clocked(app, call.msg) THEN <<TInt>> ELSE <<>>)
      [] OTHER -> Constructs(app, call.msg, <<TStr>>)

EmitTask(call, env) ==
    AnswerOf(env.app, call) \cup UNION {WrongFor(call.args[i], TStr, env) : i \in DOMAIN call.args}

EmitTasks(calls, env) == UNION {EmitTask(calls[i], env) : i \in DOMAIN calls}

RECURSIVE EmitSubs(_, _)
EmitSubs(subs, env) ==
    IF subs.of = "subs" THEN EmitTasks(subs.calls, env)
    ELSE WrongFor(subs.c, TBool, env) \cup UNION {EmitSubs(s, env) : s \in {subs.t, subs.e}}

(* emit_msg_call: the arguments are emitted without an expected type.       *)
EmitMsgCall(call, env) ==
    LET tys == PayloadsOf(env.app, call.msg)
    IN  IF Len(call.args) # Len(tys) \/ Error \in ToSet(tys) THEN {"rustc"}
        ELSE UNION {Wrong(EmitPart(call.args[i], NoTy, env), tys[i]) : i \in DOMAIN call.args}

EmitAttr(a, env) ==
    CASE a.of = "str" -> WrongFor(a.e, TStr, env)
      [] a.of = "on" -> EmitMsgCall(a.call, env)
      [] a.of = "onValue" -> Constructs(env.app, a.msg, <<a.ty>>)

(* emit_element: for x in (list).iter() { .child(..) }.                     *)
RECURSIVE EmitElement(_, _)
ElementPart(el, env) == EmitElement(el, env)

EmitEach(c, list, env) ==
    IF list.bad # {} THEN list.bad ELSE ElementPart(c.el, Each(c.x, list.t.t, list.r, env))

EmitChild(c, env) ==
    CASE c.of = "text" -> WrongFor(c.e, TStr, env)
      [] c.of = "each" -> EmitEach(c, Source(EmitPart(c.l, NoTy, env), TypeOf(c.l, env)), env)
      [] c.of = "elem" -> ElementPart(c.el, env)

EmitElement(el, env) ==
    UNION {EmitAttr(el.attrs[i], env) : i \in DOMAIN el.attrs}
    \cup UNION {EmitChild(el.kids[i], env) : i \in DOMAIN el.kids}

-----------------------------------------------------------------------------
(* lib_rs.  `model' is &mut Model in update, &Model in subs and view.       *)
ModelScope(app) == Scope(app, [model |-> Variable(RecordT(MODEL), Ref(RecordT(MODEL)))])

(* The types: named once, made of types there are, and for an enum also     *)
(* comparable, as PartialEq is derived for it.                              *)
EmitTypes(app) ==
    LET names == Names(Records(app)) \cup Names(app.enums)
        Known(t) == RefersTo(t, names)
    IN  Doubt(/\ Distinct(Records(app) \o app.enums)
              /\ \A d \in ToSet(Records(app)) : Distinct(d.parts) /\ RefsExist(d.parts, names)
              /\ \A d \in ToSet(app.enums) :
                    Distinct(d.parts) /\ RefsExist(d.parts, names)
                    /\ \A v \in ToSet(d.parts) : v.ty = NoTy \/ Comparable(v.ty)
              /\ Distinct(app.msgs)
              /\ \A m \in ToSet(app.msgs) : \A i \in DOMAIN m.parts : Known(m.parts[i]))

EmitInit(app) ==
    EmitFields(app.init, app.model, Scope(app, NoVars)).bad \cup Doubt(Names(app.init) = Names(app.model))

(* An arm of the match on the message: a pattern with a variable for each   *)
(* payload, the new fields in lets of their own, then the commands.         *)
EmitArm(app, u) ==
    LET tys == PayloadsOf(app, u.x)
        n   == IF Len(u.vars) < Len(tys) THEN Len(u.vars) ELSE Len(tys)
        env == FoldLeft(LAMBDA acc, i : Bind(u.vars[i].x, tys[i], tys[i], acc),
                        ModelScope(app), [i \in 1 .. n |-> i])
        lets == UNION {IF u.sets[i].x \notin Names(app.model) THEN {"panic"}
                       ELSE WrongFor(u.sets[i].e, Named(app.model, u.sets[i].x).ty, env) : i \in DOMAIN u.sets}
    IN  lets \cup EmitTasks(u.cmds, env)
        \cup Doubt(u.x \in Names(app.msgs) /\ Len(u.vars) = Len(tys) /\ Distinct(u.vars))

EmitMatch(app) == Doubt(Names(app.msgs) = Names(app.updates))

Outcome(bad) == IF "panic" \in bad THEN "panics" ELSE IF bad # {} THEN "refused by rustc" ELSE "compiles"

(* generate, and then rustc.                                                *)
Generated(app) ==
    Outcome(EmitTypes(app) \cup EmitInit(app)
            \cup UNION {EmitArm(app, app.updates[i]) : i \in DOMAIN app.updates}
            \cup EmitMatch(app)
            \cup EmitSubs(app.subs, ModelScope(app))
            \cup EmitElement(app.view, ModelScope(app))
            \cup EmitTasks(app.initCmds, Scope(app, NoVars)))
=============================================================================
