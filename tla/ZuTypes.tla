------------------------------ MODULE ZuTypes -------------------------------
(***************************************************************************)
(* What the types of .zu say, as rules and not as a procedure: the set of   *)
(* all the types an expression can have.  The checker infers one, from the  *)
(* expression and from what its place expects; it is compared with this.    *)
(*                                                                         *)
(* `none', `[]' and some record literals have many types, of which their    *)
(* place must choose.  An operand has no such place: it has to have just    *)
(* one type by itself.                                                      *)
(***************************************************************************)
EXTENDS ZuCheck

(* All types that two constructors can make of the named ones.              *)
Simple(app) ==
    {TInt, TStr, TBool} \cup {RecordT(n) : n \in Names(Records(app))}
    \cup {EnumT(n) : n \in Names(app.enums)}
Larger(ts) == ts \cup {ListT(t) : t \in ts} \cup {MaybeT(t) : t \in ts}
TypesOf(app) == Larger(Larger(Simple(app)))

(* The one type of an operand.                                              *)
Only(ts) == IF Cardinality(ts) = 1 THEN ts ELSE {}

(* What the functions of one argument take and return.                      *)
Signature(fn, ts) ==
    CASE fn = "show" -> {<<TInt, TStr>>}
      [] fn = "toInt" -> {<<TStr, TInt>>}
      [] fn = "not" -> {<<TBool, TBool>>}
      [] fn = "sum" -> {<<ListT(TInt), TInt>>}
      [] fn = "length" -> {<<ListT(t), TInt>> : t \in ts}
      [] fn = "head" -> {<<ListT(t), MaybeT(t)>> : t \in ts}
      [] fn = "reverse" -> {<<ListT(t), ListT(t)>> : t \in ts}
      [] fn = "some" -> {<<t, MaybeT(t)>> : t \in ts}

TypedByPlace == {"show", "toInt", "not", "some"}

(* ... and the binary operators, both sides having one type.                *)
BinTypes(op, t, app) ==
    CASE op \in {"+", "-", "*", "/", "%"} -> IF t = TInt THEN {TInt} ELSE {}
      [] op = "++" -> IF t = TStr \/ t.k = "List" THEN {t} ELSE {}
      [] op \in {"<", ">"} -> IF t = TInt THEN {TBool} ELSE {}
      [] op \in {"==", "!="} ->
            IF t \in {TInt, TStr, TBool} \/ (t.k = "Enum" /\ EnumIsPlain(app, t.n)) THEN {TBool} ELSE {}

RECURSIVE Types(_, _)
TypesPart(e, env) == Types(e, env)

(* A constructor for each arm, an arm for each constructor.                 *)
ArmTypes(arms, t, env) ==
    LET cs == Constructors(env.app, t)
    IN  IF /\ Len(arms) = Len(cs) /\ {arms[i].c : i \in DOMAIN arms} = Names(cs)
           /\ \A i \in DOMAIN arms : (arms[i].x = NoBinder) = (Named(cs, arms[i].c).ty = NoTy)
        THEN {ty \in TypesOf(env.app) : \A i \in DOMAIN arms :
                ty \in TypesPart(arms[i].body, ArmScope(arms[i], cs, env))}
        ELSE {}

SetsFields(fs, rec, env) ==
    \A i \in DOMAIN fs : \E f \in ToSet(FieldsOf(env.app, rec)) :
        f.x = fs[i].x /\ f.ty \in TypesPart(fs[i].e, env)

ForTypes(e, t, env) ==
    LET inside == With(e.x, t, env)
    IN  IF e.where = Always \/ TBool \in TypesPart(e.where, inside)
        THEN {ListT(ty) : ty \in TypesPart(e.body, inside)} ELSE {}

ElemTypes(e, env) == {l.t : l \in {ty \in Only(TypesPart(e, env)) : ty.k = "List"}}

Types(e, env) ==
    CASE e.of = "lit" -> {e.t}
      [] e.of = "var" -> {InferVar(e.x, env)} \ {Error}
      [] e.of = "ctor" ->
            {EnumT(n) : n \in {m \in Names(env.app.enums) :
                \E v \in ToSet(Named(env.app.enums, m).parts) : v.x = e.c /\ v.ty \in TypesPart(e.e, env)}}
      [] e.of = "field" -> {FieldTy(env.app, t, e.f) : t \in Only(TypesPart(e.e, env))} \ {Error}
      [] e.of = "call" ->
            LET args == TypesPart(e.e, env)
            IN  {s[2] : s \in {sig \in Signature(e.fn, TypesOf(env.app)) :
                    sig[1] \in IF e.fn \in TypedByPlace THEN args ELSE Only(args)}}
      [] e.of = "nth" ->
            {t \in ElemTypes(e.l, env) : TInt \in TypesPart(e.i, env) /\ t \in TypesPart(e.d, env)}
      [] e.of = "none" -> {MaybeT(t) : t \in TypesOf(env.app)}
      [] e.of = "case" -> UNION {ArmTypes(e.arms, t, env) : t \in Only(TypesPart(e.e, env))}
      [] e.of = "bin" ->
            UNION {BinTypes(e.op, t, env.app) : t \in Only(TypesPart(e.l, env)) \cap Only(TypesPart(e.r, env))}
      [] e.of = "if" ->
            IF TBool \in TypesPart(e.c, env) THEN TypesPart(e.t, env) \cap TypesPart(e.e, env) ELSE {}
      [] e.of = "list" ->
            {ListT(t) : t \in {ty \in TypesOf(env.app) : \A i \in DOMAIN e.es : ty \in TypesPart(e.es[i], env)}}
      [] e.of = "record" ->
            {RecordT(r.x) : r \in {d \in ToSet(env.app.records) :
                /\ Len(e.fs) = Len(d.parts) /\ Names(e.fs) = Names(d.parts)
                /\ SetsFields(e.fs, d.x, env)}}
      [] e.of = "update" -> {t \in TypesPart(e.b, env) : t.k = "Record" /\ SetsFields(e.fs, t.n, env)}
      [] e.of = "fold" ->
            {t \in TypesPart(e.init, env) : \E ty \in ElemTypes(e.l, env) :
                t \in TypesPart(e.body, With(e.x, ty, With(e.acc, t, env)))}
      [] e.of = "for" -> UNION {ForTypes(e, t, env) : t \in ElemTypes(e.l, env)}
=============================================================================
