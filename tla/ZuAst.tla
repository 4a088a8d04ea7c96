------------------------------- MODULE ZuAst --------------------------------
(***************************************************************************)
(* The tree of a .zu program as crates/zumar-lang/src/ast.rs declares it:  *)
(* what parse.rs builds, check.rs accepts and gen.rs takes apart.          *)
(* Positions are left out.  A name, an operator, a literal is a string.    *)
(***************************************************************************)
EXTENDS Naturals, SequencesExt

MODEL == "Model"

(* Ty.  Before the names are resolved an enum is a Record too.             *)
TInt == [k |-> "Int"]
TStr == [k |-> "String"]
TBool == [k |-> "Bool"]
ListT(t) == [k |-> "List", t |-> t]
MaybeT(t) == [k |-> "Maybe", t |-> t]
EnumT(n) == [k |-> "Enum", n |-> n]
RecordT(n) == [k |-> "Record", n |-> n]

(* Option::None where a type or a binder may be missing.                    *)
NoTy == [k |-> "none"]
NoBinder == ""

(* What a List or a Maybe type t is of, if it is one.                       *)
Inside(k, t) == IF t.k = k THEN t.t ELSE NoTy

-----------------------------------------------------------------------------
(* Expr.  `not' and the built-in functions of one argument are calls.       *)
Literal(t, s) == [of |-> "lit", t |-> t, s |-> s]
Zero == Literal(TInt, "0")
Var(x) == [of |-> "var", x |-> x]
Field(e, f) == [of |-> "field", e |-> e, f |-> f]
Call(fn, e) == [of |-> "call", fn |-> fn, e |-> e]
Nth(l, i, d) == [of |-> "nth", l |-> l, i |-> i, d |-> d]
None == [of |-> "none"]
Ctor(c, e) == [of |-> "ctor", c |-> c, e |-> e]
Arm(c, x, body) == [c |-> c, x |-> x, body |-> body]
Case(e, arms) == [of |-> "case", e |-> e, arms |-> arms]
Bin(op, l, r) == [of |-> "bin", op |-> op, l |-> l, r |-> r]
If(c, t, e) == [of |-> "if", c |-> c, t |-> t, e |-> e]
ListLit(es) == [of |-> "list", es |-> es]
Setting(f, e) == [x |-> f, e |-> e]
RecordLit(fs) == [of |-> "record", fs |-> fs]
RecordUpdate(b, fs) == [of |-> "update", b |-> b, fs |-> fs]
Fold(l, init, acc, x, body) ==
    [of |-> "fold", l |-> l, init |-> init, acc |-> acc, x |-> x, body |-> body]

(* A comprehension; where there is no `where', nothing is asked for.        *)
Always == [of |-> "always"]
For(x, l, where, body) == [of |-> "for", x |-> x, l |-> l, where |-> where, body |-> body]

(* Op, by the level of the grammar it belongs to.                           *)
CmpOps == {"==", "!=", "<", ">"}
AddOps == {"+", "-", "++"}
MulOps == {"*", "/", "%"}

-----------------------------------------------------------------------------
(* CmdCall and SubCall: expressions, then the message that answers.  delay  *)
(* and every have a number of milliseconds, which is left out; publish has  *)
(* no answer.                                                               *)
CmdCall(kind, args, msg) == [kind |-> kind, args |-> args, msg |-> msg]
NoMsg == ""
SubList(calls) == [of |-> "subs", calls |-> calls]
SubIf(c, t, e) == [of |-> "choice", c |-> c, t |-> t, e |-> e]
NoSubs == SubList(<<>>)

MsgCall(msg, args) == [msg |-> msg, args |-> args]
StrAttr(name, e) == [of |-> "str", name |-> name, e |-> e]
On(event, call, prevent) == [of |-> "on", event |-> event, call |-> call, prevent |-> prevent]
OnValue(event, msg, ty) == [of |-> "onValue", event |-> event, msg |-> msg, ty |-> ty]

Elem(el) == [of |-> "elem", el |-> el]
TextOf(e) == [of |-> "text", e |-> e]
ForEach(x, l, el) == [of |-> "each", x |-> x, l |-> l, el |-> el]
Element(tag, attrs, kids) == [tag |-> tag, attrs |-> attrs, kids |-> kids]

(* The declarations of an App.                                              *)
Typed(x, ty) == [x |-> x, ty |-> ty]
Def(x, parts) == [x |-> x, parts |-> parts]      \* of a record, an enum, a message
UpdateDef(msg, vars, sets, cmds) == [x |-> msg, vars |-> vars, sets |-> sets, cmds |-> cmds]

-----------------------------------------------------------------------------
(* Sequences of what has a name x.                                          *)
Names(s) == {s[i].x : i \in DOMAIN s}
Distinct(s) == \A i, j \in DOMAIN s : s[i].x = s[j].x => i = j
Named(s, x) == s[CHOOSE i \in DOMAIN s : s[i].x = x]
=============================================================================
