------------------------------ MODULE ZuPrint -------------------------------
(***************************************************************************)
(* How the tree of a .zu program is written: the grammar at the head of    *)
(* crates/zumar-lang/src/parse.rs, read from left to right.  Parentheses    *)
(* stand only where the grammar needs them.  This is what the parser is    *)
(* compared with; nothing in the repository prints a program.              *)
(*                                                                         *)
(* Around every expr and element of the grammar there are two marks, which *)
(* are no tokens: their nesting is what the parser's depth has to be.      *)
(***************************************************************************)
EXTENDS ZuParse, Integers

Open == [t |-> "open", v |-> ""]
Close == [t |-> "close", v |-> ""]

Words(xs) == [i \in DOMAIN xs |-> Id(xs[i])]
Marked(s) == <<Open>> \o s \o <<Close>>
Paren(s) == <<Sym("(")>> \o s \o <<Sym(")")>>
Bracket(s) == <<Sym("[")>> \o s \o <<Sym("]")>>
Brace(s) == <<Sym("{")>> \o s \o <<Sym("}")>>

Separated(ss, sep) ==
    FoldLeft(LAMBDA acc, s : IF acc = <<>> THEN s ELSE acc \o <<Sym(sep)>> \o s, <<>>, ss)

-----------------------------------------------------------------------------
(* The level of the grammar an expression belongs to: 0 expr, 1 cmp, 2 add, *)
(* 3 mul, 4 unary, 5 postfix, 6 atom.  What is subtracted from the literal  *)
(* 0 may be written with a leading minus.                                   *)
OpLevel(op) == IF op \in CmpOps THEN 1 ELSE IF op \in AddOps THEN 2 ELSE 3

RECURSIVE Level(_)
IsMinus(e) == e.of = "bin" /\ e.op = "-" /\ e.l = Zero /\ Level(e.r) = 6

Level(e) ==
    CASE e.of \in {"if", "for", "case"} -> 0
      [] e.of = "bin" -> IF IsMinus(e) THEN 6 ELSE OpLevel(e.op)
      [] e.of = "call" /\ e.fn = "not" -> 4
      [] e.of = "field" -> 5
      [] OTHER -> 6

RECURSIVE Written(_)
Part(e) == Written(e)

(* Inside a tighter level of the grammar, and where the grammar has expr.   *)
AtLevel(e, n) == IF Level(e) < n THEN Paren(Marked(Part(e))) ELSE Part(e)
AsExpr(e) == Marked(AtLevel(e, 0))

(* Where a `|' follows, which an open case would take for its own.          *)
BeforeBar(e) == Marked(AtLevel(e, 1))

Settings(fs) ==
    Separated([i \in DOMAIN fs |-> <<Id(fs[i].x), Sym("=")>> \o AsExpr(fs[i].e)], ",")

Exprs(es) == Separated([i \in DOMAIN es |-> AsExpr(es[i])], ",")

WrittenArm(arms, i) ==
    LET arm == arms[i]
    IN  <<Id(arm.c)>> \o (IF arm.x = NoBinder THEN <<>> ELSE <<Id(arm.x)>>) \o <<Sym("->")>>
        \o (IF i = Len(arms) THEN AsExpr(arm.body) ELSE BeforeBar(arm.body))

WrittenLit(e) ==
    <<IF e.t = TInt THEN [t |-> "int", v |-> e.s]
      ELSE IF e.t = TStr THEN [t |-> "str", v |-> e.s] ELSE Id(e.s)>>

(* Chains of one level are read from the left, comparisons do not chain.    *)
WrittenBin(e) ==
    IF IsMinus(e) THEN <<Sym("-")>> \o AtLevel(e.r, 6)
    ELSE AtLevel(e.l, OpLevel(e.op) + (IF e.op \in CmpOps THEN 1 ELSE 0)) \o <<Sym(e.op)>>
         \o AtLevel(e.r, OpLevel(e.op) + 1)

WrittenCall(e) ==
    IF e.fn = "not" THEN <<Id("not")>> \o AtLevel(e.e, 4) ELSE <<Id(e.fn)>> \o Paren(AsExpr(e.e))

Written(e) ==
    CASE e.of = "lit" -> WrittenLit(e)
      [] e.of = "var" -> <<Id(e.x)>>
      [] e.of = "field" -> AtLevel(e.e, 5) \o <<Sym("."), Id(e.f)>>
      [] e.of = "call" -> WrittenCall(e)
      [] e.of = "nth" -> <<Id("nth")>> \o Paren(Exprs(<<e.l, e.i, e.d>>))
      [] e.of = "none" -> <<Id("none")>>
      [] e.of = "ctor" -> <<Id(e.c)>> \o Paren(AsExpr(e.e))
      [] e.of = "case" ->
            <<Id("case")>> \o AsExpr(e.e) \o <<Id("of")>>
            \o Separated([i \in DOMAIN e.arms |-> WrittenArm(e.arms, i)], "|")
      [] e.of = "bin" -> WrittenBin(e)
      [] e.of = "if" ->
            <<Id("if")>> \o AsExpr(e.c) \o <<Id("then")>> \o AsExpr(e.t)
            \o <<Id("else")>> \o AsExpr(e.e)
      [] e.of = "list" -> Bracket(Exprs(e.es))
      [] e.of = "record" -> Brace(Settings(e.fs))
      [] e.of = "update" -> Brace(BeforeBar(e.b) \o <<Sym("|")>> \o Settings(e.fs))
      [] e.of = "fold" ->
            <<Id("fold")>> \o Paren(Exprs(<<e.l, e.init>>) \o <<Sym(","), Id(e.acc), Id(e.x), Sym("->")>>
                                    \o AsExpr(e.body))
      [] e.of = "for" ->
            Words(<<"for", e.x, "in">>) \o AsExpr(e.l)
            \o (IF e.where = Always THEN <<>> ELSE <<Id("where")>> \o AsExpr(e.where))
            \o <<Id("yield")>> \o AsExpr(e.body)

-----------------------------------------------------------------------------
RECURSIVE WrittenTy(_)
WrittenTy(t) == IF t.k \in {"List", "Maybe"} THEN <<Id(t.k)>> \o WrittenTy(t.t)
                ELSE IF t.k \in {"Record", "Enum"} THEN <<Id(t.n)>> ELSE <<Id(t.k)>>

WrittenTypes(ts) == FlattenSeq([i \in DOMAIN ts |-> WrittenTy(ts[i])])

FieldTypes(fs) ==
    Brace(Separated([i \in DOMAIN fs |-> <<Id(fs[i].x), Sym(":")>> \o WrittenTy(fs[i].ty)], ","))

WrittenRecords(ds) == FlattenSeq([i \in DOMAIN ds |-> Words(<<"record", ds[i].x>>) \o FieldTypes(ds[i].parts)])

WrittenVariant(v) == <<Id(v.x)>> \o (IF v.ty = NoTy THEN <<>> ELSE WrittenTy(v.ty))

WrittenEnums(ds) ==
    FlattenSeq([i \in DOMAIN ds |->
        Words(<<"enum", ds[i].x>>) \o <<Sym("=")>>
        \o Separated([j \in DOMAIN ds[i].parts |-> WrittenVariant(ds[i].parts[j])], "|")])

(* Milliseconds: any.                                                       *)
WrittenTask(c) ==
    <<Id(c.kind)>>
    \o Paren(Separated((IF c.args = <<>> THEN <<<<[t |-> "int", v |-> "100"]>>>>
                        ELSE [i \in DOMAIN c.args |-> AsExpr(c.args[i])])
                       \o (IF c.msg = NoMsg THEN <<>> ELSE <<<<Id(c.msg)>>>>), ","))

WrittenTasks(cs) == Separated([i \in DOMAIN cs |-> WrittenTask(cs[i])], ",")

WrittenCmds(cs) == IF cs = <<>> THEN <<>> ELSE <<Id("then")>> \o WrittenTasks(cs)

RECURSIVE WrittenSubs(_)
WrittenSubs(s) ==
    IF s.of = "subs" THEN Bracket(WrittenTasks(s.calls))
    ELSE <<Id("if")>> \o AsExpr(s.c) \o <<Id("then")>> \o WrittenSubs(s.t) \o <<Id("else")>> \o WrittenSubs(s.e)

AttrName(a) == CHOOSE n \in DOMAIN Events : Events[n] = a.event

WrittenAttr(a) ==
    CASE a.of = "str" -> <<Id(a.name)>> \o AsExpr(a.e)
      [] a.of = "on" ->
            <<Id(AttrName(a)), Id(a.call.msg)>>
            \o (IF a.call.args = <<>> THEN <<>> ELSE Paren(Exprs(a.call.args)))
      [] a.of = "onValue" -> Words(<<IF a.ty = TStr THEN "onInput" ELSE "onCheck", a.msg>>)

RECURSIVE WrittenElement(_)
WrittenChild(c) ==
    CASE c.of = "text" -> <<Id("text")>> \o AsExpr(c.e)
      [] c.of = "each" -> Words(<<"for", c.x, "in">>) \o AsExpr(c.l) \o Brace(WrittenElement(c.el))
      [] c.of = "elem" -> WrittenElement(c.el)

WrittenElement(el) ==
    Marked(<<Id(el.tag)>> \o Bracket(Separated([i \in DOMAIN el.attrs |-> WrittenAttr(el.attrs[i])], ","))
           \o Bracket(Separated([i \in DOMAIN el.kids |-> WrittenChild(el.kids[i])], ",")))

WrittenUpdates(us) ==
    FlattenSeq([i \in DOMAIN us |->
        Words(<<"update", us[i].x>>) \o [j \in DOMAIN us[i].vars |-> Id(us[i].vars[j].x)]
        \o <<Sym("=")>> \o Brace(Settings(us[i].sets)) \o WrittenCmds(us[i].cmds)])

WrittenMsgs(ms) ==
    Separated([i \in DOMAIN ms |-> <<Id(ms[i].x)>> \o WrittenTypes(ms[i].parts)], "|")

WrittenDecls(app) == WrittenRecords(app.records) \o WrittenEnums(app.enums)

(* A program without the record and enum declarations.                      *)
WrittenRest(app) ==
    <<Id("model")>> \o FieldTypes(app.model)
    \o <<Id("init"), Sym("=")>> \o Brace(Settings(app.init)) \o WrittenCmds(app.initCmds)
    \o <<Id("msg")>> \o WrittenMsgs(app.msgs) \o WrittenUpdates(app.updates)
    \o (IF app.subs = NoSubs THEN <<>> ELSE <<Id("sub"), Sym("=")>> \o WrittenSubs(app.subs))
    \o <<Id("view"), Sym("=")>> \o WrittenElement(app.view)

-----------------------------------------------------------------------------
IsMark(token) == token.t \in {"open", "close"}

Tokens(marked) == SelectSeq(marked, LAMBDA token : ~ IsMark(token))

(* How deep the marks nest.                                                 *)
Nesting(marked) ==
    FoldLeft(LAMBDA acc, token :
                IF token = Open THEN [now |-> acc.now + 1, most |-> Max({acc.most, acc.now + 1})]
                ELSE [acc EXCEPT !.now = @ - 1],
             [now |-> 0, most |-> 0], SelectSeq(marked, IsMark)).most
=============================================================================
