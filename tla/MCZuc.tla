------------------------------- MODULE MCZuc --------------------------------
(***************************************************************************)
(* Programs for the runs zuc and zuc_hint: one application with an          *)
(* expression, the probe, put in some place of it; and that application     *)
(* with declarations that are missing, double or do not fit.                *)
(***************************************************************************)
EXTENDS Zuc

M(f) == Field(Var("model"), f)
I(s) == Literal(TInt, s)
T(s) == Literal(TStr, s)
True == Literal(TBool, "true")
Empty == ListLit(<<>>)
Show(e) == Call("show", e)
Some(e) == Call("some", e)

RowDef == Def("Row", <<Typed("n", TInt), Typed("s", TStr)>>)
KindDef == Def("Kind", <<Typed("Off", NoTy), Typed("At", NoTy)>>)
TagDef == Def("Tag", <<Typed("Bare", NoTy), Typed("Of", TStr)>>)
Row(n, s) == RecordLit(<<Setting("n", n), Setting("s", s)>>)

Base ==
    [name |-> "Probe", records |-> <<RowDef>>, enums |-> <<KindDef, TagDef>>,
     model |-> <<Typed("i", TInt), Typed("s", TStr), Typed("b", TBool), Typed("rows", ListT(RecordT("Row"))),
                 Typed("kind", RecordT("Kind")), Typed("tag", RecordT("Tag")), Typed("m", MaybeT(TInt)),
                 Typed("ns", ListT(TInt)), Typed("ms", ListT(MaybeT(TInt)))>>,
     init |-> <<Setting("i", Zero), Setting("s", T("")), Setting("b", True), Setting("rows", Empty),
                Setting("kind", Var("Off")), Setting("tag", Ctor("Of", T("x"))), Setting("m", None),
                Setting("ns", Empty), Setting("ms", ListLit(<<None, Some(I("1"))>>))>>,
     initCmds |-> <<>>,
     msgs |-> <<Def("Go", <<>>), Def("Got", <<TStr>>)>>,
     updates |-> <<UpdateDef("Go", <<>>, <<>>, <<>>), UpdateDef("Got", <<[x |-> "v"]>>, <<>>, <<>>)>>,
     subs |-> NoSubs,
     view |-> Element("div", <<>>, <<>>)]

-----------------------------------------------------------------------------
(* Places for an expression: a field in an update, a text and a key in a    *)
(* loop of the view, an argument of a message, the condition of the         *)
(* subscriptions and a topic, the texts of commands, the list of a loop.    *)
OnlyModel == [model |-> RecordT(MODEL)]
InLoop == [model |-> RecordT(MODEL), r |-> RecordT("Row")]

Probing(app, e, vars, takes) ==
    [app |-> app, shared |-> FALSE, probe |-> [e |-> e, vars |-> vars, takes |-> takes]]

Viewing(kids) == [Base EXCEPT !.view = Element("div", <<>>, kids)]
Rows(el) == Viewing(<<ForEach("r", M("rows"), el)>>)
Subscribing(subs) == [Base EXCEPT !.subs = subs]
Running(cmd) == [Base EXCEPT !.updates[1].cmds = <<CmdCall("delay", <<>>, "Go"), cmd>>]

InUpdate(f, e) == <<"update", f, e>>
InPlace(place, e) == <<place, "", e>>

Placed(place, f, e) ==
    CASE place = "update" ->
            Probing([Base EXCEPT !.updates[2].sets = <<Setting(f, e)>>], e,
                    [model |-> RecordT(MODEL), v |-> TStr], {Named(Resolved(Base).model, f).ty})
      [] place = "text" -> Probing(Rows(Element("p", <<>>, <<TextOf(e)>>)), e, InLoop, {TStr})
      [] place = "key" -> Probing(Rows(Element("p", <<StrAttr("key", e)>>, <<>>)), e, InLoop, {TStr})
      [] place = "arg" ->
            Probing(Viewing(<<Elem(Element("p", <<On("click", MsgCall("Got", <<e>>), FALSE)>>, <<>>))>>),
                    e, OnlyModel, {TStr})
      [] place = "over" ->
            Probing(Viewing(<<ForEach("x", e, Element("p", <<>>, <<>>))>>), Call("length", e), OnlyModel, {TInt})
      [] place = "condition" ->
            Probing(Subscribing(SubIf(e, SubList(<<CmdCall("every", <<>>, "Go")>>), NoSubs)),
                    e, OnlyModel, {TBool})
      [] place = "topic" ->
            Probing(Subscribing(SubList(<<CmdCall("topic", <<e>>, "Got")>>)), e, OnlyModel, {TStr})
      [] place = "url" -> Probing(Running(CmdCall("httpGet", <<e>>, "Got")), e, OnlyModel, {TStr})
      [] place = "body" -> Probing(Running(CmdCall("httpPost", <<T("/"), e>>, "Got")), e, OnlyModel, {TStr})
      [] place = "payload" -> Probing(Running(CmdCall("publish", <<M("s"), e>>, NoMsg)), e, OnlyModel, {TStr})
      [] place = "init" ->
            Probing([Base EXCEPT !.initCmds = <<CmdCall("httpGet", <<e>>, "Got")>>], e, NoVars, {TStr})

-----------------------------------------------------------------------------
Leaves ==
    {I("1"), T("x"), True, M("i"), M("s"), M("b"), M("rows"), M("kind"), M("tag"), M("m"), M("z"),
     Var("v"), Var("At"), Var("Of"), None, Empty, Ctor("Of", T("x")), Ctor("Of", I("1")), Ctor("At", I("1")),
     Row(I("1"), T("x"))}

LeafPrograms == {InUpdate(f, e) : f \in {"i", "s", "b", "rows", "kind", "tag", "m"}, e \in Leaves}

CallPrograms ==
    UNION {{InUpdate(fn[2], Call(fn[1], e)) : e \in Leaves} :
        fn \in {<<"show", "s">>, <<"toInt", "i">>, <<"not", "b">>, <<"sum", "i">>, <<"length", "i">>,
                <<"head", "m">>, <<"reverse", "rows">>, <<"some", "m">>}}
    \cup {InUpdate("i", Call("sum", M("ns"))), InUpdate("m", Call("head", M("ns"))),
          InUpdate("i", Call("length", M("ns"))), InUpdate("ns", Call("reverse", M("ns")))}

Operands == {I("1"), M("i"), M("s"), M("b"), M("rows"), M("kind"), M("tag"), M("m"), None}

BinPrograms ==
    UNION {{InUpdate(op[2], Bin(op[1], l, r)) : l \in Operands, r \in Operands} :
        op \in {<<"+", "i">>, <<"/", "i">>, <<"++", "s">>, <<"++", "rows">>, <<"==", "b">>, <<"<", "b">>}}

Optional == {I("1"), None, Some(I("1")), Some(None), M("m"), M("s")}

IfPrograms ==
    {InUpdate(f, If(c, t, e)) : f \in {"m", "i"}, c \in {M("b"), M("i")}, t \in Optional, e \in Optional}

(* Arms for a Maybe, for two enums, and none of them quite.                 *)
ArmLists ==
    {<<Arm("none", "", I("0")), Arm("some", "x", Var("x"))>>,
     <<Arm("some", "x", Bin("+", Var("x"), I("1"))), Arm("none", "", M("i"))>>,
     <<Arm("some", "x", Var("x")), Arm("none", "", T("x"))>>,
     <<Arm("some", "x", Var("x"))>>, <<Arm("none", "", I("0"))>>,
     <<Arm("none", "y", I("0")), Arm("some", "x", I("1"))>>,
     <<Arm("none", "", I("0")), Arm("some", "", I("1"))>>,
     <<Arm("none", "", I("0")), Arm("some", "x", I("1")), Arm("some", "x", I("2"))>>,
     <<Arm("Off", "", I("0")), Arm("At", "", I("1"))>>,
     <<Arm("At", "", I("0")), Arm("At", "", I("1"))>>,
     <<Arm("Off", "", I("0")), Arm("At", "x", I("1"))>>,
     <<Arm("Off", "", I("0")), Arm("At", "", I("1")), Arm("Off", "", I("2"))>>,
     <<Arm("Off", "", I("0")), Arm("At", "", I("1")), Arm("Bare", "", I("2"))>>,
     <<Arm("Of", "x", Call("length", M("rows"))), Arm("Bare", "", I("1"))>>,
     <<Arm("Bare", "", I("0")), Arm("Of", "x", Call("toInt", Var("x")))>>,
     <<Arm("Bare", "", I("0")), Arm("Of", "x", Var("x"))>>,
     <<Arm("Bare", "", I("0")), Arm("Of", "", I("1"))>>}

CasePrograms == {InUpdate("i", Case(e, arms)) : e \in {M("m"), M("kind"), M("tag"), M("i"), None}, arms \in ArmLists}

ListPrograms ==
    {InUpdate(f, ListLit(<<a, b>>)) : f \in {"ns", "ms"}, a \in Optional, b \in Optional}
    \cup {InUpdate("i", Nth(l, i, d)) : l \in {M("ns"), M("rows"), M("s"), ListLit(<<I("1")>>)},
                                        i \in {I("0"), M("s")}, d \in {I("9"), M("s"), Row(I("1"), T("x"))}}

(* A field is missing, twice there, unknown, of another type.               *)
Rowlike ==
    {Row(M("i"), Var("v")), Row(T("x"), I("1")), RecordLit(<<Setting("n", I("1"))>>),
     RecordLit(<<Setting("n", I("1")), Setting("s", T("x")), Setting("n", I("2"))>>),
     RecordLit(<<Setting("s", T("x")), Setting("n", I("2"))>>),
     RecordLit(<<Setting("n", I("1")), Setting("z", T("x"))>>), RecordLit(<<>>)}

FirstRow == Nth(M("rows"), I("0"), Row(I("0"), T("")))
Changes == {<<Setting("n", I("1"))>>, <<Setting("s", I("1"))>>, <<Setting("z", I("1"))>>,
            <<Setting("n", Field(FirstRow, "n")), Setting("s", Var("v"))>>}

RecordPrograms ==
    {InUpdate("rows", ListLit(<<e>>)) : e \in Rowlike}
    \cup {InUpdate("i", Field(e, "n")) : e \in Rowlike \cup {FirstRow}}
    \cup {InUpdate("rows", ListLit(<<RecordUpdate(b, fs)>>)) : b \in {FirstRow, M("i")}, fs \in Changes}

Bodies ==
    {Bin("+", Var("acc"), Var("x")), Bin("++", Var("acc"), Show(Var("x"))),
     Bin("+", Var("acc"), Field(Var("x"), "n")), Var("acc"), Some(Var("acc")),
     Bin("++", Var("acc"), ListLit(<<Var("x")>>))}

FoldPrograms ==
    {InUpdate(f, Fold(l, init, "acc", "x", body)) :
        f \in {"i", "s"}, l \in {M("ns"), M("rows"), M("s")}, init \in {I("0"), T(""), M("s")}, body \in Bodies}
    \cup {InUpdate("rows", Fold(M("rows"), init, "acc", "x", body)) : init \in {Empty, M("rows")}, body \in Bodies}

ForPrograms ==
    {InUpdate("ns", For("x", l, where, body)) :
        l \in {M("ns"), M("rows"), M("s"), ListLit(<<I("1"), I("2")>>)},
        where \in {Always, Bin("<", Bin("*", Var("x"), I("1")), I("3")), Field(Var("x"), "n"),
                   Bin("<", Field(Var("x"), "n"), I("3"))},
        body \in {Bin("+", Var("x"), I("1")), Field(Var("x"), "n"), Show(Var("x"))}}
    \cup {InUpdate("rows", For("x", M("rows"), where, body)) :
        where \in {Always, Bin("==", Field(Var("x"), "s"), Var("v"))},
        body \in {Var("x"), RecordUpdate(Var("x"), <<Setting("n", I("1"))>>), Row(M("i"), Field(Var("x"), "s")),
                  M("i")}}

PlacePrograms ==
    {InPlace(place, e) :
        place \in {"text", "key", "url", "body", "payload", "init", "topic", "condition"},
        e \in {T("x"), M("s"), M("b"), M("i"), Field(Var("r"), "s"), Field(Var("r"), "n"), Show(Field(Var("r"), "n"))}}
    \cup {InPlace("arg", e) : e \in Leaves \ {None, Empty}}
    \cup {InPlace("over", l) : l \in {M("rows"), M("ns"), M("s"), ListLit(<<I("1")>>), Call("reverse", M("rows")),
                                       For("x", M("rows"), Always, Field(Var("x"), "n"))}}

-----------------------------------------------------------------------------
(* What binds tighter, and what ends where.                                 *)
Ops == {"==", "<", "+", "-", "++", "*", "/"}
i == M("i")

Nested ==
    {Bin(o, Bin(p, i, I("2")), I("3")) : o \in Ops, p \in Ops}
    \cup {Bin(o, i, Bin(p, I("2"), I("3"))) : o \in Ops, p \in Ops}

Minus(e) == Bin("-", Zero, e)
Not(e) == Call("not", e)
OfKind(a, b) == Case(M("kind"), <<Arm("Off", "", a), Arm("At", "", b)>>)
Bound == Case(M("m"), <<Arm("none", "", I("0")), Arm("some", "x", Var("x"))>>)
InRow(b) == ListLit(<<RecordUpdate(b, <<Setting("n", I("1"))>>)>>)

Grouped ==
    {<<"i", e>> : e \in {Minus(i), Minus(Minus(i)), Minus(Bin("+", i, I("1"))), Bin("-", i, Minus(i)),
                         Bin("*", Minus(i), i), Minus(Bin("*", i, i)), Minus(If(M("b"), i, i)),
                         Bin("-", Zero, Bin("*", i, i)), Field(If(M("b"), FirstRow, FirstRow), "n"),
                         Field(OfKind(FirstRow, FirstRow), "n"), Bin("+", If(M("b"), i, i), i),
                         Bin("+", i, If(M("b"), i, i)), OfKind(OfKind(i, I("1")), Bound), OfKind(Bound, OfKind(i, i)),
                         OfKind(If(M("b"), i, OfKind(i, i)), I("1")), If(M("b"), OfKind(i, i), OfKind(i, i)),
                         Case(If(M("b"), M("kind"), Var("At")), <<Arm("At", "", i), Arm("Off", "", Bound)>>),
                         Case(Call("head", M("ns")), <<Arm("some", "x", Bin("/", Var("x"), i)), Arm("none", "", Bound)>>)}}
    \cup {<<"b", e>> : e \in {Not(Not(M("b"))), Not(Bin("==", i, I("1"))), Bin("==", Not(M("b")), M("b")),
                              Bin("==", M("b"), Not(M("b"))), Not(If(M("b"), M("b"), True)),
                              Bin("==", Bin("<", i, I("1")), M("b")), Bin("==", M("kind"), Var("At"))}}
    \cup {<<"rows", InRow(b)>> : b \in {If(M("b"), FirstRow, FirstRow), OfKind(FirstRow, FirstRow),
                                        RecordUpdate(FirstRow, <<Setting("s", OfKind(Var("v"), T("x")))>>)}}

(* Loops in loops, in cases, and what they take from outside.               *)
X == Var("x")
Xn == Field(X, "n")
Mixed ==
    {<<"rows", For("x", M("rows"), Not(Bin("==", Field(X, "s"), Var("v"))),
                   RecordUpdate(X, <<Setting("n", Bin("+", Xn, i))>>))>>,
     <<"rows", For("x", M("rows"), Always,
                   Case(M("m"), <<Arm("none", "", X), Arm("some", "y", RecordUpdate(X, <<Setting("n", Var("y"))>>))>>))>>,
     <<"rows", Call("reverse", Bin("++", M("rows"), ListLit(<<Row(i, Var("v"))>>)))>>,
     <<"rows", Fold(M("rows"), Empty, "acc", "x", If(Bin("<", Xn, i), Bin("++", Var("acc"), ListLit(<<X>>)), Var("acc")))>>,
     <<"ns", For("x", For("y", M("rows"), Always, Field(Var("y"), "n")), Always, Bin("-", X, I("1")))>>,
     <<"ns", For("x", M("rows"), Bin("==", Field(X, "s"), M("s")), Call("length", M("rows")))>>,
     <<"ms", For("x", M("rows"), Always, If(Bin("<", Xn, i), None, Some(Xn)))>>,
     <<"ms", For("x", M("ms"), Always, Case(X, <<Arm("some", "y", Some(Bin("%", Var("y"), i))), Arm("none", "", None)>>))>>,
     <<"ms", ListLit(<<If(M("b"), None, Some(I("1"))), M("m"), Call("head", M("ns"))>>)>>,
     <<"m", Fold(M("rows"), None, "acc", "x", If(Bin(">", Xn, I("3")), Some(Xn), Var("acc")))>>,
     <<"m", Case(Call("head", M("rows")), <<Arm("none", "", None), Arm("some", "r", Some(Field(Var("r"), "n")))>>)>>,
     <<"m", Nth(M("ms"), I("0"), None)>>, <<"m", Nth(M("ns"), I("0"), None)>>,
     <<"i", Fold(M("rows"), Zero, "acc", "x",
                 Bin("+", Var("acc"), Fold(M("ns"), Zero, "a", "y", Bin("+", Var("a"), Bin("*", Var("y"), Xn)))))>>,
     <<"i", Fold(M("ms"), Zero, "acc", "x",
                 Case(X, <<Arm("some", "y", Bin("+", Var("acc"), Var("y"))), Arm("none", "", Var("acc"))>>))>>,
     <<"i", Call("sum", For("x", M("rows"), Always, Xn))>>,
     <<"i", Nth(For("x", M("rows"), Always, Xn), Bin("-", Call("length", M("rows")), I("1")), Minus(i))>>,
     <<"s", Fold(M("rows"), T(""), "acc", "x", If(Bin("<", Xn, I("0")), Bin("++", Var("acc"), Field(X, "s")), Var("acc")))>>,
     <<"s", Show(Call("length", For("x", M("rows"), Bin("<", I("2"), Xn), X)))>>,
     <<"b", If(M("b"), Bin("==", M("s"), Var("v")), Bin("!=", M("kind"), Var("At")))>>,
     <<"b", Bin("==", Call("head", M("ns")), M("m"))>>, <<"b", Bin("==", M("ns"), M("ns"))>>,
     <<"tag", Case(M("tag"), <<Arm("Of", "x", Ctor("Of", Bin("++", X, Var("v")))), Arm("Bare", "", Var("Bare"))>>)>>,
     <<"kind", If(M("b"), Var("Off"), M("kind"))>>}

InText ==
    {If(Bin("<", Field(Var("r"), "n"), M("i")), Field(Var("r"), "s"), M("s")),
     Fold(M("rows"), T(""), "acc", "x", Bin("++", Var("acc"), Bin("++", Field(X, "s"), Field(Var("r"), "s")))),
     Case(M("tag"), <<Arm("Bare", "", T("")), Arm("Of", "x", X)>>), Case(M("tag"), <<Arm("Bare", "", M("s")), Arm("Of", "r", Var("r"))>>),
     Show(Bin("*", Field(Var("r"), "n"), M("i"))), Field(RecordUpdate(Var("r"), <<Setting("n", Zero)>>), "s")}

(* n levels of expressions, of elements.                                    *)
Levels(n, e, Step(_)) == FoldLeft(LAMBDA acc, k : Step(acc), e, [k \in 1 .. n |-> k])

Depths == MaxDepth - 3 .. MaxDepth

DeepPrograms ==
    UNION {{InUpdate("i", Levels(n, i, LAMBDA e : Bin("*", Bin("+", e, I("1")), i))),
            InUpdate("i", Levels(n, i, LAMBDA e : If(M("b"), I("0"), e))),
            InUpdate("b", Levels(n, M("b"), LAMBDA e : Not(e))),
            InUpdate("i", Levels(n, i, LAMBDA e : Minus(e))),
            InUpdate("i", Levels(n, i, LAMBDA e : OfKind(e, I("1")))),
            InUpdate("rows", Levels(n, M("rows"), LAMBDA e : Call("reverse", e)))} : n \in Depths}

DeepView(n) == Levels(n, Element("p", <<>>, <<>>), LAMBDA el : Element("div", <<>>, <<Elem(el)>>))

-----------------------------------------------------------------------------
(* Whole programs, good and faulty: the probe has a type if they are good.  *)
Whole(good, app) == Probing(app, True, NoVars, IF good THEN {TBool} ELSE {})

Sets(s) == [Base EXCEPT !.updates[2].sets = s]
Variant(x, ty) == [Base EXCEPT !.enums[1].parts = Append(@, Typed(x, ty))]
ModelField(x, ty) ==
    [Base EXCEPT !.model = Append(@, Typed(x, ty)), !.init = Append(@, Setting(x, Empty))]
Message(x, tys, vars) ==
    [Base EXCEPT !.msgs = Append(@, Def(x, tys)), !.updates = Append(@, UpdateDef(x, vars, <<>>, <<>>))]
Handler(name) == On("click", MsgCall(name, <<>>), FALSE)
Attr(a) == [Base EXCEPT !.view = Element("input", <<a>>, <<>>)]

GoodWholes ==
    {Base, Sets(<<Setting("i", Zero), Setting("b", True)>>), Variant("Late", NoTy), Variant("Late", TInt),
     ModelField("rest", ListT(ListT(TStr))), ModelField("kinds", ListT(RecordT("Kind"))),
     Message("Two", <<TInt, MaybeT(TStr)>>, <<[x |-> "p"], [x |-> "q"]>>),
     Message("Kinds", <<RecordT("Kind")>>, <<[x |-> "p"]>>),
     Attr(Handler("Go")), Attr(On("submit", MsgCall("Go", <<>>), TRUE)), Attr(OnValue("input", "Got", TStr)),
     [Message("Flip", <<TBool>>, <<[x |-> "p"]>>) EXCEPT !.view = Attr(OnValue("change", "Flip", TBool)).view],
     [Message("Tick", <<TInt>>, <<[x |-> "p"]>>) EXCEPT !.subs = SubList(<<CmdCall("every", <<>>, "Tick")>>)],
     [Base EXCEPT !.records = Append(@, Def("Table", <<Typed("rows", ListT(RecordT("Row")))>>))],
     [Base EXCEPT !.records = <<>>, !.model[4].ty = ListT(TInt)],
     [Base EXCEPT !.updates = Reverse(@)]}

FaultyWholes ==
    {Sets(<<Setting("i", Zero), Setting("i", Zero)>>), Sets(<<Setting("z", Zero)>>),
     Variant("Off", NoTy), Variant("Bare", NoTy), Variant("Go", NoTy),
     ModelField("rest", ListT(RecordT("Nowhere"))), ModelField("rows", ListT(TStr)),
     Message("Two", <<TInt, TStr>>, <<[x |-> "p"]>>), Message("Two", <<TInt>>, <<[x |-> "p"], [x |-> "q"]>>),
     Message("Go", <<>>, <<>>), Message("Lost", <<RecordT("Nowhere")>>, <<[x |-> "p"]>>),
     Attr(Handler("Nothing")), Attr(Handler("Got")), Attr(OnValue("input", "Go", TStr)),
     Attr(OnValue("change", "Got", TBool)), Attr(On("click", MsgCall("Go", <<I("1")>>), FALSE)),
     [Base EXCEPT !.init = Tail(@)], [Base EXCEPT !.init = <<Setting("i", Zero)>> \o @],
     [Base EXCEPT !.init[1].e = M("i")], [Base EXCEPT !.init[1].e = T("x")],
     [Base EXCEPT !.updates = Tail(@)], [Base EXCEPT !.updates = Append(@, UpdateDef("Nothing", <<>>, <<>>, <<>>))],
     [Base EXCEPT !.msgs = Tail(@)],
     [Base EXCEPT !.subs = SubList(<<CmdCall("every", <<>>, "Got")>>)],
     [Base EXCEPT !.subs = SubIf(True, NoSubs, SubList(<<CmdCall("topic", <<T("t")>>, "Go")>>))],
     [Base EXCEPT !.initCmds = <<CmdCall("delay", <<>>, "Got")>>],
     [Base EXCEPT !.initCmds = <<CmdCall("httpGet", <<T("/")>>, "Nothing")>>],
     [Base EXCEPT !.updates[2].cmds = <<CmdCall("httpGet", <<Var("v")>>, "Got")>>],
     [Base EXCEPT !.records = @ \o @], [Base EXCEPT !.enums = @ \o <<KindDef>>],
     [Base EXCEPT !.records[1].parts = Append(@, Typed("n", TInt))],
     [Base EXCEPT !.records[1].parts = Append(@, Typed("z", RecordT("Nowhere")))],
     [Base EXCEPT !.records = Append(@, Def("Kind", <<>>))], [Base EXCEPT !.records = Append(@, Def(MODEL, <<>>))],
     [Base EXCEPT !.enums = Tail(@)]}

WholePrograms ==
    {Whole(TRUE, app) : app \in GoodWholes \cup {[Base EXCEPT !.view = DeepView(n)] : n \in Depths}}
    \cup {Whole(FALSE, app) : app \in FaultyWholes}

(* Declarations that come from a fragment.                                  *)
InFragment(programs) == {[p EXCEPT !.shared = TRUE] : p \in programs}

Probes ==
    UNION {LeafPrograms, CallPrograms, BinPrograms, IfPrograms, CasePrograms, ListPrograms, RecordPrograms,
           FoldPrograms, ForPrograms, PlacePrograms, {InUpdate("i", e) : e \in Nested},
           {InUpdate("b", e) : e \in Nested}, {InUpdate(g[1], g[2]) : g \in Grouped \cup Mixed},
           {InPlace(place, e) : place \in {"text", "key", "arg"}, e \in InText}, DeepPrograms}

MCPrograms ==
    {Placed(p[1], p[2], p[3]) : p \in Probes} \cup WholePrograms \cup InFragment(WholePrograms)

-----------------------------------------------------------------------------
(* msg Pick (Maybe Int) and a button with onClick Pick(none).               *)
Picking(e) ==
    Probing([Message("Pick", <<MaybeT(TInt)>>, <<[x |-> "p"]>>) EXCEPT
                !.view = Element("button", <<On("click", MsgCall("Pick", <<e>>), FALSE)>>, <<>>)],
            e, OnlyModel, {MaybeT(TInt)})

MCHintPrograms == {Picking(e) : e \in {M("m"), Some(I("1")), Call("head", M("ns")), None}}
=============================================================================
