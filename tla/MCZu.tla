-------------------------------- MODULE MCZu --------------------------------
(* Programs for ZuBackends, in the subset that zumar-wasmgc accepts.        *)
EXTENDS ZuBackends

Eq(fields) == [binder |-> "", sets |-> fields[1], to |-> fields[2]]
On(x, fields) == [Eq(fields) EXCEPT !.binder = x]

Unpaid == {0}   \* the payload of a message without one
Dash == Lit(<<Minus>>)

(* An Int shown, but for the least: itoa has no digits for it.              *)
Shown(e) == If(Bin(">", e, Lit(MinInt)), Show(e), Dash)

-----------------------------------------------------------------------------
(* A calculator of two numbers.                                             *)
A == Model("a")
B == Model("b")
Set1(f, e) == <<<<f>>, [x \in {f} |-> e]>>

Calculator ==
    [fields |-> <<"a", "b">>,
     init |-> [a |-> Lit(0), b |-> Lit(1)],
     update |-> <<On("n", <<<<"a", "b">>, [a |-> Var("n"), b |-> A]>>),
                  Eq(<<<<"b", "a">>, [a |-> B, b |-> A]>>),
                  Eq(Set1("a", Bin("+", A, B))),
                  Eq(Set1("a", Bin("-", A, Bin("*", B, Lit(3))))),
                  Eq(Set1("a", If(Bin("==", B, Lit(-1)), Bin("-", Lit(0), A), Bin("/", A, B)))),
                  Eq(Set1("b", Bin("%", A, B)))>>,
     accepts |-> <<{-7, 0, 9, MaxInt}, Unpaid, Unpaid, Unpaid, Unpaid, Unpaid>>,
     texts |-> <<Shown(A), Shown(Bin("+", A, B)), Show(ToInt(Shown(B))),
                 Show(Bin("%", A, Lit(5))), Show(Bin("/", A, Lit(-3))),
                 If(Not(Bin("<", A, B)), Lit(<<65>>), Lit(<<>>))>>,
     regions |-> <<>>,
     subs |-> SubIf(Bin("<", A, B), SubIf(Bin("!=", A, Lit(0)), Every(1), Every(2)),
                    SubIf(Bin(">", B, Lit(3)), Every(3), Every(4)))]

(* A form: what is typed, and the number it is read as.                     *)
Draft == Model("draft")

Form ==
    [fields |-> <<"draft", "n">>,
     init |-> [draft |-> Lit(<<>>), n |-> Lit(0)],
     update |-> <<On("s", <<<<"n", "draft">>, [draft |-> Var("s"), n |-> ToInt(Var("s"))]>>),
                  Eq(Set1("n", ToInt(Bin("++", Dash, Draft)))),
                  Eq(Set1("draft", If(Bin("==", Draft, Lit(<<49, 50>>)),
                                      Bin("++", Draft, Lit(<<97>>)), Shown(Model("n"))))),
                  Eq(Set1("n", Bin("*", Model("n"), Lit(3))))>>,
     accepts |-> <<{<<>>, <<45>>, <<49, 50>>, <<45, 55>>, <<49, 97>>, <<48, 48, 51>>, <<47>>},
                   Unpaid, Unpaid, Unpaid>>,
     texts |-> <<Draft, Shown(Model("n")),
                 If(Bin("!=", Draft, Shown(Model("n"))), Bin("++", Lit(<<33>>), Draft), Lit(<<>>))>>,
     regions |-> <<>>,
     subs |-> SubIf(Bin("==", Draft, Lit(<<>>)), Every(1), Every(2))]

-----------------------------------------------------------------------------
(* A list of todos with a filter, a counter of the next id, a total.        *)
Items == Model("items")
TodoFields == <<"id", "done", "label">>
T(f) == Get("t", f)

NewTodo == Record(TodoFields, [id |-> Model("next"), done |-> Lit(FALSE),
                               label |-> Show(Bin("*", Model("next"), Lit(7)))])

Toggled == Update(TodoFields, Var("t"), [done |-> Not(T("done"))])

Passes == Case(Model("filter"), <<Arm("Done", T("done")), Arm("All", Lit(TRUE)),
                                  Arm("Open", Not(T("done")))>>)

DoneCount == Length(For("t", Items, T("done"), Var("t")))

Todos ==
    [fields |-> <<"items", "filter", "next", "total">>,
     init |-> [items |-> ListOf(<<>>), filter |-> Lit("All"), next |-> Lit(0), total |-> Lit(0)],
     update |->
       <<Eq(<<<<"items", "next">>,
              [items |-> Bin("++", For("t", Items, Bin("!=", T("id"), Model("next")), Var("t")),
                             ListOf(<<NewTodo>>)),
               next |-> Bin("%", Bin("+", Model("next"), Lit(1)), Lit(3))]>>),
         On("n", Set1("items", For("t", Items, Always,
                                   If(Bin("==", T("id"), Var("n")), Toggled, Var("t"))))),
         Eq(<<<<"items", "total">>,
              [items |-> For("t", Items, Not(T("done")), Var("t")),
               total |-> Fold(Items, DoneCount, "acc", "u",
                              Bin("+", Bin("*", Var("acc"), Lit(2)), Get("u", "id")))]>>),
         Eq(Set1("items", ReverseOf(Items))),
         Eq(Set1("filter", Case(Model("filter"), <<Arm("All", Lit("Open")),
                                                   Arm("Open", Lit("Done")),
                                                   Arm("Done", Lit("All"))>>)))>>,
     accepts |-> <<Unpaid, {0, 2}, Unpaid, Unpaid, Unpaid>>,
     texts |-> <<Show(DoneCount), Show(Length(Items)), Show(Model("total")),
                 CaseMaybe(HeadOf(Items), Dash, "h", Get("h", "label")),
                 CaseMaybe(Some(NewTodo), Dash, "h", Get("h", "label")),
                 CaseMaybe(None, If(Bin("==", Model("filter"), Lit("Open")), Dash, Lit(<<>>)),
                           "h", Get("h", "label")),
                 Fold(Items, Lit(<<>>), "acc", "u", Bin("++", Var("acc"), Get("u", "label")))>>,
     regions |-> <<[list |-> For("t", Items, Passes, Var("t")), x |-> "t",
                    texts |-> <<T("label"), If(T("done"), Lit(<<120>>), Lit(<<>>)),
                                Show(Length(For("u", Items, Bin("<", Get("u", "id"), T("id")),
                                                Var("u"))))>>],
                   [list |-> ReverseOf(Items), x |-> "t", texts |-> <<Show(T("id"))>>]>>,
     subs |-> SubIf(Bin(">", Length(Items), Lit(1)),
                    SubIf(Case(Model("filter"), <<Arm("All", Lit(TRUE)), Arm("Open", Lit(FALSE)),
                                                  Arm("Done", Bin("==", DoneCount, Lit(0)))>>),
                          Every(1), Every(2)),
                    Every(3))]

-----------------------------------------------------------------------------
(* Shares: every row shows its part of a total folded for it.               *)
ShareTotal == Fold(Items, Lit(0), "acc", "u", Bin("+", Var("acc"), Get("u", "n")))

Shares ==
    [fields |-> <<"items">>,
     init |-> [items |-> ListOf(<<>>)],
     update |-> <<On("n", Set1("items",
                     Bin("++", For("t", Items, Bin("!=", T("n"), Var("n")), Var("t")),
                         ListOf(<<Record(<<"n">>, [n |-> Var("n")])>>))))>>,
     accepts |-> <<1 .. 5>>,
     texts |-> <<Show(ShareTotal)>>,
     regions |-> <<[list |-> Items, x |-> "t",
                    texts |-> <<Bin("++", Show(T("n")), Bin("++", Lit(<<47>>), Show(ShareTotal)))>>]>>,
     subs |-> Every(1)]

-----------------------------------------------------------------------------
MCPrograms == <<Calculator, Form, Todos>>
FoldPrograms == <<Shares>>
=============================================================================
