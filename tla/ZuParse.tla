------------------------------ MODULE ZuParse -------------------------------
(***************************************************************************)
(* crates/zumar-lang/src/parse.rs: the way from the tokens of a program to *)
(* its tree.  The parser looks at one token, at one more where it says so, *)
(* and never goes back.  A method of it is a nonterminal here; what it      *)
(* reads once it has seen the next tokens is a rule.                        *)
(*                                                                         *)
(* The parser's state: the tokens left, how deep it has descended, the      *)
(* values made so far by the method that is running, and whether it has     *)
(* not returned an error.                                                   *)
(***************************************************************************)
EXTENDS ZuAst

CONSTANT MaxDepth   \* 64

ASSUME DepthAssumption == MaxDepth \in Nat \ {0}

Keywords == {"app", "record", "enum", "model", "init", "msg", "update", "sub", "view"}

(* Tokens, as lex.rs makes them.                                            *)
Id(x) == [t |-> "id", v |-> x]
Sym(v) == [t |-> "symbol", v |-> v]
Eof == [t |-> "eof", v |-> ""]

(* What a rule is made of: a token, any token of a class (which is a        *)
(* value), another method, items with a separator in between, items up to   *)
(* a closing token, items while they can start, a chain of operators.       *)
Tok(tok) == [is |-> "token", tok |-> tok]
S(v) == Tok(Sym(v))
K(x) == Tok(Id(x))
OfClass(t) == [is |-> "class", t |-> t]
Ident == OfClass("id")
IntLit == OfClass("int")
N(nt) == [is |-> "method", nt |-> nt]
Items(nt, sep) == [is |-> "items", nt |-> nt, sep |-> sep]
More(nt, sep) == [is |-> "more", nt |-> nt, sep |-> sep]
Upto(nt, close) == [is |-> "upto", nt |-> nt, close |-> close]
While(nt) == [is |-> "while", nt |-> nt]
Again(nt) == [is |-> "again", nt |-> nt]
Chain(item, ops) == [is |-> "chain", item |-> item, ops |-> ops, once |-> FALSE]
Once(item, ops) == [Chain(item, ops) EXCEPT !.once = TRUE]

Rule(as, parts) == [as |-> as, parts |-> parts]
Same(parts) == Rule("same", parts)
NoRule == Rule("none", <<S("none")>>)

-----------------------------------------------------------------------------
(* The rules.  a is the next token, b the one after it.                     *)
DeclRule(a) ==
    CASE a = Id("record") -> Rule("record", <<K("record"), Ident, N("field_types")>>)
      [] a = Id("enum") -> Rule("enum", <<K("enum"), Ident, S("="), Items("variant", "|")>>)
      [] a = Id("model") -> Rule("model", <<K("model"), N("field_types")>>)
      [] a = Id("init") -> Rule("init", <<K("init"), S("="), N("record"), N("cmds")>>)
      [] a = Id("msg") -> Rule("msg", <<K("msg"), Items("msg_item", "|")>>)
      [] a = Id("update") ->
            Rule("update", <<K("update"), Ident, While("var"), S("="), N("record"), N("cmds")>>)
      [] a = Id("sub") -> Rule("sub", <<K("sub"), S("="), N("sub_expr")>>)
      [] a = Id("view") -> Rule("view", <<K("view"), S("="), N("element")>>)
      [] OTHER -> NoRule

TyRule(a) ==
    CASE a = Id("List") -> Rule("List", <<K("List"), N("ty")>>)
      [] a = Id("Maybe") -> Rule("Maybe", <<K("Maybe"), N("ty")>>)
      [] OTHER -> Rule("ty", <<Ident>>)

CmdRule(a) ==
    CASE a = Id("delay") -> Rule("delay", <<Ident, S("("), IntLit, S(","), Ident, S(")")>>)
      [] a = Id("httpGet") -> Rule("cmd1", <<Ident, S("("), N("expr"), S(","), Ident, S(")")>>)
      [] a = Id("httpPost") ->
            Rule("cmd2", <<Ident, S("("), N("expr"), S(","), N("expr"), S(","), Ident, S(")")>>)
      [] a = Id("publish") ->
            Rule("publish", <<Ident, S("("), N("expr"), S(","), N("expr"), S(")")>>)
      [] OTHER -> NoRule

SubRule(a) ==
    IF a = Id("if")
    THEN Rule("subIf", <<K("if"), N("expr"), K("then"), N("sub_expr"), K("else"), N("sub_expr")>>)
    ELSE Rule("subs", <<S("["), Upto("sub_call", "]"), S("]")>>)

SubCallRule(a) ==
    CASE a = Id("every") -> Rule("delay", <<Ident, S("("), IntLit, S(","), Ident, S(")")>>)
      [] a = Id("topic") -> Rule("cmd1", <<Ident, S("("), N("expr"), S(","), Ident, S(")")>>)
      [] OTHER -> NoRule

Events ==
    [onClick |-> "click", onChange |-> "change", onMouseDown |-> "mousedown",
     onMouseOver |-> "mouseover", onMouseUp |-> "mouseup", onSubmit |-> "submit"]

AttrRule(a) ==
    CASE a.v \in DOMAIN Events -> Rule("on", <<Ident, N("msg_call")>>)
      [] a.v \in {"onInput", "onCheck"} -> Rule("onValue", <<Ident, Ident>>)
      [] OTHER -> Rule("attr", <<Ident, N("expr")>>)

ChildRule(a) ==
    CASE a = Id("text") -> Rule("text", <<K("text"), N("expr")>>)
      [] a = Id("for") ->
            Rule("each", <<K("for"), Ident, K("in"), N("expr"), S("{"), N("element"), S("}")>>)
      [] OTHER -> Rule("elem", <<N("element")>>)

ExprRule(a) ==
    CASE a = Id("if") ->
            Rule("if", <<K("if"), N("expr"), K("then"), N("expr"), K("else"), N("expr")>>)
      [] a = Id("for") ->
            Rule("for", <<K("for"), Ident, K("in"), N("expr"), N("where"), K("yield"), N("expr")>>)
      [] a = Id("case") -> Rule("case", <<K("case"), N("expr"), K("of"), Items("case_arm", "|")>>)
      [] OTHER -> Same(<<N("cmp")>>)

Builtins == {"show", "length", "sum", "toInt", "reverse", "head", "some"}

AtomRule(a, b) ==
    CASE a.t \in {"int", "str"} -> Rule(a.t, <<OfClass(a.t)>>)
      [] a = Sym("-") -> Rule("minus", <<S("-"), N("atom")>>)
      [] a = Sym("(") -> Same(<<S("("), N("expr"), S(")")>>)
      [] a = Sym("[") -> Rule("list", <<S("["), Upto("expr", "]"), S("]")>>)
      [] a = Sym("{") -> Same(<<S("{"), N("record_expr")>>)
      [] a \in {Id("true"), Id("false")} -> Rule("bool", <<Ident>>)
      [] a = Id("none") -> Rule("noneExpr", <<K("none")>>)
      [] a = Id("nth") -> Rule("nth", <<K("nth"), S("("), Upto("expr", ")"), S(")")>>)
      [] a = Id("fold") ->
            Rule("fold", <<K("fold"), S("("), N("expr"), S(","), N("expr"), S(","),
                           Ident, Ident, S("->"), N("expr"), S(")")>>)
      [] a.t = "id" /\ a.v \in Builtins -> Rule("call", <<Ident, S("("), N("expr"), S(")")>>)
      [] a.t = "id" /\ a.v \notin Builtins \cup {"true", "false", "none", "nth", "fold"} ->
            IF b = Sym("(") THEN Rule("ctor", <<Ident, S("("), N("expr"), S(")")>>)
            ELSE Rule("var", <<Ident>>)
      [] OTHER -> NoRule

(* After the brace: a literal if a name and `=' follow, an update if not.   *)
RecordExprRule(a, b) ==
    CASE a = Sym("}") \/ (a.t = "id" /\ b = Sym("=")) ->
            Rule("recordLit", <<Upto("field", "}"), S("}")>>)
      [] OTHER -> Rule("recordUpdate", <<N("expr"), S("|"), Upto("field", "}"), S("}")>>)

ExprProduction(nt, a, b) ==
    CASE nt = "expr" -> ExprRule(a)
      [] nt = "where" -> IF a = Id("where") THEN Same(<<K("where"), N("expr")>>) ELSE Rule("always", <<>>)
      [] nt = "case_arm" -> Rule("arm", <<Ident, N("binder"), S("->"), N("expr")>>)
      [] nt = "binder" -> IF a.t = "id" THEN Same(<<Ident>>) ELSE Rule("noBinder", <<>>)
      [] nt = "cmp" -> Same(<<N("add"), Once(N("add"), CmpOps)>>)
      [] nt = "add" -> Same(<<N("mul"), Chain(N("mul"), AddOps)>>)
      [] nt = "mul" -> Same(<<N("unary"), Chain(N("unary"), MulOps)>>)
      [] nt = "unary" ->
            IF a = Id("not") THEN Rule("call", <<Ident, N("unary")>>) ELSE Same(<<N("postfix")>>)
      [] nt = "postfix" -> Same(<<N("atom"), Chain(Ident, {"."})>>)
      [] nt = "atom" -> AtomRule(a, b)
      [] nt = "record_expr" -> RecordExprRule(a, b)

ViewProduction(nt, a, b) ==
    CASE nt = "element" ->
            Rule("element", <<Ident, S("["), Upto("attr", "]"), S("]"), S("["), Upto("child", "]"), S("]")>>)
      [] nt = "attr" -> AttrRule(a)
      [] nt = "msg_call" ->
            IF b = Sym("(") THEN Rule("msgCall", <<Ident, S("("), Items("expr", ","), S(")")>>)
            ELSE Rule("msg0", <<Ident>>)
      [] nt = "child" -> ChildRule(a)
      [] OTHER -> ExprProduction(nt, a, b)

TaskProduction(nt, a, b) ==
    CASE nt = "cmds" ->
            IF a = Id("then") THEN Same(<<K("then"), Items("cmd_call", ",")>>) ELSE Rule("nothing", <<>>)
      [] nt = "cmd_call" -> CmdRule(a)
      [] nt = "sub_expr" -> SubRule(a)
      [] nt = "sub_call" -> SubCallRule(a)
      [] OTHER -> ViewProduction(nt, a, b)

DefProduction(nt, a, b) ==
    CASE nt = "ty" -> TyRule(a)
      [] nt = "field_types" -> Same(<<S("{"), Upto("field_type", "}"), S("}")>>)
      [] nt = "field_type" -> Rule("typed", <<Ident, S(":"), N("ty")>>)
      [] nt = "variant" -> Rule("variant", <<Ident, N("payload")>>)
      [] nt = "payload" ->
            IF a.t = "id" /\ a.v \notin Keywords THEN Same(<<N("ty")>>) ELSE Rule("noTy", <<>>)
      [] nt = "msg_item" -> Rule("def", <<Ident, While("ty")>>)
      [] nt = "var" -> Rule("varName", <<Ident>>)
      [] nt = "record" -> Same(<<S("{"), Upto("field", "}"), S("}")>>)
      [] nt = "field" -> Rule("setting", <<Ident, S("="), N("expr")>>)
      [] OTHER -> TaskProduction(nt, a, b)

Production(nt, a, b) ==
    CASE nt = "program" -> Rule("program", <<K("app"), Ident, While("decl")>>)
      [] nt = "parse_decls" -> Rule("decls", <<While("decl")>>)
      [] nt = "decl" -> DeclRule(a)
      [] OTHER -> DefProduction(nt, a, b)

(* Whether one more item of a `while' can start with a.                     *)
Starts(nt, a) ==
    CASE nt = "decl" -> a # Eof
      [] nt = "var" -> a.t = "id"
      [] nt = "ty" -> a.t = "id" /\ a.v \notin Keywords

-----------------------------------------------------------------------------
(* The node that a rule makes of its values.                                *)
NamedTy(x) ==
    CASE x = "Int" -> TInt [] x = "String" -> TStr [] x = "Bool" -> TBool [] OTHER -> RecordT(x)

Decl(as, is) == [decl |-> as, is |-> is]
Declared(decls, as) ==
    LET those == SelectSeq(decls, LAMBDA d : d.decl = as) IN [i \in DOMAIN those |-> those[i].is]

AppOf(name, ds) ==
    [name |-> name, records |-> Declared(ds, "record"), enums |-> Declared(ds, "enum"),
     model |-> Declared(ds, "model")[1], init |-> Declared(ds, "init")[1].sets,
     initCmds |-> Declared(ds, "init")[1].cmds, msgs |-> Declared(ds, "msg")[1],
     updates |-> Declared(ds, "update"), view |-> Declared(ds, "view")[1],
     subs |-> IF Declared(ds, "sub") = <<>> THEN NoSubs ELSE Declared(ds, "sub")[1]]

ExprNode(as, v) ==
    CASE as = "if" -> If(v[1], v[2], v[3])
      [] as = "for" -> For(v[1], v[2], v[3], v[4])
      [] as = "always" -> Always
      [] as = "case" -> Case(v[1], v[2])
      [] as = "arm" -> Arm(v[1], v[2], v[3])
      [] as = "noBinder" -> NoBinder
      [] as = "int" -> Literal(TInt, v[1])
      [] as = "str" -> Literal(TStr, v[1])
      [] as = "bool" -> Literal(TBool, v[1])
      [] as = "minus" -> Bin("-", Zero, v[1])
      [] as = "list" -> ListLit(v[1])
      [] as = "noneExpr" -> None
      [] as = "nth" -> Nth(v[1][1], v[1][2], v[1][3])
      [] as = "fold" -> Fold(v[1], v[2], v[3], v[4], v[5])
      [] as = "call" -> Call(v[1], v[2])
      [] as = "ctor" -> Ctor(v[1], v[2])
      [] as = "var" -> Var(v[1])
      [] as = "recordLit" -> RecordLit(v[1])
      [] as = "recordUpdate" -> RecordUpdate(v[1], v[2])

ViewNode(as, v) ==
    CASE as = "element" -> Element(v[1], v[2], v[3])
      [] as = "on" -> On(Events[v[1]], v[2], v[1] = "onSubmit")
      [] as = "onValue" ->
            IF v[1] = "onInput" THEN OnValue("input", v[2], TStr) ELSE OnValue("change", v[2], TBool)
      [] as = "attr" -> StrAttr(v[1], v[2])
      [] as = "msgCall" -> MsgCall(v[1], v[2])
      [] as = "msg0" -> MsgCall(v[1], <<>>)
      [] as = "text" -> TextOf(v[1])
      [] as = "each" -> ForEach(v[1], v[2], v[3])
      [] as = "elem" -> Elem(v[1])
      [] OTHER -> ExprNode(as, v)

TaskNode(as, v) ==
    CASE as = "nothing" -> <<>>
      [] as = "delay" -> CmdCall(v[1], <<>>, v[3])
      [] as = "cmd1" -> CmdCall(v[1], <<v[2]>>, v[3])
      [] as = "cmd2" -> CmdCall(v[1], <<v[2], v[3]>>, v[4])
      [] as = "publish" -> CmdCall(v[1], <<v[2], v[3]>>, NoMsg)
      [] as = "subIf" -> SubIf(v[1], v[2], v[3])
      [] as = "subs" -> SubList(v[1])
      [] OTHER -> ViewNode(as, v)

DefNode(as, v) ==
    CASE as = "List" -> ListT(v[1])
      [] as = "Maybe" -> MaybeT(v[1])
      [] as = "ty" -> NamedTy(v[1])
      [] as \in {"typed", "variant"} -> Typed(v[1], v[2])
      [] as = "def" -> Def(v[1], v[2])
      [] as = "noTy" -> NoTy
      [] as = "varName" -> [x |-> v[1]]
      [] as = "setting" -> Setting(v[1], v[2])
      [] OTHER -> TaskNode(as, v)

Node(as, v) ==
    CASE as = "same" -> v[1]
      [] as = "program" -> AppOf(v[1], v[2])
      [] as = "decls" -> [records |-> Declared(v[1], "record"), enums |-> Declared(v[1], "enum")]
      [] as \in {"record", "enum"} -> Decl(as, Def(v[1], v[2]))
      [] as \in {"model", "msg", "sub", "view"} -> Decl(as, v[1])
      [] as = "init" -> Decl(as, [sets |-> v[1], cmds |-> v[2]])
      [] as = "update" -> Decl(as, UpdateDef(v[1], v[2], v[3], v[4]))
      [] OTHER -> DefNode(as, v)

(* What is refused although it could be read: a declaration that occurs     *)
(* twice or not at all, one that a fragment may not hold, nth of another    *)
(* number of arguments.                                                     *)
Complete(as, v) ==
    CASE as = "program" ->
            /\ \A d \in {"model", "init", "msg", "view"} : Len(Declared(v[2], d)) = 1
            /\ Len(Declared(v[2], "sub")) <= 1
      [] as = "decls" -> \A i \in DOMAIN v[1] : v[1][i].decl \in {"record", "enum"}
      [] as = "nth" -> Len(v[1]) = 3
      [] OTHER -> TRUE

-----------------------------------------------------------------------------
Start(tokens) == [ok |-> TRUE, rest |-> tokens, depth |-> 0, out |-> <<>>]

At(s, i) == IF i > Len(s.rest) THEN Eof ELSE s.rest[i]
Skip(s) == [s EXCEPT !.rest = Tail(@)]
Refuse(s) == [s EXCEPT !.ok = FALSE]
Push(s, v) == [s EXCEPT !.out = Append(@, v)]

(* expr and element count the levels they are nested in.                    *)
Guarded == {"expr", "element"}

Descend(nt, s) ==
    LET deeper == [s EXCEPT !.depth = @ + 1]
    IN  IF nt \notin Guarded THEN s
        ELSE IF deeper.depth > MaxDepth THEN Refuse(deeper) ELSE deeper

(* Mutant: the levels of what has been read are not given back.             *)
NeverAscend(nt, s, r) == r

Ascend(nt, s, r) == [r EXCEPT !.depth = s.depth]

(* lhs = Expr::Bin(op, lhs, rhs), or a field of lhs.                        *)
Joined(op, l, r) == IF op = "." THEN Field(l, r) ELSE Bin(op, l, r)

JoinTop(op, s) ==
    LET n == Len(s.out)
    IN  IF ~ s.ok THEN s
        ELSE [s EXCEPT !.out = Append(SubSeq(@, 1, n - 2), Joined(op, @[n - 1], @[n]))]

(* The values since the method began become one value of its caller.        *)
Made(s, as, r) ==
    IF ~ r.ok \/ ~ Complete(as, r.out) THEN Refuse(r) ELSE [r EXCEPT !.out = Append(s.out, Node(as, @))]

RECURSIVE Read(_, _)

(* The one place from which Read is called again, as TLC follows each of    *)
(* them separately when it counts coverage.                                 *)
Go(part, s) == Read(part, s)

(* The parts one after the other, up to an error.                           *)
RECURSIVE InTurn(_, _)
InTurn(parts, s) == IF parts = <<>> \/ ~ s.ok THEN s ELSE InTurn(Tail(parts), Go(Head(parts), s))

ReadAll(parts, s) == InTurn(parts, [s EXCEPT !.out = <<>>])

Method(nt, s, rule) == Ascend(nt, s, Made(s, rule.as, ReadAll(rule.parts, Descend(nt, s))))

Sequence(s, r) == IF r.ok THEN [r EXCEPT !.out = Append(s.out, @)] ELSE r

Read(part, s) ==
    IF ~ s.ok THEN s ELSE
    CASE part.is = "token" -> IF At(s, 1) = part.tok THEN Skip(s) ELSE Refuse(s)
      [] part.is = "class" -> IF At(s, 1).t = part.t THEN Skip(Push(s, At(s, 1).v)) ELSE Refuse(s)
      [] part.is = "method" -> Method(part.nt, s, Production(part.nt, At(s, 1), At(s, 2)))
      [] part.is = "items" -> Sequence(s, ReadAll(<<N(part.nt), More(part.nt, part.sep)>>, s))
      [] part.is = "more" ->
            IF At(s, 1) = Sym(part.sep) THEN Go(part, Go(N(part.nt), Skip(s))) ELSE s
      [] part.is = "upto" ->
            IF At(s, 1) = Sym(part.close) THEN Push(s, <<>>) ELSE Go(Items(part.nt, ","), s)
      [] part.is = "while" -> Sequence(s, ReadAll(<<Again(part.nt)>>, s))
      [] part.is = "again" -> IF Starts(part.nt, At(s, 1)) THEN Go(part, Go(N(part.nt), s)) ELSE s
      [] part.is = "chain" ->
            IF At(s, 1).t = "symbol" /\ At(s, 1).v \in part.ops
            THEN LET r == JoinTop(At(s, 1).v, Go(part.item, Skip(s)))
                 IN  IF part.once THEN r ELSE Go(part, r)
            ELSE s

(* parse and parse_decls.                                                   *)
Parse(tokens) == Go(N("program"), Start(tokens))
ParseDecls(tokens) == Go(N("parse_decls"), Start(tokens))
=============================================================================
