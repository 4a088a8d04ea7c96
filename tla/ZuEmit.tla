------------------------------- MODULE ZuEmit -------------------------------
(***************************************************************************)
(* What the code that crates/zumar-wasmgc emits for an expression does     *)
(* when it runs.  The code is inline: it leaves a value on the stack, keeps *)
(* what it needs meanwhile in locals of the function it is part of, and    *)
(* finds the model and the payload in globals.  A local is zero when the   *)
(* function is entered, and has one place in the code (Ctx::tmp): it is     *)
(* named by the place of its expression and what it is for.                *)
(*                                                                         *)
(* A run of the function is a record s: the value on the stack, the locals *)
(* set so far, the two globals, and whether the module has trapped.        *)
(***************************************************************************)
EXTENDS ZuExpr

Entered(model, payload) ==
    [val |-> 0, locals |-> <<>>, model |-> model, payload |-> payload, trap |-> FALSE]

Push(s, v) == IF s.trap THEN s ELSE [s EXCEPT !.val = v]

Trap(s) == [s EXCEPT !.trap = TRUE]

Local(s, x) == IF x \in DOMAIN s.locals THEN s.locals[x] ELSE 0

SetTo(s, x, v) == IF s.trap THEN s ELSE [s EXCEPT !.locals = (x :> v) @@ @]

(* local.set                                                                *)
Set(s, x) == SetTo(s, x, s.val)

Within(at, name) == Append(at, name)

(* A null reference: an element that array.new_default left, or none.       *)
NullRef == [null |-> TRUE]
IsNull(r) == "null" \in DOMAIN r

(* struct.get                                                               *)
FieldOf(s, r, f) == IF s.trap THEN s ELSE IF IsNull(r) THEN Trap(s) ELSE Push(s, r[f])

-----------------------------------------------------------------------------
(* The functions of the module that expressions call.                       *)
RECURSIVE DigitsOf(_)
DigitsOf(n) ==
    IF Quotient(n, 10) = 0 THEN <<Remainder(n, 10) + Zero>>
    ELSE Append(DigitsOf(Quotient(n, 10)), Remainder(n, 10) + Zero)

Itoa(n) == IF n < 0 THEN <<Minus>> \o DigitsOf(Wrapped(0 - n)) ELSE DigitsOf(n)

Atoi(str) ==
    LET neg    == str # <<>> /\ str[1] = Minus
        digits == IF neg THEN Tail(str) ELSE str
        n      == FoldLeft(LAMBDA a, c : Wrapped(10 * a + c - Zero), 0, digits)
    IN  IF digits = <<>> \/ (\E i \in DOMAIN digits : ~ IsDigit(digits[i])) THEN 0
        ELSE IF neg THEN Wrapped(0 - n) ELSE n

(* Both arrays copied to a new one, and one copied from its end.            *)
Concatenated(a, b) ==
    [i \in 1 .. Len(a) + Len(b) |-> IF i <= Len(a) THEN a[i] ELSE b[i - Len(a)]]

Reversed(a) == [i \in DOMAIN a |-> a[Len(a) - i + 1]]

UnaryOps == {"show", "toInt", "len", "reverse", "not"}
BinaryOps == {"+", "-", "*", "/", "%", "++", "==", "!=", "<", ">"}

Unary(op, v) ==
    CASE op = "show" -> Itoa(v)
      [] op = "toInt" -> Atoi(v)
      [] op = "len" -> Len(v)
      [] op = "reverse" -> Reversed(v)
      [] op = "not" -> ~ v

-----------------------------------------------------------------------------
(* The binary operators, on a and on the value of s.  The guard of a        *)
(* division answers a zero divisor.                                         *)
UnguardedDivided(op, a, b, s) == IF b = 0 THEN Trap(s) ELSE Push(s, Quotient(a, b))

Divided(op, a, b, s) ==
    IF b = 0 THEN Push(s, 0)
    ELSE IF op = "%" THEN Push(s, Remainder(a, b))
    ELSE IF a = MinInt /\ b = -1 THEN Trap(s)
    ELSE Push(s, Quotient(a, b))

Operated(op, a, s) ==
    IF s.trap THEN s ELSE
    CASE op = "+" -> Push(s, Wrapped(a + s.val))
      [] op = "-" -> Push(s, Wrapped(a - s.val))
      [] op = "*" -> Push(s, Wrapped(a * s.val))
      [] op \in {"/", "%"} -> Divided(op, a, s.val, s)
      [] op = "++" -> Push(s, Concatenated(a, s.val))
      [] op = "==" -> Push(s, a = s.val)
      [] op = "!=" -> Push(s, a # s.val)
      [] op = "<" -> Push(s, a < s.val)
      [] op = ">" -> Push(s, a > s.val)

-----------------------------------------------------------------------------
(* Run is the code of e at `at', where the variables are in the locals, or  *)
(* in the global of the payload, that env names.                            *)
RECURSIVE Run(_, _, _, _)

(* A part of an expression: the one place from which Run is called again,   *)
(* as TLC follows each of them separately when it counts coverage.  For the *)
(* same reason the definitions below take what was run before as a          *)
(* parameter, where it is used more than once.                              *)
Part(e, at, env, s) == Run(e, at, env, s)

RunRight(e, at, env, l) == Operated(e.of, l.val, Part(e.r, Within(at, "r"), env, l))

RunBin(e, at, env, s) == RunRight(e, at, env, Part(e.l, Within(at, "l"), env, s))

OperatedUnary(op, s) == IF s.trap THEN s ELSE Push(s, Unary(op, s.val))

RunUnary(e, at, env, s) == OperatedUnary(e.of, Part(e.e, Within(at, "e"), env, s))

(* Expressions one after the other: their values in a sequence.             *)
Pushed(values, s) == IF s.trap THEN s ELSE Push(s, Append(values, s.val))

RunAll(es, at, env, s) ==
    FoldLeft(LAMBDA r, i : Pushed(r.val, Part(es[i], Within(at, ToString(i)), env, r)),
             Push(s, <<>>), [i \in DOMAIN es |-> i])

(* struct.new, of the fields in the order of the declaration.               *)
Struct(s, rec) ==
    IF s.trap THEN s
    ELSE Push(s, [f \in ToSet(rec) |-> s.val[CHOOSE i \in DOMAIN rec : rec[i] = f]])

RunRecord(e, at, env, s) ==
    Struct(RunAll([i \in DOMAIN e.rec |-> e.fs[e.rec[i]]], at, env, s), e.rec)

(* The base is kept in a local while the fields are pushed.                 *)
RunUpdate(e, at, env, s) ==
    LET base == Within(at, "base")
        es   == [i \in DOMAIN e.rec |-> IF e.rec[i] \in DOMAIN e.fs THEN e.fs[e.rec[i]]
                                        ELSE Get("..", e.rec[i])]
    IN  Struct(RunAll(es, at, Bound("..", base, env),
                      Set(Part(e.b, Within(at, "b"), env, s), base)),
               e.rec)

FirstOf(s) ==
    IF s.trap THEN s ELSE Push(s, IF s.val = <<>> THEN NullRef ELSE s.val[1])

RunHead(e, at, env, s) == FirstOf(Part(e.e, Within(at, "src"), env, s))

RunBranch(e, at, env, c) ==
    IF c.trap THEN c
    ELSE IF c.val THEN Part(e.t, Within(at, "t"), env, c)
    ELSE Part(e.e, Within(at, "f"), env, c)

RunIf(e, at, env, s) == RunBranch(e, at, env, Part(e.c, Within(at, "c"), env, s))

(* An if-chain on the tag, the last arm its else.                           *)
RunChain(arms, tag, at, env, s) ==
    LET i == Min({j \in DOMAIN arms : j = Len(arms) \/ arms[j].ctor = Local(s, tag)})
    IN  IF s.trap THEN s ELSE Part(arms[i].body, Within(at, ToString(i)), env, s)

RunCase(e, at, env, s) ==
    RunChain(e.arms, Within(at, "s"), at, env,
             Set(Part(e.s, Within(at, "scrut"), env, s), Within(at, "s")))

(* The binder of some is the local of the scrutinee.                        *)
RunMaybe(e, m, at, env, s) ==
    IF s.trap THEN s
    ELSE IF IsNull(Local(s, m)) THEN Part(e.none, Within(at, "none"), env, s)
    ELSE Part(e.some, Within(at, "some"), Bound(e.x, m, env), s)

RunCaseMaybe(e, at, env, s) ==
    RunMaybe(e, Within(at, "m"), at, env,
             Set(Part(e.s, Within(at, "scrut"), env, s), Within(at, "m")))

(* The loop of fold_gc starts at what its counter i holds.                  *)
FoldLoop(e, a, t, i, at, env, s) ==
    FoldLeft(LAMBDA r, x : Set(Part(e.body, Within(at, "body"),
                                    Bound(e.item, t, Bound(e.acc, a, env)), SetTo(r, t, x)), a),
             s, SubSeq(s.val, Local(s, i) + 1, Len(s.val)))

(* What it leaves in i when the list, in s, has been gone through.          *)
Ended(i, s, done) == SetTo(done, i, Max({Len(s.val), Local(s, i)}))

Folded(e, a, i, at, env, s) ==
    IF s.trap THEN s ELSE Ended(i, s, FoldLoop(e, a, Within(at, "t"), i, at, env, s))

Result(s, x) == Push(s, Local(s, x))

RunFold(e, at, env, s) ==
    LET a == Within(at, "a")
    IN  Result(Folded(e, a, Within(at, "i"), at, env,
                      Part(e.list, Within(at, "list"), env,
                           Set(Part(e.init, Within(at, "init"), env, s), a))),
               a)

(* The counting pass over the list in src: the number of elements the       *)
(* condition holds of.                                                      *)
CountIf(cnt, c) == IF ~ c.trap /\ c.val THEN SetTo(c, cnt, Local(c, cnt) + 1) ELSE c

CountLoop(e, cnt, t, at, env, src, s) ==
    FoldLeft(LAMBDA r, x : CountIf(cnt, Part(e.where, Within(at, "counts"), Bound(e.x, t, env),
                                             SetTo(r, t, x))),
             s, src)

(* ... with the count as the last one left it.                              *)
CountedOn(e, cnt, at, env, s) ==
    IF s.trap THEN s
    ELSE IF e.where = Always THEN SetTo(s, cnt, Len(s.val))
    ELSE CountLoop(e, cnt, Within(at, "t"), at, env, s.val, s)

Counted(e, cnt, at, env, s) ==
    IF s.trap THEN s
    ELSE IF e.where = Always THEN SetTo(s, cnt, Len(s.val))
    ELSE CountLoop(e, cnt, Within(at, "t"), at, env, s.val, SetTo(s, cnt, 0))

(* The length of a comprehension is its count.                              *)
IsCount(e) == e.of = "len" /\ e.e.of = "for"

RunCount(e, at, env, s) ==
    LET cnt == Within(at, "cnt")
    IN  Result(Counted(e, cnt, at, env, Part(e.list, Within(at, "list"), env, s)), cnt)

(* The filling pass: array.set of element w of the array.                   *)
Stored(s, outp, w) ==
    IF s.trap THEN s
    ELSE IF Local(s, w) >= Len(Local(s, outp)) THEN Trap(s)
    ELSE SetTo(SetTo(s, outp, [Local(s, outp) EXCEPT ![Local(s, w) + 1] = s.val]),
               w, Local(s, w) + 1)

FillIf(e, at, env, c) ==
    IF c.trap \/ ~ c.val THEN c
    ELSE Stored(Part(e.body, Within(at, "body"), env, c), Within(at, "outp"), Within(at, "w"))

Filled(e, t, at, env, src, s) ==
    FoldLeft(LAMBDA r, x : FillIf(e, at, env, Part(e.where, Within(at, "fills"), env, SetTo(r, t, x))),
             s, src)

(* array.new_default, as long as counted.                                   *)
Allocated(at, s) ==
    SetTo(SetTo(s, Within(at, "outp"), [k \in 1 .. Local(s, Within(at, "cnt")) |-> NullRef]),
          Within(at, "w"), 0)

RunFill(e, at, env, list, s) ==
    IF s.trap THEN s
    ELSE Result(Filled(e, Within(at, "t"), at, Bound(e.x, Within(at, "t"), env), list.val,
                       Allocated(at, s)),
                Within(at, "outp"))

RunPasses(e, at, env, list) ==
    RunFill(e, at, env, list, Counted(e, Within(at, "cnt"), at, env, list))

RunFor(e, at, env, s) == RunPasses(e, at, env, Part(e.list, Within(at, "list"), env, s))

RunVar(x, env, s) ==
    IF env[x] = <<"payload">> THEN Push(s, s.payload) ELSE Push(s, Local(s, env[x]))

RunGet(x, f, env, s) ==
    IF x = "model" THEN FieldOf(s, s.model, f) ELSE FieldOf(s, Local(s, env[x]), f)

Run(e, at, env, s) ==
    IF s.trap THEN s
    ELSE IF IsCount(e) THEN RunCount(e.e, Within(at, "e"), env, s)
    ELSE IF e.of \in UnaryOps THEN RunUnary(e, at, env, s)
    ELSE IF e.of \in BinaryOps THEN RunBin(e, at, env, s) ELSE
    CASE e.of = "lit" -> Push(s, e.v)
      [] e.of = "var" -> RunVar(e.x, env, s)
      [] e.of = "get" -> RunGet(e.x, e.f, env, s)
      [] e.of = "head" -> RunHead(e, at, env, s)
      [] e.of = "none" -> Push(s, NullRef)
      [] e.of = "some" -> Part(e.e, Within(at, "e"), env, s)
      [] e.of = "if" -> RunIf(e, at, env, s)
      [] e.of = "case" -> RunCase(e, at, env, s)
      [] e.of = "caseMaybe" -> RunCaseMaybe(e, at, env, s)
      [] e.of = "list" -> RunAll(e.es, at, env, s)
      [] e.of = "record" -> RunRecord(e, at, env, s)
      [] e.of = "update" -> RunUpdate(e, at, env, s)
      [] e.of = "fold" -> RunFold(e, at, env, s)
      [] e.of = "for" -> RunFor(e, at, env, s)
=============================================================================
