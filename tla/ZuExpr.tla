------------------------------- MODULE ZuExpr -------------------------------
(***************************************************************************)
(* The expressions of .zu and what the Rust that crates/zumar-lang         *)
(* generates for them computes, in a release build.  Expressions are typed *)
(* and in the subset that crates/zumar-wasmgc accepts too: a field is one  *)
(* of the model or of a bound item, lists are lists of records.            *)
(*                                                                         *)
(* An Int is a number, a String the sequence of its bytes, a Maybe has one *)
(* element or none, a variant of an enum is its name.                      *)
(***************************************************************************)
EXTENDS Integers, SequencesExt

CONSTANT Width   \* of an Int: 64

ASSUME WidthAssumption == Width \in Nat \ {0}

MinInt == -(2 ^ (Width - 1))
MaxInt == 2 ^ (Width - 1) - 1

(* Two's complement: what an i64 makes of the number n.                     *)
Wrapped(n) == ((n - MinInt) % 2 ^ Width) + MinInt

Size(n) == IF n < 0 THEN -n ELSE n

(* Division as machines do it, towards zero.                               *)
Quotient(a, b) ==
    LET q == Size(a) \div Size(b) IN IF (a < 0) = (b < 0) THEN q ELSE -q

Remainder(a, b) == a - b * Quotient(a, b)

Zero == 48   \* '0', '+' and '-'
Plus == 43
Minus == 45

-----------------------------------------------------------------------------
(* A literal, a bare variant.                                               *)
Lit(v) == [of |-> "lit", v |-> v]

Var(x) == [of |-> "var", x |-> x]
Get(x, f) == [of |-> "get", x |-> x, f |-> f]
Model(f) == Get("model", f)
Show(e) == [of |-> "show", e |-> e]
ToInt(e) == [of |-> "toInt", e |-> e]
Length(e) == [of |-> "len", e |-> e]
HeadOf(e) == [of |-> "head", e |-> e]
None == [of |-> "none"]
Some(e) == [of |-> "some", e |-> e]
ReverseOf(e) == [of |-> "reverse", e |-> e]
Not(e) == [of |-> "not", e |-> e]
Bin(op, l, r) == [of |-> op, l |-> l, r |-> r]
If(c, t, e) == [of |-> "if", c |-> c, t |-> t, e |-> e]

(* case over an enum, with an arm for each variant, and over a Maybe.       *)
Arm(ctor, body) == [ctor |-> ctor, body |-> body]
Case(s, arms) == [of |-> "case", s |-> s, arms |-> arms]
CaseMaybe(s, none, x, some) ==
    [of |-> "caseMaybe", s |-> s, none |-> none, x |-> x, some |-> some]

ListOf(es) == [of |-> "list", es |-> es]

(* fs gives expressions to fields; rec lists the fields of the record.      *)
Record(rec, fs) == [of |-> "record", rec |-> rec, fs |-> fs]
Update(rec, b, fs) == [of |-> "update", rec |-> rec, b |-> b, fs |-> fs]

Fold(list, init, acc, item, body) ==
    [of |-> "fold", list |-> list, init |-> init, acc |-> acc, item |-> item, body |-> body]

(* `where' is Lit(TRUE) if there is none.                                   *)
For(x, list, where, body) ==
    [of |-> "for", x |-> x, list |-> list, where |-> where, body |-> body]

Always == Lit(TRUE)

-----------------------------------------------------------------------------
RECURSIVE Digits(_)
Digits(n) == IF n < 10 THEN <<Zero + n>> ELSE Append(Digits(n \div 10), Zero + (n % 10))

(* to_string.                                                               *)
Decimal(n) == IF n < 0 THEN <<Minus>> \o Digits(-n) ELSE Digits(n)

IsDigit(c) == c \in Zero .. Zero + 9

NumberOf(ds) == FoldLeft(LAMBDA n, c : 10 * n + c - Zero, 0, ds)

(* parse::<i64>().unwrap_or(0): a sign is optional.                         *)
Parsed(s) ==
    LET signed == s # <<>> /\ s[1] \in {Plus, Minus}
        digits == IF signed THEN Tail(s) ELSE s
        n      == IF signed /\ s[1] = Minus THEN -NumberOf(digits) ELSE NumberOf(digits)
    IN  IF digits # <<>> /\ (\A i \in DOMAIN digits : IsDigit(digits[i]))
           /\ n \in MinInt .. MaxInt
        THEN n ELSE 0

(* The operators.  checked_div and checked_rem refuse a zero divisor, and   *)
(* the one quotient that is out of range.                                   *)
Refused(a, b) == b = 0 \/ (a = MinInt /\ b = -1)

RustBin(op, a, b) ==
    CASE op = "+" -> Wrapped(a + b)
      [] op = "-" -> Wrapped(a - b)
      [] op = "*" -> Wrapped(a * b)
      [] op = "/" -> IF Refused(a, b) THEN 0 ELSE Quotient(a, b)
      [] op = "%" -> IF Refused(a, b) THEN 0 ELSE Remainder(a, b)
      [] op = "++" -> a \o b
      [] op = "==" -> a = b
      [] op = "!=" -> a # b
      [] op = "<" -> a < b
      [] op = ">" -> a > b

Bound(x, v, env) == [y \in {x} \cup DOMAIN env |-> IF y = x THEN v ELSE env[y]]

(* The value of e where the variables are as env says.                      *)
RECURSIVE RustVal(_, _)

(* A part of an expression: the one place from which RustVal is called      *)
(* again, as TLC follows each of them separately when it counts coverage.   *)
RustPart(e, env) == RustVal(e, env)


(* A shadowed loop: the accumulator is bound inside the item.               *)
RustFold(e, env) ==
    FoldLeft(LAMBDA a, x : RustPart(e.body, Bound(e.acc, a, Bound(e.item, x, env))),
             RustPart(e.init, env), RustPart(e.list, env))

RustFor(e, env) ==
    LET kept == SelectSeq(RustPart(e.list, env),
                          LAMBDA x : RustPart(e.where, Bound(e.x, x, env)))
    IN  [i \in DOMAIN kept |-> RustPart(e.body, Bound(e.x, kept[i], env))]

RustCase(e, env) ==
    LET v == RustPart(e.s, env)
    IN  RustPart(e.arms[CHOOSE i \in DOMAIN e.arms : e.arms[i].ctor = v].body, env)

RustCaseMaybe(e, env) ==
    LET v == RustPart(e.s, env)
    IN  IF v = <<>> THEN RustPart(e.none, env)
        ELSE RustPart(e.some, Bound(e.x, v[1], env))

(* { fields, ..base }                                                       *)
RustFields(fs, env) == [f \in DOMAIN fs |-> RustPart(fs[f], env)]

RustUpdate(e, env) ==
    LET base == RustPart(e.b, env)
    IN  [f \in DOMAIN base |-> IF f \in DOMAIN e.fs THEN RustPart(e.fs[f], env) ELSE base[f]]

RustVal(e, env) ==
    CASE e.of = "lit" -> e.v
      [] e.of = "var" -> env[e.x]
      [] e.of = "get" -> env[e.x][e.f]
      [] e.of = "show" -> Decimal(RustPart(e.e, env))
      [] e.of = "toInt" -> Parsed(RustPart(e.e, env))
      [] e.of = "len" -> Len(RustPart(e.e, env))
      [] e.of = "head" -> LET l == RustPart(e.e, env) IN SubSeq(l, 1, IF l = <<>> THEN 0 ELSE 1)
      [] e.of = "none" -> <<>>
      [] e.of = "some" -> <<RustPart(e.e, env)>>
      [] e.of = "reverse" -> Reverse(RustPart(e.e, env))
      [] e.of = "not" -> ~ RustPart(e.e, env)
      [] e.of = "if" -> IF RustPart(e.c, env) THEN RustPart(e.t, env) ELSE RustPart(e.e, env)
      [] e.of = "case" -> RustCase(e, env)
      [] e.of = "caseMaybe" -> RustCaseMaybe(e, env)
      [] e.of = "list" -> [i \in DOMAIN e.es |-> RustPart(e.es[i], env)]
      [] e.of = "record" -> RustFields(e.fs, env)
      [] e.of = "update" -> RustUpdate(e, env)
      [] e.of = "fold" -> RustFold(e, env)
      [] e.of = "for" -> RustFor(e, env)
      [] OTHER -> RustBin(e.of, RustPart(e.l, env), RustPart(e.r, env))
=============================================================================
