-------------------------------- MODULE Zuc ---------------------------------
(***************************************************************************)
(* The way of a .zu program through the compiler: parse, check, generate    *)
(* (compile and compile_with in crates/zumar-lang/src/lib.rs, generate in   *)
(* gen.rs), and then rustc.  A program is the tree its author means; it is  *)
(* written down by ZuPrint.  Its record and enum declarations may come from *)
(* a fragment that a schema generator wrote.                                *)
(***************************************************************************)
EXTENDS ZuPrint, ZuGen, ZuTypes

(* Records: the tree app, whether its declarations are shared, and a probe: *)
(* an expression in it with the variables it sees and the types its place   *)
(* takes.                                                                   *)
CONSTANT Programs

NoProbe == [e |-> Always, vars |-> NoVars, takes |-> {}]

VARIABLES program,   \* what is meant
          stage,     \* "written", "unreadable", "parsed", "rejected", "accepted", "generated"
          tree,      \* what was parsed
          crate      \* what has become of the generated crate

zucVars == <<program, stage, tree, crate>>

NoTree == [name |-> ""]

ZucInit ==
    /\ program \in Programs
    /\ stage = "written"
    /\ tree = NoTree
    /\ crate = "none"

-----------------------------------------------------------------------------
(* What stands in the source.                                               *)
MainSource(p) ==
    <<Id("app"), Id(p.app.name)>>
    \o (IF p.shared THEN <<>> ELSE WrittenDecls(p.app)) \o WrittenRest(p.app)

Fragment(p) == IF p.shared THEN WrittenDecls(p.app) ELSE <<>>

(* app.records.extend(decls.records), and the enums.                        *)
Merged(app, decls) == [app EXCEPT !.records = @ \o decls.records, !.enums = @ \o decls.enums]

ParseProgram(main, decls) ==
    /\ stage = "written"
    /\ IF main.ok /\ decls.ok
       THEN stage' = "parsed" /\ tree' = Merged(main.out[1], decls.out[1])
       ELSE stage' = "unreadable" /\ UNCHANGED tree
    /\ UNCHANGED <<program, crate>>

CheckProgram ==
    /\ stage = "parsed"
    /\ tree' = Resolved(tree)
    /\ stage' = IF Accepted(Resolved(tree)) THEN "accepted" ELSE "rejected"
    /\ UNCHANGED <<program, crate>>

Generate ==
    /\ stage = "accepted"
    /\ stage' = "generated"
    /\ crate' = Generated(tree)
    /\ UNCHANGED <<program, tree>>

ZucNext ==
    \/ ParseProgram(Parse(Tokens(MainSource(program))), ParseDecls(Tokens(Fragment(program))))
    \/ CheckProgram
    \/ Generate

ZucSpec == ZucInit /\ [][ZucNext]_zucVars

-----------------------------------------------------------------------------
(* The parser gives every program the tree that is meant: operators bind    *)
(* and group as the grammar says, a `|' belongs to the case it was written  *)
(* in, braces after a name and `=' are a literal, declarations may come     *)
(* from a fragment.  It gives up on no program but those whose expressions  *)
(* and elements nest deeper than MaxDepth, and on all of those.             *)
ParsesAsWritten ==
    LET deep == Max({Nesting(MainSource(program)), Nesting(Fragment(program))}) > MaxDepth
    IN  /\ stage = "parsed" => tree = program.app /\ ~ deep
        /\ stage = "unreadable" => deep

(* "typechecked": what the checker accepts, the generator can generate, and *)
(* rustc compiles: it finds the hints the generator relies on, and accepts  *)
(* only what Rust's types, matches and literals allow.                      *)
AcceptedCompiles == stage = "generated" => crate = "compiles"

(* The checker accepts the programs whose probe has a type that its place   *)
(* takes, and no others.                                                    *)
AcceptsTheWellTyped ==
    LET p      == program.probe
        fitting == p.takes \cap Types(p.e, Scope(tree, p.vars))
    IN  p # NoProbe => /\ stage \in {"accepted", "generated"} => fitting # {}
                       /\ stage = "rejected" => fitting = {}
=============================================================================
