----------------------------- MODULE MCTreeDiff -----------------------------
(* Small trees: lists of up to three children, two levels of lists, the     *)
(* reorderings of a longer keyed list, and lists whose parts listen.        *)
EXTENDS LiveTurn

Plain == [n \in {} |-> ""]
Class(x) == [n \in {"class"} |-> x]
ClassAndId == [n \in {"class", "id"} |-> "y"]

Lists(kinds, n) == UNION {[1 .. k -> kinds] : k \in 0 .. n}

Root(kids) == El("div", NoKey, Plain, kids)
Item(k) == El("li", k, Plain, <<>>)

(* Keyed, unkeyed and text children; the same key under two tags.           *)
Leaves ==
    {Text("a"), El("li", "k1", Class("x"), <<>>), El("li", "k1", ClassAndId, <<>>),
     El("li", "k2", Plain, <<>>), El("p", "k2", Plain, <<>>), El("li", NoKey, Plain, <<>>)}

Wide == {Root(kids) : kids \in Lists(Leaves, 3)}

(* Two lists of three need fewer kinds of children.                         *)
Plainer == {Text("a"), El("li", "k1", Class("x"), <<>>), Item("k2"), El("li", NoKey, Plain, <<>>)}

WideTurns ==
    {t \in Wide \X Wide :
        Len(t[1].kids) + Len(t[2].kids) = 6 => Range(t[1].kids) \cup Range(t[2].kids) \subseteq Plainer}

(* Lists inside list items, so that paths go through nodes that move, and   *)
(* a root of another tag.                                                   *)
A == Text("a")
B == Text("b")
I == El("i", "k1", Plain, <<>>)

Rows == {El("ul", k, Plain, kids) :
            k \in {NoKey, "k1", "k2"}, kids \in {<<>>, <<A>>, <<B>>, <<A, I>>, <<I, B>>}}

Deep == {Root(kids) : kids \in Lists({r \in Rows : r.key # NoKey}, 2)}
          \cup {Root(kids) : kids \in Lists({r \in Rows : r.key = NoKey}, 2)}
          \cup {El("p", NoKey, Plain, <<A>>)}

(* Every selection from a keyed list of six, in every order: the counting   *)
(* tree passes a power of two.                                              *)
Six == <<"k1", "k2", "k3", "k4", "k5", "k6">>

Orders == {f \in [DOMAIN Six -> Range(Six)] : IsInjective(f)}

Reordered == {[i \in 1 .. n |-> Item(f[i])] : f \in Orders, n \in 4 .. 6}

Long == {<<Root([i \in DOMAIN Six |-> Item(Six[i])]), Root(kids)>> : kids \in Reordered}

(* Rows that change places, each of them, what is in it, and the root with  *)
(* a listener or without; the last row is one level deeper.                 *)
Pick(n) == [e \in {"click"} |-> Listener(n, Simple, FALSE)]
Type(n) == [e \in {"input", "keydown"} |->
    IF e = "input" THEN Listener(n, "value", FALSE) ELSE Listener(n, "key", TRUE)]
Check(n) == [e \in {"input"} |-> Listener(n, "checked", FALSE)]
Deaf == [e \in {} |-> Simple]

Row(key, on, inner) ==
    Listening(El("ul", key, Plain, <<A, Listening(I, inner)>>), on)

DeepRow == El("ul", "k2", Plain, <<El("li", NoKey, Plain, <<Listening(I, Pick("deep"))>>)>>)

Rooted(kids, on) == Listening(Root(kids), on)

Heedful ==
    {Rooted(<<Row("k1", on, inner), Row("k2", Pick("other"), Check("box"))>>, Type("root")) :
        on \in {Deaf, Pick("row")}, inner \in {Deaf, Pick("inner"), Type("inner")}}
    \cup {Rooted(<<Row("k2", Check("row"), Deaf), Row("k1", on, Deaf)>>, Pick("root")) :
            on \in {Deaf, Pick("row")}}
    \cup {Rooted(<<Row("k1", Deaf, Deaf), DeepRow>>, Deaf)}

MCPayloads ==
    {[slot \in {} |-> ""], [value |-> "b"], [value |-> "a", key |-> "b"],
     [value |-> "b", checked |-> TRUE], [checked |-> FALSE, key |-> "a"]}

(* Every kind of command and subscription, and numbers of several bytes.    *)
Busy ==
    [cmds |-> <<CmdOut(1, Delay(0)), CmdOut(7, HttpGet("b")), CmdOut(8, Publish("topic", "")),
                CmdOut(600, HttpPost("b", "topic"))>>,
     subs |-> <<Stop(64), Start(9, Every(4095)), Start(63, Topic("topic")), Stop(0)>>]

Quiet == [cmds |-> <<>>, subs |-> <<>>]

AllTurns == WideTurns \cup (Deep \X Deep) \cup Long

(* Every tree of a turn and its parts, which are three levels deep.         *)
Kids(vs) == UNION {Range(v.kids) : v \in vs}

Rendered == Wide \cup Deep \cup Heedful \cup {Root(kids) : kids \in Reordered}

MCVNodes ==
    LET trees == Rendered
        parts == Kids(trees)
        inner == Kids(parts)
    IN  trees \cup parts \cup inner \cup Kids(inner)

MCHeight[v \in MCVNodes] == Max({0} \cup {MCHeight[v.kids[i]] + 1 : i \in DOMAIN v.kids})

(* The messages are followed for the lists of up to two children, for up to *)
(* three lists in lists, for a list of six in every other order, and where  *)
(* something listens.                                                       *)
Short == {Root(kids) : kids \in Lists(Leaves, 2)}

Nested == {t \in Deep \X Deep : Len(t[1].kids) + Len(t[2].kids) <= 3}

Shuffled == {t \in Long : Len(t[2].kids) = 6}

MCSessions ==
    {<<t[1], t[2], Quiet>> :
        t \in (Short \X Short) \cup Nested \cup Shuffled \cup (Heedful \X Heedful)}
    \cup {<<t, t, Busy>> : t \in Heedful}

(* The strings that are sent, the n-th of them n - 1 bytes long.            *)
Sent == <<"", "a", "b", "li", "ul", "p", "i", "x", "y", "div", "id", "class", "click", "input",
          "keydown", "topic">>

MCUtf8 ==
    [s \in Range(Sent) |->
        LET n == CHOOSE n \in DOMAIN Sent : Sent[n] = s IN [i \in 1 .. n - 1 |-> (n + i) % 16]]

MCNow == 170000

(* The counting trees of lists of up to nine, in every state that matching  *)
(* can leave them in.                                                       *)
ASSUME CountsAreExact ==
    \A n \in 1 .. 9 : \A live \in SUBSET (1 .. n) :
        Exact(FoldSet(LAMBDA o, bit : Added(bit, o, -1), NewBit(n), (1 .. n) \ live), live)
=============================================================================
