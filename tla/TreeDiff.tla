------------------------------ MODULE TreeDiff ------------------------------
(***************************************************************************)
(* crates/zumar-core: diff, which turns two virtual trees into a list of   *)
(* patches, and a turn in which the page carries them out.  Children are   *)
(* numbered from 1 here.                                                   *)
(***************************************************************************)
EXTENDS Fenwick, Patch

CONSTANTS
    VNodes,   \* the trees a view may render, and all their parts
    Height,   \* of a tree: each of its parts is less high
    Turns     \* the pairs of trees rendered in succession

NoKey == "none"

(* A VNode.  `on' are the listeners, by event, which the diff does not look *)
(* at.                                                                      *)
Text(s) == [tag |-> TextTag, key |-> NoKey, attrs |-> <<>>, on |-> <<>>, text |-> s, kids |-> <<>>]
El(tag, key, attrs, kids) ==
    [tag |-> tag, key |-> key, attrs |-> attrs, on |-> <<>>, text |-> "", kids |-> kids]

(* Trees are finite: a VNode owns its children.                             *)
ASSUME TreeAssumption ==
    /\ \A v \in VNodes :
          /\ IsText(v) => v = Text(v.text)
          /\ ~ IsText(v) => v.text = ""
          /\ v.attrs = [n \in DOMAIN v.attrs |-> v.attrs[n]]
          /\ IsFiniteSet(DOMAIN v.attrs)
          /\ v.kids \in Seq(VNodes)
          /\ \A i \in DOMAIN v.kids : Height[v.kids[i]] < Height[v]
    /\ Height \in [VNodes -> Nat]
    /\ Turns \subseteq VNodes \X VNodes

-----------------------------------------------------------------------------
(* SerNode::from_vnode.  A DOM node has what the snapshot has that it was   *)
(* created from (create), and is written like one.                          *)
FromVNode[v \in VNodes] ==
    [tag |-> v.tag, attrs |-> v.attrs, text |-> v.text,
     kids |-> [i \in DOMAIN v.kids |-> FromVNode[v.kids[i]]]]

Snapshots(vs) == [i \in DOMAIN vs |-> FromVNode[vs[i]]]

-----------------------------------------------------------------------------
(* Mutant: attributes are set but never removed.                            *)
DiffAttrsSetOnly(a, b, path) ==
    LET set == SetToSeq({n \in DOMAIN b : n \notin DOMAIN a \/ a[n] # b[n]})
    IN  [i \in DOMAIN set |-> SetAttr(path, set[i], b[set[i]])]

(* SetAttr for what is new or differs, RemoveAttr for what is gone.         *)
DiffAttrs(a, b, path) ==
    LET set  == SetToSeq({n \in DOMAIN b : n \notin DOMAIN a \/ a[n] # b[n]})
        gone == SetToSeq(DOMAIN a \ DOMAIN b)
    IN  [i \in DOMAIN set |-> SetAttr(path, set[i], b[set[i]])]
          \o [i \in DOMAIN gone |-> RemoveAttr(path, gone[i])]

HasKeys(kids) == \E i \in DOMAIN kids : kids[i].key # NoKey

(* Mutant: keys are not looked at.                                          *)
QueueByTag(v) == IF IsText(v) THEN <<"text">> ELSE <<"tag", v.tag>>

(* The queue a child is looked up in: elements with a key by their key,     *)
(* those without by their tag, text nodes all alike.                        *)
Queue(v) ==
    IF IsText(v) THEN <<"text">>
    ELSE IF v.key # NoKey THEN <<"key", v.key>> ELSE <<"tag", v.tag>>

Reusable(a, b) == Queue(a) = Queue(b)

(* How many children at the front can be reused in place.                   *)
Prefix(old, new) ==
    Max({n \in 0 .. Min({Len(old), Len(new)}) :
            \A i \in 1 .. n : Reusable(old[i], new[i])})

(* Mutant: the count of those before it includes the child itself.          *)
MatchedOffByOne(old, new, path, p, acc, i) ==
    LET queue == {o \in acc.left : Reusable(old[o], new[i])}
        o     == Min(queue)
        from  == i + CountUpTo(acc.bit, o - p)
    IN  IF queue = {}
        THEN [acc EXCEPT !.out = Append(@, InsertChild(path, i, FromVNode[new[i]]))]
        ELSE [left  |-> acc.left \ {o},
              bit   |-> Added(acc.bit, o - p, -1),
              out   |-> Append(acc.out, MoveChild(path, from, i)),
              pairs |-> Append(acc.pairs, <<o, i>>)]

(* One round of the matching loop, for the new child i: `left' are the old  *)
(* children not matched yet, which sit behind the frontier in their old     *)
(* order, so the one matched is at i plus the number of those before it,    *)
(* which `bit' counts.                                                      *)
Matched(old, new, path, p, acc, i) ==
    LET queue == {o \in acc.left : Reusable(old[o], new[i])}
        o     == Min(queue)
        from  == i + CountUpTo(acc.bit, o - p - 1)
    IN  IF queue = {}
        THEN [acc EXCEPT !.out = Append(@, InsertChild(path, i, FromVNode[new[i]]))]
        ELSE [left  |-> acc.left \ {o},
              bit   |-> Added(acc.bit, o - p, -1),
              out   |-> IF from = i THEN acc.out
                                    ELSE Append(acc.out, MoveChild(path, from, i)),
              pairs |-> Append(acc.pairs, <<o, i>>)]

(* The children behind the reusable prefix: structure first, then content.  *)
Matching(old, new, path) ==
    LET p == Prefix(old, new)
        acc[i \in p .. Len(new)] ==
            IF i = p
            THEN [left |-> p + 1 .. Len(old), bit |-> NewBit(Len(old) - p), out |-> <<>>,
                  pairs |-> [n \in 1 .. p |-> <<n, n>>]]
            ELSE Matched(old, new, path, p, acc[i - 1], i)
    IN  acc[Len(new)]

(* The content of the matched children, each diffed at its new place; diff  *)
(* is the recursive call.                                                   *)
DiffPairs(diff, old, new, path, pairs) ==
    FlattenSeq([n \in DOMAIN pairs |->
        diff[<<old[pairs[n][1]], new[pairs[n][2]], Append(path, pairs[n][2])>>]])

DiffChildrenPositional(diff, old, new, path) ==
    LET shared == Min({Len(old), Len(new)})
    IN  DiffPairs(diff, old, new, path, [i \in 1 .. shared |-> <<i, i>>])
          \o (IF Len(new) > shared
              THEN <<AppendChildren(path, Snapshots(SubSeq(new, shared + 1, Len(new))))>>
              ELSE IF Len(old) > shared
              THEN <<TruncateChildren(path, shared)>> ELSE <<>>)

DiffChildrenKeyed(diff, old, new, path) ==
    LET p == Prefix(old, new)
        m == Matching(old, new, path)
    IN  DiffPairs(diff, old, new, path, SubSeq(m.pairs, 1, p))
          \o m.out
          \o (IF m.left # {} THEN <<TruncateChildren(path, Len(new))>> ELSE <<>>)
          \o DiffPairs(diff, old, new, path, SubSeq(m.pairs, p + 1, Len(m.pairs)))

DiffNode(diff, a, b, path) ==
    IF a.tag # b.tag THEN <<Replace(path, FromVNode[b])>>
    ELSE IF IsText(a) THEN IF a.text = b.text THEN <<>> ELSE <<SetText(path, b.text)>>
    ELSE DiffAttrs(a.attrs, b.attrs, path)
           \o (IF HasKeys(a.kids) \/ HasKeys(b.kids)
               THEN DiffChildrenKeyed(diff, a.kids, b.kids, path)
               ELSE DiffChildrenPositional(diff, a.kids, b.kids, path))

(* diff_node, called with a tree, the one rendered after it, and a path.    *)
Calls == VNodes \X VNodes \X Seq(Nat)

Diff[c \in Calls] == DiffNode(Diff, c[1], c[2], c[3])

-----------------------------------------------------------------------------
(* The places, before the turn, of the root's children: 0 for a node made   *)
(* since.                                                                   *)
Traced(places, p) ==
    CASE p.path = <<>> /\ p.op = "replace" -> [i \in DOMAIN p.node.kids |-> 0]
      [] p.path = <<>> /\ p.op # "replace" ->
            Rearranged(places, p, [i \in DOMAIN Brought(p) |-> 0])
      [] Len(p.path) = 1 /\ p.op = "replace" -> [places EXCEPT ![p.path[1]] = 0]
      [] OTHER -> places

-----------------------------------------------------------------------------
(* One turn: the tree old is on the screen, new has been rendered, and the  *)
(* patches are applied in order.  `was' is a ghost: which DOM node a child  *)
(* of the root is.                                                          *)
VARIABLES old, new, dom, was, todo

diffVars == <<old, new, dom, was, todo>>

Begin(before, after) ==
    /\ old = before
    /\ new = after
    /\ dom = FromVNode[old]
    /\ was = [i \in DOMAIN old.kids |-> i]
    /\ todo = Diff[<<old, new, <<>>>>]

TreeDiffInit == \E turn \in Turns : Begin(turn[1], turn[2])

Apply ==
    /\ todo # <<>>
    /\ Fits(dom, Head(todo))
    /\ dom' = Changed(dom, Head(todo))
    /\ was' = Traced(was, Head(todo))
    /\ todo' = Tail(todo)
    /\ UNCHANGED <<old, new>>

TreeDiffSpec == TreeDiffInit /\ [][Apply]_diffVars

-----------------------------------------------------------------------------
(* Every patch fits the DOM the patches before it have left: no path leads  *)
(* nowhere, and "the diff guarantees from > to" (patch.rs 78, zumar.js 235).*)
PatchesFit == todo # <<>> => Fits(dom, Head(todo))

(* When the patches have been applied the screen shows the new tree.        *)
ScreenShowsTree == todo = <<>> => dom = FromVNode[new]

(* An element whose key its parent has once before and once after the turn, *)
(* with the same tag, is the same DOM node, wherever it has moved: focus,   *)
(* scroll and typed text survive a reorder.                                 *)
KeyedNodesSurvive ==
    todo = <<>> /\ old.tag = new.tag =>
        \A i \in DOMAIN old.kids, j \in DOMAIN new.kids :
            /\ old.kids[i].key # NoKey
            /\ old.kids[i].key = new.kids[j].key
            /\ old.kids[i].tag = new.kids[j].tag
            /\ \A k \in DOMAIN old.kids \ {i} : old.kids[k].key # old.kids[i].key
            /\ \A k \in DOMAIN new.kids \ {j} : new.kids[k].key # new.kids[j].key
            => was[j] = i
=============================================================================
