------------------------------- MODULE Patch --------------------------------
(***************************************************************************)
(* The patches of crates/zumar-core/src/patch.rs, and apply in             *)
(* www/zumar.js, which carries them out on the DOM one at a time.          *)
(* Children are numbered from 1 here.                                      *)
(***************************************************************************)
EXTENDS Integers, FiniteSetsExt, SequencesExt

(* A node of the DOM has a tag, attributes, text and children.              *)
TextTag == "#text"
IsText(v) == v.tag = TextTag

(* The patches, with what they bring.                                       *)
Replace(path, v) == [op |-> "replace", path |-> path, node |-> v]
SetText(path, s) == [op |-> "setText", path |-> path, text |-> s]
SetAttr(path, n, x) == [op |-> "setAttr", path |-> path, name |-> n, value |-> x]
RemoveAttr(path, n) == [op |-> "removeAttr", path |-> path, name |-> n]
AppendChildren(path, vs) == [op |-> "appendChildren", path |-> path, nodes |-> vs]
TruncateChildren(path, n) == [op |-> "truncateChildren", path |-> path, len |-> n]
InsertChild(path, i, v) == [op |-> "insertChild", path |-> path, index |-> i, node |-> v]
MoveChild(path, i, j) == [op |-> "moveChild", path |-> path, from |-> i, to |-> j]

-----------------------------------------------------------------------------
(* nodeAt: the nodes on the way, whether there is one at the end, and which *)
(* it is.                                                                   *)
Way(d, path) ==
    LET node[k \in 0 .. Len(path)] == IF k = 0 THEN d ELSE node[k - 1].kids[path[k]]
    IN  node

HasNode(d, path) == \A k \in 1 .. Len(path) : path[k] \in DOMAIN Way(d, path)[k - 1].kids

NodeAt(d, path) == Way(d, path)[Len(path)]

(* The node n with other children.                                          *)
Holding(n, kids) == [tag |-> n.tag, attrs |-> n.attrs, text |-> n.text, kids |-> kids]

(* The tree d with n in place of the node at path.                          *)
With(d, path, n) ==
    LET up[k \in 0 .. Len(path)] ==
            IF k = 0 THEN n
            ELSE LET parent == Way(d, path)[Len(path) - k]
                 IN  Holding(parent, [parent.kids EXCEPT ![path[Len(path) - k + 1]] = up[k - 1]])
    IN  up[Len(path)]

Without(f, x) == [y \in DOMAIN f \ {x} |-> f[y]]
Updated(f, x, v) == [y \in DOMAIN f \cup {x} |-> IF y = x THEN v ELSE f[y]]

(* What a patch does to a list of children, fresh being those it brings.    *)
Rearranged(kids, p, fresh) ==
    CASE p.op = "appendChildren" -> kids \o fresh
      [] p.op = "truncateChildren" -> SubSeq(kids, 1, Min({p.len, Len(kids)}))
      [] p.op = "insertChild" -> InsertAt(kids, Min({p.index, Len(kids) + 1}), fresh[1])
      [] p.op = "moveChild" -> InsertAt(RemoveAt(kids, p.from), p.to, kids[p.from])
      [] OTHER -> kids

Brought(p) ==
    CASE p.op = "appendChildren" -> p.nodes
      [] p.op = "insertChild" -> <<p.node>>
      [] OTHER -> <<>>

(* One case of the switch in apply: the node n after the patch p.           *)
Patched(n, p) ==
    CASE p.op = "replace" -> p.node
      [] p.op = "setText" -> [n EXCEPT !.text = p.text]
      [] p.op = "setAttr" -> [n EXCEPT !.attrs = Updated(@, p.name, p.value)]
      [] p.op = "removeAttr" -> [n EXCEPT !.attrs = Without(@, p.name)]
      [] OTHER -> Holding(n, Rearranged(n.kids, p, Brought(p)))

(* The patch finds the node it speaks of, of the kind it expects, and its   *)
(* indices are in range; a move goes from the right to the left.            *)
Suits(n, p) ==
    CASE p.op = "replace" -> TRUE
      [] p.op = "setText" -> IsText(n)
      [] p.op = "setAttr" -> ~ IsText(n)
      [] p.op = "removeAttr" -> ~ IsText(n) /\ p.name \in DOMAIN n.attrs
      [] p.op = "appendChildren" -> ~ IsText(n) /\ p.nodes # <<>>
      [] p.op = "truncateChildren" -> ~ IsText(n) /\ p.len < Len(n.kids)
      [] p.op = "insertChild" -> ~ IsText(n) /\ p.index \in 1 .. Len(n.kids) + 1
      [] p.op = "moveChild" ->
            ~ IsText(n) /\ p.to \in 1 .. p.from - 1 /\ p.from \in DOMAIN n.kids

Fits(d, p) == HasNode(d, p.path) /\ Suits(NodeAt(d, p.path), p)

Changed(d, p) == With(d, p.path, Patched(NodeAt(d, p.path), p))
=============================================================================
