------------------------------- MODULE GcView -------------------------------
(***************************************************************************)
(* What crates/zumar-wasmgc makes of the view of a .zu program: a plan of  *)
(* patches and a table of handlers, both fixed when the program is         *)
(* compiled, where the runtime renders, diffs and looks a listener up.     *)
(*                                                                         *)
(* A template is a text or an element.  An element has its attributes,     *)
(* name |-> expression, the handlers written on it, in order, and children;*)
(* if `each' names a list of the model, it is a region, whose children are *)
(* one copy of the only child per item.  Children are numbered from 1.     *)
(***************************************************************************)
EXTENDS Patch

CONSTANTS
    Parts,    \* the templates of the program, and all their parts
    Height,   \* of a template: each of its parts is less high
    Bodies,   \* the parts that are in the body of a region
    Items     \* what the lists of the model may hold

NoList == "none"

(* Expressions, and what they come to in the model m for an item.           *)
Const(x) == [of |-> "const", is |-> x]
Field(f) == [of |-> "field", is |-> f]
Item == [of |-> "item", is |-> "itself"]
Input == [of |-> "input", is |-> "value"]   \* what the event carries

NoItem == "no item"

Value(e, m, item) ==
    CASE e.of = "field" -> m[e.is]
      [] e.of = "item"  -> item
      [] OTHER          -> e.is

On(event, msg, arg) == [event |-> event, msg |-> msg, arg |-> arg]

TextNode(e) ==
    [tag |-> TextTag, text |-> e, attrs |-> <<>>, on |-> <<>>, each |-> NoList, kids |-> <<>>]
Node(tag, attrs, on, kids) ==
    [tag |-> tag, text |-> Const(""), attrs |-> attrs, on |-> on, each |-> NoList, kids |-> kids]
Region(tag, attrs, on, list, body) ==
    [Node(tag, attrs, on, <<body>>) EXCEPT !.each = list]

IsRegion(t) == t.each # NoList

(* Templates are finite, an attribute is written once, and there is no      *)
(* region in a region: the emitter refuses it.                              *)
ASSUME ViewAssumption ==
    /\ \A t \in Parts :
          /\ t.attrs = [n \in DOMAIN t.attrs |-> t.attrs[n]]
          /\ IsFiniteSet(DOMAIN t.attrs)
          /\ IsText(t) => t = TextNode(t.text)
          /\ ~ IsText(t) => t.text = Const("")
          /\ DOMAIN t.on = 1 .. Len(t.on) /\ Len(t.on) \in Nat
          /\ t.on = [n \in DOMAIN t.on |-> On(t.on[n].event, t.on[n].msg, t.on[n].arg)]
          /\ IsRegion(t) => Len(t.kids) = 1 /\ t.kids[1] \in Bodies
          /\ t.kids \in Seq(Parts)
          /\ \A i \in DOMAIN t.kids : Height[t.kids[i]] < Height[t]
    /\ Height \in [Parts -> Nat]
    /\ Bodies \subseteq Parts
    /\ \A t \in Bodies : ~ IsRegion(t) /\ \A i \in DOMAIN t.kids : t.kids[i] \in Bodies

(* With two handlers for one event on one element the backends part: the    *)
(* first of the table wins, and the last the element was given.             *)
OneHandlerPerEvent ==
    \A t \in Parts : \A a, b \in DOMAIN t.on : t.on[a].event = t.on[b].event => a = b

(* What is rendered: a template, for an item of the region it is in.        *)
Calls == Parts \X (Items \cup {NoItem})

(* The calls for the children.                                              *)
Copies(c, m) ==
    LET t == c[1]
    IN  IF IsRegion(t) THEN [k \in DOMAIN m[t.each] |-> <<t.kids[1], m[t.each][k]>>]
        ELSE [i \in DOMAIN t.kids |-> <<t.kids[i], c[2]>>]

AttrValues(c, m) == [n \in DOMAIN c[1].attrs |-> Value(c[1].attrs[n], m, c[2])]

-----------------------------------------------------------------------------
(* The tree the code generated for the runtime builds, with its listeners   *)
(* and their messages; view are the recursive calls.                        *)
ViewOf(view, c, m) ==
    [tag   |-> c[1].tag,
     text  |-> Value(c[1].text, m, c[2]),
     attrs |-> AttrValues(c, m),
     on    |-> [n \in DOMAIN c[1].on |->
                  [c[1].on[n] EXCEPT !.arg = Value(c[1].on[n].arg, m, c[2])]],
     kids  |-> [i \in DOMAIN Copies(c, m) |-> view[Copies(c, m)[i]]]]

Views(m) == LET view[c \in Calls] == ViewOf(view, c, m) IN view

View(t, m) == Views(m)[<<t, NoItem>>]

NoMessage == <<>>

(* The last listener for the event that an element was given.               *)
Listener(v, event, best) ==
    LET mine == {n \in DOMAIN v.on : v.on[n].event = event}
    IN  IF mine = {} THEN best
        ELSE LET l == v.on[Max(mine)] IN <<l.msg, l.arg>>

(* find_listener: the last one on the way, which ends where the tree does.  *)
FindListener(v, path, event) ==
    LET best[k \in 0 .. Len(path)] ==
            LET above == IF k = 0 THEN NoMessage ELSE best[k - 1]
                way   == SubSeq(path, 1, k)
            IN  IF HasNode(v, way) THEN Listener(NodeAt(v, way), event, above) ELSE above
    IN  best[Len(path)]

-----------------------------------------------------------------------------
(* The nodes init writes, and a region's function: what the shim builds of  *)
(* them.                                                                    *)
TreeOf(tree, c, m) ==
    [tag   |-> c[1].tag,
     text  |-> Value(c[1].text, m, c[2]),
     attrs |-> AttrValues(c, m),
     kids  |-> [i \in DOMAIN Copies(c, m) |-> tree[Copies(c, m)[i]]]]

Trees(m) == LET tree[c \in Calls] == TreeOf(tree, c, m) IN tree

Tree(t, m) == Trees(m)[<<t, NoItem>>]

(* What is noted down for patches(): a DynText, a DynAttr, a Region.        *)
DynText(path, e) == [path |-> path, expr |-> e]
DynAttr(path, n, e) == [path |-> path, name |-> n, expr |-> e]
RegionAt(path, t) == [path |-> path, node |-> t]

Dynamic(e) == e.of # "const"

(* Mutant: a dynamic attribute is written once, by init.                    *)
AttrSitesNone(t, path) == <<>>

AttrSites(t, path) ==
    LET names == SetToSeq({n \in DOMAIN t.attrs : Dynamic(t.attrs[n])})
    IN  [i \in DOMAIN names |-> DynAttr(path, names[i], t.attrs[names[i]])]

(* walk, for one of its three lists, in the order of the tree; sites are    *)
(* the recursive calls.                                                     *)
Own(list, t, path) ==
    CASE list = "texts"   -> IF IsText(t) /\ Dynamic(t.text) THEN <<DynText(path, t.text)>> ELSE <<>>
      [] list = "attrs"   -> IF IsText(t) \/ IsRegion(t) THEN <<>> ELSE AttrSites(t, path)
      [] list = "regions" -> IF IsRegion(t) THEN <<RegionAt(path, t)>> ELSE <<>>

SitesOf(sites, list, t, path) ==
    Own(list, t, path)
      \o IF IsRegion(t) THEN <<>>
         ELSE FlattenSeq([i \in DOMAIN t.kids |-> sites[<<list, t.kids[i], Append(path, i)>>]])

Walks == {"texts", "attrs", "regions"} \X Parts \X Seq(Nat)

Sites[w \in Walks] == SitesOf(Sites, w[1], w[2], w[3])

Plan(t) ==
    [texts   |-> Sites[<<"texts", t, <<>>>>],
     attrs   |-> Sites[<<"attrs", t, <<>>>>],
     regions |-> Sites[<<"regions", t, <<>>>>]]

(* patches(): all of them on every update, texts before attributes before   *)
(* regions, with the values of m.                                           *)
TextPatches(sites, m) ==
    [i \in DOMAIN sites |-> SetText(sites[i].path, Value(sites[i].expr, m, NoItem))]
AttrPatches(sites, m) ==
    [i \in DOMAIN sites |->
        SetAttr(sites[i].path, sites[i].name, Value(sites[i].expr, m, NoItem))]
RegionPatches(sites, m) ==
    [i \in DOMAIN sites |-> Replace(sites[i].path, Tree(sites[i].node, m))]

Patches(plan, m) ==
    TextPatches(plan.texts, m) \o AttrPatches(plan.attrs, m) \o RegionPatches(plan.regions, m)

(* apply, the patches in order.                                             *)
Applied(d, patches) ==
    LET after[n \in 0 .. Len(patches)] ==
            IF n = 0 THEN d ELSE Changed(after[n - 1], patches[n])
    IN  after[Len(patches)]

-----------------------------------------------------------------------------
(* A handler of the table: `prefix' leads to the element, or, with a list,  *)
(* to the region, whose item is the next step and `suffix' the rest.        *)
StaticHandlers(t, path) ==
    [n \in DOMAIN t.on |->
        [on |-> t.on[n], prefix |-> path, list |-> NoList, suffix |-> <<>>]]

Places == Parts \X Seq(Nat)

(* The calls for the children, at their places.                             *)
Below(calls, c) == FlattenSeq([i \in DOMAIN c[1].kids |-> calls[<<c[1].kids[i], Append(c[2], i)>>]])

(* collect_body_handlers, for the region of a list at prefix.               *)
CollectedOf(collected, c) ==
    [n \in DOMAIN c[1].on |-> [on |-> c[1].on[n], suffix |-> c[2]]] \o Below(collected, c)

Collected[c \in Places] == CollectedOf(Collected, c)

BodyHandlers(body, prefix, list) ==
    LET found == Collected[<<body, <<>>>>]
    IN  [n \in DOMAIN found |->
            [on |-> found[n].on, prefix |-> prefix, list |-> list, suffix |-> found[n].suffix]]

(* What walk collects.                                                      *)
HandlersOf(handlers, c) ==
    StaticHandlers(c[1], c[2])
      \o IF IsRegion(c[1]) THEN BodyHandlers(c[1].kids[1], c[2], c[1].each) ELSE Below(handlers, c)

Handlers[c \in Places] == HandlersOf(Handlers, c)

Specificity(h) ==
    IF h.list = NoList THEN Len(h.prefix) ELSE Len(h.prefix) + 1 + Len(h.suffix)

(* Mutant: the table is left in the order of the tree.                      *)
TableAsCollected(t) == Handlers[<<t, <<>>>>]

(* The table, sorted by specificity, deepest first; the sort is stable.     *)
Before(hs, a, b) ==
    \/ Specificity(hs[a]) > Specificity(hs[b])
    \/ Specificity(hs[a]) = Specificity(hs[b]) /\ a < b

Sorted(hs) ==
    LET place == [b \in DOMAIN hs |-> Cardinality({a \in DOMAIN hs : Before(hs, a, b)}) + 1]
    IN  [i \in DOMAIN hs |-> hs[CHOOSE b \in DOMAIN hs : place[b] = i]]

Table(t) == Sorted(Handlers[<<t, <<>>>>])

(* The step of the path that says which item of the region was meant.       *)
ItemStep(h) == Len(h.prefix) + 1

(* The comparisons of dispatch, in the model m the event finds.             *)
Matches(h, path, event, m) ==
    /\ h.on.event = event
    /\ Specificity(h) <= Len(path)
    /\ IsPrefix(h.prefix, path)
    /\ h.list # NoList =>
          /\ SubSeq(path, ItemStep(h) + 1, Specificity(h)) = h.suffix
          /\ path[ItemStep(h)] \in DOMAIN m[h.list]

(* The message dispatch makes of an event, and its argument, evaluated in m *)
(* with the item the path leads to.                                         *)
Dispatched(table, path, event, m) ==
    LET hits == {i \in DOMAIN table : Matches(table[i], path, event, m)}
    IN  IF hits = {} THEN NoMessage
        ELSE LET h == table[Min(hits)]
                 item == IF h.list = NoList THEN NoItem ELSE m[h.list][path[ItemStep(h)]]
             IN  <<h.on.msg, Value(h.on.arg, m, item)>>

(* The paths to the nodes of a tree, down to a depth.                       *)
Paths(d, depth) ==
    LET level[n \in 0 .. depth] ==
            IF n = 0 THEN {<<>>}
            ELSE UNION {{Append(p, i) : i \in DOMAIN NodeAt(d, p).kids} : p \in level[n - 1]}
    IN  UNION {level[n] : n \in 0 .. depth}
=============================================================================
