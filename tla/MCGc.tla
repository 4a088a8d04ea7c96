-------------------------------- MODULE MCGc --------------------------------
(* A to-do page on the GC backend: a title that clears the list, a region   *)
(* with a handler on the item and one on a button in it, an input; two      *)
(* delays and a fetch, two intervals.                                       *)
EXTENDS GcPage

Todo(title, items, live) == [title |-> title, items |-> items, live |-> live]

MCModels ==
    {Todo("empty", <<>>, "no"),
     Todo("one", <<"x">>, "yes"),
     Todo("two", <<"y", "x">>, "yes")}

Silent == Const("no argument")

MCTemplate ==
    Node("div", [class |-> Field("live")], <<On("click", "Clear", Silent)>>,
         <<Node("h1", <<>>, <<>>, <<TextNode(Field("title")), TextNode(Const("!"))>>),
           Region("ul", [class |-> Const("list"), title |-> Field("title")],
                  <<On("click", "Clear", Field("title"))>>, "items",
                  Node("li", [class |-> Item], <<On("click", "Pick", Item)>>,
                       <<TextNode(Item),
                         Node("button", <<>>, <<On("click", "Drop", Item)>>,
                              <<TextNode(Const("x"))>>)>>)),
           Node("input", [value |-> Field("title")], <<On("input", "Typed", Input)>>, <<>>)>>)

MCMsgs == {"Clear", "Pick", "Drop", "Typed", "Late", "Tick"}
MCHandlerMsgs == {"Clear", "Pick", "Drop", "Typed"}

MCSiteKind == <<"timeout", "fetch", "timeout">>
SiteKindOf == [s \in 0 .. 2 |-> MCSiteKind[s + 1]]
SiteMsgOf == [s \in 0 .. 2 |-> "Late"]

ArmSitesOf == [m \in MCMsgs |-> CASE m = "Pick" -> <<1, 2>>
                                  [] m = "Typed" -> <<2>>
                                  [] OTHER -> <<>>]
InitSitesOf == <<0>>

SubKeyOf == [s \in 0 .. 1 |-> IF s = 0 THEN "every100" ELSE "every1000"]
SubMsgOf == [s \in 0 .. 1 |-> "Tick"]

(* The instance is one the properties are about.                            *)
ASSUME InstanceAssumption == NoWrap /\ DistinctKeys /\ OneHandlerPerEvent
WantedOf == [m \in MCModels |-> IF m.live = "no" THEN {0}
                                ELSE IF m.title = "one" THEN {0, 1} ELSE {1}]

-----------------------------------------------------------------------------
Kids(ts) == UNION {Range(t.kids) : t \in ts}

MCParts ==
    LET top == Kids({MCTemplate})
        mid == Kids(top)
        low == Kids(mid)
    IN  {MCTemplate} \cup top \cup mid \cup low \cup Kids(low)

MCBodies ==
    LET top == {t.kids[1] : t \in {u \in MCParts : IsRegion(u)}}
    IN  top \cup Kids(top) \cup Kids(Kids(top))

MCHeight[t \in MCParts] == Max({0} \cup {MCHeight[t.kids[i]] + 1 : i \in DOMAIN t.kids})

MCItems == UNION {Range(m.items) : m \in MCModels}
=============================================================================
