------------------------------ MODULE LiveTurn -------------------------------
(***************************************************************************)
(* One turn of a live page: the first render and an update cross the socket *)
(* as bytes, the patches are applied, and then the page says something back *)
(* - an event on a node of the screen, a command's completion, a tick -     *)
(* which the server takes apart and resolves in the tree it has rendered.   *)
(* TreeDiff is what happens to the trees in between.                        *)
(***************************************************************************)
EXTENDS Wire, Frame

CONSTANTS
    Sessions,   \* the turns whose messages are followed too: two trees, and what is requested
    Payloads,   \* what an event may bring along
    Now         \* milliseconds since the epoch

VARIABLES
    tail,     \* the commands and subscriptions of the update
    page,     \* what the page has learned besides the tree
    stage,    \* "rendered", "mounted", "received", "said"
    said,     \* the frame the page has sent
    heard     \* what the server makes of it

turnVars == <<old, new, dom, was, todo, tail, page, stage, said, heard>>

Id == 0 .. MaxU32

Request == [cmds : Seq(Cmd(Id)), subs : Seq(SubDelta(Id))]

-----------------------------------------------------------------------------
(* A Listener: the message it makes, the slot of the payload it takes.      *)
Simple == "nothing"
Listener(msg, takes, prevent) == [msg |-> msg, takes |-> takes, prevent |-> prevent]
Listening(v, on) == [v EXCEPT !.on = on]

(* Handler::resolve: what is missing is empty, or false.                    *)
Given(payload, slot) ==
    IF slot \in DOMAIN payload THEN payload[slot] ELSE IF slot = "checked" THEN FALSE ELSE ""

Msg(listener, payload) ==
    [msg |-> listener.msg,
     arg |-> IF listener.takes = Simple THEN Simple ELSE Given(payload, listener.takes)]

(* collect_events: every name, with preventDefault if a listener has it.    *)
Heeded[v \in VNodes] ==
    {<<name, v.on[name].prevent>> : name \in DOMAIN v.on}
    \cup UNION {Heeded[v.kids[i]] : i \in DOMAIN v.kids}

CollectEvents(v) ==
    LET names == SetToSeq({pair[1] : pair \in Heeded[v]})
    IN  [i \in DOMAIN names |-> EventSpec(names[i], <<names[i], TRUE>> \in Heeded[v])]

(* find_listener: the last one on the way, {} if there is none.             *)
ListenerAt(v, event, best) == IF event \in DOMAIN v.on THEN {v.on[event]} ELSE best

(* Mutant: the first one on the way.                                        *)
FindOutermost(root, path, event) ==
    LET best[k \in 0 .. Len(path)] ==
            LET above == IF k = 0 THEN {} ELSE best[k - 1]
                way   == SubSeq(path, 1, k)
            IN  IF above = {} /\ HasNode(root, way)
                THEN ListenerAt(NodeAt(root, way), event, above) ELSE above
    IN  best[Len(path)]

FindListener(root, path, event) ==
    LET best[k \in 0 .. Len(path)] ==
            LET above == IF k = 0 THEN {} ELSE best[k - 1]
                way   == SubSeq(path, 1, k)
            IN  IF HasNode(root, way) THEN ListenerAt(NodeAt(root, way), event, above) ELSE above
    IN  best[Len(path)]

-----------------------------------------------------------------------------
Nothing == [cmds |-> <<>>, subs |-> <<>>]
NoTail == [events |-> <<>>, cmds |-> <<>>, subs |-> <<>>]

TailOf(tree, what) == [events |-> CollectEvents(tree), cmds |-> what.cmds, subs |-> what.subs]

Silence == [kind |-> "silence"]

(* A response, or its absence: ok: false, status: 0, body: "".              *)
Statuses == {<<TRUE, 200>>, <<FALSE, 404>>, <<FALSE, 0>>}
Body == "b"

(* What stands for a message that cannot be decoded.                                 *)
Lost == [patches |-> <<>>, root |-> SerText(Garbled), tail |-> NoTail]

Message(out) == IF out = <<>> THEN Lost ELSE out[1]

(* A list has no more items than a number can say, and a list of children   *)
(* no more than an index; ids are u32.                                      *)
ASSUME TurnsFit ==
    /\ {MaxU32, MaxU16, Now} \subseteq Number
    /\ \A v \in VNodes :
          /\ Len(v.kids) <= MaxU32
          /\ DOMAIN v.on \subseteq String /\ IsFiniteSet(DOMAIN v.on)
          /\ \A name \in DOMAIN v.on : v.on[name].prevent \in BOOLEAN
    /\ Sessions \subseteq VNodes \X VNodes \X Request
    /\ \A s \in Sessions :
          {Len(Diff[<<s[1], s[2], <<>>>>]), Len(CollectEvents(s[1])), Len(CollectEvents(s[2])),
           Len(s[3].cmds), Len(s[3].subs)} \subseteq Number
    /\ \A payload \in Payloads :
          /\ payload = [slot \in DOMAIN payload |-> payload[slot]]
          /\ DOMAIN payload \subseteq {"value", "checked", "key"}
          /\ \A slot \in DOMAIN payload :
                payload[slot] \in IF slot = "checked" THEN BOOLEAN ELSE String
    /\ \A s \in Statuses : s[1] \in BOOLEAN /\ s[2] \in 0 .. MaxU16
    /\ {"", Body} \subseteq String

LiveTurnInit ==
    /\ \/ TreeDiffInit /\ tail = Nothing /\ stage = "received"
       \/ \E s \in Sessions : Begin(s[1], s[2]) /\ tail = s[3] /\ stage = "rendered"
    /\ page = NoTail
    /\ said = Silence
    /\ heard = Silence

(* decodeInit, and create.                                                  *)
SentRender == InitBytes(FromVNode[old], TailOf(old, Nothing))

Mounted(message) ==
    /\ stage' = "mounted"
    /\ dom' = message.root
    /\ was' = [i \in DOMAIN message.root.kids |-> i]
    /\ page' = message.tail
    /\ UNCHANGED <<old, new, todo, tail, said, heard>>

Mount == stage = "rendered" /\ Mounted(Message(Decoded("init", SentRender)))

(* push(bytes), and decodeUpdate.                                           *)
SentUpdate == UpdateBytes(todo, TailOf(new, tail))

Received(message) ==
    /\ stage' = "received"
    /\ todo' = message.patches
    /\ page' = message.tail
    /\ UNCHANGED <<old, new, dom, was, tail, said, heard>>

Receive == stage = "mounted" /\ Received(Message(Decoded("update", SentUpdate)))

ApplyNext ==
    /\ stage = "received"
    /\ Apply
    /\ UNCHANGED <<tail, page, stage, said, heard>>

-----------------------------------------------------------------------------
(* on_message: the tree the event is resolved in is the one rendered last.  *)
Heard(frame) ==
    CASE frame.kind = "malformed" -> [kind |-> "closed"]
      [] frame.kind = "dispatch" ->
            LET found == FindListener(new, frame.path, frame.name)
            IN  [kind |-> "dispatch", msgs |-> {Msg(l, frame.payload) : l \in found}]
      [] OTHER -> frame

Say(frame) ==
    /\ stage = "received"
    /\ todo = <<>>
    /\ stage' = "said"
    /\ said' = frame
    /\ heard' = Heard(Decode(FrameBytes(frame)))
    /\ UNCHANGED <<old, new, dom, was, todo, tail, page>>

(* pathOf(e.target): the way to an element of the tree on the screen, of no *)
(* more steps than that is high.                                            *)
PathsOf(d, high) ==
    LET paths[n \in 0 .. high] ==
            IF n = 0 THEN {<<>>}
            ELSE UNION {{Append(p, i) : i \in {i \in DOMAIN NodeAt(d, p).kids :
                                                 ~ IsText(NodeAt(d, p).kids[i])}}
                        : p \in paths[n - 1]}
    IN  UNION {paths[n] : n \in 0 .. high}

(* The names the page listens to: nothing takes them back.                  *)
Ensured == {pair[1] : pair \in Heeded[old] \cup Heeded[new]}

Fire ==
    \E name \in Ensured : \E path \in PathsOf(dom, Height[new]), payload \in Payloads :
        Say(DispatchFrame(path, name, payload))

Complete ==
    \E i \in DOMAIN page.cmds : \E s \in Statuses :
        Say(ResolveFrame(page.cmds[i].id, s[1], s[2], IF s[2] = 0 THEN "" ELSE Body))

Tick ==
    \E i \in DOMAIN page.subs :
        page.subs[i].op = "start" /\ Say(NotifyFrame(page.subs[i].id, Now))

LiveTurnNext == Mount \/ Receive \/ ApplyNext \/ Fire \/ Complete \/ Tick

LiveTurnSpec == LiveTurnInit /\ [][LiveTurnNext]_turnVars

-----------------------------------------------------------------------------
(* A message arrives as what was sent, in both directions: "Decodes to      *)
(* exactly the shapes the JSON protocol used" (zumar-wire.js 3), "keep in   *)
(* lockstep" (frame.rs 2, zumar-live.js 10, zumar-gc.js 58).  Writer and     *)
(* reader are different code in different languages, and the adapter of an  *)
(* emitted module walks the first message with a third.                     *)
RenderArrives ==
    /\ dom' = FromVNode[old]
    /\ page' = TailOf(old, Nothing)
    /\ PeekEventNames(SentRender) = [i \in DOMAIN page'.events |-> page'.events[i].name]

UpdateArrives ==
    /\ todo' = todo
    /\ page' = TailOf(new, tail)

WireIsLossless ==
    [][/\ stage = "rendered" => RenderArrives
       /\ stage = "mounted" => UpdateArrives
       /\ stage' = "said" /\ said'.kind # "dispatch" => heard' = said']_turnVars

(* An event on an element of the screen becomes the message of the nearest  *)
(* element around it that listens in the tree just rendered, made from what *)
(* the event brought along; no listener, no message.  "a malformed frame is *)
(* an Err": only an event more than MaxPath levels deep is taken for one.   *)
EventReachesItsListener ==
    stage = "said" /\ said.kind = "dispatch" =>
        LET Around(n) == NodeAt(new, SubSeq(said.path, 1, n))
            listening == {n \in 0 .. Len(said.path) : said.name \in DOMAIN Around(n).on}
        IN  IF Len(said.path) > MaxPath THEN heard.kind = "closed"
            ELSE heard.kind = "dispatch" /\ heard.msgs =
                    IF listening = {} THEN {}
                    ELSE {Msg(Around(Max(listening)).on[said.name], said.payload)}
=============================================================================
