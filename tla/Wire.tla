-------------------------------- MODULE Wire ---------------------------------
(***************************************************************************)
(* What a Program sends to its page, as bytes: to_bytes of InitialRender    *)
(* and Update in crates/zumar-runtime/src/wire.rs, decodeInit and           *)
(* decodeUpdate in www/zumar-wire.js, and peekEventNames in                 *)
(* www/zumar-gc.js.  Children are numbered from 1 in TreeDiff and from 0    *)
(* in the messages.                                                         *)
(***************************************************************************)
EXTENDS Codec, TreeDiff

WireVersion == 1

(* SerNode.                                                                 *)
SerText(s) == [tag |-> TextTag, attrs |-> <<>>, text |-> s, kids |-> <<>>]
SerEl(tag, attrs, kids) == [tag |-> tag, attrs |-> attrs, text |-> "", kids |-> kids]

(* EventSpec, CmdSpec, SubSpec, SubDelta.                                   *)
EventSpec(name, prevent) == [name |-> name, preventDefault |-> prevent]
Delay(ms) == [kind |-> "delay", ms |-> ms]
HttpGet(url) == [kind |-> "httpGet", url |-> url]
Publish(topic, message) == [kind |-> "publish", topic |-> topic, message |-> message]
HttpPost(url, body) == [kind |-> "httpPost", url |-> url, body |-> body]
Every(ms) == [kind |-> "every", ms |-> ms]
Topic(name) == [kind |-> "topic", name |-> name]
CmdOut(id, spec) == [id |-> id, spec |-> spec]
Start(id, spec) == [op |-> "start", id |-> id, spec |-> spec]
Stop(id) == [op |-> "stop", id |-> id]

-----------------------------------------------------------------------------
(* What trees are made of can be sent, and numbers can say how many         *)
(* attributes a node has, and how many children two nodes have.             *)
String == DOMAIN Utf8

ASSUME TreesFit ==
    \A v \in VNodes :
        /\ IF IsText(v) THEN v.text \in String ELSE v.tag \in String
        /\ \A n \in DOMAIN v.attrs : n \in String /\ v.attrs[n] \in String
        /\ {Cardinality(DOMAIN v.attrs), 2 * Len(v.kids), Height[v]} \subseteq Number

(* What is asked for.                                                       *)
CmdSpec ==
    [kind : {"delay"}, ms : Number] \cup [kind : {"httpGet"}, url : String]
    \cup [kind : {"publish"}, topic : String, message : String]
    \cup [kind : {"httpPost"}, url : String, body : String]
SubSpec == [kind : {"every"}, ms : Number] \cup [kind : {"topic"}, name : String]
Cmd(ids) == [id : ids, spec : CmdSpec]
SubDelta(ids) == [op : {"start"}, id : ids, spec : SubSpec] \cup [op : {"stop"}, id : ids]

-----------------------------------------------------------------------------
(* to_bytes.                                                                *)
PathBytes(path) == Counted([i \in DOMAIN path |-> Varint[path[i] - 1]])

AttrsBytes(attrs) ==
    LET names == SetToSeq(DOMAIN attrs)
    IN  Counted([i \in DOMAIN names |-> Str(names[i]) \o Str(attrs[names[i]])])

(* The nodes of a tree and of all its parts.                                *)
SerNodes == {FromVNode[v] : v \in VNodes}

NodeBytes[n \in SerNodes] ==
    IF IsText(n) THEN <<0>> \o Str(n.text)
    ELSE <<1>> \o Str(n.tag) \o AttrsBytes(n.attrs)
               \o Counted([i \in DOMAIN n.kids |-> NodeBytes[n.kids[i]]])

NodesBytes(nodes) == Counted([i \in DOMAIN nodes |-> NodeBytes[nodes[i]]])

PatchBytes(p) ==
    CASE p.op = "replace" -> <<0>> \o PathBytes(p.path) \o NodeBytes[p.node]
      [] p.op = "setText" -> <<1>> \o PathBytes(p.path) \o Str(p.text)
      [] p.op = "setAttr" -> <<2>> \o PathBytes(p.path) \o Str(p.name) \o Str(p.value)
      [] p.op = "removeAttr" -> <<3>> \o PathBytes(p.path) \o Str(p.name)
      [] p.op = "appendChildren" -> <<4>> \o PathBytes(p.path) \o NodesBytes(p.nodes)
      [] p.op = "truncateChildren" -> <<5>> \o PathBytes(p.path) \o Varint[p.len]
      [] p.op = "insertChild" ->
            <<6>> \o PathBytes(p.path) \o Varint[p.index - 1] \o NodeBytes[p.node]
      [] p.op = "moveChild" ->
            <<7>> \o PathBytes(p.path) \o Varint[p.from - 1] \o Varint[p.to - 1]

EventBytes(e) == Str(e.name) \o <<IF e.preventDefault THEN 1 ELSE 0>>

CmdBytes(c) ==
    Varint[c.id] \o
    CASE c.spec.kind = "delay" -> <<0>> \o Varint[c.spec.ms]
      [] c.spec.kind = "httpGet" -> <<1>> \o Str(c.spec.url)
      [] c.spec.kind = "publish" -> <<2>> \o Str(c.spec.topic) \o Str(c.spec.message)
      [] c.spec.kind = "httpPost" -> <<3>> \o Str(c.spec.url) \o Str(c.spec.body)

SubBytes(d) ==
    IF d.op = "stop" THEN <<1>> \o Varint[d.id]
    ELSE <<0>> \o Varint[d.id]
           \o (IF d.spec.kind = "every" THEN <<0>> \o Varint[d.spec.ms] ELSE <<1>> \o Str(d.spec.name))

TailBytes(tail) ==
    Counted([i \in DOMAIN tail.events |-> EventBytes(tail.events[i])])
    \o Counted([i \in DOMAIN tail.cmds |-> CmdBytes(tail.cmds[i])])
    \o Counted([i \in DOMAIN tail.subs |-> SubBytes(tail.subs[i])])

InitBytes(root, tail) == <<WireVersion>> \o NodeBytes[root] \o TailBytes(tail)

UpdateBytes(patches, tail) ==
    <<WireVersion>> \o Counted([i \in DOMAIN patches |-> PatchBytes(patches[i])]) \o TailBytes(tail)

-----------------------------------------------------------------------------
(* The Reader of zumar-wire.js.  A method is known by what it reads; what   *)
(* comes in numbers is preceded by how many there are.                      *)
Many ==
    [path |-> "vu", attrs |-> "attr", nodes |-> "node", patches |-> "patch",
     events |-> "event", cmds |-> "cmd", subs |-> "sub"]

(* What a method reads, if the next byte is tag.                            *)
PatchLayout(tag) ==
    <<"u8", "path">> \o
    CASE tag = 0 -> <<"node">>
      [] tag \in {1, 3} -> <<"str">>
      [] tag = 2 -> <<"str", "str">>
      [] tag = 4 -> <<"nodes">>
      [] tag = 5 -> <<"vu">>
      [] tag = 6 -> <<"vu", "node">>
      [] tag = 7 -> <<"vu", "vu">>
      [] OTHER -> <<"unknown">>

(* Mutant: the reader has not heard of the kind that came last.             *)
SpecLayoutOld(tag) ==
    CASE tag = 0 -> <<"u8", "vu">>
      [] tag = 1 -> <<"u8", "str">>
      [] tag = 2 -> <<"u8", "str", "str">>
      [] OTHER -> <<"unknown">>

SpecLayout(tag) ==
    CASE tag = 0 -> <<"u8", "vu">>
      [] tag = 1 -> <<"u8", "str">>
      [] tag \in {2, 3} -> <<"u8", "str", "str">>
      [] OTHER -> <<"unknown">>

Layout(what, tag) ==
    CASE what = "node" -> IF tag = 0 THEN <<"u8", "str">> ELSE <<"u8", "str", "attrs", "nodes">>
      [] what = "attr" -> <<"str", "str">>
      [] what = "patch" -> PatchLayout(tag)
      [] what = "event" -> <<"str", "u8">>
      [] what = "cmd" -> <<"vu", "cmdSpec">>
      [] what = "cmdSpec" -> SpecLayout(tag)
      [] what = "sub" -> IF tag = 0 THEN <<"u8", "vu", "subSpec">> ELSE <<"u8", "vu">>
      [] what = "subSpec" -> IF tag \in {0, 1} THEN SpecLayout(tag) ELSE <<"unknown">>
      [] what = "tail" -> <<"events", "cmds", "subs">>
      [] what = "init" -> <<"u8", "node", "tail">>
      [] what = "update" -> <<"u8", "patches", "tail">>

(* What it makes of that; of two attributes of one name the last counts.    *)
AttrsOf(pairs) ==
    [n \in {pairs[i][1] : i \in DOMAIN pairs} |->
        pairs[Max({i \in DOMAIN pairs : pairs[i][1] = n})][2]]

FromZero(path) == [i \in DOMAIN path |-> path[i] + 1]

PatchOf(tag, path, v) ==
    CASE tag = 0 -> Replace(path, v[1])
      [] tag = 1 -> SetText(path, v[1])
      [] tag = 2 -> SetAttr(path, v[1], v[2])
      [] tag = 3 -> RemoveAttr(path, v[1])
      [] tag = 4 -> AppendChildren(path, v[1])
      [] tag = 5 -> TruncateChildren(path, v[1])
      [] tag = 6 -> InsertChild(path, v[1] + 1, v[2])
      [] tag = 7 -> MoveChild(path, v[1] + 1, v[2] + 1)

CmdSpecOf(v) ==
    CASE v[1] = 0 -> Delay(v[2])
      [] v[1] = 1 -> HttpGet(v[2])
      [] v[1] = 2 -> Publish(v[2], v[3])
      [] v[1] = 3 -> HttpPost(v[2], v[3])

MadeOf(what, v) ==
    CASE what = "node" -> IF v[1] = 0 THEN SerText(v[2]) ELSE SerEl(v[2], AttrsOf(v[3]), v[4])
      [] what = "attr" -> v
      [] what = "patch" -> PatchOf(v[1], FromZero(v[2]), SubSeq(v, 3, Len(v)))
      [] what = "event" -> EventSpec(v[1], v[2] = 1)
      [] what = "cmd" -> CmdOut(v[1], v[2])
      [] what = "cmdSpec" -> CmdSpecOf(v)
      [] what = "sub" -> IF v[1] = 0 THEN Start(v[2], v[3]) ELSE Stop(v[2])
      [] what = "subSpec" -> IF v[1] = 0 THEN Every(v[2]) ELSE Topic(v[2])
      [] what = "tail" -> [events |-> v[1], cmds |-> v[2], subs |-> v[3]]
      [] what = "init" -> [root |-> v[2], tail |-> v[3]]
      [] what = "update" -> [patches |-> v[2], tail |-> v[3]]

(* A read: the bytes it leaves, and in out the value it has made of the     *)
(* others.  reads is what the calls further in do.                          *)
Primitive == {"u8", "vu", "str"}

Then(r, q) == [q EXCEPT !.out = r.out \o @]

ReadAll(reads, whats, b) ==
    LET read[k \in 0 .. Len(whats)] ==
            IF k = 0 THEN Reader(b)
            ELSE LET r == read[k - 1]
                 IN  IF r.ok THEN Then(r, reads[<<whats[k], r.b>>]) ELSE r
    IN  read[Len(whats)]

(* What has been read becomes one value.                                    *)
Closed(q, value) == IF q.ok THEN [q EXCEPT !.out = <<value>>] ELSE q

Items(reads, what, n) ==
    IF ~ n.ok THEN n
    ELSE LET q == ReadAll(reads, [i \in 1 .. n.out[1] |-> what], n.b) IN Closed(q, q.out)

Structure(what, q) == IF q.ok THEN Closed(q, MadeOf(what, q.out)) ELSE q

Entered(reads, what, b) ==
    CASE what \in Primitive -> Leaf(what, Reader(b))
      [] what = "unknown" -> Throw(Reader(b))
      [] what \in DOMAIN Many -> Items(reads, Many[what], ReadVu(Reader(b)))
      [] OTHER ->
            IF b = <<>> THEN Throw(Reader(b))
            ELSE Structure(what, ReadAll(reads, Layout(what, b[1]), b))

(* Of a message that is complete a call reads less than the one it is made  *)
(* in, by a byte at least: calls are nested no deeper than there are bytes. *)
Method ==
    Primitive \cup DOMAIN Many
    \cup {"unknown", "node", "attr", "patch", "event", "cmd", "cmdSpec", "sub", "subSpec", "tail",
          "init", "update"}

Read[n \in Nat] ==
    [call \in Method \X Seq(Nat) |->
        IF n = 0 THEN Throw(Reader(call[2])) ELSE Entered(Read[n - 1], call[1], call[2])]

(* decodeInit and decodeUpdate: the message, or none.                       *)
Decoded(what, bytes) ==
    LET r == Read[Len(bytes)][<<what, bytes>>]
    IN  IF r.ok /\ bytes[1] = WireVersion THEN r.out ELSE <<>>

-----------------------------------------------------------------------------
(* peekEventNames: the same message, walked without a look at what is in    *)
(* it up to the events.  b is what the walk has still before it.            *)
VarintEnd(b) == Min({j \in DOMAIN b : b[j] < Radix})
Leading(b) == NumberOf(SubSeq(b, 1, VarintEnd(b)))

Past(b, n) == SubSeq(b, n + 1, Len(b))
PastVu(b) == Past(b, VarintEnd(b))
PastStr[b \in Seq(Nat)] == Past(b, VarintEnd(b) + Leading(b))

PastAll(past, b, n) ==
    LET left[k \in 0 .. n] == IF k = 0 THEN b ELSE past[left[k - 1]] IN left[n]

PastAttr == [b \in Seq(Nat) |-> PastStr[PastStr[b]]]

PastEl(past, b) ==
    LET attrs == PastStr[b]
        kids  == PastAll(PastAttr, PastVu(attrs), Leading(attrs))
    IN  PastAll(past, PastVu(kids), Leading(kids))

PastNode[n \in Nat] ==
    [b \in Seq(Nat) |->
        IF n = 0 THEN b
        ELSE IF b[1] = 0 THEN PastStr[Past(b, 1)] ELSE PastEl(PastNode[n - 1], Past(b, 1))]

StringAt(b) == StringOf(SubSeq(b, VarintEnd(b) + 1, VarintEnd(b) + Leading(b)))

PastEvent == [b \in Seq(Nat) |-> Past(PastStr[b], 1)]

NamesAt(b, n) == [k \in 1 .. n |-> StringAt(PastAll(PastEvent, b, k - 1))]

PeekEventNames(b) ==
    LET events == PastNode[Len(b)][Past(b, 1)] IN NamesAt(PastVu(events), Leading(events))
=============================================================================
