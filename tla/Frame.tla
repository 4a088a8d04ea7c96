-------------------------------- MODULE Frame --------------------------------
(***************************************************************************)
(* What a page sends to its Program, as bytes: dispatch, resolve and notify *)
(* of www/zumar-live.js, and decode in spikes/sutegi-zumar/src/frame.rs.    *)
(***************************************************************************)
EXTENDS Codec

CONSTANTS
    MaxPath,   \* 64
    MaxU32,    \* u32::MAX
    MaxU16     \* u16::MAX

FrameVersion == 1

(* A frame.  The payload of an event is a function: of `value', `checked'   *)
(* and `key', those the event has.                                          *)
DispatchFrame(path, name, payload) ==
    [kind |-> "dispatch", path |-> path, name |-> name, payload |-> payload]
ResolveFrame(id, ok, status, body) ==
    [kind |-> "resolve", id |-> id, ok |-> ok, status |-> status, body |-> body]
NotifyFrame(id, now) == [kind |-> "notify", id |-> id, now |-> now]
Malformed == [kind |-> "malformed"]

-----------------------------------------------------------------------------
Bit(yes, bit) == IF yes THEN bit ELSE 0

Has(payload, slot) == slot \in DOMAIN payload

Flags(payload) ==
    Bit(Has(payload, "value"), 1)
    + Bit(Has(payload, "checked"), 2)
    + Bit(Has(payload, "checked") /\ payload["checked"], 4)
    + Bit(Has(payload, "key"), 8)

Optional(payload, slot) == IF Has(payload, slot) THEN Str(payload[slot]) ELSE <<>>

FrameBytes(f) ==
    <<FrameVersion>> \o
    CASE f.kind = "dispatch" ->
            <<0>> \o Counted([i \in DOMAIN f.path |-> Varint[f.path[i] - 1]]) \o Str(f.name)
                  \o <<Flags(f.payload)>>
                  \o Optional(f.payload, "value") \o Optional(f.payload, "key")
      [] f.kind = "resolve" ->
            <<1>> \o Varint[f.id] \o <<Bit(f.ok, 1)>> \o Varint[f.status] \o Str(f.body)
      [] f.kind = "notify" -> <<2>> \o Varint[f.id] \o Varint[f.now]

-----------------------------------------------------------------------------
(* decode.                                                                  *)
InTurn(whats, r) ==
    LET read[k \in 0 .. Len(whats)] ==
            IF k = 0 THEN r ELSE IF read[k - 1].ok THEN Leaf(whats[k], read[k - 1]) ELSE read[k - 1]
    IN  read[Len(whats)]

Fresh(r) == [r EXCEPT !.out = <<>>]

Set(flags, bit) == (flags \div bit) % 2 = 1

When(yes, what) == IF yes THEN <<what>> ELSE <<>>

(* The slots that are set, in their order in the frame; checked has no      *)
(* bytes of its own.                                                        *)
Payload(flags, strings) ==
    LET slots == When(Set(flags, 1), "value") \o When(Set(flags, 8), "key")
    IN  [slot \in ToSet(slots) \cup ToSet(When(Set(flags, 2), "checked")) |->
            IF slot = "checked" THEN Set(flags, 4)
            ELSE strings[CHOOSE i \in DOMAIN slots : slots[i] = slot]]

Strings(flags) == When(Set(flags, 1), "str") \o When(Set(flags, 8), "str")

Dispatched(path, q) ==
    IF ~ q.ok THEN Malformed
    ELSE LET strings == InTurn(Strings(q.out[2]), Fresh(q))
         IN  IF ~ strings.ok THEN Malformed
             ELSE DispatchFrame([i \in DOMAIN path |-> path[i] + 1], q.out[1],
                                Payload(q.out[2], strings.out))

DecodeDispatch(depth) ==
    IF ~ depth.ok \/ depth.out[1] > MaxPath THEN Malformed
    ELSE LET path == InTurn([i \in 1 .. depth.out[1] |-> "vu"], Fresh(depth))
         IN  IF \E i \in DOMAIN path.out : path.out[i] > MaxU32 THEN Malformed
             ELSE Dispatched(path.out, InTurn(<<"str", "u8">>, Fresh(path)))

DecodeResolve(q) ==
    IF q.ok /\ q.out[1] <= MaxU32 /\ q.out[3] <= MaxU16
    THEN ResolveFrame(q.out[1], q.out[2] # 0, q.out[3], q.out[4]) ELSE Malformed

DecodeNotify(q) ==
    IF q.ok /\ q.out[1] <= MaxU32 THEN NotifyFrame(q.out[1], q.out[2]) ELSE Malformed

DecodeBody(r) ==
    IF ~ r.ok \/ r.out[1] # FrameVersion THEN Malformed
    ELSE CASE r.out[2] = 0 -> DecodeDispatch(InTurn(<<"vu">>, Fresh(r)))
           [] r.out[2] = 1 -> DecodeResolve(InTurn(<<"vu", "u8", "vu", "str">>, Fresh(r)))
           [] r.out[2] = 2 -> DecodeNotify(InTurn(<<"vu", "vu">>, Fresh(r)))
           [] OTHER -> Malformed

Decode(bytes) == DecodeBody(InTurn(<<"u8", "u8">>, Reader(bytes)))
=============================================================================
