-------------------------------- MODULE Codec --------------------------------
(***************************************************************************)
(* The bytes both directions of the live transport are made of, and the     *)
(* reads that take them apart again: crates/zumar-runtime/src/wire.rs and   *)
(* the Writer of www/zumar-live.js on one side, the Readers of              *)
(* www/zumar-wire.js and of frame.rs on the other.                          *)
(*                                                                         *)
(* A number is written in digits to the base Radix, the lowest first; the   *)
(* top bit of a byte says that another follows.  A string is written as     *)
(* the number of its bytes, and its bytes.                                  *)
(***************************************************************************)
EXTENDS Naturals, SequencesExt

CONSTANTS
    Radix,       \* 128
    MaxNumber,   \* 2^53 - 1, the last number JavaScript holds exactly
    Utf8         \* the bytes of every string that is sent

Byte == 0 .. 2 * Radix - 1

ASSUME CodecAssumption ==
    /\ Radix \in Nat \ {0, 1}
    /\ IsInjective(Utf8)
    /\ \A s \in DOMAIN Utf8 : Utf8[s] \in Seq(Byte)

-----------------------------------------------------------------------------
(* vu and s, in wire.rs and in zumar-live.js.                               *)
Varint[n \in Nat] ==
    IF n < Radix THEN <<n>> ELSE <<Radix + (n % Radix)>> \o Varint[n \div Radix]

Str(s) == Varint[Len(Utf8[s])] \o Utf8[s]

(* A number of items, and the items.                                        *)
Counted(items) == Varint[Len(items)] \o FlattenSeq(items)

-----------------------------------------------------------------------------
(* A reader: the bytes left, what has been read, and whether nothing has    *)
(* been thrown.                                                             *)
Reader(bytes) == [b |-> bytes, out |-> <<>>, ok |-> TRUE]

Throw(r) == [r EXCEPT !.ok = FALSE]
Taken(r, n, value) == [r EXCEPT !.b = SubSeq(@, n + 1, Len(@)), !.out = Append(@, value)]

ReadU8(r) == IF r.b = <<>> THEN Throw(r) ELSE Taken(r, 1, r.b[1])

(* At most ten bytes are looked at, the last of which has no top bit.       *)
MaxVarint == 10

Number == 0 .. MaxNumber

ASSUME NumbersFit ==
    /\ MaxNumber \in Nat
    /\ \A n \in Number : Len(Varint[n]) <= MaxVarint
    /\ \A s \in DOMAIN Utf8 : Len(Utf8[s]) \in Number

NumberOf(bytes) ==
    LET read[k \in 0 .. Len(bytes)] ==
            IF k = 0 THEN [n |-> 0, shift |-> 1]
            ELSE [n     |-> read[k - 1].n + (bytes[k] % Radix) * read[k - 1].shift,
                  shift |-> read[k - 1].shift * Radix]
    IN  read[Len(bytes)].n

ReadVu(r) ==
    LET ends == {n \in 1 .. Min({MaxVarint, Len(r.b)}) : r.b[n] < Radix}
    IN  IF ends = {} THEN Throw(r) ELSE Taken(r, Min(ends), NumberOf(SubSeq(r.b, 1, Min(ends))))

(* What is no string of the sender's is text nobody wrote, or an error.     *)
Garbled == "garbled"
StringOf(bytes) ==
    IF \E s \in DOMAIN Utf8 : Utf8[s] = bytes THEN CHOOSE s \in DOMAIN Utf8 : Utf8[s] = bytes
    ELSE Garbled

Sized(r, len) ==
    IF ~ r.ok THEN r
    ELSE IF len > Len(r.b) THEN Throw(r) ELSE Taken(r, len, StringOf(SubSeq(r.b, 1, len)))

(* The length is read, and replaced by the string.                          *)
ReadStr(r) ==
    LET n == ReadVu(r) IN Sized([n EXCEPT !.out = r.out], Last(n.out))

Leaf(what, r) ==
    CASE what = "u8" -> ReadU8(r)
      [] what = "vu" -> ReadVu(r)
      [] what = "str" -> ReadStr(r)
=============================================================================
