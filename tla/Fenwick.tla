------------------------------ MODULE Fenwick ------------------------------
(***************************************************************************)
(* The Bit of crates/zumar-core/src/diff.rs: the Fenwick tree that counts  *)
(* the old children not matched yet, so that diff_children_keyed can tell  *)
(* in O(log n) where one of them is.  Children are numbered from 1; a tree *)
(* is the sequence of its cells.                                           *)
(***************************************************************************)
EXTENDS Integers, FiniteSetsExt, Sequences

(* i & i.wrapping_neg(): the lowest bit set in i.                           *)
LowBit[i \in Nat \ {0}] == IF i % 2 = 1 THEN 1 ELSE 2 * LowBit[i \div 2]

(* The loop of add in a tree of n: the next cell, and all of them from i.   *)
NextCell(cell, n) == IF cell > n THEN cell ELSE cell + LowBit[cell]

CellsFrom(i, n) ==
    LET cell[s \in 0 .. n] == IF s = 0 THEN i ELSE NextCell(cell[s - 1], n)
    IN  {cell[s] : s \in 0 .. n} \cap 1 .. n

(* add.                                                                     *)
Added(bit, i, delta) ==
    LET cells == CellsFrom(i, Len(bit))
    IN  [j \in DOMAIN bit |-> IF j \in cells THEN bit[j] + delta ELSE bit[j]]

(* count_below(i), one round of its loop at a time: it counts the children  *)
(* up to the i-th.                                                          *)
Summed(bit, q) ==
    IF q.at = 0 THEN q
    ELSE [at |-> q.at - LowBit[q.at], sum |-> q.sum + bit[q.at]]

CountUpTo(bit, i) ==
    LET q[s \in 0 .. i] == IF s = 0 THEN [at |-> i, sum |-> 0] ELSE Summed(bit, q[s - 1])
    IN  q[i].sum

(* new: every child is counted in turn.                                     *)
NewBit(n) ==
    LET bit[i \in 0 .. n] ==
            IF i = 0 THEN [j \in 1 .. n |-> 0] ELSE Added(bit[i - 1], i, 1)
    IN  bit[n]

(* The count is exact for every prefix of n children, `live' being the ones *)
(* not matched, and no cell is negative, as the cast to u32 assumes.        *)
Exact(bit, live) ==
    /\ \A j \in DOMAIN bit : bit[j] \in Nat
    /\ \A i \in 0 .. Len(bit) : CountUpTo(bit, i) = Cardinality({o \in live : o <= i})
=============================================================================
