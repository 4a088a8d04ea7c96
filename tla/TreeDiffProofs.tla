--------------------------- MODULE TreeDiffProofs ---------------------------
(***************************************************************************)
(* diff_children_keyed: its counting tree is exact, whatever its length    *)
(* and however many of its children are still counted; where its loop      *)
(* takes a child from is where the child is, and what it leaves behind is  *)
(* at the end.  diff and apply: the patches of a turn fit one after the    *)
(* other, and when they have been applied the DOM is the new tree.         *)
(***************************************************************************)
EXTENDS TreeDiff, PatchProofs

-----------------------------------------------------------------------------
(* LowBit is what its definition says, for every number.                    *)
LEMMA LowBitEquation ==
    \A i \in Nat \ {0} : LowBit[i] = IF i % 2 = 1 THEN 1 ELSE 2 * LowBit[i \div 2]
<1> DEFINE Solves(f, n) == f = [i \in 1 .. n |-> IF i % 2 = 1 THEN 1 ELSE 2 * f[i \div 2]]
           S == {n \in Nat : \E f : Solves(f, n)}
           F == [n \in Nat |-> CHOOSE f : Solves(f, n)]
           G == [i \in Nat \ {0} |-> F[i][i]]
<1>h. \A i \in Nat \ {0} : i % 2 # 1 => i \div 2 \in 1 .. i - 1
    OBVIOUS
<1>1. \A n \in Nat : n \in S
    <2>1. 0 \in S
        <3>1. Solves([i \in 1 .. 0 |-> 1], 0)
            OBVIOUS
        <3> QED BY <3>1
    <2>2. ASSUME NEW n \in Nat, n \in S PROVE n + 1 \in S
        <3>1. PICK f : Solves(f, n)
            BY <2>2
        <3> DEFINE g == [i \in 1 .. n + 1 |-> IF i % 2 = 1 THEN 1 ELSE 2 * f[i \div 2]]
        <3>2. \A i \in 1 .. n : g[i] = f[i]
            BY <3>1
        <3>3. \A i \in 1 .. n + 1 : i % 2 # 1 => g[i \div 2] = f[i \div 2]
            <4> HIDE DEF g
            <4> SUFFICES ASSUME NEW i \in 1 .. n + 1, i % 2 # 1 PROVE g[i \div 2] = f[i \div 2]
                OBVIOUS
            <4>1. i \div 2 \in 1 .. i - 1
                BY <1>h
            <4>2. i \div 2 \in 1 .. n
                BY <4>1
            <4> QED BY <4>2, <3>2
        <3> DEFINE body(x) == [i \in 1 .. n + 1 |-> IF i % 2 = 1 THEN 1 ELSE 2 * x[i \div 2]]
        <3>4. body(f) = body(g)
            <4> HIDE DEF g
            <4> QED BY <3>3
        <3>5. Solves(g, n + 1)
            BY <3>4
        <3>6. \E x : Solves(x, n + 1)
            <4> HIDE DEF g
            <4> QED BY <3>5
        <3> HIDE DEF Solves
        <3> QED BY <3>6
    <2> HIDE DEF S
    <2> QED BY <2>1, <2>2, NatSetInduction
<1>2. \A n \in Nat : \A i \in 1 .. n : F[n][i] = IF i % 2 = 1 THEN 1 ELSE 2 * F[n][i \div 2]
    <2> SUFFICES ASSUME NEW n \in Nat, NEW i \in 1 .. n
                 PROVE  F[n][i] = IF i % 2 = 1 THEN 1 ELSE 2 * F[n][i \div 2]
        OBVIOUS
    <2>1. Solves(F[n], n)
        BY <1>1
    <2> HIDE DEF F
    <2> QED BY <2>1
<1> HIDE DEF F
<1> DEFINE Same == {i \in Nat : \A n, m \in Nat : i \in 1 .. n /\ i \in 1 .. m => F[n][i] = F[m][i]}
<1>3. \A i \in Nat : i \in Same
    <2>1. ASSUME NEW i \in Nat, \A j \in Nat : j < i => j \in Same
          PROVE  i \in Same
        <3> SUFFICES ASSUME NEW n \in Nat, NEW m \in Nat, i \in 1 .. n, i \in 1 .. m
                     PROVE  F[n][i] = F[m][i]
            OBVIOUS
        <3>1. F[n][i] = IF i % 2 = 1 THEN 1 ELSE 2 * F[n][i \div 2]
            BY <1>2
        <3>2. F[m][i] = IF i % 2 = 1 THEN 1 ELSE 2 * F[m][i \div 2]
            BY <1>2
        <3>3. i % 2 # 1 => F[n][i \div 2] = F[m][i \div 2]
            <4>1. SUFFICES ASSUME i % 2 # 1 PROVE F[n][i \div 2] = F[m][i \div 2]
                OBVIOUS
            <4>2. i \div 2 \in 1 .. i - 1
                BY <4>1, <1>h
            <4>3. i \div 2 \in Same /\ i \div 2 \in 1 .. n /\ i \div 2 \in 1 .. m
                BY <4>2, <2>1
            <4> QED BY <4>3
        <3> QED BY <3>1, <3>2, <3>3
    <2> HIDE DEF Same
    <2> QED BY <2>1, StrongSetInduction
<1>4. \A i \in Nat \ {0} : G[i] = IF i % 2 = 1 THEN 1 ELSE 2 * G[i \div 2]
    <2> SUFFICES ASSUME NEW i \in Nat \ {0}
                 PROVE  G[i] = IF i % 2 = 1 THEN 1 ELSE 2 * G[i \div 2]
        OBVIOUS
    <2>1. F[i][i] = IF i % 2 = 1 THEN 1 ELSE 2 * F[i][i \div 2]
        BY <1>2
    <2>2. i % 2 # 1 => F[i][i \div 2] = G[i \div 2]
        <3> SUFFICES ASSUME i % 2 # 1 PROVE F[i][i \div 2] = G[i \div 2]
            OBVIOUS
        <3>1. i \div 2 \in 1 .. i - 1
            BY <1>h
        <3>2. i \div 2 \in Same
            BY <3>1, <1>3
        <3> QED BY <3>1, <3>2
    <2> QED BY <2>1, <2>2
<1>5. G = [i \in Nat \ {0} |-> IF i % 2 = 1 THEN 1 ELSE 2 * G[i \div 2]]
    <2> QED BY <1>4
<1> HIDE DEF G
<1>6. LowBit = [i \in Nat \ {0} |-> IF i % 2 = 1 THEN 1 ELSE 2 * LowBit[i \div 2]]
    BY <1>5 DEF LowBit
<1> QED BY <1>6

LEMMA Halves ==
    \A x \in Nat \ {0} : x % 2 # 1 => x \div 2 \in 1 .. x - 1 /\ 2 * (x \div 2) = x
OBVIOUS

LEMMA LowBitRange == \A i \in Nat \ {0} : LowBit[i] \in 1 .. i
<1> DEFINE S == {i \in Nat : i # 0 => LowBit[i] \in 1 .. i}
<1>1. ASSUME NEW i \in Nat, \A j \in Nat : j < i => j \in S
      PROVE  i \in S
    <2> SUFFICES ASSUME i # 0 PROVE LowBit[i] \in 1 .. i
        OBVIOUS
    <2>1. CASE i % 2 = 1
        BY <2>1, LowBitEquation
    <2>2. CASE i % 2 # 1
        <3>1. i \div 2 \in 1 .. i - 1 /\ 2 * (i \div 2) = i
            BY <2>2
        <3>2. LowBit[i \div 2] \in 1 .. i \div 2
            BY <3>1, <1>1
        <3>3. LowBit[i] = 2 * LowBit[i \div 2]
            BY <2>2, LowBitEquation
        <3> QED BY <3>1, <3>2, <3>3
    <2> QED BY <2>1, <2>2
<1> HIDE DEF S
<1>2. \A i \in Nat : i \in S
    BY <1>1, StrongSetInduction
<1> QED BY <1>2 DEF S

-----------------------------------------------------------------------------
(* The cell j counts the children after Low(j) up to j.                     *)
Low(j) == j - LowBit[j]
Under(j) == {o \in Nat : Low(j) < o /\ o <= j}

LEMMA LowRange == \A j \in Nat \ {0} : Low(j) \in 0 .. j - 1
BY LowBitRange DEF Low

(* The next cell that counts what the cell i counts is i + LowBit[i]: no    *)
(* cell between the two does, and what that one counts reaches as far.      *)
LEMMA NextCellCovers ==
    \A j \in Nat : \A i \in 1 .. j - 1 :
        Low(j) < i <=> i + LowBit[i] <= j /\ Low(j) < i + LowBit[i]
<1> DEFINE Claim(i, j) == Low(j) < i <=> i + LowBit[i] <= j /\ Low(j) < i + LowBit[i]
           S == {j \in Nat : \A i \in 1 .. j - 1 : Claim(i, j)}
<1>1. ASSUME NEW j \in Nat, \A k \in Nat : k < j => k \in S
      PROVE  j \in S
    <2> SUFFICES ASSUME NEW i \in 1 .. j - 1 PROVE Claim(i, j)
        OBVIOUS
    <2>1. /\ LowBit[i] \in 1 .. i /\ LowBit[j] \in 1 .. j
          /\ i % 2 = 1 => LowBit[i] = 1
          /\ j % 2 = 1 => LowBit[j] = 1
        BY LowBitRange, LowBitEquation
    <2>2. \A x \in {i, j} : x % 2 # 1 => /\ x \div 2 \in 1 .. x - 1 /\ 2 * (x \div 2) = x
                                         /\ LowBit[x] = 2 * LowBit[x \div 2]
                                         /\ LowBit[x \div 2] \in 1 .. x \div 2
        <3> SUFFICES ASSUME NEW x \in {i, j}, x % 2 # 1
                     PROVE  /\ x \div 2 \in 1 .. x - 1 /\ 2 * (x \div 2) = x
                            /\ LowBit[x] = 2 * LowBit[x \div 2]
                            /\ LowBit[x \div 2] \in 1 .. x \div 2
            OBVIOUS
        <3>1. x \div 2 \in 1 .. x - 1 /\ 2 * (x \div 2) = x
            BY Halves
        <3>2. LowBit[x] = 2 * LowBit[x \div 2]
            BY LowBitEquation
        <3>3. LowBit[x \div 2] \in 1 .. x \div 2
            BY <3>1, LowBitRange
        <3> QED BY <3>1, <3>2, <3>3
    <2>3. CASE j % 2 = 1
        <3>1. Low(j) = j - 1
            BY <2>1, <2>3 DEF Low
        <3>2. ~ (Low(j) < i)
            BY <3>1
        <3>3. i + LowBit[i] # j
            <4>1. CASE i % 2 = 1
                BY <4>1, <2>1, <2>3
            <4>2. CASE i % 2 # 1
                BY <4>2, <2>2, <2>3
            <4> QED BY <4>1, <4>2
        <3> QED BY <3>1, <3>2, <3>3, <2>1
    <2>4. CASE j % 2 # 1 /\ i % 2 = 1
        <3>1. PICK k \in Nat : Low(j) = 2 * k /\ j = 2 * (j \div 2)
            <4>1. Low(j) = 2 * (j \div 2 - LowBit[j \div 2]) /\ j \div 2 - LowBit[j \div 2] \in Nat
                BY <2>2, <2>4 DEF Low
            <4> QED BY <4>1, <2>2, <2>4
        <3>2. i = 2 * (i \div 2) + 1
            BY <2>4
        <3> QED BY <2>1, <2>4, <3>1, <3>2
    <2>5. CASE j % 2 # 1 /\ i % 2 # 1
        <3> DEFINE a == i \div 2
                   b == j \div 2
        <3>1. a \in 1 .. b - 1 /\ b < j /\ b \in Nat
            BY <2>2, <2>5
        <3>2. b \in S
            BY <3>1, <1>1
        <3>3. Claim(a, b)
            BY <3>1, <3>2
        <3>4. Low(j) = 2 * Low(b) /\ i + LowBit[i] = 2 * (a + LowBit[a]) /\ j = 2 * b /\ i = 2 * a
            BY <2>2, <2>5 DEF Low
        <3>5. Low(b) \in Nat /\ LowBit[a] \in Nat
            BY <3>1, <2>2, <2>5, LowRange
        <3> HIDE DEF a, b
        <3> QED BY <3>1, <3>3, <3>4, <3>5
    <2> QED BY <2>3, <2>4, <2>5
<1> HIDE DEF S
<1>2. \A j \in Nat : j \in S
    BY <1>1, StrongSetInduction
<1> QED BY <1>2 DEF S

-----------------------------------------------------------------------------
(* The loop of add visits the cells that count the child i, and no others.  *)
LEMMA CellsFromExact ==
    ASSUME NEW n \in Nat, NEW i \in 1 .. n
    PROVE  CellsFrom(i, n) = {j \in 1 .. n : i \in Under(j)}
<1> DEFINE Solves(f, k) == f = [s \in 0 .. k |-> IF s = 0 THEN i ELSE NextCell(f[s - 1], n)]
           S == {k \in Nat : \E f : Solves(f, k)}
<1>1. \A k \in Nat : k \in S
    <2>1. 0 \in S
        <3>1. Solves([s \in 0 .. 0 |-> i], 0)
            OBVIOUS
        <3> QED BY <3>1
    <2>2. ASSUME NEW k \in Nat, k \in S PROVE k + 1 \in S
        <3>1. PICK f : Solves(f, k)
            BY <2>2
        <3> DEFINE body(x) == [s \in 0 .. k + 1 |-> IF s = 0 THEN i ELSE NextCell(x[s - 1], n)]
                   g == body(f)
        <3>2. \A s \in 0 .. k : g[s] = f[s]
            BY <3>1
        <3>3. body(f) = body(g)
            <4> HIDE DEF g
            <4> QED BY <3>2
        <3>4. \E x : Solves(x, k + 1)
            <4>1. Solves(g, k + 1)
                BY <3>3
            <4> HIDE DEF g
            <4> QED BY <4>1
        <3> HIDE DEF Solves
        <3> QED BY <3>4
    <2> HIDE DEF S
    <2> QED BY <2>1, <2>2, NatSetInduction
<1>2. PICK cell : Solves(cell, n) /\ CellsFrom(i, n) = {cell[s] : s \in 0 .. n} \cap 1 .. n
    <2>1. \E f : Solves(f, n)
        BY <1>1
    <2> QED BY <2>1 DEF CellsFrom
<1>3. cell[0] = i /\ \A s \in 0 .. n - 1 : cell[s + 1] = NextCell(cell[s], n)
    BY <1>2
<1> DEFINE Seen(s) == {cell[t] : t \in 0 .. s - 1}
           Reached(s) ==
               /\ cell[s] \in Nat \ {0}
               /\ cell[s] > n \/ cell[s] >= i + s
               /\ \A j \in 1 .. n : i \in Under(j) <=> j \in Seen(s) \/ cell[s] \in Under(j)
           R == {s \in Nat : s <= n => Reached(s)}
<1>4. \A s \in Nat : s \in R
    <2>1. 0 \in R
        BY <1>3
    <2>2. ASSUME NEW s \in Nat, s \in R PROVE s + 1 \in R
        <3> SUFFICES ASSUME s + 1 <= n PROVE Reached(s + 1)
            OBVIOUS
        <3>1. Reached(s) /\ cell[s + 1] = NextCell(cell[s], n) /\ Seen(s + 1) = Seen(s) \cup {cell[s]}
            BY <2>2, <1>3
        <3> HIDE DEF Seen
        <3>2. CASE cell[s] > n
            <4>1. cell[s + 1] = cell[s]
                BY <3>1, <3>2 DEF NextCell
            <4> QED BY <3>1, <3>2, <4>1
        <3>3. CASE cell[s] <= n
            <4> DEFINE c == cell[s]
            <4>1. cell[s + 1] = c + LowBit[c] /\ LowBit[c] \in 1 .. c
                BY <3>1, <3>3, LowBitRange DEF NextCell
            <4>2. ASSUME NEW j \in 1 .. n
                  PROVE  c \in Under(j) <=> j = c \/ c + LowBit[c] \in Under(j)
                <5>1. CASE j = c
                    BY <5>1, <3>1, LowRange DEF Under
                <5>2. CASE j < c
                    BY <5>2, <3>1, <4>1 DEF Under
                <5>3. CASE j > c
                    <6>1. Low(j) < c <=> c + LowBit[c] <= j /\ Low(j) < c + LowBit[c]
                        BY <5>3, <3>1, NextCellCovers
                    <6> QED BY <6>1, <5>3, <3>1, <4>1 DEF Under
                <5> QED BY <5>1, <5>2, <5>3, <3>1
            <4> QED BY <3>1, <3>3, <4>1, <4>2
        <3> QED BY <3>1, <3>2, <3>3
    <2> HIDE DEF R
    <2> QED BY <2>1, <2>2, NatSetInduction
<1>5. Reached(n) /\ cell[n] > n
    BY <1>4
<1>6. \A j \in 1 .. n : i \in Under(j) <=> j \in {cell[s] : s \in 0 .. n}
    BY <1>5 DEF Under
<1> QED BY <1>2, <1>6

-----------------------------------------------------------------------------
(* The invariant of the tree: each cell counts the live children under it.  *)
Counts(bit, n, live) ==
    /\ bit \in [1 .. n -> Nat]
    /\ \A j \in 1 .. n : bit[j] = Cardinality(live \cap Under(j))

LEMMA LiveFinite ==
    ASSUME NEW n \in Nat, NEW live \in SUBSET (1 .. n)
    PROVE  IsFiniteSet(live) /\ \A T : IsFiniteSet(live \cap T)
<1>1. IsFiniteSet(1 .. n)
    BY FS_Interval
<1>2. \A T : live \cap T \in SUBSET (1 .. n)
    OBVIOUS
<1> QED BY <1>1, <1>2, FS_Subset

LEMMA AddedCounts ==
    ASSUME NEW n \in Nat, NEW live \in SUBSET (1 .. n), NEW i \in (1 .. n) \ live, NEW bit,
           Counts(bit, n, live)
    PROVE  Counts(Added(bit, i, 1), n, live \cup {i})
<1>1. Len(bit) = n /\ DOMAIN bit = 1 .. n
    BY LenOfFunction DEF Counts
<1>2. Added(bit, i, 1) = [j \in 1 .. n |-> IF i \in Under(j) THEN bit[j] + 1 ELSE bit[j]]
    BY <1>1, CellsFromExact DEF Added
<1>3. ASSUME NEW j \in 1 .. n
      PROVE  (IF i \in Under(j) THEN bit[j] + 1 ELSE bit[j])
                = Cardinality((live \cup {i}) \cap Under(j))
    <2>1. CASE i \in Under(j)
        <3>1. (live \cup {i}) \cap Under(j) = (live \cap Under(j)) \cup {i}
            BY <2>1
        <3> QED BY <2>1, <3>1, LiveFinite, FS_AddElement DEF Counts
    <2>2. CASE i \notin Under(j)
        <3>1. (live \cup {i}) \cap Under(j) = live \cap Under(j)
            BY <2>2
        <3> QED BY <2>2, <3>1 DEF Counts
    <2> QED BY <2>1, <2>2
<1> QED BY <1>2, <1>3 DEF Counts

LEMMA RemovedCounts ==
    ASSUME NEW n \in Nat, NEW live \in SUBSET (1 .. n), NEW i \in live, NEW bit,
           Counts(bit, n, live)
    PROVE  Counts(Added(bit, i, -1), n, live \ {i})
<1>1. Len(bit) = n /\ DOMAIN bit = 1 .. n
    BY LenOfFunction DEF Counts
<1>2. Added(bit, i, -1) = [j \in 1 .. n |-> IF i \in Under(j) THEN bit[j] + (-1) ELSE bit[j]]
    BY <1>1, CellsFromExact DEF Added
<1>3. ASSUME NEW j \in 1 .. n
      PROVE  LET x == IF i \in Under(j) THEN bit[j] + (-1) ELSE bit[j]
             IN  x \in Nat /\ x = Cardinality((live \ {i}) \cap Under(j))
    <2>1. CASE i \in Under(j)
        <3>1. (live \ {i}) \cap Under(j) = (live \cap Under(j)) \ {i} /\ i \in live \cap Under(j)
            BY <2>1
        <3>2. IsFiniteSet(live \cap Under(j)) /\ IsFiniteSet((live \ {i}) \cap Under(j))
            BY LiveFinite
        <3>3. Cardinality((live \ {i}) \cap Under(j)) = Cardinality(live \cap Under(j)) - 1
            BY <3>1, <3>2, FS_RemoveElement
        <3>4. Cardinality((live \ {i}) \cap Under(j)) \in Nat
            BY <3>2, FS_CardinalityType
        <3> QED BY <2>1, <3>3, <3>4 DEF Counts
    <2>2. CASE i \notin Under(j)
        <3>1. (live \ {i}) \cap Under(j) = live \cap Under(j)
            BY <2>2
        <3> QED BY <2>2, <3>1 DEF Counts
    <2> QED BY <2>1, <2>2
<1> QED BY <1>2, <1>3 DEF Counts

(* new counts every child.                                                  *)
LEMMA NewBitCounts ==
    ASSUME NEW n \in Nat
    PROVE  Counts(NewBit(n), n, 1 .. n)
<1> DEFINE zero == [j \in 1 .. n |-> 0]
           Solves(f, k) == f = [i \in 0 .. k |-> IF i = 0 THEN zero ELSE Added(f[i - 1], i, 1)]
           S == {k \in Nat : \E f : Solves(f, k)}
<1>1. \A k \in Nat : k \in S
    <2>1. 0 \in S
        <3>1. Solves([i \in 0 .. 0 |-> zero], 0)
            OBVIOUS
        <3> HIDE DEF zero
        <3> QED BY <3>1
    <2>2. ASSUME NEW k \in Nat, k \in S PROVE k + 1 \in S
        <3>1. PICK f : Solves(f, k)
            BY <2>2
        <3> HIDE DEF zero
        <3> DEFINE body(x) == [i \in 0 .. k + 1 |-> IF i = 0 THEN zero ELSE Added(x[i - 1], i, 1)]
                   g == body(f)
        <3>2. \A i \in 0 .. k : g[i] = f[i]
            BY <3>1
        <3>3. body(f) = body(g)
            <4> HIDE DEF g
            <4> QED BY <3>2
        <3>4. \E x : Solves(x, k + 1)
            <4>1. Solves(g, k + 1)
                BY <3>3
            <4> HIDE DEF g
            <4> QED BY <4>1
        <3> HIDE DEF Solves
        <3> QED BY <3>4
    <2> HIDE DEF S
    <2> QED BY <2>1, <2>2, NatSetInduction
<1>2. PICK f : Solves(f, n) /\ NewBit(n) = f[n]
    <2>1. \E f : Solves(f, n)
        BY <1>1
    <2> QED BY <2>1 DEF NewBit
<1>3. f[0] = zero /\ \A i \in 1 .. n : f[i] = Added(f[i - 1], i, 1)
    BY <1>2
<1> DEFINE R == {i \in Nat : i <= n => Counts(f[i], n, 1 .. i)}
<1>4. \A i \in Nat : i \in R
    <2>1. 0 \in R
        <3>1. Cardinality({}) = 0 /\ 1 .. 0 = {}
            BY FS_EmptySet
        <3> QED BY <1>3, <3>1 DEF Counts
    <2>2. ASSUME NEW i \in Nat, i \in R PROVE i + 1 \in R
        <3> SUFFICES ASSUME i + 1 <= n PROVE Counts(f[i + 1], n, 1 .. i + 1)
            OBVIOUS
        <3>1. Counts(f[i], n, 1 .. i) /\ f[i + 1] = Added(f[i], i + 1, 1)
            BY <2>2, <1>3
        <3>2. 1 .. i \in SUBSET (1 .. n) /\ i + 1 \in (1 .. n) \ (1 .. i)
              /\ (1 .. i) \cup {i + 1} = 1 .. i + 1
            OBVIOUS
        <3>3. Counts(Added(f[i], i + 1, 1), n, (1 .. i) \cup {i + 1})
            BY <3>1, <3>2, AddedCounts
        <3> QED BY <3>1, <3>2, <3>3
    <2> HIDE DEF R
    <2> QED BY <2>1, <2>2, NatSetInduction
<1> QED BY <1>2, <1>4

(* Among the live children, those up to at are those under the cell at and  *)
(* those up to the next that count_below visits.                            *)
LEMMA PrefixSplits ==
    ASSUME NEW n \in Nat, NEW live \in SUBSET (1 .. n), NEW at \in 1 .. n
    PROVE  Cardinality({o \in live : o <= at})
             = Cardinality({o \in live : o <= Low(at)}) + Cardinality(live \cap Under(at))
<1> DEFINE A == {o \in live : o <= Low(at)}
           B == live \cap Under(at)
<1>1. Low(at) \in 0 .. at - 1
    BY LowRange
<1>2. {o \in live : o <= at} = A \cup B /\ A \cap B = {}
    <2>1. \A o \in live : o \in Nat
        OBVIOUS
    <2>2. \A o \in live : o <= at <=> o <= Low(at) \/ o \in Under(at)
        BY <1>1, <2>1 DEF Under
    <2>3. \A o \in live : ~ (o <= Low(at) /\ o \in Under(at))
        BY <1>1, <2>1 DEF Under
    <2> QED BY <2>2, <2>3
<1>3. IsFiniteSet(A) /\ IsFiniteSet(B)
    <2>1. A = live \cap A
        OBVIOUS
    <2> QED BY <2>1, LiveFinite
<1>4. Cardinality(A \cup B) = Cardinality(A) + Cardinality(B) - Cardinality({})
    BY <1>2, <1>3, FS_Union
<1>5. Cardinality(A) \in Nat /\ Cardinality(B) \in Nat /\ Cardinality({}) = 0
    BY <1>3, FS_CardinalityType, FS_EmptySet
<1>6. Cardinality({o \in live : o <= at}) = Cardinality(A) + Cardinality(B)
    <2> HIDE DEF A, B
    <2> QED BY <1>2, <1>4, <1>5
<1> QED BY <1>6

(* count_below counts the live children up to i.                            *)
LEMMA CountUpToExact ==
    ASSUME NEW n \in Nat, NEW live \in SUBSET (1 .. n), NEW bit, Counts(bit, n, live),
           NEW i \in 0 .. n
    PROVE  CountUpTo(bit, i) = Cardinality({o \in live : o <= i})
<1> DEFINE first == [at |-> i, sum |-> 0]
           Solves(f, k) == f = [s \in 0 .. k |-> IF s = 0 THEN first ELSE Summed(bit, f[s - 1])]
           S == {k \in Nat : \E f : Solves(f, k)}
<1>1. \A k \in Nat : k \in S
    <2>1. 0 \in S
        <3>1. Solves([s \in 0 .. 0 |-> first], 0)
            OBVIOUS
        <3> HIDE DEF first
        <3> QED BY <3>1
    <2>2. ASSUME NEW k \in Nat, k \in S PROVE k + 1 \in S
        <3>1. PICK f : Solves(f, k)
            BY <2>2
        <3> HIDE DEF first
        <3> DEFINE body(x) == [s \in 0 .. k + 1 |-> IF s = 0 THEN first ELSE Summed(bit, x[s - 1])]
                   g == body(f)
        <3>2. \A s \in 0 .. k : g[s] = f[s]
            BY <3>1
        <3>3. body(f) = body(g)
            <4> HIDE DEF g
            <4> QED BY <3>2
        <3>4. \E x : Solves(x, k + 1)
            <4>1. Solves(g, k + 1)
                BY <3>3
            <4> HIDE DEF g
            <4> QED BY <4>1
        <3> HIDE DEF Solves
        <3> QED BY <3>4
    <2> HIDE DEF S
    <2> QED BY <2>1, <2>2, NatSetInduction
<1>2. PICK q : Solves(q, i) /\ CountUpTo(bit, i) = q[i].sum
    <2>1. \E f : Solves(f, i)
        BY <1>1
    <2> QED BY <2>1 DEF CountUpTo
<1>3. q[0] = first /\ \A s \in 0 .. i - 1 : q[s + 1] = Summed(bit, q[s])
    BY <1>2
<1> DEFINE Card(m) == Cardinality({o \in live : o <= m})
           Kept(s) ==
               /\ q[s].at \in 0 .. n /\ q[s].sum \in Nat
               /\ q[s].at = 0 \/ q[s].at + s <= i
               /\ q[s].sum + Card(q[s].at) = Card(i)
           R == {s \in Nat : s <= i => Kept(s)}
<1>c. \A m \in 0 .. n : Card(m) \in Nat
    <2>1. \A m \in 0 .. n : {o \in live : o <= m} = live \cap {o \in live : o <= m}
        OBVIOUS
    <2> QED BY <2>1, LiveFinite, FS_CardinalityType
<1>4. \A s \in Nat : s \in R
    <2>1. 0 \in R
        <3> HIDE DEF Card
        <3> QED BY <1>3, <1>c
    <2>2. ASSUME NEW s \in Nat, s \in R PROVE s + 1 \in R
        <3> SUFFICES ASSUME s + 1 <= i PROVE Kept(s + 1)
            OBVIOUS
        <3>1. Kept(s) /\ q[s + 1] = Summed(bit, q[s])
            BY <2>2, <1>3
        <3>2. CASE q[s].at = 0
            BY <3>1, <3>2 DEF Summed
        <3>3. CASE q[s].at # 0
            <4> DEFINE c == q[s].at
            <4>1. c \in 1 .. n /\ Low(c) \in 0 .. c - 1
                BY <3>1, <3>3, LowRange
            <4>2. Card(c) = Card(Low(c)) + bit[c] /\ bit[c] \in Nat
                <5>1. Card(c) = Card(Low(c)) + Cardinality(live \cap Under(c))
                    BY <4>1, PrefixSplits
                <5> HIDE DEF Card
                <5> QED BY <4>1, <5>1 DEF Counts
            <4>3. q[s + 1].at = Low(c) /\ q[s + 1].sum = q[s].sum + bit[c]
                BY <3>1, <3>3 DEF Summed, Low
            <4> HIDE DEF Card
            <4> QED BY <3>1, <3>3, <4>1, <4>2, <4>3, <1>c
        <3> QED BY <3>2, <3>3
    <2> HIDE DEF R
    <2> QED BY <2>1, <2>2, NatSetInduction
<1>5. Kept(i) /\ q[i].at = 0
    BY <1>4
<1>6. {o \in live : o <= 0} = {}
    <2>1. \A o \in live : ~ (o <= 0)
        OBVIOUS
    <2> QED BY <2>1, Zenon
<1>7. Card(0) = 0
    BY <1>6, FS_EmptySet
<1> HIDE DEF Card
<1>8. q[i].sum = Card(i)
    BY <1>5, <1>7
<1> QED BY <1>2, <1>8 DEF Card

-----------------------------------------------------------------------------
(* In every state that matching can leave it in, the counting tree of n     *)
(* children counts exactly the ones not matched before any place, and no    *)
(* cell is negative: whatever n is, and however new's and the later adds'   *)
(* loops step through the cells.                                            *)
THEOREM CountsStayExact ==
    ASSUME NEW n \in Nat
    PROVE  /\ Counts(NewBit(n), n, 1 .. n)
           /\ \A bit : \A live \in SUBSET (1 .. n) : Counts(bit, n, live) =>
                 /\ Exact(bit, live)
                 /\ \A o \in live : Counts(Added(bit, o, -1), n, live \ {o})
<1>1. ASSUME NEW bit, NEW live \in SUBSET (1 .. n), Counts(bit, n, live)
      PROVE  Exact(bit, live)
    <2>1. bit \in [1 .. n -> Nat]
        BY <1>1 DEF Counts
    <2>2. Len(bit) = n /\ DOMAIN bit = 1 .. n /\ \A j \in DOMAIN bit : bit[j] \in Nat
        BY <2>1, LenOfFunction
    <2>3. \A i \in 0 .. n : CountUpTo(bit, i) = Cardinality({o \in live : o <= i})
        BY <1>1, CountUpToExact
    <2> QED BY <2>2, <2>3 DEF Exact
<1> QED BY <1>1, NewBitCounts, RemovedCounts

-----------------------------------------------------------------------------
(* Least and greatest elements.                                             *)
LEMMA MinIsIn ==
    ASSUME NEW S \in SUBSET Nat, S # {}
    PROVE  Min(S) \in S /\ \A y \in S : Min(S) <= y
<1>1. PICK x \in S : \A y \in S : ~ (<<y, x>> \in OpToRel(<, Nat))
    <2>1. S \in SUBSET Nat /\ S # {}
        OBVIOUS
    <2> QED BY <2>1, NatLessThanWellFounded, WFMin, Zenon
<1>2. \A y \in S : x <= y
    <2> SUFFICES ASSUME NEW y \in S PROVE x <= y
        OBVIOUS
    <2>1. y \in Nat /\ x \in Nat
        OBVIOUS
    <2>2. y < x => <<y, x>> \in OpToRel(<, Nat)
        BY <2>1 DEF OpToRel
    <2>3. ~ (y < x)
        BY <1>1, <2>2, Zenon
    <2> QED BY <2>1, <2>3
<1> QED BY <1>2 DEF Min

LEMMA MaxIsIn ==
    ASSUME NEW n \in Nat, NEW S \in SUBSET (0 .. n), S # {}
    PROVE  Max(S) \in S /\ \A y \in S : Max(S) >= y
<1> DEFINE T == {n - x : x \in S}
<1>1. T \in SUBSET Nat /\ T # {}
    <2>1. \A x \in S : n - x \in Nat
        OBVIOUS
    <2> QED BY <2>1
<1>2. Min(T) \in T /\ \A y \in T : Min(T) <= y
    <2> HIDE DEF T
    <2> QED BY <1>1, MinIsIn
<1>3. PICK x \in S : Min(T) = n - x
    BY <1>2
<1>4. \A y \in S : x >= y
    BY <1>2, <1>3
<1> QED BY <1>4 DEF Max

LEMMA MinOfTwo ==
    ASSUME NEW a \in Nat, NEW b \in Nat
    PROVE  Min({a, b}) \in Nat /\ Min({a, b}) = IF a <= b THEN a ELSE b
<1>1. Min({a, b}) \in {a, b} /\ \A y \in {a, b} : Min({a, b}) <= y
    BY MinIsIn
<1> QED BY <1>1

(* The children at the front that are reused in place.                      *)
LEMMA PrefixReusable ==
    ASSUME NEW S, NEW olds \in Seq(S), NEW news \in Seq(S)
    PROVE  /\ Prefix(olds, news) \in 0 .. Len(olds) /\ Prefix(olds, news) \in 0 .. Len(news)
           /\ \A i \in 1 .. Prefix(olds, news) : Reusable(olds[i], news[i])
<1> DEFINE m == Min({Len(olds), Len(news)})
           P == {n \in 0 .. m : \A i \in 1 .. n : Reusable(olds[i], news[i])}
<1>1. m \in Nat /\ m <= Len(olds) /\ m <= Len(news)
    BY MinOfTwo
<1>2. P \in SUBSET (0 .. m) /\ 0 \in P
    BY <1>1
<1>3. Prefix(olds, news) = Max(P)
    BY DEF Prefix
<1>4. Max(P) \in P
    <2> HIDE DEF P, m
    <2> QED BY <1>1, <1>2, MaxIsIn
<1>5. Prefix(olds, news) \in P
    BY <1>3, <1>4
<1> HIDE DEF m
<1>6. Prefix(olds, news) \in 0 .. m /\ \A i \in 1 .. Prefix(olds, news) : Reusable(olds[i], news[i])
    BY <1>5
<1> QED BY <1>1, <1>6

-----------------------------------------------------------------------------
(* Lists of children after an insertion, a move and a truncation.           *)
(* The list r is s with e put in at i.                                      *)
Spliced(U, s, i, e, r) ==
    /\ r \in Seq(U) /\ Len(r) = Len(s) + 1
    /\ \A k \in 1 .. Len(s) + 1 : r[k] = IF k < i THEN s[k] ELSE IF k = i THEN e ELSE s[k - 1]

LEMMA InsertedAt ==
    ASSUME NEW U, NEW s \in Seq(U), NEW i \in 1 .. Len(s) + 1, NEW e \in U
    PROVE  Spliced(U, s, i, e, InsertAt(s, i, e))
<1> DEFINE a == SubSeq(s, 1, i - 1)
           b == SubSeq(s, i, Len(s))
<1>1. /\ a \in Seq(U) /\ Len(a) = i - 1 /\ \A k \in 1 .. i - 1 : a[k] = s[k]
      /\ b \in Seq(U) /\ Len(b) = Len(s) - i + 1 /\ \A k \in 1 .. Len(b) : b[k] = s[i + k - 1]
    BY SubSeqProperties
<1> HIDE DEF a, b
<1>2. a \o <<e>> \o b \in Seq(U) /\ Len(a \o <<e>> \o b) = Len(s) + 1
    BY <1>1
<1>3. ASSUME NEW k \in 1 .. Len(s) + 1
      PROVE  (a \o <<e>> \o b)[k] = IF k < i THEN s[k] ELSE IF k = i THEN e ELSE s[k - 1]
    <2> DEFINE c == a \o <<e>>
    <2>1. /\ c \in Seq(U) /\ Len(c) = i
          /\ \A x \in 1 .. i : c[x] = IF x < i THEN a[x] ELSE e
        BY <1>1
    <2> HIDE DEF c
    <2>2. (c \o b)[k] = IF k <= i THEN c[k] ELSE b[k - i]
        BY <1>1, <2>1
    <2>3. k > i => b[k - i] = s[i + (k - i) - 1]
        BY <1>1
    <2> QED BY <1>1, <2>1, <2>2, <2>3 DEF c
<1> DEFINE r == a \o <<e>> \o b
<1>4. InsertAt(s, i, e) = r
    BY DEF InsertAt, a, b
<1>5. r \in Seq(U) /\ Len(r) = Len(s) + 1
    BY <1>2
<1>6. \A k \in 1 .. Len(s) + 1 : r[k] = IF k < i THEN s[k] ELSE IF k = i THEN e ELSE s[k - 1]
    BY <1>3
<1> HIDE DEF r
<1> QED BY <1>4, <1>5, <1>6 DEF Spliced

(* The list s with the child at f taken out and put back at t, left of f.   *)
Moved(U, s, f, t, r) ==
    /\ r \in Seq(U) /\ Len(r) = Len(s) /\ r[t] = s[f]
    /\ \A k \in 1 .. Len(s) : /\ k < t \/ k > f => r[k] = s[k]
                              /\ t < k /\ k <= f => r[k] = s[k - 1]

LEMMA MovedTo ==
    ASSUME NEW U, NEW s \in Seq(U), NEW f \in 1 .. Len(s), NEW t \in 1 .. f - 1
    PROVE  Moved(U, s, f, t, InsertAt(RemoveAt(s, f), t, s[f]))
<1> DEFINE q == RemoveAt(s, f)
           a == SubSeq(s, 1, f - 1)
           b == SubSeq(s, f + 1, Len(s))
<1>1. /\ a \in Seq(U) /\ Len(a) = f - 1 /\ \A k \in 1 .. f - 1 : a[k] = s[k]
      /\ b \in Seq(U) /\ Len(b) = Len(s) - f /\ \A k \in 1 .. Len(b) : b[k] = s[f + k]
    <2>1. a \in Seq(U) /\ Len(a) = f - 1 /\ \A k \in 1 .. f - 1 : a[k] = s[k]
        OBVIOUS
    <2>2. b \in Seq(U) /\ Len(b) = Len(s) - f
        OBVIOUS
    <2>3. \A k \in 1 .. Len(s) - f : b[k] = s[f + k]
        OBVIOUS
    <2> HIDE DEF a, b
    <2> QED BY <2>1, <2>2, <2>3
<1>2. q = a \o b
    BY DEF RemoveAt
<1> HIDE DEF a, b, q
<1>n. Len(s) \in Nat
    OBVIOUS
<1>3. /\ q \in Seq(U) /\ Len(q) = Len(s) - 1
      /\ \A k \in 1 .. Len(s) - 1 : q[k] = IF k < f THEN s[k] ELSE s[k + 1]
    <2>1. q \in Seq(U) /\ Len(q) = Len(s) - 1
        <3>1. \A x, y \in Seq(U) : x \o y \in Seq(U) /\ Len(x \o y) = Len(x) + Len(y)
            OBVIOUS
        <3>2. q \in Seq(U) /\ Len(q) = Len(a) + Len(b)
            BY <3>1, <1>1, <1>2
        <3> QED BY <3>2, <1>1, <1>n
    <2> SUFFICES ASSUME NEW k \in 1 .. Len(s) - 1
                 PROVE  q[k] = IF k < f THEN s[k] ELSE s[k + 1]
        BY <2>1
    <2>2. (a \o b)[k] = IF k < f THEN a[k] ELSE b[k - (f - 1)]
        BY <1>1, <1>n
    <2>3. CASE k < f
        BY <2>2, <2>3, <1>1, <1>2
    <2>4. CASE ~ (k < f)
        <3>1. k - (f - 1) \in 1 .. Len(b) /\ f + (k - (f - 1)) = k + 1
            BY <2>4, <1>1, <1>n
        <3> QED BY <2>2, <2>4, <3>1, <1>1, <1>2
    <2> QED BY <2>3, <2>4
<1>4. s[f] \in U /\ t \in 1 .. Len(q) + 1
    BY <1>3
<1> DEFINE e == s[f]
           r == InsertAt(q, t, e)
<1>e. e \in U
    BY <1>4
<1> HIDE DEF e
<1>5. /\ r \in Seq(U) /\ Len(r) = Len(q) + 1
      /\ \A k \in 1 .. Len(q) + 1 : r[k] =
            IF k < t THEN q[k] ELSE IF k = t THEN e ELSE q[k - 1]
    <2>1. q \in Seq(U) /\ t \in 1 .. Len(q) + 1
        BY <1>3, <1>4
    <2> QED BY <2>1, <1>e, InsertedAt DEF Spliced
<1> HIDE DEF r
<1>6. r \in Seq(U) /\ Len(r) = Len(s) /\ r[t] = e
    BY <1>3, <1>4, <1>5
<1>7. ASSUME NEW k \in 1 .. Len(s)
      PROVE  /\ k < t \/ k > f => r[k] = s[k]
             /\ t < k /\ k <= f => r[k] = s[k - 1]
    <2>1. r[k] = IF k < t THEN q[k] ELSE IF k = t THEN e ELSE q[k - 1]
        BY <1>3, <1>5
    <2>2. k <= Len(s) - 1 => q[k] = IF k < f THEN s[k] ELSE s[k + 1]
        <3>1. k <= Len(s) - 1 => k \in 1 .. Len(s) - 1
            BY <1>n
        <3> QED BY <3>1, <1>3
    <2>3. k > 1 => q[k - 1] = IF k - 1 < f THEN s[k - 1] ELSE s[k]
        BY <1>3
    <2> QED BY <2>1, <2>2, <2>3
<1> QED BY <1>6, <1>7 DEF Moved, r, q, e

LEMMA MovedIs ==
    ASSUME NEW U, NEW s \in Seq(U), NEW f \in Nat, NEW t \in Nat,
           f \in 1 .. Len(s), t \in 1 .. f - 1
    PROVE  Moved(U, s, f, t, InsertAt(RemoveAt(s, f), t, s[f]))
BY MovedTo

-----------------------------------------------------------------------------
(* What is left to match, numbered from the end of the prefix, and how many *)
(* of it are up to y.                                                       *)
Live(left, p) == {o - p : o \in left}
Rank(live, y) == Cardinality({x \in live : x <= y})

LEMMA BelowIsFinite ==
    ASSUME NEW n \in Nat, NEW live \in SUBSET (1 .. n), NEW y
    PROVE  /\ IsFiniteSet({x \in live : x <= y})
           /\ Rank(live, y) \in 0 .. Cardinality(live)
           /\ Cardinality(live) \in Nat
<1> DEFINE B == {x \in live : x <= y}
<1>1. IsFiniteSet(live) /\ Cardinality(live) \in Nat
    BY LiveFinite, FS_CardinalityType
<1>2. B \in SUBSET live
    OBVIOUS
<1> HIDE DEF B
<1>3. IsFiniteSet(B) /\ Cardinality(B) <= Cardinality(live)
    BY <1>1, <1>2, FS_Subset
<1>4. Cardinality(B) \in Nat
    BY <1>3, FS_CardinalityType
<1> QED BY <1>1, <1>3, <1>4 DEF Rank, B

LEMMA RankStep ==
    ASSUME NEW n \in Nat, NEW live \in SUBSET (1 .. n), NEW y \in live
    PROVE  Rank(live, y) = Rank(live, y - 1) + 1
<1> DEFINE B(z) == {x \in live : x <= z}
<1>1. \A x \in live : x <= y <=> x <= y - 1 \/ x = y
    <2>1. \A x \in live : x \in Nat
        OBVIOUS
    <2> QED BY <2>1
<1>2. B(y) = B(y - 1) \cup {y}
    BY <1>1
<1>3. y \notin B(y - 1)
    OBVIOUS
<1>4. IsFiniteSet(B(y - 1))
    BY BelowIsFinite
<1> HIDE DEF B
<1>5. Cardinality(B(y)) = Cardinality(B(y - 1)) + 1
    BY <1>2, <1>3, <1>4, FS_AddElement
<1> QED BY <1>5 DEF Rank, B

LEMMA RankLess ==
    ASSUME NEW n \in Nat, NEW live \in SUBSET (1 .. n), NEW x \in live, NEW y \in live, x < y
    PROVE  Rank(live, x) < Rank(live, y)
<1> DEFINE B(z) == {w \in live : w <= z}
<1>1. \A w \in live : w <= x => w <= y - 1
    <2>1. \A w \in live : w \in Nat
        OBVIOUS
    <2> QED BY <2>1
<1>2. B(x) \in SUBSET B(y - 1)
    BY <1>1
<1>3. IsFiniteSet(B(y - 1)) /\ IsFiniteSet(B(x))
    BY BelowIsFinite
<1>3a. Cardinality(B(y - 1)) \in Nat /\ Cardinality(B(x)) \in Nat
    <2> HIDE DEF B
    <2> QED BY <1>3, FS_CardinalityType
<1> HIDE DEF B
<1>4. Cardinality(B(x)) <= Cardinality(B(y - 1))
    BY <1>2, <1>3, FS_Subset
<1>5. Rank(live, y) = Cardinality(B(y - 1)) + 1 /\ Rank(live, x) = Cardinality(B(x))
    BY RankStep DEF Rank, B
<1> QED BY <1>3a, <1>4, <1>5

LEMMA RankRemoved ==
    ASSUME NEW n \in Nat, NEW live \in SUBSET (1 .. n), NEW x \in live, NEW y \in live
    PROVE  /\ x < y => Rank(live \ {y}, x) = Rank(live, x)
           /\ y <= x => Rank(live \ {y}, x) = Rank(live, x) - 1
<1> DEFINE B == {w \in live : w <= x}
<1>1. x \in Nat /\ y \in Nat /\ {w \in live \ {y} : w <= x} = B \ {y} /\ (y \in B <=> y <= x)
    OBVIOUS
<1>2. IsFiniteSet(B)
    BY BelowIsFinite
<1> HIDE DEF B
<1>3. Cardinality(B \ {y}) = IF y \in B THEN Cardinality(B) - 1 ELSE Cardinality(B)
    BY <1>2, FS_RemoveElement
<1>4. Rank(live \ {y}, x) = Cardinality(B \ {y}) /\ Rank(live, x) = Cardinality(B)
    BY <1>1 DEF Rank, B
<1> QED BY <1>1, <1>3, <1>4

LEMMA RankPositive ==
    ASSUME NEW n \in Nat, NEW live \in SUBSET (1 .. n), NEW y \in live
    PROVE  Rank(live, y) \in 1 .. Cardinality(live)
<1>1. Rank(live, y) = Rank(live, y - 1) + 1
    BY RankStep
<1>2. Rank(live, y) \in 0 .. Cardinality(live) /\ Rank(live, y - 1) \in 0 .. Cardinality(live)
      /\ Cardinality(live) \in Nat
    BY BelowIsFinite
<1> QED BY <1>1, <1>2

LEMMA FullRank ==
    ASSUME NEW n \in Nat, NEW y \in 0 .. n
    PROVE  Rank(1 .. n, y) = y
<1>1. {x \in 1 .. n : x <= y} = 1 .. y
    OBVIOUS
<1>2. Cardinality(1 .. y) = y
    BY FS_Interval
<1> QED BY <1>1, <1>2 DEF Rank

-----------------------------------------------------------------------------
(* After the round for the new child k: what has been taken from where, and *)
(* that whatever could be reused was.                                       *)
Half(m) == m = [left |-> m.left, bit |-> m.bit, out |-> m.out, pairs |-> m.pairs]

Paired(m, o, j) == \E n \in 1 .. Len(m.pairs) : m.pairs[n] = <<o, j>>

Pairing(olds, news, p, m, k) ==
    /\ Half(m)
    /\ m.left \in SUBSET (p + 1 .. Len(olds))
    /\ Counts(m.bit, Len(olds) - p, Live(m.left, p))
    /\ m.pairs \in Seq((1 .. Len(olds)) \X (1 .. Len(news)))
    /\ Len(m.pairs) >= p
    /\ \A n \in 1 .. p : m.pairs[n] = <<n, n>>
    /\ \A n \in p + 1 .. Len(m.pairs) :
          m.pairs[n][1] \in p + 1 .. Len(olds) /\ m.pairs[n][2] \in p + 1 .. k
    /\ \A n \in 1 .. Len(m.pairs) :
          /\ m.pairs[n][1] \notin m.left
          /\ Reusable(olds[m.pairs[n][1]], news[m.pairs[n][2]])
    /\ \A n, q \in 1 .. Len(m.pairs) : m.pairs[n][2] = m.pairs[q][2] => n = q
    /\ \A o \in 1 .. Len(olds) : o \notin m.left => \E j \in 1 .. k : Paired(m, o, j)
    /\ \A j \in 1 .. k : (\A o \in 1 .. Len(olds) : ~ Paired(m, o, j))
                          => \A o \in m.left : ~ Reusable(olds[o], news[j])

LEMMA LiveFacts ==
    ASSUME NEW p \in Nat, NEW n \in Nat, NEW left \in SUBSET (p + 1 .. n)
    PROVE  /\ Live(left, p) \in SUBSET (1 .. n - p)
           /\ \A o \in left : o - p \in Live(left, p)
           /\ \A y \in Live(left, p) : y + p \in left
           /\ \A o \in left : Live(left \ {o}, p) = Live(left, p) \ {o - p}
           /\ left = {} <=> Live(left, p) = {}
<1>1. \A o \in left : o \in Int /\ o - p \in 1 .. n - p /\ (o - p) + p = o
    OBVIOUS
<1>2. \A y : y \in Live(left, p) <=> \E o \in left : y = o - p
    BY DEF Live
<1>3. Live(left, p) \in SUBSET (1 .. n - p)
    BY <1>1, <1>2
<1>4. ASSUME NEW o \in left PROVE Live(left \ {o}, p) = Live(left, p) \ {o - p}
    <2>1. \A y : y \in Live(left \ {o}, p) <=> \E x \in left \ {o} : y = x - p
        BY DEF Live
    <2>2. \A x \in left : x # o => x - p # o - p
        BY <1>1
    <2> QED BY <1>2, <2>1, <2>2
<1> QED BY <1>1, <1>2, <1>3, <1>4

LEMMA LiveOf ==
    ASSUME NEW p \in Nat, NEW n \in Nat, NEW left \in SUBSET (p + 1 .. n), NEW o \in left
    PROVE  /\ o - p \in Live(left, p) /\ o - p \in 1 .. n - p /\ (o - p) + p = o
           /\ Live(left \ {o}, p) = Live(left, p) \ {o - p}
<1>1. \A x \in left : x - p \in Live(left, p)
    BY LiveFacts
<1>2. \A x \in left : Live(left \ {x}, p) = Live(left, p) \ {x - p}
    BY LiveFacts
<1>3. o - p \in 1 .. n - p /\ (o - p) + p = o
    OBVIOUS
<1> QED BY <1>1, <1>2, <1>3

LEMMA LiveRemoved ==
    \A p \in Nat, n \in Nat : \A left : left \in SUBSET (p + 1 .. n) =>
       \A o \in left : Live(left \ {o}, p) = Live(left, p) \ {o - p}
<1> SUFFICES ASSUME NEW p \in Nat, NEW n \in Nat, NEW left \in SUBSET (p + 1 .. n), NEW o \in left
             PROVE  Live(left \ {o}, p) = Live(left, p) \ {o - p}
    OBVIOUS
<1> QED BY LiveOf

(* The two outcomes r of a round: the new child is inserted, or the old     *)
(* child o is reused, taken from where it is.                               *)
Inserted(olds, news, path, m, i, r) ==
    /\ \A o \in m.left : ~ Reusable(olds[o], news[i])
    /\ r = [left |-> m.left, bit |-> m.bit, pairs |-> m.pairs,
            out |-> Append(m.out, InsertChild(path, i, FromVNode[news[i]]))]

Reused(olds, news, path, p, m, i, r, o) ==
    LET from == i - 1 + Rank(Live(m.left, p), o - p) IN
    /\ Reusable(olds[o], news[i])
    /\ from \in i .. i - 1 + Cardinality(Live(m.left, p))
    /\ r = [left |-> m.left \ {o}, bit |-> Added(m.bit, o - p, -1),
            out |-> IF from = i THEN m.out ELSE Append(m.out, MoveChild(path, from, i)),
            pairs |-> Append(m.pairs, <<o, i>>)]

LEMMA RoundCases ==
    ASSUME NEW olds \in Seq(VNodes), NEW news \in Seq(VNodes), NEW path,
           NEW p \in 0 .. Len(olds), NEW i \in p + 1 .. Len(news), NEW m,
           Pairing(olds, news, p, m, i - 1)
    PROVE  \/ Inserted(olds, news, path, m, i, Matched(olds, news, path, p, m, i))
           \/ \E o \in m.left :
                 Reused(olds, news, path, p, m, i, Matched(olds, news, path, p, m, i), o)
<1> DEFINE queue == {o \in m.left : Reusable(olds[o], news[i])}
           r == Matched(olds, news, path, p, m, i)
<1>1. CASE queue = {}
    <2>1. r = [m EXCEPT !.out = Append(@, InsertChild(path, i, FromVNode[news[i]]))]
        BY <1>1 DEF Matched
    <2>2. m = [left |-> m.left, bit |-> m.bit, out |-> m.out, pairs |-> m.pairs]
        BY DEF Pairing, Half
    <2>3. r = [left |-> m.left, bit |-> m.bit, pairs |-> m.pairs,
               out |-> Append(m.out, InsertChild(path, i, FromVNode[news[i]]))]
        BY <2>1, <2>2
    <2> QED BY <1>1, <2>3 DEF Inserted
<1>2. CASE queue # {}
    <2> DEFINE o == Min(queue)
               n == Len(olds) - p
               live == Live(m.left, p)
               from == i + CountUpTo(m.bit, o - p - 1)
    <2>1. queue \in SUBSET Nat
        BY DEF Pairing
    <2>2. o \in queue
        <3> HIDE DEF queue
        <3> QED BY <1>2, <2>1, MinIsIn
    <2>3. r = [left |-> m.left \ {o}, bit |-> Added(m.bit, o - p, -1),
               out |-> IF from = i THEN m.out ELSE Append(m.out, MoveChild(path, from, i)),
               pairs |-> Append(m.pairs, <<o, i>>)]
        BY <1>2 DEF Matched
    <2>4. o \in m.left /\ Reusable(olds[o], news[i])
        BY <2>2
    <2> HIDE DEF o, queue
    <2>5. n \in Nat /\ live \in SUBSET (1 .. n) /\ o - p \in live /\ o - p \in 1 .. n
        <3>1. p \in Nat /\ Len(olds) \in Nat /\ m.left \in SUBSET (p + 1 .. Len(olds))
            BY DEF Pairing
        <3>2. live \in SUBSET (1 .. n) /\ \A x \in m.left : x - p \in live
            BY <3>1, LiveFacts
        <3>3. n \in Nat /\ o - p \in live
            BY <2>4, <3>2
        <3> HIDE DEF live, n
        <3> QED BY <3>2, <3>3
    <2>6. o - p - 1 \in 0 .. n /\ Counts(m.bit, n, live)
        BY <2>5 DEF Pairing
    <2> HIDE DEF live, n
    <2>7. CountUpTo(m.bit, o - p - 1) = Rank(live, o - p - 1)
        BY <2>5, <2>6, CountUpToExact DEF Rank
    <2>8. Rank(live, o - p) = Rank(live, o - p - 1) + 1 /\ Rank(live, o - p) \in 0 .. Cardinality(live)
          /\ Rank(live, o - p - 1) \in 0 .. Cardinality(live) /\ Cardinality(live) \in Nat
        <3>1. n \in Nat /\ live \in SUBSET (1 .. n) /\ o - p \in live
            BY <2>5
        <3> DEFINE y == o - p
        <3>2. Rank(live, y) = Rank(live, y - 1) + 1
            <4> HIDE DEF y
            <4> QED BY <3>1, RankStep DEF y
        <3>3. Rank(live, y) \in 0 .. Cardinality(live) /\ Rank(live, y - 1) \in 0 .. Cardinality(live)
              /\ Cardinality(live) \in Nat
            <4> HIDE DEF y
            <4> QED BY <3>1, BelowIsFinite
        <3> QED BY <3>2, <3>3
    <2>9. from = i - 1 + Rank(live, o - p) /\ from \in i .. i - 1 + Cardinality(live)
        <3> DEFINE a == Rank(live, o - p)
                   b == Rank(live, o - p - 1)
                   c == Cardinality(live)
        <3>1. from = i + b
            BY <2>7
        <3>2. a = b + 1 /\ a \in 0 .. c /\ b \in 0 .. c /\ c \in Nat /\ i \in Nat
            BY <2>8
        <3> HIDE DEF a, b, c, from
        <3>3. from = i - 1 + a /\ from \in i .. i - 1 + c
            BY <3>1, <3>2
        <3> QED BY <3>3 DEF a, c
    <2> HIDE DEF from, r
    <2> QED BY <2>3, <2>4, <2>9 DEF live, r, Reused
<1> QED BY <1>1, <1>2

LEMMA PairingKept ==
    ASSUME NEW olds \in Seq(VNodes), NEW news \in Seq(VNodes), NEW path,
           NEW p \in 0 .. Len(olds), NEW i \in p + 1 .. Len(news), NEW m,
           Pairing(olds, news, p, m, i - 1)
    PROVE  Pairing(olds, news, p, Matched(olds, news, path, p, m, i), i)
<1> DEFINE r == Matched(olds, news, path, p, m, i)
           S == (1 .. Len(olds)) \X (1 .. Len(news))
<1>0. i - 1 \in Nat /\ p \in Nat /\ Len(olds) \in Nat /\ i \in 1 .. Len(news)
    OBVIOUS
<1>t. m.pairs \in Seq(S) /\ Len(m.pairs) \in Nat /\ \A n \in 1 .. Len(m.pairs) : m.pairs[n] \in S
    BY DEF Pairing
<1>1. ASSUME \A o \in m.left : ~ Reusable(olds[o], news[i]), NEW out,
             r = [left |-> m.left, bit |-> m.bit, pairs |-> m.pairs, out |-> out]
      PROVE  Pairing(olds, news, p, r, i)
    <2> HIDE DEF r
    <2>1. r.left = m.left /\ r.bit = m.bit /\ r.pairs = m.pairs /\ Half(r)
        BY <1>1 DEF Half
    <2>2. \A o, j : Paired(r, o, j) <=> Paired(m, o, j)
        BY <2>1 DEF Paired
    <2>3. \A n \in p + 1 .. Len(m.pairs) : m.pairs[n][2] \in p + 1 .. i
        <3>1. \A n \in p + 1 .. Len(m.pairs) : m.pairs[n][2] \in p + 1 .. i - 1
            BY DEF Pairing
        <3>2. \A x \in p + 1 .. i - 1 : x \in p + 1 .. i
            BY <1>0
        <3> QED BY <3>1, <3>2
    <2>4. \A o \in 1 .. Len(olds) : o \notin m.left => \E j \in 1 .. i : Paired(m, o, j)
        BY <1>0 DEF Pairing
    <2>5. \A j \in 1 .. i : (\A o \in 1 .. Len(olds) : ~ Paired(m, o, j))
                          => \A o \in m.left : ~ Reusable(olds[o], news[j])
        <3>1. \A j \in 1 .. i : j \in 1 .. i - 1 \/ j = i
            BY <1>0
        <3> QED BY <1>1, <3>1 DEF Pairing
    <2>6. /\ r.left \in SUBSET (p + 1 .. Len(olds))
          /\ Counts(r.bit, Len(olds) - p, Live(r.left, p))
          /\ r.pairs \in Seq(S)
          /\ Len(r.pairs) >= p
          /\ \A n \in 1 .. p : r.pairs[n] = <<n, n>>
          /\ \A n \in 1 .. Len(r.pairs) :
                /\ r.pairs[n][1] \notin r.left
                /\ Reusable(olds[r.pairs[n][1]], news[r.pairs[n][2]])
          /\ \A n, q \in 1 .. Len(r.pairs) : r.pairs[n][2] = r.pairs[q][2] => n = q
        BY <2>1 DEF Pairing
    <2>7. \A n \in p + 1 .. Len(r.pairs) :
             r.pairs[n][1] \in p + 1 .. Len(olds) /\ r.pairs[n][2] \in p + 1 .. i
        BY <2>1, <2>3 DEF Pairing
    <2>8. \A o \in 1 .. Len(olds) : o \notin r.left => \E j \in 1 .. i : Paired(r, o, j)
        BY <2>1, <2>2, <2>4
    <2>9. \A j \in 1 .. i : (\A o \in 1 .. Len(olds) : ~ Paired(r, o, j))
                          => \A o \in r.left : ~ Reusable(olds[o], news[j])
        BY <2>1, <2>2, <2>5
    <2> QED BY <2>1, <2>6, <2>7, <2>8, <2>9 DEF Pairing
<1>2. ASSUME NEW o \in m.left, Reusable(olds[o], news[i]), NEW out,
             r = [left |-> m.left \ {o}, bit |-> Added(m.bit, o - p, -1), out |-> out,
                  pairs |-> Append(m.pairs, <<o, i>>)]
      PROVE  Pairing(olds, news, p, r, i)
    <2> HIDE DEF r
    <2> DEFINE N == Len(m.pairs)
    <2>1. r.left = m.left \ {o} /\ r.bit = Added(m.bit, o - p, -1) /\ r.pairs = Append(m.pairs, <<o, i>>)
          /\ Half(r)
        BY <1>2 DEF Half
    <2>2. o \in p + 1 .. Len(olds) /\ o \in 1 .. Len(olds) /\ <<o, i>> \in S
        BY <1>0 DEF Pairing
    <2>3. r.pairs \in Seq(S) /\ Len(r.pairs) = N + 1 /\ r.pairs[N + 1] = <<o, i>>
          /\ \A n \in 1 .. N : r.pairs[n] = m.pairs[n]
        <3> HIDE DEF S
        <3> QED BY <1>t, <2>1, <2>2
    <2>4. N \in Nat /\ N >= p /\ \A n \in 1 .. N + 1 : n \in 1 .. N \/ n = N + 1
        BY <1>t DEF Pairing
    <2> HIDE DEF N
    <2>5. Counts(r.bit, Len(olds) - p, Live(r.left, p))
        <3>1. m.left \in SUBSET (p + 1 .. Len(olds)) /\ Counts(m.bit, Len(olds) - p, Live(m.left, p))
            BY DEF Pairing
        <3>2. Len(olds) - p \in Nat
            BY <1>0
        <3>3. Live(m.left, p) \in SUBSET (1 .. Len(olds) - p) /\ o - p \in Live(m.left, p)
              /\ Live(m.left \ {o}, p) = Live(m.left, p) \ {o - p}
            <4>1. p \in Nat /\ Len(olds) \in Nat
                BY <1>0
            <4>2. Live(m.left, p) \in SUBSET (1 .. Len(olds) - p)
                BY <4>1, <3>1, LiveFacts
            <4>3. o - p \in Live(m.left, p) /\ Live(m.left \ {o}, p) = Live(m.left, p) \ {o - p}
                <5> DEFINE left == m.left
                           n == Len(olds)
                <5>1. p \in Nat /\ n \in Nat /\ left \in SUBSET (p + 1 .. n) /\ o \in left
                    BY <4>1, <3>1
                <5> HIDE DEF left, n
                <5>2. o - p \in Live(left, p)
                    BY <5>1 DEF Live
                <5>3. Live(left \ {o}, p) = Live(left, p) \ {o - p}
                    BY <5>1, LiveRemoved
                <5> QED BY <5>2, <5>3 DEF left
            <4> QED BY <4>2, <4>3
        <3> DEFINE y == o - p
                   n == Len(olds) - p
                   live == Live(m.left, p)
        <3>4. n \in Nat /\ live \in SUBSET (1 .. n) /\ y \in live /\ Counts(m.bit, n, live)
            BY <3>1, <3>2, <3>3
        <3> HIDE DEF y, n, live
        <3>5. Counts(Added(m.bit, y, -1), n, live \ {y})
            BY <3>4, RemovedCounts
        <3> QED BY <2>1, <3>3, <3>5 DEF y, n, live
    <2>6. /\ r.left \in SUBSET (p + 1 .. Len(olds))
          /\ Len(r.pairs) >= p
          /\ \A n \in 1 .. p : r.pairs[n] = <<n, n>>
        <3>1. m.left \in SUBSET (p + 1 .. Len(olds)) /\ \A n \in 1 .. p : m.pairs[n] = <<n, n>>
            BY DEF Pairing
        <3>2. \A n \in 1 .. p : n \in 1 .. N
            BY <1>0, <2>4
        <3>3. \A n \in 1 .. p : r.pairs[n] = <<n, n>>
            BY <2>3, <3>1, <3>2
        <3>4. r.left \in SUBSET (p + 1 .. Len(olds))
            BY <2>1, <3>1
        <3>5. Len(r.pairs) >= p
            BY <1>0, <2>3, <2>4
        <3> QED BY <3>3, <3>4, <3>5
    <2>7. \A n \in p + 1 .. Len(r.pairs) :
             r.pairs[n][1] \in p + 1 .. Len(olds) /\ r.pairs[n][2] \in p + 1 .. i
        <3> SUFFICES ASSUME NEW n \in p + 1 .. N + 1
                     PROVE  r.pairs[n][1] \in p + 1 .. Len(olds) /\ r.pairs[n][2] \in p + 1 .. i
            BY <2>3
        <3>1. CASE n = N + 1
            BY <3>1, <2>2, <2>3
        <3>2. CASE n \in p + 1 .. N
            <4>1. r.pairs[n] = m.pairs[n]
                BY <3>2, <2>3, <2>4
            <4>2. m.pairs[n][1] \in p + 1 .. Len(olds) /\ m.pairs[n][2] \in p + 1 .. i - 1
                BY <3>2 DEF Pairing, N
            <4> QED BY <1>0, <4>1, <4>2
        <3> QED BY <2>4, <3>1, <3>2
    <2>8. \A n \in 1 .. Len(r.pairs) :
             /\ r.pairs[n][1] \notin r.left
             /\ Reusable(olds[r.pairs[n][1]], news[r.pairs[n][2]])
        <3> SUFFICES ASSUME NEW n \in 1 .. N + 1
                     PROVE  /\ r.pairs[n][1] \notin r.left
                            /\ Reusable(olds[r.pairs[n][1]], news[r.pairs[n][2]])
            BY <2>3
        <3>1. CASE n = N + 1
            <4>1. r.pairs[n][1] = o /\ r.pairs[n][2] = i
                BY <3>1, <2>3
            <4>2. o \notin r.left
                BY <2>1
            <4> QED BY <4>1, <4>2, <1>2
        <3>2. CASE n \in 1 .. N
            <4>1. m.pairs[n][1] \notin m.left /\ Reusable(olds[m.pairs[n][1]], news[m.pairs[n][2]])
                BY <3>2 DEF Pairing, N
            <4> QED BY <3>2, <4>1, <2>1, <2>3
        <3> QED BY <2>4, <3>1, <3>2
    <2>9. \A n \in 1 .. N : m.pairs[n][2] \in Int /\ m.pairs[n][2] < i
        <3> SUFFICES ASSUME NEW n \in 1 .. N PROVE m.pairs[n][2] \in Int /\ m.pairs[n][2] < i
            OBVIOUS
        <3>1. CASE n <= p
            <4>1. n \in 1 .. p
                BY <3>1, <1>0, <2>4
            <4>2. m.pairs[n] = <<n, n>>
                BY <4>1 DEF Pairing
            <4> QED BY <3>1, <4>2, <1>0
        <3>2. CASE n > p
            <4>1. n \in p + 1 .. N
                BY <3>2, <1>0, <2>4
            <4>2. m.pairs[n][2] \in p + 1 .. i - 1
                BY <4>1 DEF Pairing, N
            <4> QED BY <4>2, <1>0
        <3> QED BY <3>1, <3>2, <1>0, <2>4
    <2>10. \A n, q \in 1 .. Len(r.pairs) : r.pairs[n][2] = r.pairs[q][2] => n = q
        <3> SUFFICES ASSUME NEW n \in 1 .. N + 1, NEW q \in 1 .. N + 1, r.pairs[n][2] = r.pairs[q][2]
                     PROVE  n = q
            BY <2>3
        <3>1. CASE n \in 1 .. N /\ q \in 1 .. N
            <4>1. m.pairs[n][2] = m.pairs[q][2]
                BY <3>1, <2>3
            <4> QED BY <3>1, <4>1 DEF Pairing, N
        <3>4. r.pairs[N + 1][2] = i
            BY <2>3
        <3>5. \A x \in 1 .. N : r.pairs[x][2] # i
            <4> SUFFICES ASSUME NEW x \in 1 .. N PROVE r.pairs[x][2] # i
                OBVIOUS
            <4>1. r.pairs[x] = m.pairs[x] /\ m.pairs[x][2] \in Int /\ m.pairs[x][2] < i
                BY <2>3, <2>9
            <4> QED BY <4>1, <1>0
        <3>2. CASE n = N + 1 /\ q \in 1 .. N
            BY <3>2, <3>4, <3>5
        <3>3. CASE q = N + 1 /\ n \in 1 .. N
            BY <3>3, <3>4, <3>5
        <3> QED BY <2>4, <3>1, <3>2, <3>3
    <2>11. \A x, j : Paired(r, x, j) <=> Paired(m, x, j) \/ (x = o /\ j = i)
        <3>1. \A x, j : Paired(r, x, j) <=> \E n \in 1 .. N + 1 : r.pairs[n] = <<x, j>>
            BY <2>3 DEF Paired
        <3>2. \A x, j : Paired(m, x, j) <=> \E n \in 1 .. N : r.pairs[n] = <<x, j>>
            BY <2>3 DEF Paired, N
        <3>3. 1 .. N + 1 = (1 .. N) \cup {N + 1}
            BY <2>4
        <3>4. \A x, j : <<o, i>> = <<x, j>> <=> x = o /\ j = i
            OBVIOUS
        <3> SUFFICES ASSUME NEW x, NEW j
                     PROVE  Paired(r, x, j) <=> Paired(m, x, j) \/ (x = o /\ j = i)
            OBVIOUS
        <3>5. r.pairs[N + 1] = <<x, j>> <=> x = o /\ j = i
            BY <3>4, <2>3
        <3>6. (\E n \in 1 .. N + 1 : r.pairs[n] = <<x, j>>)
              <=> (\E n \in 1 .. N : r.pairs[n] = <<x, j>>) \/ r.pairs[N + 1] = <<x, j>>
            BY <3>3
        <3> QED BY <3>1, <3>2, <3>5, <3>6
    <2>12. \A x \in 1 .. Len(olds) : x \notin r.left => \E j \in 1 .. i : Paired(r, x, j)
        <3> SUFFICES ASSUME NEW x \in 1 .. Len(olds), x \notin r.left
                     PROVE  \E j \in 1 .. i : Paired(r, x, j)
            OBVIOUS
        <3>1. CASE x = o
            BY <3>1, <2>11, <1>0
        <3>2. CASE x # o
            <4>1. PICK j \in 1 .. i - 1 : Paired(m, x, j)
                BY <3>2, <2>1 DEF Pairing
            <4>2. j \in 1 .. i
                BY <1>0
            <4> QED BY <4>1, <4>2, <2>11
        <3> QED BY <3>1, <3>2
    <2>13. \A j \in 1 .. i : (\A x \in 1 .. Len(olds) : ~ Paired(r, x, j))
                           => \A x \in r.left : ~ Reusable(olds[x], news[j])
        <3> SUFFICES ASSUME NEW j \in 1 .. i, \A x \in 1 .. Len(olds) : ~ Paired(r, x, j)
                     PROVE  \A x \in r.left : ~ Reusable(olds[x], news[j])
            OBVIOUS
        <3>1. j # i
            BY <2>2, <2>11
        <3>2. j \in 1 .. i - 1 /\ \A x \in 1 .. Len(olds) : ~ Paired(m, x, j)
            BY <3>1, <2>11, <1>0
        <3> QED BY <3>2, <2>1 DEF Pairing
    <2> QED BY <2>1, <2>3, <2>5, <2>6, <2>7, <2>8, <2>10, <2>12, <2>13 DEF Pairing
<1> HIDE DEF r
<1>3. CASE Inserted(olds, news, path, m, i, Matched(olds, news, path, p, m, i))
    BY <1>1, <1>3 DEF Inserted, r
<1>4. ASSUME NEW o \in m.left,
             Reused(olds, news, path, p, m, i, Matched(olds, news, path, p, m, i), o)
      PROVE  Pairing(olds, news, p, r, i)
    BY <1>2, <1>4 DEF Reused, r
<1> QED BY <1>3, <1>4, RoundCases DEF r

-----------------------------------------------------------------------------
(* A list taken through structural patches, fr[j] being what an insertion   *)
(* of the new child j brings.  The list K becomes L.                        *)
Structural(path, news) ==
    {MoveChild(path, f, t) : f \in Nat, t \in Nat}
    \cup {InsertChild(path, j, FromVNode[news[j]]) : j \in 1 .. Len(news)}

Anew(q, fr) == IF q.op = "insertChild" THEN <<fr[q.index]>> ELSE <<>>

InRange(len, q) ==
    \/ q.op = "insertChild" /\ q.index \in 1 .. len + 1
    \/ q.op = "moveChild" /\ q.to \in 1 .. q.from - 1 /\ q.from \in 1 .. len

Goes(U, K, ps, fr, L) ==
    \E g : /\ g[0] = K /\ g[Len(ps)] = L
           /\ \A n \in 0 .. Len(ps) : g[n] \in Seq(U)
           /\ \A n \in 1 .. Len(ps) :
                 /\ InRange(Len(g[n - 1]), ps[n])
                 /\ g[n] = Rearranged(g[n - 1], ps[n], Anew(ps[n], fr))

LEMMA GoesOn ==
    ASSUME NEW U, NEW K, NEW S, NEW ps \in Seq(S), NEW fr, NEW L, Goes(U, K, ps, fr, L),
           NEW q \in S, InRange(Len(L), q),
           Rearranged(L, q, Anew(q, fr)) \in Seq(U)
    PROVE  Goes(U, K, Append(ps, q), fr, Rearranged(L, q, Anew(q, fr)))
<1> DEFINE N == Len(ps)
           M == Rearranged(L, q, Anew(q, fr))
           qs == Append(ps, q)
<1>1. N \in Nat /\ Len(qs) = N + 1 /\ qs[N + 1] = q /\ \A n \in 1 .. N : qs[n] = ps[n]
    OBVIOUS
<1>2. PICK g : /\ g[0] = K /\ g[N] = L
               /\ \A n \in 0 .. N : g[n] \in Seq(U)
               /\ \A n \in 1 .. N : /\ InRange(Len(g[n - 1]), ps[n])
                                    /\ g[n] = Rearranged(g[n - 1], ps[n], Anew(ps[n], fr))
    BY DEF Goes
<1> HIDE DEF N, M, qs
<1> DEFINE h == [n \in 0 .. N + 1 |-> IF n = N + 1 THEN M ELSE g[n]]
<1>3. h[N + 1] = M /\ \A n \in 0 .. N : h[n] = g[n]
    BY <1>1
<1>4. M = Rearranged(L, q, Anew(q, fr)) /\ M \in Seq(U)
    BY DEF M
<1> HIDE DEF h
<1>5. h[0] = K /\ h[Len(qs)] = M /\ \A n \in 0 .. Len(qs) : h[n] \in Seq(U)
    <2>1. \A n \in 0 .. N + 1 : n \in 0 .. N \/ n = N + 1
        BY <1>1
    <2>2. h[0] = K /\ h[Len(qs)] = M
        BY <1>1, <1>2, <1>3
    <2>3. \A n \in 0 .. N + 1 : h[n] \in Seq(U)
        BY <1>2, <1>3, <1>4, <2>1
    <2> QED BY <1>1, <2>2, <2>3
<1>6. ASSUME NEW n \in 1 .. N + 1
      PROVE  InRange(Len(h[n - 1]), qs[n]) /\ h[n] = Rearranged(h[n - 1], qs[n], Anew(qs[n], fr))
    <2>1. CASE n = N + 1
        <3>1. h[n - 1] = L /\ h[n] = M /\ qs[n] = q
            BY <2>1, <1>1, <1>2, <1>3
        <3> QED BY <3>1, <1>4
    <2>2. CASE n \in 1 .. N
        <3>1. n - 1 \in 0 .. N /\ n \in 0 .. N
            BY <2>2, <1>1
        <3>2. h[n - 1] = g[n - 1] /\ h[n] = g[n] /\ qs[n] = ps[n]
            BY <2>2, <3>1, <1>1, <1>3
        <3> QED BY <2>2, <3>2, <1>2
    <2> QED BY <2>1, <2>2, <1>1
<1> QED BY <1>1, <1>5, <1>6 DEF Goes, qs, M

LEMMA MoveRearranges ==
    ASSUME NEW U, NEW L \in Seq(U), NEW path, NEW f \in 1 .. Len(L), NEW t \in 1 .. f - 1, NEW fr
    PROVE  LET q == MoveChild(path, f, t) IN
           /\ InRange(Len(L), q)
           /\ Rearranged(L, q, Anew(q, fr)) = InsertAt(RemoveAt(L, f), t, L[f])
BY DEF InRange, Rearranged, MoveChild

LEMMA InsertRearranges ==
    ASSUME NEW U, NEW L \in Seq(U), NEW path, NEW v, NEW j \in 1 .. Len(L) + 1, NEW fr
    PROVE  LET q == InsertChild(path, j, v) IN
           /\ InRange(Len(L), q)
           /\ Rearranged(L, q, Anew(q, fr)) = InsertAt(L, j, fr[j])
<1> DEFINE q == InsertChild(path, j, v)
<1>1. q.op = "insertChild" /\ q.index = j
    BY DEF InsertChild
<1>2. Min({j, Len(L) + 1}) = j
    BY MinOfTwo
<1> HIDE DEF q
<1>3. Rearranged(L, q, Anew(q, fr)) = InsertAt(L, Min({q.index, Len(L) + 1}), Anew(q, fr)[1])
    BY <1>1 DEF Rearranged
<1>4. Anew(q, fr)[1] = fr[j]
    BY <1>1 DEF Anew
<1> QED BY <1>1, <1>2, <1>3, <1>4 DEF InRange, q

-----------------------------------------------------------------------------
(* The list after the round for k: the places up to k are settled, and what *)
(* is left of K stands behind them in its old order.                        *)
Frontier(U, K, fr, p, m, k, L) ==
    LET live == Live(m.left, p) IN
    /\ L \in Seq(U)
    /\ Len(L) = k + Cardinality(live)
    /\ \A n \in 1 .. Len(m.pairs) : L[m.pairs[n][2]] = K[m.pairs[n][1]]
    /\ \A j \in 1 .. k : (\A n \in 1 .. Len(m.pairs) : m.pairs[n][2] # j) => L[j] = fr[j]
    /\ \A y \in live : L[k + Rank(live, y)] = K[y + p]

(* What the pairs say in one round, with the types this needs.              *)
LEMMA PairingTypes ==
    ASSUME NEW olds \in Seq(VNodes), NEW news \in Seq(VNodes),
           NEW p \in 0 .. Len(olds), NEW i \in p + 1 .. Len(news), NEW m,
           Pairing(olds, news, p, m, i - 1)
    PROVE  /\ Live(m.left, p) \in SUBSET (1 .. Len(olds) - p)
           /\ Len(m.pairs) \in Nat
           /\ \A n \in 1 .. Len(m.pairs) : m.pairs[n][1] \in 1 .. Len(olds) /\ m.pairs[n][2] \in 1 .. i - 1
<1>0. p \in Nat /\ Len(olds) \in Nat /\ i \in Nat /\ p <= i - 1
    OBVIOUS
<1>1. m.left \in SUBSET (p + 1 .. Len(olds))
    BY DEF Pairing
<1>2. Live(m.left, p) \in SUBSET (1 .. Len(olds) - p)
    BY <1>0, <1>1, LiveFacts
<1>3. m.pairs \in Seq((1 .. Len(olds)) \X (1 .. Len(news)))
    BY DEF Pairing
<1>4. Len(m.pairs) \in Nat /\ \A n \in 1 .. Len(m.pairs) : m.pairs[n] \in (1 .. Len(olds)) \X (1 .. Len(news))
    BY <1>3
<1>5. ASSUME NEW n \in 1 .. Len(m.pairs)
      PROVE  m.pairs[n][1] \in 1 .. Len(olds) /\ m.pairs[n][2] \in 1 .. i - 1
    <2>1. m.pairs[n][1] \in 1 .. Len(olds)
        BY <1>4
    <2>2. CASE n <= p
        <3>1. n \in 1 .. p
            BY <1>0, <1>4, <2>2
        <3>2. m.pairs[n] = <<n, n>>
            BY <3>1 DEF Pairing
        <3> QED BY <1>0, <2>1, <3>1, <3>2
    <2>3. CASE ~ (n <= p)
        <3>1. n \in p + 1 .. Len(m.pairs)
            BY <1>0, <1>4, <2>3
        <3>2. m.pairs[n][2] \in p + 1 .. i - 1
            BY <3>1 DEF Pairing
        <3> QED BY <1>0, <2>1, <3>2
    <2> QED BY <2>2, <2>3
<1> QED BY <1>2, <1>4, <1>5

LEMMA InsertKeepsFrontier ==
    ASSUME NEW olds \in Seq(VNodes), NEW news \in Seq(VNodes), NEW path,
           NEW p \in 0 .. Len(olds), NEW i \in p + 1 .. Len(news), NEW m, NEW r,
           Pairing(olds, news, p, m, i - 1), Inserted(olds, news, path, m, i, r),
           NEW U, NEW K, NEW fr, fr[i] \in U, NEW L, Frontier(U, K, fr, p, m, i - 1, L)
    PROVE  /\ i \in 1 .. Len(L) + 1
           /\ Frontier(U, K, fr, p, r, i, InsertAt(L, i, fr[i]))
<1> DEFINE live == Live(m.left, p)
           M == InsertAt(L, i, fr[i])
           n0 == Len(olds) - p
<1>1. i \in Nat /\ i >= 1 /\ n0 \in Nat /\ r.left = m.left /\ r.pairs = m.pairs
    BY DEF Inserted
<1>2. live \in SUBSET (1 .. n0) /\ Len(m.pairs) \in Nat
      /\ \A n \in 1 .. Len(m.pairs) : m.pairs[n][2] \in 1 .. i - 1
    BY PairingTypes
<1>3. /\ L \in Seq(U)
      /\ Len(L) = i - 1 + Cardinality(live)
      /\ \A n \in 1 .. Len(m.pairs) : L[m.pairs[n][2]] = K[m.pairs[n][1]]
      /\ \A j \in 1 .. i - 1 : (\A n \in 1 .. Len(m.pairs) : m.pairs[n][2] # j) => L[j] = fr[j]
      /\ \A y \in live : L[i - 1 + Rank(live, y)] = K[y + p]
    BY DEF Frontier
<1> HIDE DEF live, n0
<1>4. Cardinality(live) \in Nat
    BY <1>1, <1>2, BelowIsFinite
<1>4a. \A y \in live : Rank(live, y) \in 1 .. Cardinality(live)
    BY <1>1, <1>2, RankPositive
<1>5. i \in 1 .. Len(L) + 1
    BY <1>1, <1>3, <1>4
<1>6. /\ M \in Seq(U) /\ Len(M) = Len(L) + 1
      /\ \A k \in 1 .. Len(L) + 1 : M[k] = IF k < i THEN L[k] ELSE IF k = i THEN fr[i] ELSE L[k - 1]
    <2> DEFINE e == fr[i]
    <2>1. L \in Seq(U) /\ i \in Nat /\ e \in U
        BY <1>1, <1>3
    <2> HIDE DEF e
    <2>2. /\ InsertAt(L, i, e) \in Seq(U) /\ Len(InsertAt(L, i, e)) = Len(L) + 1
          /\ \A k \in 1 .. Len(L) + 1 : InsertAt(L, i, e)[k] =
                IF k < i THEN L[k] ELSE IF k = i THEN e ELSE L[k - 1]
        <3>1. Spliced(U, L, i, e, InsertAt(L, i, e))
            BY <2>1, <1>5, InsertedAt
        <3> QED BY <3>1 DEF Spliced
    <2> QED BY <2>2 DEF e
<1> HIDE DEF M
<1>7. Len(M) = i + Cardinality(live) /\ M[i] = fr[i] /\ \A k \in 1 .. i - 1 : M[k] = L[k]
    <2>1. Len(L) = i - 1 + Cardinality(live)
        BY <1>3
    <2>2. Len(M) = i + Cardinality(live)
        BY <2>1, <1>1, <1>4, <1>6
    <2>3. \A k \in 1 .. i : k \in 1 .. Len(L) + 1
        BY <2>1, <1>1, <1>4
    <2>4. i \in 1 .. i /\ \A k \in 1 .. i - 1 : k \in 1 .. i /\ k < i
        BY <1>1
    <2>5. M[i] = fr[i]
        BY <1>1, <1>5, <1>6
    <2>6. \A k \in 1 .. i - 1 : M[k] = L[k]
        BY <2>3, <2>4, <1>6
    <2> QED BY <2>2, <2>5, <2>6
<1>8. \A n \in 1 .. Len(m.pairs) : M[m.pairs[n][2]] = K[m.pairs[n][1]]
    BY <1>2, <1>3, <1>7
<1>9. \A j \in 1 .. i : (\A n \in 1 .. Len(m.pairs) : m.pairs[n][2] # j) => M[j] = fr[j]
    <2>1. \A j \in 1 .. i : j \in 1 .. i - 1 \/ j = i
        BY <1>1
    <2> QED BY <1>3, <1>7, <2>1
<1>10. ASSUME NEW y \in live PROVE M[i + Rank(live, y)] = K[y + p]
    <2>1. Rank(live, y) \in 1 .. Cardinality(live)
        BY <1>4a
    <2>2. L[i - 1 + Rank(live, y)] = K[y + p]
        BY <1>3
    <2> DEFINE k == i + Rank(live, y)
    <2>3. k \in 1 .. Len(L) + 1 /\ k > i /\ k - 1 = i - 1 + Rank(live, y)
        BY <1>1, <1>3, <1>4, <2>1
    <2>4. M[k] = L[k - 1]
        <3> HIDE DEF k
        <3> QED BY <2>3, <1>6, <1>1
    <2> QED BY <2>2, <2>3, <2>4
<1> QED BY <1>1, <1>5, <1>6, <1>7, <1>8, <1>9, <1>10 DEF Frontier, M, live

(* The child o taken from where it is, which the list says is here.         *)
LEMMA ReuseKeepsFrontier ==
    ASSUME NEW olds \in Seq(VNodes), NEW news \in Seq(VNodes),
           NEW p \in 0 .. Len(olds), NEW i \in p + 1 .. Len(news), NEW m, NEW r, NEW o \in m.left,
           Pairing(olds, news, p, m, i - 1),
           r.left = m.left \ {o}, r.pairs = Append(m.pairs, <<o, i>>),
           NEW U, NEW K, NEW fr, NEW L, Frontier(U, K, fr, p, m, i - 1, L),
           NEW from, from = i - 1 + Rank(Live(m.left, p), o - p)
    PROVE  /\ from \in i .. Len(L)
           /\ Frontier(U, K, fr, p, r, i,
                       IF from = i THEN L ELSE InsertAt(RemoveAt(L, from), i, L[from]))
<1> DEFINE live == Live(m.left, p)
           y == o - p
           M == IF from = i THEN L ELSE InsertAt(RemoveAt(L, from), i, L[from])
           n0 == Len(olds) - p
           N == Len(m.pairs)
<1>1. i \in Nat /\ i >= 1 /\ p \in Nat /\ n0 \in Nat /\ Len(olds) \in Nat
    OBVIOUS
<1>2. live \in SUBSET (1 .. n0) /\ N \in Nat
      /\ \A n \in 1 .. N : m.pairs[n][2] \in 1 .. i - 1
    BY PairingTypes
<1>3. m.left \in SUBSET (p + 1 .. Len(olds)) /\ o \in Int
    BY DEF Pairing
<1>4. y \in live /\ Live(r.left, p) = live \ {y} /\ y + p = o
    <2> DEFINE left == m.left
    <2>1. o \in left /\ r.left = left \ {o} /\ left \in SUBSET (p + 1 .. Len(olds))
        BY <1>3
    <2> HIDE DEF left
    <2>2. o - p \in Live(left, p) /\ (o - p) + p = o
        BY <2>1, <1>1, LiveOf
    <2>3. Live(left \ {o}, p) = Live(left, p) \ {o - p}
        BY <2>1, <1>1, <1>3, LiveRemoved
    <2> QED BY <2>1, <2>2, <2>3 DEF left
<1>5. /\ L \in Seq(U)
      /\ Len(L) = i - 1 + Cardinality(live)
      /\ \A n \in 1 .. N : L[m.pairs[n][2]] = K[m.pairs[n][1]]
      /\ \A j \in 1 .. i - 1 : (\A n \in 1 .. N : m.pairs[n][2] # j) => L[j] = fr[j]
      /\ \A x \in live : L[i - 1 + Rank(live, x)] = K[x + p]
    BY DEF Frontier
<1>6. from = i - 1 + Rank(live, y)
    OBVIOUS
<1>7. /\ Len(r.pairs) = N + 1 /\ r.pairs[N + 1] = <<o, i>>
      /\ \A n \in 1 .. N : r.pairs[n] = m.pairs[n]
    <2>1. m.pairs \in Seq((1 .. Len(olds)) \X (1 .. Len(news))) /\ o \in 1 .. Len(olds)
          /\ i \in 1 .. Len(news)
        BY <1>1, <1>3 DEF Pairing
    <2> DEFINE S == (1 .. Len(olds)) \X (1 .. Len(news))
               e == <<o, i>>
    <2>2. m.pairs \in Seq(S) /\ e \in S
        BY <2>1
    <2> HIDE DEF S, e
    <2> QED BY <2>2, AppendProperties DEF e
<1> HIDE DEF live, y, n0, N
<1>8. Cardinality(live) \in Nat /\ \A x \in live : Rank(live, x) \in 1 .. Cardinality(live)
    <2>1. Cardinality(live) \in Nat
        BY <1>1, <1>2, BelowIsFinite
    <2> QED BY <2>1, <1>1, <1>2, RankPositive
<1>9. from \in i .. Len(L) /\ L[from] = K[o]
    <2>1. Rank(live, y) \in 1 .. Cardinality(live) /\ L[i - 1 + Rank(live, y)] = K[y + p]
        BY <1>4, <1>5, <1>8
    <2>2. y + p = o
        BY <1>1, <1>4
    <2>3. i - 1 + Rank(live, y) \in i .. i - 1 + Cardinality(live)
        BY <2>1, <1>1, <1>8
    <2> QED BY <2>1, <2>2, <2>3, <1>5, <1>6
<1>10. /\ M \in Seq(U) /\ Len(M) = Len(L) /\ M[i] = L[from]
       /\ \A k \in 1 .. Len(L) : /\ k < i \/ k > from => M[k] = L[k]
                                 /\ i < k /\ k <= from => M[k] = L[k - 1]
    <2>1. CASE from = i
        BY <2>1, <1>1, <1>5, <1>9
    <2>2. CASE from # i
        <3>1. L \in Seq(U) /\ from \in 1 .. Len(L) /\ i \in 1 .. from - 1 /\ from \in Nat /\ i \in Nat
            BY <2>2, <1>1, <1>5, <1>9
        <3>2. Moved(U, L, from, i, InsertAt(RemoveAt(L, from), i, L[from]))
            BY <3>1, MovedIs
        <3>3. Moved(U, L, from, i, M)
            BY <2>2, <3>2
        <3> QED BY <3>3 DEF Moved
    <2> QED BY <2>1, <2>2
<1> HIDE DEF M
<1>11. M[i] = K[o] /\ \A k \in 1 .. i - 1 : M[k] = L[k]
    <2>1. \A k \in 1 .. i - 1 : k \in 1 .. Len(L) /\ k < i
        BY <1>1, <1>9
    <2> QED BY <2>1, <1>9, <1>10
<1>12. Len(M) = i + Cardinality(live \ {y})
    <2>1. IsFiniteSet(live)
        BY <1>1, <1>2, LiveFinite
    <2>2. Cardinality(live \ {y}) = Cardinality(live) - 1
        BY <2>1, <1>4, FS_RemoveElement
    <2> QED BY <2>2, <1>1, <1>5, <1>8, <1>10
<1>13. \A n \in 1 .. N + 1 : n \in 1 .. N \/ n = N + 1
    BY <1>2
<1>14. \A n \in 1 .. N + 1 : M[r.pairs[n][2]] = K[r.pairs[n][1]]
    <2> SUFFICES ASSUME NEW n \in 1 .. N + 1 PROVE M[r.pairs[n][2]] = K[r.pairs[n][1]]
        OBVIOUS
    <2>1. CASE n = N + 1
        BY <2>1, <1>7, <1>11
    <2>2. CASE n \in 1 .. N
        <3>1. m.pairs[n][2] \in 1 .. i - 1 /\ L[m.pairs[n][2]] = K[m.pairs[n][1]]
            BY <2>2, <1>2, <1>5
        <3>2. M[m.pairs[n][2]] = L[m.pairs[n][2]]
            BY <3>1, <1>11
        <3> QED BY <2>2, <3>1, <3>2, <1>7
    <2> QED BY <2>1, <2>2, <1>13
<1>15. \A j \in 1 .. i : (\A n \in 1 .. N + 1 : r.pairs[n][2] # j) => M[j] = fr[j]
    <2> SUFFICES ASSUME NEW j \in 1 .. i, \A n \in 1 .. N + 1 : r.pairs[n][2] # j
                 PROVE  M[j] = fr[j]
        OBVIOUS
    <2>1. j # i
        BY <1>2, <1>7
    <2>2. j \in 1 .. i - 1
        BY <2>1, <1>1
    <2>3. \A n \in 1 .. N : m.pairs[n][2] # j
        BY <1>7, <1>2
    <2> QED BY <2>2, <2>3, <1>5, <1>11
<1>16. ASSUME NEW x \in live \ {y} PROVE M[i + Rank(live \ {y}, x)] = K[x + p]
    <2>1. x \in live /\ x # y /\ x \in Int /\ y \in Int
        BY <1>2, <1>4
    <2>2. L[i - 1 + Rank(live, x)] = K[x + p]
        BY <2>1, <1>5
    <2>3. /\ x < y => Rank(live \ {y}, x) = Rank(live, x)
          /\ y <= x => Rank(live \ {y}, x) = Rank(live, x) - 1
        BY <2>1, <1>1, <1>2, <1>4, RankRemoved
    <2>r. /\ x < y => Rank(live, x) < Rank(live, y)
          /\ y < x => Rank(live, y) < Rank(live, x)
        BY <2>1, <1>1, <1>2, <1>4, RankLess
    <2>z. \A k \in 1 .. Len(L) : /\ i < k /\ k <= from => M[k] = L[k - 1]
                                 /\ from < k => M[k] = L[k]
        BY <1>1, <1>9, <1>10
    <2>4. Rank(live, x) \in 1 .. Cardinality(live) /\ Rank(live, y) \in 1 .. Cardinality(live)
        BY <2>1, <1>4, <1>8
    <2>5. CASE x < y
        <3> DEFINE k == i + Rank(live, x)
        <3>1. k \in 1 .. Len(L) /\ i < k /\ k <= from /\ k - 1 = i - 1 + Rank(live, x)
            <4> DEFINE rx == Rank(live, x)
                       ry == Rank(live, y)
                       c == Cardinality(live)
            <4>1. rx < ry /\ rx \in 1 .. c /\ ry \in 1 .. c /\ c \in Nat
                BY <2>r, <2>4, <2>5, <1>8
            <4>2. Len(L) = i - 1 + c /\ from = i - 1 + ry /\ k = i + rx
                BY <1>5, <1>6
            <4> HIDE DEF rx, ry, c, k
            <4>3. k \in 1 .. Len(L) /\ i < k /\ k <= from /\ k - 1 = i - 1 + rx
                BY <4>1, <4>2, <1>1
            <4> QED BY <4>3 DEF rx
        <3>2. M[k] = L[k - 1]
            <4>1. k \in 1 .. Len(L) /\ i < k /\ k <= from
                BY <3>1
            <4> HIDE DEF k
            <4> QED BY <4>1, <2>z
        <3> QED BY <2>2, <2>3, <2>5, <3>1, <3>2
    <2>6. CASE y < x
        <3> DEFINE k == i - 1 + Rank(live, x)
        <3>1. k \in 1 .. Len(L) /\ k > from /\ i + Rank(live \ {y}, x) = k
            <4> DEFINE rx == Rank(live, x)
                       rz == Rank(live \ {y}, x)
                       ry == Rank(live, y)
                       c == Cardinality(live)
            <4>1. rz = rx - 1
                BY <2>1, <2>3, <2>6
            <4>2. ry < rx /\ rx \in 1 .. c /\ ry \in 1 .. c /\ c \in Nat
                BY <2>r, <2>6, <2>4, <1>8
            <4>3. Len(L) = i - 1 + c /\ from = i - 1 + ry /\ k = i - 1 + rx
                BY <1>5, <1>6
            <4> HIDE DEF rx, ry, rz, c, k
            <4>4. k \in 1 .. Len(L) /\ k > from /\ i + rz = k
                BY <4>1, <4>2, <4>3, <1>1
            <4> QED BY <4>4 DEF rz
        <3>2. M[k] = L[k]
            <4>1. k \in 1 .. Len(L) /\ from < k
                BY <3>1, <1>9
            <4> HIDE DEF k
            <4> QED BY <4>1, <2>z
        <3> QED BY <2>2, <3>1, <3>2
    <2> QED BY <2>1, <2>5, <2>6
<1>17. Frontier(U, K, fr, p, r, i, M)
    <2> DEFINE z == Live(r.left, p)
    <2>1. /\ M \in Seq(U) /\ Len(M) = i + Cardinality(z)
          /\ \A x \in z : M[i + Rank(z, x)] = K[x + p]
        BY <1>4, <1>10, <1>12, <1>16
    <2>2. /\ \A n \in 1 .. Len(r.pairs) : M[r.pairs[n][2]] = K[r.pairs[n][1]]
          /\ \A j \in 1 .. i : (\A n \in 1 .. Len(r.pairs) : r.pairs[n][2] # j) => M[j] = fr[j]
        BY <1>7, <1>14, <1>15
    <2> HIDE DEF z, M
    <2> QED BY <2>1, <2>2 DEF Frontier, z
<1> QED BY <1>9, <1>17 DEF M

(* Where a list K of as many things as there are old children has got to,   *)
(* after the round for k.                                                   *)
Reached(U, K, fr, p, m, k) ==
    \E L : Goes(U, K, m.out, fr, L) /\ Frontier(U, K, fr, p, m, k, L)

LEMMA RoundReaches ==
    ASSUME NEW olds \in Seq(VNodes), NEW news \in Seq(VNodes), NEW path,
           NEW p \in 0 .. Len(olds), NEW i \in p + 1 .. Len(news), NEW m,
           Pairing(olds, news, p, m, i - 1), m.out \in Seq(Structural(path, news)),
           NEW U, NEW K, NEW fr, \A j \in 1 .. Len(news) : fr[j] \in U,
           Reached(U, K, fr, p, m, i - 1)
    PROVE  /\ Matched(olds, news, path, p, m, i).out \in Seq(Structural(path, news))
           /\ Reached(U, K, fr, p, Matched(olds, news, path, p, m, i), i)
<1> DEFINE r == Matched(olds, news, path, p, m, i)
           S == Structural(path, news)
<1>0. i \in 1 .. Len(news) /\ i \in Nat /\ fr[i] \in U /\ m.out \in Seq(S)
    OBVIOUS
<1>1. PICK L : Goes(U, K, m.out, fr, L) /\ Frontier(U, K, fr, p, m, i - 1, L)
    BY DEF Reached
<1>2. L \in Seq(U)
    BY <1>1 DEF Frontier
<1>3. ASSUME Inserted(olds, news, path, m, i, r)
      PROVE  r.out \in Seq(S) /\ Reached(U, K, fr, p, r, i)
    <2> DEFINE q == InsertChild(path, i, FromVNode[news[i]])
    <2>1. r.out = Append(m.out, q)
        BY <1>3 DEF Inserted
    <2>2. q \in S
        BY <1>0 DEF Structural
    <2> HIDE DEF r
    <2>3. i \in 1 .. Len(L) + 1 /\ Frontier(U, K, fr, p, r, i, InsertAt(L, i, fr[i]))
        BY <1>0, <1>1, <1>3, InsertKeepsFrontier
    <2>4. InRange(Len(L), q) /\ Rearranged(L, q, Anew(q, fr)) = InsertAt(L, i, fr[i])
        BY <1>2, <2>3, InsertRearranges
    <2>5. InsertAt(L, i, fr[i]) \in Seq(U)
        BY <2>3 DEF Frontier
    <2> HIDE DEF q, S
    <2>6. Goes(U, K, Append(m.out, q), fr, Rearranged(L, q, Anew(q, fr)))
        BY <1>0, <1>1, <2>2, <2>4, <2>5, GoesOn
    <2>7. Goes(U, K, r.out, fr, InsertAt(L, i, fr[i]))
        BY <2>1, <2>4, <2>6
    <2>8. r.out \in Seq(S)
        BY <1>0, <2>1, <2>2
    <2> QED BY <2>3, <2>7, <2>8 DEF Reached, S
<1>4. ASSUME NEW o \in m.left, Reused(olds, news, path, p, m, i, r, o)
      PROVE  r.out \in Seq(S) /\ Reached(U, K, fr, p, r, i)
    <2> DEFINE from == i - 1 + Rank(Live(m.left, p), o - p)
               q == MoveChild(path, from, i)
    <2> HIDE DEF r
    <2>1. /\ r.left = m.left \ {o} /\ r.pairs = Append(m.pairs, <<o, i>>)
          /\ r.out = IF from = i THEN m.out ELSE Append(m.out, q)
        BY <1>4 DEF Reused
    <2> DEFINE M == IF from = i THEN L ELSE InsertAt(RemoveAt(L, from), i, L[from])
    <2>2. from \in i .. Len(L) /\ Frontier(U, K, fr, p, r, i, M)
        <3> DEFINE f == from
        <3>1. f = i - 1 + Rank(Live(m.left, p), o - p) /\ f = from
            OBVIOUS
        <3>2. r.left = m.left \ {o} /\ r.pairs = Append(m.pairs, <<o, i>>)
            BY <2>1
        <3> HIDE DEF f
        <3>3. /\ f \in i .. Len(L)
              /\ Frontier(U, K, fr, p, r, i,
                          IF f = i THEN L ELSE InsertAt(RemoveAt(L, f), i, L[f]))
            BY <1>1, <3>1, <3>2, ReuseKeepsFrontier
        <3> QED BY <3>3 DEF f
    <2> HIDE DEF from
    <2>3. CASE from = i
        <3>1. r.out = m.out /\ M = L
            BY <2>1, <2>3
        <3> QED BY <3>1, <1>0, <1>1, <2>2 DEF Reached
    <2>4. CASE from # i
        <3>1. from \in 1 .. Len(L) /\ i \in 1 .. from - 1 /\ from \in Nat /\ i \in Nat
            BY <1>0, <1>2, <2>2, <2>4
        <3>2. InRange(Len(L), q) /\ Rearranged(L, q, Anew(q, fr)) = M
            BY <1>2, <2>4, <3>1, MoveRearranges
        <3>3. q \in S
            BY <3>1 DEF Structural
        <3>4. r.out = Append(m.out, q) /\ M \in Seq(U)
            BY <2>1, <2>2, <2>4 DEF Frontier
        <3> HIDE DEF q, M, S
        <3>5. Goes(U, K, Append(m.out, q), fr, Rearranged(L, q, Anew(q, fr)))
            BY <1>0, <1>1, <3>2, <3>3, <3>4, GoesOn
        <3>6. Goes(U, K, r.out, fr, M) /\ r.out \in Seq(S)
            BY <1>0, <3>2, <3>3, <3>4, <3>5
        <3> QED BY <3>6, <2>2 DEF Reached
    <2> QED BY <2>3, <2>4
<1>5. Inserted(olds, news, path, m, i, r) \/ \E o \in m.left : Reused(olds, news, path, p, m, i, r, o)
    BY RoundCases
<1> HIDE DEF r, S
<1>6. r.out \in Seq(S) /\ Reached(U, K, fr, p, r, i)
    BY <1>3, <1>4, <1>5
<1> QED BY <1>6 DEF r, S

(* The state the loop starts from: the prefix is reused in place.           *)
Began(olds, p) ==
    [left |-> p + 1 .. Len(olds), bit |-> NewBit(Len(olds) - p), out |-> <<>>,
     pairs |-> [n \in 1 .. p |-> <<n, n>>]]

LEMMA StartPairs ==
    ASSUME NEW olds \in Seq(VNodes), NEW news \in Seq(VNodes),
           NEW p \in 0 .. Len(olds), p \in 0 .. Len(news),
           \A n \in 1 .. p : Reusable(olds[n], news[n])
    PROVE  Live(p + 1 .. Len(olds), p) = 1 .. Len(olds) - p
           /\ Pairing(olds, news, p, Began(olds, p), p)
<1> DEFINE m == Began(olds, p)
           N == Len(olds)
<1>1. N \in Nat /\ p \in Nat /\ N - p \in Nat /\ p <= N /\ p <= Len(news) /\ Len(news) \in Nat
    OBVIOUS
<1>2. /\ Half(m) /\ m.left = p + 1 .. N /\ m.bit = NewBit(N - p)
      /\ m.pairs = [n \in 1 .. p |-> <<n, n>>]
    BY DEF Began, Half
<1> HIDE DEF m, N
<1>3. Live(p + 1 .. N, p) = 1 .. N - p
    <2>1. \A x \in p + 1 .. N : x - p \in 1 .. N - p
        BY <1>1
    <2>2. \A y \in 1 .. N - p : y + p \in p + 1 .. N /\ y = (y + p) - p
        BY <1>1
    <2>3. \A y : y \in Live(p + 1 .. N, p) <=> \E x \in p + 1 .. N : y = x - p
        BY DEF Live
    <2>4. \A y : y \in Live(p + 1 .. N, p) => y \in 1 .. N - p
        BY <2>1, <2>3
    <2>5. \A y : y \in 1 .. N - p => y \in Live(p + 1 .. N, p)
        BY <2>2, <2>3
    <2> DEFINE A == Live(p + 1 .. N, p)
               B == 1 .. N - p
    <2> HIDE DEF A, B
    <2>6. A = B
        BY <2>4, <2>5, Zenon DEF A, B
    <2> QED BY <2>6 DEF A, B
<1>4. Counts(m.bit, N - p, Live(m.left, p))
    BY <1>1, <1>2, <1>3, NewBitCounts
<1>5. /\ Len(m.pairs) = p
      /\ \A n \in 1 .. p : m.pairs[n] = <<n, n>> /\ n \in 1 .. N /\ n \in 1 .. Len(news)
    <2>1. Len(m.pairs) = p
        BY <1>1, <1>2, LenOfFunction
    <2> QED BY <2>1, <1>1, <1>2
<1>6. m.pairs \in Seq((1 .. N) \X (1 .. Len(news)))
    BY <1>1, <1>2
<1>7. \A n \in 1 .. Len(m.pairs) :
         /\ m.pairs[n][1] \notin m.left
         /\ Reusable(olds[m.pairs[n][1]], news[m.pairs[n][2]])
    <2> SUFFICES ASSUME NEW n \in 1 .. p
                 PROVE  m.pairs[n][1] \notin m.left /\ Reusable(olds[m.pairs[n][1]], news[m.pairs[n][2]])
        BY <1>5
    <2>1. m.pairs[n][1] = n /\ m.pairs[n][2] = n
        BY <1>5
    <2>2. n \notin m.left
        BY <1>1, <1>2
    <2> QED BY <2>1, <2>2
<1>8. \A j \in 1 .. p : Paired(m, j, j)
    BY <1>5 DEF Paired
<1>9. \A o \in 1 .. N : o \notin m.left => \E j \in 1 .. p : Paired(m, o, j)
    <2> SUFFICES ASSUME NEW o \in 1 .. N, o \notin m.left PROVE \E j \in 1 .. p : Paired(m, o, j)
        OBVIOUS
    <2>1. o \in 1 .. p
        BY <1>1, <1>2
    <2> QED BY <2>1, <1>8
<1>10. \A j \in 1 .. p : ~ (\A o \in 1 .. N : ~ Paired(m, o, j))
    BY <1>5, <1>8
<1>11. \A n \in p + 1 .. Len(m.pairs) : FALSE
    BY <1>1, <1>5
<1>12. \A n, q \in 1 .. Len(m.pairs) : m.pairs[n][2] = m.pairs[q][2] => n = q
    BY <1>5
<1>13. m.left \in SUBSET (p + 1 .. N) /\ Len(m.pairs) >= p
    BY <1>1, <1>2, <1>5
<1>14. Pairing(olds, news, p, m, p)
    BY <1>2, <1>4, <1>5, <1>6, <1>7, <1>9, <1>10, <1>11, <1>12, <1>13 DEF Pairing, N
<1> QED BY <1>3, <1>14 DEF m, N

LEMMA StartReaches ==
    ASSUME NEW olds \in Seq(VNodes), NEW p \in 0 .. Len(olds),
           Live(p + 1 .. Len(olds), p) = 1 .. Len(olds) - p,
           NEW U, NEW K \in Seq(U), Len(K) = Len(olds), NEW fr
    PROVE  Reached(U, K, fr, p, Began(olds, p), p)
<1> DEFINE m == Began(olds, p)
           N == Len(olds)
<1>1. N \in Nat /\ p \in Nat /\ N - p \in Nat /\ p <= N
    OBVIOUS
<1>2. /\ m.left = p + 1 .. N /\ m.out = <<>>
      /\ m.pairs = [n \in 1 .. p |-> <<n, n>>]
      /\ Live(m.left, p) = 1 .. N - p
    BY DEF Began
<1>l. Len(K) = N
    OBVIOUS
<1> HIDE DEF m, N
<1>3. Len(m.pairs) = p /\ \A n \in 1 .. p : m.pairs[n] = <<n, n>>
    <2>1. Len(m.pairs) = p
        BY <1>1, <1>2, LenOfFunction
    <2> QED BY <2>1, <1>1, <1>2
<1>4. Cardinality(1 .. N - p) = N - p
    <2> DEFINE n == N - p
    <2>1. n \in Nat
        BY <1>1
    <2> HIDE DEF n
    <2>2. Cardinality(1 .. n) = IF 1 > n THEN 0 ELSE n - 1 + 1
        BY <2>1, FS_Interval
    <2>3. Cardinality(1 .. n) = n
        BY <2>1, <2>2
    <2> QED BY <2>3 DEF n
<1>5. \A y \in 1 .. N - p : Rank(1 .. N - p, y) = y
    <2> DEFINE n == N - p
    <2>1. n \in Nat
        BY <1>1
    <2> HIDE DEF n
    <2>2. \A y \in 1 .. n : y \in 0 .. n
        BY <2>1
    <2>3. \A y \in 1 .. n : Rank(1 .. n, y) = y
        BY <2>1, <2>2, FullRank
    <2> QED BY <2>3 DEF n
<1>6. Len(K) = p + Cardinality(Live(m.left, p))
    BY <1>1, <1>2, <1>4, <1>l
<1>7. \A n \in 1 .. Len(m.pairs) : K[m.pairs[n][2]] = K[m.pairs[n][1]]
    <2>1. \A n \in 1 .. Len(m.pairs) : m.pairs[n][1] = n /\ m.pairs[n][2] = n
        BY <1>3
    <2> QED BY <2>1
<1>8. \A j \in 1 .. p : (\A n \in 1 .. Len(m.pairs) : m.pairs[n][2] # j) => K[j] = fr[j]
    BY <1>3
<1>9. \A y \in Live(m.left, p) : K[p + Rank(Live(m.left, p), y)] = K[y + p]
    <2> SUFFICES ASSUME NEW y \in 1 .. N - p PROVE K[p + Rank(1 .. N - p, y)] = K[y + p]
        BY <1>2
    <2>1. p + y = y + p
        BY <1>1
    <2> QED BY <2>1, <1>5
<1>10. Frontier(U, K, fr, p, m, p, K)
    BY <1>6, <1>7, <1>8, <1>9 DEF Frontier
<1>11. Goes(U, K, m.out, fr, K)
    <2> DEFINE g == [n \in 0 .. 0 |-> K]
    <2>1. m.out = <<>> /\ Len(m.out) = 0
        BY <1>2
    <2>2. g[0] = K /\ \A n \in 0 .. 0 : g[n] \in Seq(U)
        OBVIOUS
    <2>3. \A n \in 1 .. 0 : FALSE
        OBVIOUS
    <2> HIDE DEF g
    <2> QED BY <2>1, <2>2, <2>3 DEF Goes
<1> QED BY <1>10, <1>11 DEF Reached, m

(* The rounds of the loop, as a function.                                   *)
LEMMA MatchingRounds ==
    ASSUME NEW olds \in Seq(VNodes), NEW news \in Seq(VNodes), NEW path,
           Prefix(olds, news) \in 0 .. Len(news)
    PROVE  LET p == Prefix(olds, news) IN
           \E acc : /\ Matching(olds, news, path) = acc[Len(news)]
                    /\ acc[p] = Began(olds, p)
                    /\ \A i \in p + 1 .. Len(news) :
                          acc[i] = Matched(olds, news, path, p, acc[i - 1], i)
<1> DEFINE p == Prefix(olds, news)
           N == Len(news)
           start == [left |-> p + 1 .. Len(olds), bit |-> NewBit(Len(olds) - p), out |-> <<>>,
                     pairs |-> [n \in 1 .. p |-> <<n, n>>]]
           Solves(f, k) ==
               f = [i \in p .. k |-> IF i = p THEN start ELSE Matched(olds, news, path, p, f[i - 1], i)]
           S == {d \in Nat : \E f : Solves(f, p + d)}
<1>0. p \in Nat /\ N \in Nat /\ p <= N
    OBVIOUS
<1>1. Matching(olds, news, path) =
         (CHOOSE f : f = [i \in p .. N |->
             IF i = p THEN start ELSE Matched(olds, news, path, p, f[i - 1], i)])[N]
    BY DEF Matching
<1>s. start = Began(olds, p)
    BY DEF Began
<1> HIDE DEF p, start
<1>2. \A d \in Nat : d \in S
    <2>1. 0 \in S
        <3> DEFINE f == [i \in p .. p + 0 |-> start]
        <3>1. Solves(f, p + 0)
            <4>1. \A i \in p .. p + 0 : i = p
                BY <1>0
            <4> QED BY <4>1
        <3> HIDE DEF f, Solves
        <3> QED BY <3>1
    <2>2. ASSUME NEW d \in Nat, d \in S PROVE d + 1 \in S
        <3> DEFINE k == p + d
        <3>1. PICK f : Solves(f, k)
            BY <2>2
        <3>k. k \in Nat /\ k >= p /\ p + (d + 1) = k + 1
            BY <1>0
        <3> HIDE DEF k
        <3> DEFINE body(x) == [i \in p .. k + 1 |->
                        IF i = p THEN start ELSE Matched(olds, news, path, p, x[i - 1], i)]
                   g == body(f)
        <3>2. \A i \in p .. k : g[i] = f[i]
            BY <3>1, <3>k, <1>0
        <3>3. body(f) = body(g)
            <4>1. \A i \in p .. k + 1 : i # p => i - 1 \in p .. k
                BY <3>k, <1>0
            <4> HIDE DEF g
            <4> QED BY <3>2, <4>1
        <3>4. Solves(g, k + 1)
            BY <3>3
        <3> HIDE DEF g, Solves
        <3> QED BY <3>4, <3>k
    <2> HIDE DEF S
    <2> QED BY <2>1, <2>2, NatSetInduction
<1>3. PICK acc : Solves(acc, N) /\ Matching(olds, news, path) = acc[N]
    <2>1. N - p \in Nat /\ p + (N - p) = N
        BY <1>0
    <2>2. \E f : Solves(f, N)
        <3> HIDE DEF Solves
        <3> QED BY <1>2, <2>1
    <2> QED BY <2>2, <1>1
<1>4. acc[p] = start /\ \A i \in p + 1 .. N : acc[i] = Matched(olds, news, path, p, acc[i - 1], i)
    <2>1. p \in p .. N /\ \A i \in p + 1 .. N : i \in p .. N /\ i # p
        BY <1>0
    <2> QED BY <1>3, <2>1
<1> HIDE DEF Solves
<1> QED BY <1>3, <1>4, <1>s DEF p

(* What the loop has done when it ends: the pairs it has found, and that    *)
(* its moves and insertions take any list of as many things as there are    *)
(* old children to one in which the settled ones stand at their new places. *)
LEMMA MatchingResult ==
    ASSUME NEW olds \in Seq(VNodes), NEW news \in Seq(VNodes), NEW path,
           NEW U, NEW K \in Seq(U), Len(K) = Len(olds),
           NEW fr, \A j \in 1 .. Len(news) : fr[j] \in U
    PROVE  LET p == Prefix(olds, news)
               m == Matching(olds, news, path)
           IN  /\ Pairing(olds, news, p, m, Len(news))
               /\ m.out \in Seq(Structural(path, news))
               /\ Reached(U, K, fr, p, m, Len(news))
<1> DEFINE p == Prefix(olds, news)
           N == Len(news)
<1>1. /\ p \in 0 .. Len(olds) /\ p \in 0 .. N
      /\ \A i \in 1 .. p : Reusable(olds[i], news[i])
    BY PrefixReusable
<1>2. PICK acc : /\ Matching(olds, news, path) = acc[N]
                 /\ acc[p] = Began(olds, p)
                 /\ \A i \in p + 1 .. N : acc[i] = Matched(olds, news, path, p, acc[i - 1], i)
    BY <1>1, MatchingRounds
<1> DEFINE m == Matching(olds, news, path)
           Fine(i) == /\ Pairing(olds, news, p, acc[i], i)
                      /\ acc[i].out \in Seq(Structural(path, news))
                      /\ Reached(U, K, fr, p, acc[i], i)
           S == {d \in Nat : p + d <= N => Fine(p + d)}
<1>m. m = acc[N]
    BY <1>2
<1> HIDE DEF p, m
<1>0. p \in Nat /\ N \in Nat /\ p <= N
    BY <1>1
<1>3. Fine(p)
    <2>1. Live(p + 1 .. Len(olds), p) = 1 .. Len(olds) - p /\ Pairing(olds, news, p, Began(olds, p), p)
        BY <1>1, StartPairs
    <2>2. Reached(U, K, fr, p, Began(olds, p), p)
        BY <1>1, <2>1, StartReaches
    <2>3. Began(olds, p).out \in Seq(Structural(path, news))
        <3>1. Began(olds, p).out = <<>>
            BY DEF Began
        <3> DEFINE T == Structural(path, news)
        <3>2. <<>> \in Seq(T)
            <4> HIDE DEF T
            <4> QED OBVIOUS
        <3> QED BY <3>1, <3>2
    <2> QED BY <1>2, <2>1, <2>2, <2>3
<1>4. ASSUME NEW i \in p + 1 .. N, Fine(i - 1) PROVE Fine(i)
    <2> DEFINE b == acc[i - 1]
               r == Matched(olds, news, path, p, b, i)
    <2>1. acc[i] = r /\ p \in 0 .. Len(olds)
        BY <1>1, <1>2
    <2>2. /\ Pairing(olds, news, p, b, i - 1)
          /\ b.out \in Seq(Structural(path, news))
          /\ Reached(U, K, fr, p, b, i - 1)
        BY <1>4
    <2> HIDE DEF b
    <2>3. Pairing(olds, news, p, r, i)
        BY <2>1, <2>2, PairingKept
    <2>4. r.out \in Seq(Structural(path, news)) /\ Reached(U, K, fr, p, r, i)
        BY <2>1, <2>2, RoundReaches
    <2> HIDE DEF r
    <2> QED BY <2>1, <2>3, <2>4
<1>5. \A d \in Nat : d \in S
    <2>1. 0 \in S
        <3>1. p + 0 = p
            BY <1>0
        <3> HIDE DEF Fine
        <3> QED BY <1>3, <3>1
    <2>2. ASSUME NEW d \in Nat, d \in S PROVE d + 1 \in S
        <3> SUFFICES ASSUME p + (d + 1) <= N PROVE Fine(p + (d + 1))
            OBVIOUS
        <3> DEFINE i == p + (d + 1)
        <3>1. i \in p + 1 .. N /\ i - 1 = p + d /\ p + d <= N
            BY <1>0
        <3> HIDE DEF i, Fine
        <3>2. Fine(i - 1)
            BY <2>2, <3>1
        <3>3. Fine(i)
            BY <1>4, <3>1, <3>2
        <3> QED BY <3>3 DEF i
    <2> HIDE DEF S
    <2> QED BY <2>1, <2>2, NatSetInduction
<1>6. Fine(N)
    <2> DEFINE d == N - p
    <2>1. d \in Nat /\ p + d = N /\ N <= N
        BY <1>0
    <2> HIDE DEF Fine, d
    <2>2. p + d <= N => Fine(p + d)
        BY <1>5, <2>1
    <2> QED BY <2>1, <2>2
<1> QED BY <1>6, <1>m DEF p, m

(* The list L that was reached, without what was left over.                 *)
Trimmed(L, m, N) == IF m.left # {} THEN SubSeq(L, 1, N) ELSE L

Shortened(U, L, N, T) == T \in Seq(U) /\ Len(T) = N /\ \A j \in 1 .. N : T[j] = L[j]

LEMMA TrimmedIs ==
    ASSUME NEW olds \in Seq(VNodes), NEW news \in Seq(VNodes), NEW U, NEW K, NEW fr,
           NEW p \in 0 .. Len(olds), p \in 0 .. Len(news), NEW m, NEW L,
           Pairing(olds, news, p, m, Len(news)), Frontier(U, K, fr, p, m, Len(news), L)
    PROVE  /\ m.left # {} => Len(news) < Len(L)
           /\ Shortened(U, L, Len(news), Trimmed(L, m, Len(news)))
<1> DEFINE N == Len(news)
           live == Live(m.left, p)
<1>1. m.left \in SUBSET (p + 1 .. Len(olds)) /\ p \in Nat /\ Len(olds) \in Nat /\ N \in Nat
    BY DEF Pairing
<1>2. live \in SUBSET (1 .. Len(olds) - p) /\ (m.left = {} <=> live = {})
    BY <1>1, LiveFacts
<1>3. L \in Seq(U) /\ Len(L) = N + Cardinality(live)
    BY DEF Frontier
<1>4. IsFiniteSet(live)
    <2> DEFINE n == Len(olds) - p
    <2>1. n \in Nat /\ live \in SUBSET (1 .. n)
        BY <1>1, <1>2
    <2> HIDE DEF n, live
    <2> QED BY <2>1, LiveFinite
<1> HIDE DEF live, N
<1>5. Cardinality(live) \in Nat /\ (Cardinality(live) = 0 <=> live = {})
    BY <1>4, FS_CardinalityType, FS_EmptySet
<1>6. CASE m.left = {}
    BY <1>1, <1>2, <1>3, <1>5, <1>6 DEF Trimmed, Shortened, N
<1>7. CASE m.left # {}
    <2>1. N < Len(L)
        BY <1>1, <1>2, <1>3, <1>5, <1>7
    <2>2. /\ SubSeq(L, 1, N) \in Seq(U) /\ Len(SubSeq(L, 1, N)) = N
          /\ \A j \in 1 .. N : SubSeq(L, 1, N)[j] = L[j]
        BY <1>1, <1>3, <2>1
    <2>3. Trimmed(L, m, N) = SubSeq(L, 1, N)
        BY <1>7 DEF Trimmed
    <2> QED BY <2>1, <2>2, <2>3 DEF N, Shortened
<1> QED BY <1>6, <1>7

(* The list L the structure leads to from K.                                *)
Arranged(olds, news, U, K, fr, m, L) ==
    LET N == Len(news)
        T == Trimmed(L, m, N)
    IN  /\ L \in Seq(U) /\ Goes(U, K, m.out, fr, L)
        /\ m.left # {} => N < Len(L)
        /\ T \in Seq(U) /\ Len(T) = N
        /\ \A o \in 1 .. Len(olds), j \in 1 .. N : Paired(m, o, j) => T[j] = K[o]
        /\ \A j \in 1 .. N : (\A o \in 1 .. Len(olds) : ~ Paired(m, o, j)) => T[j] = fr[j]

(* diff_children_keyed, structure before content: the moves and insertions  *)
(* it emits are in range when they are carried out, every move goes from    *)
(* the right to the left, and they take a list with a thing per old child   *)
(* to one that, once what was left over is cut off, has at each new place   *)
(* the thing of the old child matched with it, or the one inserted there.   *)
THEOREM StructureFollowsMatching ==
    ASSUME NEW olds \in Seq(VNodes), NEW news \in Seq(VNodes), NEW path,
           NEW U, NEW K \in Seq(U), Len(K) = Len(olds),
           NEW fr, \A j \in 1 .. Len(news) : fr[j] \in U
    PROVE  \E L : Arranged(olds, news, U, K, fr, Matching(olds, news, path), L)
<1> DEFINE m == Matching(olds, news, path)
           p == Prefix(olds, news)
           N == Len(news)
<1>1. p \in 0 .. Len(olds) /\ p \in 0 .. N
    BY PrefixReusable
<1>2. Pairing(olds, news, p, m, N) /\ Reached(U, K, fr, p, m, N)
    BY MatchingResult
<1> HIDE DEF m, p
<1>3. PICK L : Goes(U, K, m.out, fr, L) /\ Frontier(U, K, fr, p, m, N, L)
    BY <1>2 DEF Reached
<1> DEFINE T == Trimmed(L, m, N)
<1>4. /\ m.left # {} => N < Len(L)
      /\ T \in Seq(U) /\ Len(T) = N
      /\ \A j \in 1 .. N : T[j] = L[j]
    <2>1. Pairing(olds, news, p, m, Len(news)) /\ Frontier(U, K, fr, p, m, Len(news), L)
        BY <1>2, <1>3
    <2>2. m.left # {} => Len(news) < Len(L)
        BY <1>1, <2>1, TrimmedIs
    <2>3. Shortened(U, L, Len(news), Trimmed(L, m, Len(news)))
        BY <1>1, <2>1, TrimmedIs
    <2> QED BY <2>2, <2>3 DEF Shortened
<1> HIDE DEF T
<1>5. ASSUME NEW o \in 1 .. Len(olds), NEW j \in 1 .. N, Paired(m, o, j)
      PROVE  T[j] = K[o]
    <2>1. PICK n \in 1 .. Len(m.pairs) : m.pairs[n] = <<o, j>>
        BY <1>5 DEF Paired
    <2>2. L[m.pairs[n][2]] = K[m.pairs[n][1]]
        BY <1>3 DEF Frontier
    <2>3. L[j] = K[o]
        BY <2>1, <2>2
    <2> QED BY <2>3, <1>4
<1>6. ASSUME NEW j \in 1 .. N, \A o \in 1 .. Len(olds) : ~ Paired(m, o, j)
      PROVE  T[j] = fr[j]
    <2>1. \A n \in 1 .. Len(m.pairs) : m.pairs[n][2] # j
        <3> SUFFICES ASSUME NEW n \in 1 .. Len(m.pairs), m.pairs[n][2] = j PROVE FALSE
            OBVIOUS
        <3>1. m.pairs \in Seq((1 .. Len(olds)) \X (1 .. Len(news)))
            BY <1>2 DEF Pairing
        <3>2. m.pairs[n] \in (1 .. Len(olds)) \X (1 .. Len(news))
            BY <3>1
        <3>3. m.pairs[n][1] \in 1 .. Len(olds) /\ m.pairs[n] = <<m.pairs[n][1], j>>
            BY <3>2
        <3> QED BY <3>3, <1>6 DEF Paired
    <2>2. L[j] = fr[j]
        BY <2>1, <1>3 DEF Frontier
    <2> QED BY <2>2, <1>4
<1>7. L \in Seq(U)
    BY <1>3 DEF Frontier
<1>8. Arranged(olds, news, U, K, fr, m, L)
    BY <1>3, <1>4, <1>5, <1>6, <1>7 DEF T, N, Arranged
<1> QED BY <1>8 DEF m

(* diff_children_keyed: an old and a new child that only each other can be  *)
(* matched with are matched.                                                *)
THEOREM OnlyMatchIsTaken ==
    ASSUME NEW olds \in Seq(VNodes), NEW news \in Seq(VNodes), NEW path,
           NEW o \in 1 .. Len(olds), NEW j \in 1 .. Len(news), Reusable(olds[o], news[j]),
           \A x \in 1 .. Len(olds) : Reusable(olds[x], news[j]) => x = o,
           \A y \in 1 .. Len(news) : Reusable(olds[o], news[y]) => y = j
    PROVE  Paired(Matching(olds, news, path), o, j)
<1> DEFINE m == Matching(olds, news, path)
           p == Prefix(olds, news)
           N == Len(news)
           K == [i \in 1 .. Len(olds) |-> 0]
           fr == [i \in 1 .. N |-> 0]
<1>1. Pairing(olds, news, p, m, N)
    <2> DEFINE U == {0}
    <2>1. K \in Seq(U) /\ Len(K) = Len(olds) /\ \A i \in 1 .. N : fr[i] \in U
        BY LenOfFunction
    <2> HIDE DEF U, K, fr
    <2> QED BY <2>1, MatchingResult
<1> HIDE DEF m, p
<1>2. ASSUME NEW x \in 1 .. Len(olds), NEW y \in 1 .. N, Paired(m, x, y)
      PROVE  Reusable(olds[x], news[y]) /\ x \notin m.left
    <2>1. PICK n \in 1 .. Len(m.pairs) : m.pairs[n] = <<x, y>>
        BY <1>2 DEF Paired
    <2>2. m.pairs[n][1] \notin m.left /\ Reusable(olds[m.pairs[n][1]], news[m.pairs[n][2]])
        BY <1>1 DEF Pairing
    <2> QED BY <2>1, <2>2
<1>3. CASE o \notin m.left
    <2>1. PICK y \in 1 .. N : Paired(m, o, y)
        BY <1>1, <1>3 DEF Pairing
    <2> QED BY <2>1, <1>2 DEF m
<1>4. CASE o \in m.left
    <2>1. PICK x \in 1 .. Len(olds) : Paired(m, x, j)
        BY <1>1, <1>4 DEF Pairing
    <2> QED BY <2>1, <1>2, <1>4
<1> QED BY <1>3, <1>4

-----------------------------------------------------------------------------
(* What TreeAssumption says of one tree.                                    *)
LEMMA TreeFacts ==
    ASSUME NEW v \in VNodes
    PROVE  /\ v.kids \in Seq(VNodes) /\ DOMAIN v.kids = 1 .. Len(v.kids) /\ Len(v.kids) \in Nat
           /\ Height[v] \in Nat
           /\ \A i \in DOMAIN v.kids :
                 v.kids[i] \in VNodes /\ Height[v.kids[i]] \in Nat /\ Height[v.kids[i]] < Height[v]
<1>1. v.kids \in Seq(VNodes) /\ Height \in [VNodes -> Nat]
      /\ \A i \in DOMAIN v.kids : Height[v.kids[i]] < Height[v]
    BY TreeAssumption
<1>2. DOMAIN v.kids = 1 .. Len(v.kids) /\ Len(v.kids) \in Nat
      /\ \A i \in DOMAIN v.kids : v.kids[i] \in VNodes
    BY <1>1
<1> QED BY <1>1, <1>2

(* The equations of FromVNode and Diff hold: the recursions end.            *)
Snapshot(f, v) ==
    [tag |-> v.tag, attrs |-> v.attrs, text |-> v.text,
     kids |-> [i \in DOMAIN v.kids |-> f[v.kids[i]]]]

LEMMA SnapshotSame ==
    ASSUME NEW f, NEW g, NEW v, \A i \in DOMAIN v.kids : f[v.kids[i]] = g[v.kids[i]]
    PROVE  Snapshot(f, v) = Snapshot(g, v)
<1>1. [i \in DOMAIN v.kids |-> f[v.kids[i]]] = [i \in DOMAIN v.kids |-> g[v.kids[i]]]
    OBVIOUS
<1> QED BY <1>1 DEF Snapshot

LEMMA FromVNodeIs ==
    \A v \in VNodes : FromVNode[v] = Snapshot(FromVNode, v)
<1> DEFINE V(n) == {v \in VNodes : Height[v] < n}
           Solves(f, n) == f = [v \in V(n) |-> Snapshot(f, v)]
           S == {n \in Nat : \E f : Solves(f, n)}
<1>1. \A n \in Nat : n \in S
    <2>1. 0 \in S
        <3> DEFINE f == [v \in V(0) |-> 0]
        <3>1. V(0) = {}
            BY TreeFacts
        <3>2. Solves(f, 0)
            BY <3>1
        <3> HIDE DEF f, Solves
        <3> QED BY <3>2
    <2>2. ASSUME NEW n \in Nat, n \in S PROVE n + 1 \in S
        <3>1. PICK f : Solves(f, n)
            BY <2>2
        <3> DEFINE g == [v \in V(n + 1) |-> Snapshot(f, v)]
        <3>2. \A v \in V(n) : g[v] = f[v]
            <4>1. \A v \in V(n) : v \in V(n + 1)
                BY TreeFacts
            <4> QED BY <3>1, <4>1
        <3>3. \A v \in V(n + 1) : \A i \in DOMAIN v.kids : v.kids[i] \in V(n)
            BY TreeFacts
        <3>4. \A v \in V(n + 1) : Snapshot(f, v) = Snapshot(g, v)
            <4> HIDE DEF g, V
            <4> QED BY <3>2, <3>3, SnapshotSame
        <3>5. g = [v \in V(n + 1) |-> Snapshot(f, v)]
            OBVIOUS
        <3>6. Solves(g, n + 1)
            <4> HIDE DEF g, V
            <4> QED BY <3>4, <3>5
        <3> HIDE DEF g, Solves
        <3> QED BY <3>6
    <2> HIDE DEF S
    <2> QED BY <2>1, <2>2, NatSetInduction
<1> DEFINE G == [n \in Nat |-> CHOOSE f : Solves(f, n)]
<1>2. \A n \in Nat : Solves(G[n], n)
    <2> SUFFICES ASSUME NEW n \in Nat PROVE Solves(G[n], n)
        OBVIOUS
    <2>1. \E f : Solves(f, n)
        BY <1>1
    <2>2. G[n] = CHOOSE f : Solves(f, n)
        OBVIOUS
    <2> HIDE DEF Solves, G
    <2> QED BY <2>1, <2>2
<1>3. \A n \in Nat : \A v \in VNodes : Height[v] < n => G[n][v] = Snapshot(G[n], v)
    <2> SUFFICES ASSUME NEW n \in Nat, NEW v \in VNodes, Height[v] < n
                 PROVE  G[n][v] = Snapshot(G[n], v)
        OBVIOUS
    <2> DEFINE g == G[n]
    <2>1. g = [w \in V(n) |-> Snapshot(g, w)] /\ v \in V(n)
        BY <1>2
    <2> HIDE DEF g, V
    <2>2. g[v] = Snapshot(g, v)
        BY <2>1
    <2> QED BY <2>2 DEF g
<1> HIDE DEF G, S, Solves
<1> DEFINE Same(v) == \A n, m \in Nat : Height[v] < n /\ Height[v] < m => G[n][v] = G[m][v]
           R == {h \in Nat : \A v \in VNodes : Height[v] = h => Same(v)}
<1>4. \A h \in Nat : h \in R
    <2>1. ASSUME NEW h \in Nat, \A k \in Nat : k < h => k \in R PROVE h \in R
        <3> SUFFICES ASSUME NEW v \in VNodes, Height[v] = h, NEW n \in Nat, NEW m \in Nat,
                            h < n, h < m
                     PROVE  G[n][v] = G[m][v]
            OBVIOUS
        <3>1. \A i \in DOMAIN v.kids : G[n][v.kids[i]] = G[m][v.kids[i]]
            <4> SUFFICES ASSUME NEW i \in DOMAIN v.kids PROVE G[n][v.kids[i]] = G[m][v.kids[i]]
                OBVIOUS
            <4> DEFINE w == v.kids[i]
            <4>1. w \in VNodes /\ Height[w] \in Nat /\ Height[w] < h
                BY TreeFacts
            <4> HIDE DEF w
            <4>2. Height[w] \in R
                BY <2>1, <4>1
            <4>3. Same(w)
                BY <4>1, <4>2
            <4>4. Height[w] < n /\ Height[w] < m
                BY <4>1
            <4>5. G[n][w] = G[m][w]
                BY <4>3, <4>4
            <4> QED BY <4>5 DEF w
        <3>2. Snapshot(G[n], v) = Snapshot(G[m], v)
            BY <3>1, SnapshotSame
        <3> QED BY <1>3, <3>2
    <2> HIDE DEF R
    <2> QED BY <2>1, StrongSetInduction
<1> DEFINE F == [v \in VNodes |-> G[Height[v] + 1][v]]
<1>5. \A v \in VNodes : F[v] = Snapshot(F, v)
    <2> SUFFICES ASSUME NEW v \in VNodes PROVE F[v] = Snapshot(F, v)
        OBVIOUS
    <2> DEFINE n == Height[v] + 1
    <2>1. F[v] = G[n][v] /\ n \in Nat /\ Height[v] < n
        BY TreeFacts
    <2>2. \A i \in DOMAIN v.kids : G[n][v.kids[i]] = F[v.kids[i]]
        <3> SUFFICES ASSUME NEW i \in DOMAIN v.kids PROVE G[n][v.kids[i]] = F[v.kids[i]]
            OBVIOUS
        <3> DEFINE w == v.kids[i]
        <3>1. w \in VNodes /\ Height[w] \in Nat /\ Height[w] < n
            BY TreeFacts
        <3>2. Same(w)
            BY <1>4, <3>1
        <3>3. F[w] = G[Height[w] + 1][w]
            BY <3>1
        <3>4. Height[w] < Height[w] + 1 /\ Height[w] + 1 \in Nat
            BY <3>1
        <3> HIDE DEF w, n, F
        <3>5. G[n][w] = F[w]
            BY <2>1, <3>1, <3>2, <3>3, <3>4
        <3> QED BY <3>5 DEF w
    <2> HIDE DEF n, F
    <2>3. Snapshot(G[n], v) = Snapshot(F, v)
        BY <2>2, SnapshotSame
    <2> QED BY <1>3, <2>1, <2>3
<1>6. F = [v \in VNodes |-> Snapshot(F, v)]
    <2>1. F = [v \in VNodes |-> F[v]]
        OBVIOUS
    <2> HIDE DEF F
    <2> QED BY <1>5, <2>1
<1>7. FromVNode = CHOOSE f : f = [v \in VNodes |-> Snapshot(f, v)]
    BY DEF FromVNode, Snapshot
<1>8. FromVNode = [v \in VNodes |-> Snapshot(FromVNode, v)]
    <2> HIDE DEF F
    <2>1. \E f : f = [v \in VNodes |-> Snapshot(f, v)]
        BY <1>6
    <2> QED BY <1>7, <2>1
<1> DEFINE f == FromVNode
<1>9. \A v \in VNodes : f[v] = Snapshot(f, v)
    <2> HIDE DEF f
    <2> QED BY <1>8 DEF f
<1> QED BY <1>9

-----------------------------------------------------------------------------
(* The pairs of children that are diffed, and where the recursion goes.     *)
Pairs(olds, news) == (1 .. Len(olds)) \X (1 .. Len(news))

LEMMA MatchingPairs ==
    ASSUME NEW olds \in Seq(VNodes), NEW news \in Seq(VNodes), NEW path
    PROVE  Pairing(olds, news, Prefix(olds, news), Matching(olds, news, path), Len(news))
<1> DEFINE K == [i \in 1 .. Len(olds) |-> 0]
           fr == [i \in 1 .. Len(news) |-> 0]
           U == {0}
<1>1. K \in Seq(U) /\ Len(K) = Len(olds) /\ \A i \in 1 .. Len(news) : fr[i] \in U
    BY LenOfFunction
<1> HIDE DEF U, K, fr
<1> QED BY <1>1, MatchingResult

(* The pairs of the prefix and those behind it.                             *)
(* The pairs of the prefix and the others.                                  *)
Split(olds, news, p, m, front, rest) ==
    /\ front \in Seq(Pairs(olds, news)) /\ rest \in Seq(Pairs(olds, news))
    /\ Len(front) = p /\ \A n \in 1 .. p : front[n] = <<n, n>>
    /\ Len(rest) = Len(m.pairs) - p
    /\ \A n \in 1 .. Len(rest) : rest[n] = m.pairs[p + n]

LEMMA PairsSplit ==
    ASSUME NEW olds \in Seq(VNodes), NEW news \in Seq(VNodes), NEW path
    PROVE  LET m == Matching(olds, news, path)
               p == Prefix(olds, news)
           IN  Split(olds, news, p, m, SubSeq(m.pairs, 1, p), SubSeq(m.pairs, p + 1, Len(m.pairs)))
<1> DEFINE m == Matching(olds, news, path)
           p == Prefix(olds, news)
           q == m.pairs
           S == Pairs(olds, news)
<1>1. /\ q \in Seq(S) /\ Len(q) >= p
      /\ \A n \in 1 .. p : q[n] = <<n, n>>
    <2>1. Pairing(olds, news, p, m, Len(news))
        BY MatchingPairs
    <2> HIDE DEF m, p
    <2> QED BY <2>1 DEF Pairing, Pairs
<1>2. p \in Nat /\ Len(q) \in Nat
    BY <1>1, PrefixReusable
<1> HIDE DEF q, S, p
<1>3. /\ SubSeq(q, 1, p) \in Seq(S) /\ Len(SubSeq(q, 1, p)) = p
      /\ \A n \in 1 .. p : SubSeq(q, 1, p)[n] = q[n]
    BY <1>1, <1>2
<1>4. /\ SubSeq(q, p + 1, Len(q)) \in Seq(S) /\ Len(SubSeq(q, p + 1, Len(q))) = Len(q) - p
      /\ \A n \in 1 .. Len(q) - p : SubSeq(q, p + 1, Len(q))[n] = q[p + n]
    BY <1>1, <1>2
<1> DEFINE front == SubSeq(q, 1, p)
           rest == SubSeq(q, p + 1, Len(q))
<1>5. /\ front \in Seq(S) /\ rest \in Seq(S)
      /\ Len(front) = p /\ Len(rest) = Len(q) - p
      /\ \A n \in 1 .. p : front[n] = <<n, n>>
      /\ \A n \in 1 .. Len(rest) : rest[n] = q[p + n]
    BY <1>1, <1>3, <1>4
<1> HIDE DEF m, front, rest
<1>6. Split(olds, news, p, m, front, rest)
    BY <1>5 DEF Split, q, S
<1> QED BY <1>6 DEF q, p, m, front, rest

Agree(f, g, olds, news, path) ==
    \A o \in 1 .. Len(olds), s \in 1 .. Len(news) :
        f[<<olds[o], news[s], Append(path, s)>>] = g[<<olds[o], news[s], Append(path, s)>>]

LEMMA SamePairs ==
    ASSUME NEW f, NEW g, NEW olds, NEW news, NEW path, Agree(f, g, olds, news, path),
           NEW pairs \in Seq(Pairs(olds, news))
    PROVE  DiffPairs(f, olds, news, path, pairs) = DiffPairs(g, olds, news, path, pairs)
<1> DEFINE part(d) == [n \in DOMAIN pairs |->
                          d[<<olds[pairs[n][1]], news[pairs[n][2]], Append(path, pairs[n][2])>>]]
<1>1. \A n \in DOMAIN pairs : pairs[n][1] \in 1 .. Len(olds) /\ pairs[n][2] \in 1 .. Len(news)
    <2>1. \A n \in DOMAIN pairs : pairs[n] \in (1 .. Len(olds)) \X (1 .. Len(news))
        BY DEF Pairs
    <2> QED BY <2>1
<1>2. part(f) = part(g)
    BY <1>1 DEF Agree
<1>3. DiffPairs(f, olds, news, path, pairs) = FlattenSeq(part(f))
      /\ DiffPairs(g, olds, news, path, pairs) = FlattenSeq(part(g))
    BY DEF DiffPairs
<1> HIDE DEF part
<1> QED BY <1>2, <1>3

LEMMA SameDiff ==
    ASSUME NEW f, NEW g, NEW a \in VNodes, NEW b \in VNodes, NEW path,
           Agree(f, g, a.kids, b.kids, path)
    PROVE  DiffNode(f, a, b, path) = DiffNode(g, a, b, path)
<1> DEFINE olds == a.kids
           news == b.kids
<1>1. olds \in Seq(VNodes) /\ news \in Seq(VNodes) /\ Len(olds) \in Nat /\ Len(news) \in Nat
    BY TreeFacts
<1>2. DiffChildrenPositional(f, olds, news, path) = DiffChildrenPositional(g, olds, news, path)
    <2> DEFINE shared == Min({Len(olds), Len(news)})
               pairs == [i \in 1 .. shared |-> <<i, i>>]
    <2>1. shared \in Nat /\ shared <= Len(olds) /\ shared <= Len(news)
        BY <1>1, MinOfTwo
    <2> HIDE DEF shared
    <2>2. pairs \in Seq(Pairs(olds, news))
        <3>1. \A i \in 1 .. shared : <<i, i>> \in (1 .. Len(olds)) \X (1 .. Len(news))
            BY <1>1, <2>1
        <3> QED BY <2>1, <3>1 DEF Pairs
    <2> HIDE DEF pairs, olds, news
    <2>3. DiffPairs(f, olds, news, path, pairs) = DiffPairs(g, olds, news, path, pairs)
        BY <2>2, SamePairs DEF olds, news
    <2> QED BY <2>3 DEF DiffChildrenPositional, pairs, shared
<1>3. DiffChildrenKeyed(f, olds, news, path) = DiffChildrenKeyed(g, olds, news, path)
    <2> DEFINE m == Matching(olds, news, path)
               p == Prefix(olds, news)
               front == SubSeq(m.pairs, 1, p)
               rest == SubSeq(m.pairs, p + 1, Len(m.pairs))
    <2>1. front \in Seq(Pairs(olds, news)) /\ rest \in Seq(Pairs(olds, news))
        BY <1>1, PairsSplit DEF Split
    <2> HIDE DEF front, rest, olds, news
    <2>2. /\ DiffPairs(f, olds, news, path, front) = DiffPairs(g, olds, news, path, front)
          /\ DiffPairs(f, olds, news, path, rest) = DiffPairs(g, olds, news, path, rest)
        BY <2>1, SamePairs DEF olds, news
    <2> QED BY <2>2 DEF DiffChildrenKeyed, front, rest
<1> QED BY <1>2, <1>3 DEF DiffNode

LEMMA DiffIs ==
    \A a \in VNodes, b \in VNodes, path \in Seq(Nat) :
       Diff[<<a, b, path>>] = DiffNode(Diff, a, b, path)
<1> DEFINE D(f, c) == DiffNode(f, c[1], c[2], c[3])
           C(n) == {c \in Calls : Height[c[1]] < n}
           Solves(f, n) == f = [c \in C(n) |-> D(f, c)]
           S == {n \in Nat : \E f : Solves(f, n)}
           Inner(c, x) ==
               \E o \in 1 .. Len(c[1].kids), s \in 1 .. Len(c[2].kids) :
                   x = <<c[1].kids[o], c[2].kids[s], Append(c[3], s)>>
<1>c. \A c \in Calls : c[1] \in VNodes /\ c[2] \in VNodes /\ c[3] \in Seq(Nat) /\ Height[c[1]] \in Nat
    BY TreeFacts DEF Calls
<1>i. \A c \in Calls : \A x : Inner(c, x) => x \in Calls /\ Height[x[1]] \in Nat /\ Height[x[1]] < Height[c[1]]
    <2> SUFFICES ASSUME NEW c \in Calls, NEW x, Inner(c, x)
                 PROVE  x \in Calls /\ Height[x[1]] \in Nat /\ Height[x[1]] < Height[c[1]]
        OBVIOUS
    <2>1. PICK o \in 1 .. Len(c[1].kids), s \in 1 .. Len(c[2].kids) :
             x = <<c[1].kids[o], c[2].kids[s], Append(c[3], s)>>
        OBVIOUS
    <2>2. /\ c[1].kids[o] \in VNodes /\ Height[c[1].kids[o]] \in Nat
          /\ Height[c[1].kids[o]] < Height[c[1]]
        BY <1>c, TreeFacts
    <2>3. c[2].kids[s] \in VNodes
        BY <1>c, TreeFacts
    <2>4. Append(c[3], s) \in Seq(Nat)
        BY <1>c
    <2> QED BY <2>1, <2>2, <2>3, <2>4 DEF Calls
<1>s. \A c \in Calls : \A f, g : (\A x : Inner(c, x) => f[x] = g[x]) => D(f, c) = D(g, c)
    <2> SUFFICES ASSUME NEW c \in Calls, NEW f, NEW g, \A x : Inner(c, x) => f[x] = g[x]
                 PROVE  D(f, c) = D(g, c)
        OBVIOUS
    <2> DEFINE a == c[1]
               b == c[2]
               path == c[3]
    <2>1. a \in VNodes /\ b \in VNodes
        BY <1>c
    <2>2. Agree(f, g, a.kids, b.kids, path)
        BY DEF Agree
    <2> HIDE DEF a, b, path
    <2>3. DiffNode(f, a, b, path) = DiffNode(g, a, b, path)
        BY <2>1, <2>2, SameDiff
    <2> QED BY <2>3 DEF a, b, path
<1> HIDE DEF Inner, D
<1>1. \A n \in Nat : n \in S
    <2>1. 0 \in S
        <3> DEFINE f == [c \in C(0) |-> 0]
        <3>1. C(0) = {}
            BY <1>c
        <3>2. Solves(f, 0)
            BY <3>1
        <3> HIDE DEF f, Solves
        <3> QED BY <3>2
    <2>2. ASSUME NEW n \in Nat, n \in S PROVE n + 1 \in S
        <3>1. PICK f : Solves(f, n)
            BY <2>2
        <3> DEFINE g == [c \in C(n + 1) |-> D(f, c)]
        <3>2. \A c \in C(n) : g[c] = f[c]
            <4>1. \A c \in C(n) : c \in C(n + 1)
                BY <1>c
            <4> QED BY <3>1, <4>1
        <3>3. \A c \in C(n + 1) : c \in Calls /\ \A x : Inner(c, x) => x \in C(n)
            <4> SUFFICES ASSUME NEW c \in C(n + 1), NEW x, Inner(c, x) PROVE x \in C(n)
                OBVIOUS
            <4>1. c \in Calls /\ Height[c[1]] \in Nat /\ Height[c[1]] < n + 1
                BY <1>c
            <4>2. x \in Calls /\ Height[x[1]] \in Nat /\ Height[x[1]] < Height[c[1]]
                BY <1>i, <4>1
            <4> QED BY <4>1, <4>2
        <3>4. \A c \in C(n + 1) : D(f, c) = D(g, c)
            <4> HIDE DEF g, C
            <4> QED BY <1>s, <3>2, <3>3
        <3>5. g = [c \in C(n + 1) |-> D(f, c)]
            OBVIOUS
        <3>6. Solves(g, n + 1)
            <4> HIDE DEF g, C
            <4> QED BY <3>4, <3>5
        <3> HIDE DEF g, Solves
        <3> QED BY <3>6
    <2> HIDE DEF S
    <2> QED BY <2>1, <2>2, NatSetInduction
<1> DEFINE G == [n \in Nat |-> CHOOSE f : Solves(f, n)]
<1>2. \A n \in Nat : Solves(G[n], n)
    <2> SUFFICES ASSUME NEW n \in Nat PROVE Solves(G[n], n)
        OBVIOUS
    <2>1. \E f : Solves(f, n)
        BY <1>1
    <2>2. G[n] = CHOOSE f : Solves(f, n)
        OBVIOUS
    <2> HIDE DEF Solves, G
    <2> QED BY <2>1, <2>2
<1>3. \A n \in Nat : \A c \in Calls : Height[c[1]] < n => G[n][c] = D(G[n], c)
    <2> SUFFICES ASSUME NEW n \in Nat, NEW c \in Calls, Height[c[1]] < n
                 PROVE  G[n][c] = D(G[n], c)
        OBVIOUS
    <2> DEFINE g == G[n]
    <2>1. g = [x \in C(n) |-> D(g, x)] /\ c \in C(n)
        BY <1>2
    <2> HIDE DEF g, C
    <2>2. g[c] = D(g, c)
        BY <2>1
    <2> QED BY <2>2 DEF g
<1> HIDE DEF G, S, Solves
<1> DEFINE Same(c) == \A n, m \in Nat : Height[c[1]] < n /\ Height[c[1]] < m => G[n][c] = G[m][c]
           R == {h \in Nat : \A c \in Calls : Height[c[1]] = h => Same(c)}
<1>4. \A h \in Nat : h \in R
    <2>1. ASSUME NEW h \in Nat, \A k \in Nat : k < h => k \in R PROVE h \in R
        <3> SUFFICES ASSUME NEW c \in Calls, Height[c[1]] = h, NEW n \in Nat, NEW m \in Nat,
                            h < n, h < m
                     PROVE  G[n][c] = G[m][c]
            OBVIOUS
        <3>1. \A x : Inner(c, x) => G[n][x] = G[m][x]
            <4> SUFFICES ASSUME NEW x, Inner(c, x) PROVE G[n][x] = G[m][x]
                OBVIOUS
            <4>1. x \in Calls /\ Height[x[1]] \in Nat /\ Height[x[1]] < h
                BY <1>i
            <4>2. Height[x[1]] \in R
                BY <2>1, <4>1
            <4>3. Same(x)
                BY <4>1, <4>2
            <4>4. Height[x[1]] < n /\ Height[x[1]] < m
                BY <4>1
            <4> QED BY <4>3, <4>4
        <3>2. D(G[n], c) = D(G[m], c)
            BY <3>1, <1>s
        <3> QED BY <1>3, <3>2
    <2> HIDE DEF R
    <2> QED BY <2>1, StrongSetInduction
<1> DEFINE F == [c \in Calls |-> G[Height[c[1]] + 1][c]]
<1>5. \A c \in Calls : F[c] = D(F, c)
    <2> SUFFICES ASSUME NEW c \in Calls PROVE F[c] = D(F, c)
        OBVIOUS
    <2> DEFINE n == Height[c[1]] + 1
    <2>1. F[c] = G[n][c] /\ n \in Nat /\ Height[c[1]] < n
        BY <1>c
    <2>2. \A x : Inner(c, x) => G[n][x] = F[x]
        <3> SUFFICES ASSUME NEW x, Inner(c, x) PROVE G[n][x] = F[x]
            OBVIOUS
        <3>1. x \in Calls /\ Height[x[1]] \in Nat /\ Height[x[1]] < n
            BY <1>c, <1>i
        <3>2. Same(x)
            BY <1>4, <3>1
        <3>3. F[x] = G[Height[x[1]] + 1][x]
            BY <3>1
        <3>4. Height[x[1]] < Height[x[1]] + 1 /\ Height[x[1]] + 1 \in Nat
            BY <3>1
        <3> HIDE DEF n, F
        <3> QED BY <2>1, <3>1, <3>2, <3>3, <3>4
    <2> HIDE DEF n, F
    <2>3. D(G[n], c) = D(F, c)
        BY <1>s, <2>2
    <2> QED BY <1>3, <2>1, <2>3
<1>6. F = [c \in Calls |-> D(F, c)]
    <2>1. F = [c \in Calls |-> F[c]]
        OBVIOUS
    <2> HIDE DEF F
    <2> QED BY <1>5, <2>1
<1>7. Diff = CHOOSE f : f = [c \in Calls |-> D(f, c)]
    BY DEF Diff, D
<1>8. Diff = [c \in Calls |-> D(Diff, c)]
    <2> HIDE DEF F
    <2>1. \E f : f = [c \in Calls |-> D(f, c)]
        BY <1>6
    <2> QED BY <1>7, <2>1
<1> DEFINE f == Diff
<1>9. \A a \in VNodes, b \in VNodes, path \in Seq(Nat) :
         f[<<a, b, path>>] = D(f, <<a, b, path>>)
    <2>1. \A a \in VNodes, b \in VNodes, path \in Seq(Nat) : <<a, b, path>> \in Calls
        BY DEF Calls
    <2> HIDE DEF f
    <2> QED BY <1>8, <2>1 DEF f
<1>10. \A a, b, path : D(Diff, <<a, b, path>>) = DiffNode(Diff, a, b, path)
    BY DEF D
<1> QED BY <1>9, <1>10

-----------------------------------------------------------------------------
(* diff_attrs.                                                              *)
LEMMA AttrsLead ==
    ASSUME NEW d, NEW path \in Seq(Nat), HasNode(d, path),
           NEW t, t # TextTag, NEW x, NEW ks,
           NEW a, a = [y \in DOMAIN a |-> a[y]], IsFiniteSet(DOMAIN a),
           NEW b, b = [y \in DOMAIN b |-> b[y]], IsFiniteSet(DOMAIN b)
    PROVE  Leads(With(d, path, Dom(t, a, x, ks)), DiffAttrs(a, b, path),
                 With(d, path, Dom(t, b, x, ks)))
<1> DEFINE S == {n \in DOMAIN b : n \notin DOMAIN a \/ a[n] # b[n]}
           R == DOMAIN a \ DOMAIN b
           q == SetToSeq(S)
           r == SetToSeq(R)
           c == Overlaid(a, b, S)
           ps == SetEach(path, q, b)
           rs == RemoveEach(path, r)
<1>1. IsFiniteSet(S) /\ IsFiniteSet(R)
    <2>1. S \in SUBSET DOMAIN b /\ R \in SUBSET DOMAIN a
        OBVIOUS
    <2> HIDE DEF S, R
    <2> QED BY <2>1, FS_Subset
<1>2. DiffAttrs(a, b, path) = ps \o rs
    BY DEF DiffAttrs, SetEach, RemoveEach
<1>3. /\ DOMAIN c = DOMAIN a \cup S /\ c = [y \in DOMAIN c |-> c[y]]
      /\ R \in SUBSET DOMAIN c
      /\ Stripped(c, R) = b
    <2>1. DOMAIN c = DOMAIN a \cup S /\ \A y \in DOMAIN c : c[y] = IF y \in S THEN b[y] ELSE a[y]
        BY DEF Overlaid
    <2>2. c = [y \in DOMAIN c |-> c[y]]
        BY DEF Overlaid
    <2>3. S \in SUBSET DOMAIN b /\ \A y \in DOMAIN b : y \notin S => y \in DOMAIN a /\ a[y] = b[y]
        OBVIOUS
    <2> HIDE DEF c, S
    <2>4. DOMAIN c \ R = DOMAIN b
        BY <2>1, <2>3
    <2>5. \A y \in DOMAIN b : c[y] = b[y]
        BY <2>1, <2>3
    <2> QED BY <2>1, <2>2, <2>4, <2>5 DEF Stripped
<1>4. /\ q \in Seq(S)
      /\ \A y \in S : \E i \in 1 .. Len(q) : q[i] = y
    <2> HIDE DEF S
    <2> QED BY <1>1, SetToSeqIs
<1>5. /\ r \in Seq(R)
      /\ \A i, j \in 1 .. Len(r) : r[i] = r[j] => i = j
      /\ \A y \in R : \E i \in 1 .. Len(r) : r[i] = y
    <2> HIDE DEF R
    <2> QED BY <1>1, SetToSeqIs
<1> HIDE DEF S, R, q, r
<1>6. Leads(With(d, path, Dom(t, a, x, ks)), ps, With(d, path, Dom(t, c, x, ks)))
    BY <1>4, SetsLead
<1> HIDE DEF c
<1>7. Leads(With(d, path, Dom(t, c, x, ks)), rs, With(d, path, Dom(t, b, x, ks)))
    <2>1. Leads(With(d, path, Dom(t, c, x, ks)), rs, With(d, path, Dom(t, Stripped(c, R), x, ks)))
        BY <1>3, <1>5, RemovalsLead
    <2> QED BY <1>3, <2>1
<1> HIDE DEF ps, rs
<1> QED BY <1>2, <1>6, <1>7, LeadsOn

-----------------------------------------------------------------------------
(* Snapshots of lists of children.                                          *)
Snaps == {FromVNode[v] : v \in VNodes}

LEMMA SnapshotsAre ==
    ASSUME NEW vs \in Seq(VNodes)
    PROVE  /\ Snapshots(vs) \in Seq(Snaps) /\ Len(Snapshots(vs)) = Len(vs)
           /\ \A i \in 1 .. Len(vs) : Snapshots(vs)[i] = FromVNode[vs[i]]
<1> DEFINE S == {FromVNode[v] : v \in VNodes}
           N == Len(vs)
           f == Snapshots(vs)
<1>1. N \in Nat /\ DOMAIN vs = 1 .. N /\ \A i \in 1 .. N : vs[i] \in VNodes
    OBVIOUS
<1>2. f = [i \in 1 .. N |-> FromVNode[vs[i]]]
    BY <1>1 DEF Snapshots
<1>3. \A i \in 1 .. N : f[i] = FromVNode[vs[i]]
    BY <1>2
<1>4. \A i \in 1 .. N : f[i] \in S
    BY <1>1, <1>3
<1>5. f = [i \in 1 .. N |-> f[i]]
    BY <1>2
<1> HIDE DEF f, S, N
<1>6. f \in [1 .. N -> S] /\ Len(f) = N
    BY <1>1, <1>4, <1>5, LenOfFunction
<1>7. f \in Seq(S)
    BY <1>1, <1>6, SeqDef
<1> QED BY <1>3, <1>6, <1>7 DEF f, S, N, Snaps

LEMMA SnapshotIs ==
    \A v \in VNodes : FromVNode[v] = Dom(v.tag, v.attrs, v.text, Snapshots(v.kids))
BY FromVNodeIs DEF Snapshot, Dom, Snapshots

(* The diff of a and b, wherever it is applied, turns a into b.             *)
Carries(a, b) ==
    \A path \in Seq(Nat) : \A d :
       HasNode(d, path) =>
          Leads(With(d, path, FromVNode[a]), Diff[<<a, b, path>>], With(d, path, FromVNode[b]))

(* The list ks after the first n pairs have been diffed in it.              *)
Filled(ks, news, pairs, n) ==
    [j \in DOMAIN ks |-> IF \E q \in 1 .. n : pairs[q][2] = j THEN FromVNode[news[j]] ELSE ks[j]]

LEMMA FilledStep ==
    ASSUME NEW ks, NEW news, NEW pairs, NEW n \in Nat, n >= 1,
           \A q \in 1 .. n - 1 : pairs[q][2] # pairs[n][2],
           pairs[n][2] \in DOMAIN ks
    PROVE  /\ DOMAIN Filled(ks, news, pairs, n - 1) = DOMAIN ks
           /\ Filled(ks, news, pairs, n - 1)[pairs[n][2]] = ks[pairs[n][2]]
           /\ Swapped(Filled(ks, news, pairs, n - 1), pairs[n][2], ks[pairs[n][2]])
                 = Filled(ks, news, pairs, n - 1)
           /\ Swapped(Filled(ks, news, pairs, n - 1), pairs[n][2], FromVNode[news[pairs[n][2]]])
                 = Filled(ks, news, pairs, n)
<1> DEFINE j == pairs[n][2]
           F == Filled(ks, news, pairs, n - 1)
           H == Filled(ks, news, pairs, n)
           Hit(m, i) == \E q \in 1 .. m : pairs[q][2] = i
<1>1. F = [i \in DOMAIN ks |-> IF Hit(n - 1, i) THEN FromVNode[news[i]] ELSE ks[i]]
    BY DEF Filled
<1>2. H = [i \in DOMAIN ks |-> IF Hit(n, i) THEN FromVNode[news[i]] ELSE ks[i]]
    BY DEF Filled
<1>3. ~ Hit(n - 1, j)
    OBVIOUS
<1>4. \A i : Hit(n, i) <=> Hit(n - 1, i) \/ i = j
    <2>1. 1 .. n = (1 .. n - 1) \cup {n}
        OBVIOUS
    <2> QED BY <2>1
<1>5. j \in DOMAIN ks
    OBVIOUS
<1> HIDE DEF Hit, j, F, H
<1>6. DOMAIN F = DOMAIN ks /\ F[j] = ks[j]
    BY <1>1, <1>3, <1>5
<1>7. [F EXCEPT ![j] = ks[j]] = F
    BY <1>1, <1>6
<1>8. [F EXCEPT ![j] = FromVNode[news[j]]] = H
    <2>1. [F EXCEPT ![j] = FromVNode[news[j]]] =
             [i \in DOMAIN ks |-> IF i = j THEN FromVNode[news[j]] ELSE F[i]]
        BY <1>6
    <2>2. \A i \in DOMAIN ks : (IF i = j THEN FromVNode[news[j]] ELSE F[i])
                                = (IF Hit(n, i) THEN FromVNode[news[i]] ELSE ks[i])
        BY <1>1, <1>4
    <2> QED BY <1>2, <2>1, <2>2
<1> QED BY <1>6, <1>7, <1>8 DEF j, F, H, Swapped

(* The children of the pairs, each diffed at its place in the list ks.      *)
LEMMA PairsLead ==
    ASSUME NEW d, NEW path \in Seq(Nat), HasNode(d, path), NEW t, NEW at, NEW x,
           NEW olds \in Seq(VNodes), NEW news \in Seq(VNodes),
           \A o \in 1 .. Len(olds), s \in 1 .. Len(news) : Carries(olds[o], news[s]),
           NEW pairs \in Seq(Pairs(olds, news)),
           \A n, q \in 1 .. Len(pairs) : pairs[n][2] = pairs[q][2] => n = q,
           NEW ks, ks = [j \in DOMAIN ks |-> ks[j]],
           \A n \in 1 .. Len(pairs) :
              pairs[n][2] \in DOMAIN ks /\ ks[pairs[n][2]] = FromVNode[olds[pairs[n][1]]]
    PROVE  Leads(With(d, path, Dom(t, at, x, ks)), DiffPairs(Diff, olds, news, path, pairs),
                 With(d, path, Dom(t, at, x, Filled(ks, news, pairs, Len(pairs)))))
<1> DEFINE N == Len(pairs)
           ss == [n \in DOMAIN pairs |->
                     Diff[<<olds[pairs[n][1]], news[pairs[n][2]], Append(path, pairs[n][2])>>]]
           Fill(n) == Filled(ks, news, pairs, n)
           h == [n \in 0 .. N |-> With(d, path, Dom(t, at, x, Fill(n)))]
<1>1. N \in Nat /\ DOMAIN pairs = 1 .. N
    OBVIOUS
<1>2. \A n \in 1 .. N : pairs[n][1] \in 1 .. Len(olds) /\ pairs[n][2] \in 1 .. Len(news)
    <2>1. \A n \in 1 .. N : pairs[n] \in (1 .. Len(olds)) \X (1 .. Len(news))
        BY DEF Pairs
    <2> QED BY <2>1
<1>3. \A n \in 1 .. N :
         ss[n] = Diff[<<olds[pairs[n][1]], news[pairs[n][2]], Append(path, pairs[n][2])>>]
    BY <1>1
<1>4. Len(ss) = N /\ (N = 0 => ss = <<>>)
    <2>1. ss = [n \in 1 .. N |-> ss[n]]
        BY <1>1
    <2> HIDE DEF ss, N
    <2>2. Len(ss) = N
        BY <1>1, <2>1, LenOfFunction
    <2>3. ASSUME N = 0 PROVE ss = <<>>
        <3>1. IsList(ss) /\ Len(ss) = 0
            BY <1>1, <2>1, <2>2, <2>3, FunctionIsList
        <3> QED BY <3>1, EmptySeq DEF IsList
    <2> QED BY <2>2, <2>3
<1>5. DiffPairs(Diff, olds, news, path, pairs) = FlattenSeq(ss)
    BY DEF DiffPairs
<1>6. Fill(0) = ks
    <2>1. \A j : ~ \E q \in 1 .. 0 : pairs[q][2] = j
        OBVIOUS
    <2>2. Fill(0) = [j \in DOMAIN ks |-> ks[j]]
        BY <2>1 DEF Filled
    <2> QED BY <2>2
<1> HIDE DEF ss
<1>7. \A n \in 0 .. N : h[n] = With(d, path, Dom(t, at, x, Fill(n)))
    OBVIOUS
<1> HIDE DEF h
<1>8. ASSUME NEW n \in 1 .. N PROVE Leads(h[n - 1], ss[n], h[n])
    <2> DEFINE j == pairs[n][2]
               o == pairs[n][1]
               F == Fill(n - 1)
               H == Fill(n)
               old0 == FromVNode[olds[o]]
               new0 == FromVNode[news[j]]
               q == Append(path, j)
               e == With(d, path, Dom(t, at, x, F))
    <2>1. /\ j \in DOMAIN ks /\ ks[j] = old0 /\ j \in 1 .. Len(news) /\ o \in 1 .. Len(olds)
          /\ j \in Nat /\ q \in Seq(Nat)
        BY <1>2
    <2>2. n \in Nat /\ n >= 1 /\ \A m \in 1 .. n - 1 : pairs[m][2] # pairs[n][2]
        <3>1. n \in Nat /\ n >= 1 /\ \A m \in 1 .. n - 1 : m \in 1 .. N /\ m # n
            BY <1>1
        <3> QED BY <3>1
    <2>3. /\ DOMAIN F = DOMAIN ks
          /\ Swapped(F, j, ks[j]) = F
          /\ Swapped(F, j, new0) = H
        <3>1. pairs[n][2] \in DOMAIN ks
            BY <2>1
        <3> HIDE DEF F, H, j
        <3>2. DOMAIN F = DOMAIN ks
            BY <2>2, <3>1, FilledStep DEF F
        <3>3. Swapped(F, j, ks[j]) = F
            BY <2>2, <3>1, FilledStep DEF F, j
        <3>4. Swapped(F, j, new0) = H
            BY <2>2, <3>1, FilledStep DEF F, H, j
        <3> QED BY <3>2, <3>3, <3>4
    <2>4. h[n - 1] = e /\ h[n] = With(d, path, Dom(t, at, x, H))
        <3>1. n - 1 \in 0 .. N /\ n \in 0 .. N
            BY <1>1
        <3> QED BY <3>1, <1>7
    <2>5. ss[n] = Diff[<<olds[o], news[j], q>>]
        BY <1>3
    <2>6. Carries(olds[o], news[j])
        BY <2>1
    <2> DEFINE D == Dom(t, at, x, F)
    <2>7. D.kids = F /\ \A y : Put(D, j, y) = Dom(t, at, x, Swapped(F, j, y))
        BY DomParts, PutDom
    <2> HIDE DEF F, H, D, old0, new0
    <2>8. HasNode(e, q) /\ \A y : With(e, q, y) = With(d, path, Put(D, j, y))
        <3>1. j \in DOMAIN D.kids
            BY <2>1, <2>3, <2>7
        <3>2. e = With(d, path, D)
            BY DEF D
        <3> QED BY <2>1, <3>1, <3>2, ChildOfWith
    <2>9. With(e, q, old0) = e
        <3>1. With(e, q, old0) = With(d, path, Dom(t, at, x, Swapped(F, j, old0)))
            BY <2>7, <2>8
        <3>2. Swapped(F, j, old0) = F
            BY <2>1, <2>3
        <3> QED BY <3>1, <3>2
    <2>10. With(e, q, new0) = With(d, path, Dom(t, at, x, H))
        BY <2>3, <2>7, <2>8
    <2> HIDE DEF q, e, j, o
    <2>11. Leads(With(e, q, FromVNode[olds[o]]), Diff[<<olds[o], news[j], q>>],
                 With(e, q, FromVNode[news[j]]))
        BY <2>1, <2>6, <2>8 DEF Carries
    <2> QED BY <2>4, <2>5, <2>9, <2>10, <2>11 DEF old0, new0
<1>9. 0 \in 0 .. N /\ N \in 0 .. N
    BY <1>1
<1> HIDE DEF Fill
<1>10. h[0] = With(d, path, Dom(t, at, x, ks)) /\ h[N] = With(d, path, Dom(t, at, x, Fill(N)))
    BY <1>6, <1>7, <1>9
<1> HIDE DEF N
<1>11. Leads(h[0], FlattenSeq(ss), h[N])
    BY <1>1, <1>4, <1>8, LeadsThrough
<1> QED BY <1>5, <1>10, <1>11 DEF Fill, N

-----------------------------------------------------------------------------
(* A patch of the structure does to the children of a node what it does to  *)
(* a list.                                                                  *)
LEMMA StructuralPatch ==
    ASSUME NEW path, NEW news \in Seq(VNodes), NEW q \in Structural(path, news),
           NEW t, t # TextTag, NEW at, NEW x, NEW g, InRange(Len(g), q)
    PROVE  /\ q.path = path
           /\ Suits(Dom(t, at, x, g), q)
           /\ Patched(Dom(t, at, x, g), q)
                 = Dom(t, at, x, Rearranged(g, q, Anew(q, Snapshots(news))))
<1> DEFINE D == Dom(t, at, x, g)
           fr == Snapshots(news)
<1>d. /\ D.tag = t /\ D.kids = g /\ ~ IsText(D)
      /\ \A r : Holding(D, r) = Dom(t, at, x, r)
    BY DomParts DEF IsText
<1>1. CASE q \in {MoveChild(path, f, e) : f \in Nat, e \in Nat}
    <2>1. PICK f \in Nat, e \in Nat : q = MoveChild(path, f, e)
        BY <1>1
    <2>2. q.op = "moveChild" /\ q.path = path
        BY <2>1 DEF MoveChild
    <2> HIDE DEF D
    <2>3. q.to \in 1 .. q.from - 1 /\ q.from \in 1 .. Len(g)
        BY <2>2 DEF InRange
    <2>4. Suits(D, q)
        BY <1>d, <2>2, <2>3 DEF Suits
    <2>5. Patched(D, q) = Holding(D, Rearranged(D.kids, q, Brought(q)))
        BY <2>2 DEF Patched
    <2>6. Brought(q) = Anew(q, fr)
        BY <2>2 DEF Brought, Anew
    <2> QED BY <1>d, <2>2, <2>4, <2>5, <2>6 DEF D
<1>2. CASE q \in {InsertChild(path, j, FromVNode[news[j]]) : j \in 1 .. Len(news)}
    <2>1. PICK j \in 1 .. Len(news) : q = InsertChild(path, j, FromVNode[news[j]])
        BY <1>2
    <2>2. q.op = "insertChild" /\ q.path = path /\ q.index = j /\ q.node = FromVNode[news[j]]
        BY <2>1 DEF InsertChild
    <2> HIDE DEF D
    <2>3. q.index \in 1 .. Len(g) + 1
        BY <2>2 DEF InRange
    <2>4. Suits(D, q)
        BY <1>d, <2>2, <2>3 DEF Suits
    <2>5. Patched(D, q) = Holding(D, Rearranged(D.kids, q, Brought(q)))
        BY <2>2 DEF Patched
    <2>6. fr[j] = FromVNode[news[j]]
        BY SnapshotsAre
    <2>7. Brought(q) = Anew(q, fr)
        BY <2>2, <2>6 DEF Brought, Anew
    <2> QED BY <1>d, <2>2, <2>4, <2>5, <2>7 DEF D
<1> QED BY <1>1, <1>2 DEF Structural

(* The moves and insertions, carried out on the children of a DOM node.     *)
LEMMA StructureLeads ==
    ASSUME NEW d, NEW path \in Seq(Nat), HasNode(d, path),
           NEW t, t # TextTag, NEW at, NEW x,
           NEW news \in Seq(VNodes), NEW ps \in Seq(Structural(path, news)),
           NEW U, NEW K, NEW L, Goes(U, K, ps, Snapshots(news), L)
    PROVE  Leads(With(d, path, Dom(t, at, x, K)), ps, With(d, path, Dom(t, at, x, L)))
<1> DEFINE N == Len(ps)
           fr == Snapshots(news)
<1>1. PICK g : /\ g[0] = K /\ g[N] = L
               /\ \A n \in 1 .. N : /\ InRange(Len(g[n - 1]), ps[n])
                                    /\ g[n] = Rearranged(g[n - 1], ps[n], Anew(ps[n], fr))
    BY DEF Goes
<1>2. N \in Nat /\ \A n \in 1 .. N : ps[n] \in Structural(path, news)
    OBVIOUS
<1>3. IsList(ps)
    BY ListOf
<1> DEFINE f == [n \in 0 .. N |-> Dom(t, at, x, g[n])]
<1>4. f[0] = Dom(t, at, x, K) /\ f[N] = Dom(t, at, x, L)
    BY <1>1, <1>2
<1>5. \A n \in 1 .. N : f[n - 1] = Dom(t, at, x, g[n - 1]) /\ f[n] = Dom(t, at, x, g[n])
    BY <1>2
<1> HIDE DEF f, fr
<1>6. ASSUME NEW n \in 1 .. N
      PROVE  ps[n].path = path /\ Suits(f[n - 1], ps[n]) /\ f[n] = Patched(f[n - 1], ps[n])
    <2> DEFINE q == ps[n]
               h == g[n - 1]
    <2>1. q \in Structural(path, news) /\ InRange(Len(h), q)
        BY <1>1, <1>2
    <2>2. f[n - 1] = Dom(t, at, x, h) /\ f[n] = Dom(t, at, x, Rearranged(h, q, Anew(q, fr)))
        BY <1>1, <1>5
    <2> HIDE DEF q, h
    <2>3. /\ q.path = path
          /\ Suits(Dom(t, at, x, h), q)
          /\ Patched(Dom(t, at, x, h), q) = Dom(t, at, x, Rearranged(h, q, Anew(q, Snapshots(news))))
        BY <2>1, StructuralPatch
    <2> QED BY <2>2, <2>3 DEF q, fr
<1>7. LocallyBy(f, path, ps)
    BY <1>6 DEF LocallyBy
<1>8. Leads(With(d, path, f[0]), ps, With(d, path, f[Len(ps)]))
    BY <1>3, <1>7, LocallyLeads
<1> QED BY <1>4, <1>8

(* What is left over is cut off.                                            *)
LEMMA TruncateLeads ==
    ASSUME NEW d, NEW path \in Seq(Nat), HasNode(d, path),
           NEW t, t # TextTag, NEW at, NEW x, NEW U, NEW L \in Seq(U), NEW n \in Nat, n < Len(L)
    PROVE  Leads(With(d, path, Dom(t, at, x, L)), <<TruncateChildren(path, n)>>,
                 With(d, path, Dom(t, at, x, SubSeq(L, 1, n))))
<1> DEFINE D == Dom(t, at, x, L)
           q == TruncateChildren(path, n)
<1>1. /\ D.kids = L /\ ~ IsText(D)
      /\ \A r : Holding(D, r) = Dom(t, at, x, r)
    BY DomParts DEF IsText
<1>2. q.op = "truncateChildren" /\ q.path = path /\ q.len = n
    BY DEF TruncateChildren
<1>3. Min({n, Len(L)}) = n
    BY MinOfTwo
<1> HIDE DEF D, q
<1>4. Suits(D, q)
    BY <1>1, <1>2 DEF Suits
<1>5. Patched(D, q) = Holding(D, Rearranged(L, q, Brought(q)))
    BY <1>1, <1>2 DEF Patched
<1>6. \A b : Rearranged(L, q, b) = SubSeq(L, 1, n)
    BY <1>2, <1>3 DEF Rearranged
<1>7. Patched(D, q) = Dom(t, at, x, SubSeq(L, 1, n))
    BY <1>1, <1>5, <1>6
<1>8. Leads(With(d, path, D), <<q>>, With(d, path, Patched(D, q)))
    BY <1>2, <1>4, OneLeads
<1> QED BY <1>7, <1>8 DEF D, q

(* New children are put at the end.                                         *)
LEMMA AppendLeads ==
    ASSUME NEW d, NEW path \in Seq(Nat), HasNode(d, path),
           NEW t, t # TextTag, NEW at, NEW x, NEW L, NEW vs, vs # <<>>
    PROVE  Leads(With(d, path, Dom(t, at, x, L)), <<AppendChildren(path, vs)>>,
                 With(d, path, Dom(t, at, x, L \o vs)))
<1> DEFINE D == Dom(t, at, x, L)
           q == AppendChildren(path, vs)
<1>1. /\ D.kids = L /\ ~ IsText(D)
      /\ \A r : Holding(D, r) = Dom(t, at, x, r)
    BY DomParts DEF IsText
<1>2. q.op = "appendChildren" /\ q.path = path /\ q.nodes = vs
    BY DEF AppendChildren
<1> HIDE DEF D, q
<1>4. Suits(D, q)
    BY <1>1, <1>2 DEF Suits
<1>5. Patched(D, q) = Holding(D, Rearranged(L, q, Brought(q)))
    BY <1>1, <1>2 DEF Patched
<1>6. Brought(q) = vs /\ \A b : Rearranged(L, q, b) = L \o b
    BY <1>2 DEF Rearranged, Brought
<1>7. Patched(D, q) = Dom(t, at, x, L \o vs)
    BY <1>1, <1>5, <1>6
<1>8. Leads(With(d, path, D), <<q>>, With(d, path, Patched(D, q)))
    BY <1>2, <1>4, OneLeads
<1> QED BY <1>7, <1>8 DEF D, q

-----------------------------------------------------------------------------
(* Children, by place and by key.                                           *)
Children(olds, news) ==
    \A o \in 1 .. Len(olds), s \in 1 .. Len(news) : Carries(olds[o], news[s])

Hit(pairs, j) == \E q \in 1 .. Len(pairs) : pairs[q][2] = j

LEMMA FilledList ==
    ASSUME NEW news \in Seq(VNodes), NEW ks \in Seq(Snaps), NEW pairs,
           \A n \in 1 .. Len(pairs) : pairs[n][2] \in 1 .. Len(news)
    PROVE  /\ Filled(ks, news, pairs, Len(pairs)) \in Seq(Snaps)
           /\ Len(Filled(ks, news, pairs, Len(pairs))) = Len(ks)
           /\ \A j \in 1 .. Len(ks) :
                 /\ Hit(pairs, j) => Filled(ks, news, pairs, Len(pairs))[j] = FromVNode[news[j]]
                 /\ ~ Hit(pairs, j) => Filled(ks, news, pairs, Len(pairs))[j] = ks[j]
<1> DEFINE F == Filled(ks, news, pairs, Len(pairs))
           N == Len(ks)
<1>1. N \in Nat /\ DOMAIN ks = 1 .. N /\ \A j \in 1 .. N : ks[j] \in Snaps
    OBVIOUS
<1>2. F = [j \in 1 .. N |-> IF Hit(pairs, j) THEN FromVNode[news[j]] ELSE ks[j]]
    BY <1>1 DEF Filled, Hit
<1> HIDE DEF F
<1>3. \A j \in 1 .. N : F[j] = IF Hit(pairs, j) THEN FromVNode[news[j]] ELSE ks[j]
    BY <1>2
<1>4. \A j \in 1 .. N : F[j] \in Snaps
    <2> SUFFICES ASSUME NEW j \in 1 .. N PROVE F[j] \in Snaps
        OBVIOUS
    <2>1. CASE Hit(pairs, j)
        <3>1. j \in 1 .. Len(news)
            BY <2>1 DEF Hit
        <3>2. news[j] \in VNodes
            BY <3>1
        <3> QED BY <2>1, <3>2, <1>3 DEF Snaps
    <2>2. CASE ~ Hit(pairs, j)
        BY <2>2, <1>1, <1>3
    <2> QED BY <2>1, <2>2
<1>5. F \in [1 .. N -> Snaps]
    BY <1>2, <1>4
<1>6. Len(F) = N /\ F \in Seq(Snaps)
    BY <1>1, <1>5, LenOfFunction
<1> QED BY <1>3, <1>6 DEF F, N

LEMMA RestOf ==
    ASSUME NEW S, NEW s \in Seq(S), NEW n \in Nat, n <= Len(s)
    PROVE  /\ SubSeq(s, n + 1, Len(s)) \in Seq(S) /\ Len(SubSeq(s, n + 1, Len(s))) = Len(s) - n
           /\ \A i \in 1 .. Len(s) - n : SubSeq(s, n + 1, Len(s))[i] = s[n + i]
    OBVIOUS

(* diff_children_positional.                                                *)
LEMMA PositionalLeads ==
    ASSUME NEW d, NEW path \in Seq(Nat), HasNode(d, path),
           NEW t, t # TextTag, NEW at, NEW x,
           NEW olds \in Seq(VNodes), NEW news \in Seq(VNodes), Children(olds, news)
    PROVE  Leads(With(d, path, Dom(t, at, x, Snapshots(olds))),
                 DiffChildrenPositional(Diff, olds, news, path),
                 With(d, path, Dom(t, at, x, Snapshots(news))))
<1> DEFINE shared == Min({Len(olds), Len(news)})
           pairs == [i \in 1 .. shared |-> <<i, i>>]
           ks == Snapshots(olds)
           ns == Snapshots(news)
           F == Filled(ks, news, pairs, Len(pairs))
           first == DiffPairs(Diff, olds, news, path, pairs)
           last == IF Len(news) > shared
                   THEN <<AppendChildren(path, Snapshots(SubSeq(news, shared + 1, Len(news))))>>
                   ELSE IF Len(olds) > shared THEN <<TruncateChildren(path, shared)>> ELSE <<>>
<1>2. Len(olds) \in Nat /\ Len(news) \in Nat
    OBVIOUS
<1>1. /\ shared \in Nat /\ shared = IF Len(olds) <= Len(news) THEN Len(olds) ELSE Len(news)
      /\ shared <= Len(olds) /\ shared <= Len(news)
    <2> DEFINE m == Len(olds)
               n == Len(news)
    <2> HIDE DEF m, n
    <2>1. Min({m, n}) \in Nat /\ Min({m, n}) = IF m <= n THEN m ELSE n
        BY <1>2, MinOfTwo DEF m, n
    <2> QED BY <1>2, <2>1 DEF m, n
<1>3. DiffChildrenPositional(Diff, olds, news, path) = first \o last
    BY DEF DiffChildrenPositional
<1>4. /\ ks \in Seq(Snaps) /\ Len(ks) = Len(olds)
      /\ \A i \in 1 .. Len(olds) : ks[i] = FromVNode[olds[i]]
    BY SnapshotsAre
<1>5. /\ ns \in Seq(Snaps) /\ Len(ns) = Len(news)
      /\ \A i \in 1 .. Len(news) : ns[i] = FromVNode[news[i]]
    BY SnapshotsAre
<1> HIDE DEF shared, ks, ns
<1>6. /\ pairs \in Seq(Pairs(olds, news)) /\ Len(pairs) = shared
      /\ \A i \in 1 .. shared : pairs[i] = <<i, i>>
    <2> DEFINE S == Pairs(olds, news)
    <2>1. \A i \in 1 .. shared : <<i, i>> \in S
        BY <1>1, <1>2 DEF Pairs
    <2> HIDE DEF S
    <2>2. pairs \in [1 .. shared -> S] /\ \A i \in 1 .. shared : pairs[i] = <<i, i>>
        BY <2>1
    <2> HIDE DEF pairs
    <2> QED BY <1>1, <2>2, LenOfFunction DEF S
<1> HIDE DEF pairs
<1>7. \A j : Hit(pairs, j) <=> j \in 1 .. shared
    BY <1>6 DEF Hit
<1>8. /\ F \in Seq(Snaps) /\ Len(F) = Len(olds)
      /\ \A j \in 1 .. Len(olds) : F[j] = IF j <= shared THEN FromVNode[news[j]] ELSE FromVNode[olds[j]]
    <2>1. \A n \in 1 .. Len(pairs) : pairs[n][2] \in 1 .. Len(news)
        <3>1. \A n \in 1 .. shared : n \in 1 .. Len(news)
            BY <1>1, <1>2
        <3>2. \A n \in 1 .. shared : pairs[n][2] = n
            BY <1>6
        <3> QED BY <1>6, <3>1, <3>2
    <2>2. /\ F \in Seq(Snaps) /\ Len(F) = Len(ks)
          /\ \A j \in 1 .. Len(ks) : /\ Hit(pairs, j) => F[j] = FromVNode[news[j]]
                                     /\ ~ Hit(pairs, j) => F[j] = ks[j]
        BY <1>4, <2>1, FilledList
    <2> HIDE DEF F
    <2>3. F \in Seq(Snaps) /\ Len(F) = Len(olds)
        BY <1>4, <2>2
    <2>4. ASSUME NEW j \in 1 .. Len(olds)
          PROVE  F[j] = IF j <= shared THEN FromVNode[news[j]] ELSE FromVNode[olds[j]]
        <3>1. /\ Hit(pairs, j) => F[j] = FromVNode[news[j]]
              /\ ~ Hit(pairs, j) => F[j] = FromVNode[olds[j]]
            BY <1>4, <2>2
        <3>2. Hit(pairs, j) <=> j <= shared
            BY <1>1, <1>7
        <3> QED BY <3>1, <3>2
    <2> QED BY <2>3, <2>4
<1>9. Leads(With(d, path, Dom(t, at, x, ks)), first, With(d, path, Dom(t, at, x, F)))
    <2>1. \A n, q \in 1 .. Len(pairs) : pairs[n][2] = pairs[q][2] => n = q
        BY <1>6
    <2>2. ks = [j \in DOMAIN ks |-> ks[j]]
        BY <1>4
    <2>3. ASSUME NEW n \in 1 .. Len(pairs)
          PROVE  pairs[n][2] \in DOMAIN ks /\ ks[pairs[n][2]] = FromVNode[olds[pairs[n][1]]]
        <3>1. n \in 1 .. Len(olds) /\ pairs[n] = <<n, n>>
            <4>1. \A i \in 1 .. shared : i \in 1 .. Len(olds)
                BY <1>1, <1>2
            <4> QED BY <1>6, <4>1
        <3> QED BY <3>1, <1>4
    <2>4. \A o \in 1 .. Len(olds), s \in 1 .. Len(news) : Carries(olds[o], news[s])
        BY DEF Children
    <2> QED BY <1>6, <2>1, <2>2, <2>3, <2>4, PairsLead
<1> HIDE DEF first, F
<1>10. Leads(With(d, path, Dom(t, at, x, F)), last, With(d, path, Dom(t, at, x, ns)))
    <2>1. CASE Len(news) > shared
        <3> DEFINE sub == SubSeq(news, shared + 1, Len(news))
                   vs == Snapshots(sub)
        <3>1. shared = Len(olds)
            BY <2>1, <1>1, <1>2
        <3>2. /\ sub \in Seq(VNodes) /\ Len(sub) = Len(news) - shared
              /\ \A i \in 1 .. Len(news) - shared : sub[i] = news[shared + i]
            BY <3>1, <1>1, RestOf
        <3> HIDE DEF sub
        <3>3. /\ vs \in Seq(Snaps) /\ Len(vs) = Len(sub)
              /\ \A i \in 1 .. Len(sub) : vs[i] = FromVNode[sub[i]]
            BY <3>2, SnapshotsAre
        <3> HIDE DEF vs
        <3>4. vs # <<>>
            BY <2>1, <1>1, <1>2, <3>2, <3>3
        <3>5. F \o vs = ns
            <4> DEFINE r == F \o vs
            <4>1. r \in Seq(Snaps) /\ Len(r) = Len(news)
                BY <1>1, <1>2, <1>8, <3>1, <3>2, <3>3
            <4>2. ASSUME NEW i \in 1 .. Len(news) PROVE r[i] = ns[i]
                <5>1. CASE i <= shared
                    <6>1. i \in 1 .. Len(olds) /\ F[i] = FromVNode[news[i]]
                        BY <5>1, <3>1, <1>8
                    <6>2. r[i] = F[i]
                        BY <6>1, <1>8, <3>3
                    <6> QED BY <6>1, <6>2, <1>5
                <5>2. CASE ~ (i <= shared)
                    <6> DEFINE k == i - shared
                    <6>1. k \in 1 .. Len(vs) /\ i = Len(F) + k /\ k \in 1 .. Len(news) - shared
                          /\ shared + k = i
                        BY <5>2, <3>1, <3>2, <3>3, <1>1, <1>2, <1>8
                    <6> HIDE DEF k
                    <6>2. r[i] = vs[k]
                        BY <6>1, <1>8, <3>3
                    <6>3. k \in 1 .. Len(sub) /\ sub[k] = news[i]
                        BY <6>1, <3>2
                    <6>4. vs[k] = FromVNode[news[i]]
                        BY <6>3, <3>3
                    <6> QED BY <6>2, <6>4, <1>5
                <5> QED BY <5>1, <5>2
            <4> HIDE DEF r
            <4>3. r = ns
                BY <4>1, <4>2, <1>5, SeqEqual
            <4> QED BY <4>3 DEF r
        <3>6. Leads(With(d, path, Dom(t, at, x, F)), <<AppendChildren(path, vs)>>,
                    With(d, path, Dom(t, at, x, F \o vs)))
            BY <3>4, AppendLeads
        <3>7. last = <<AppendChildren(path, vs)>>
            BY <2>1 DEF vs, sub
        <3> QED BY <3>5, <3>6, <3>7
    <2>2. ASSUME ~ (Len(news) > shared), Len(olds) > shared
          PROVE  Leads(With(d, path, Dom(t, at, x, F)), last, With(d, path, Dom(t, at, x, ns)))
        <3>1. shared = Len(news) /\ shared < Len(F)
            BY <2>2, <1>1, <1>2, <1>8
        <3> DEFINE r == SubSeq(F, 1, shared)
        <3>2. /\ r \in Seq(Snaps) /\ Len(r) = shared
              /\ \A i \in 1 .. shared : r[i] = F[i]
            <4>1. F \in Seq(Snaps) /\ 1 \in 1 .. Len(F) + 1 /\ shared \in 0 .. Len(F)
                BY <3>1, <1>1, <1>8
            <4>2. \A e \in Seq(Snaps) : \A c \in 0 .. Len(e) :
                     /\ SubSeq(e, 1, c) \in Seq(Snaps) /\ Len(SubSeq(e, 1, c)) = c
                     /\ \A i \in 1 .. c : SubSeq(e, 1, c)[i] = e[i]
                OBVIOUS
            <4> HIDE DEF F
            <4> QED BY <4>1, <4>2
        <3>3. \A i \in 1 .. shared : r[i] = ns[i]
            <4> SUFFICES ASSUME NEW i \in 1 .. shared PROVE r[i] = ns[i]
                OBVIOUS
            <4>1. i \in 1 .. Len(olds) /\ i \in 1 .. Len(news) /\ i <= shared
                BY <1>1, <1>2
            <4>2. r[i] = F[i] /\ F[i] = FromVNode[news[i]] /\ ns[i] = FromVNode[news[i]]
                BY <4>1, <3>2, <1>5, <1>8
            <4> QED BY <4>2
        <3> HIDE DEF r
        <3>4. r = ns
            BY <3>1, <3>2, <3>3, <1>5, SeqEqual
        <3>5. Leads(With(d, path, Dom(t, at, x, F)), <<TruncateChildren(path, shared)>>,
                    With(d, path, Dom(t, at, x, SubSeq(F, 1, shared))))
            BY <3>1, <1>1, <1>8, TruncateLeads
        <3>6. last = <<TruncateChildren(path, shared)>>
            BY <2>2
        <3> QED BY <3>4, <3>5, <3>6 DEF r
    <2>3. ASSUME ~ (Len(news) > shared), ~ (Len(olds) > shared)
          PROVE  Leads(With(d, path, Dom(t, at, x, F)), last, With(d, path, Dom(t, at, x, ns)))
        <3>1. shared = Len(news) /\ Len(F) = Len(news)
            BY <2>3, <1>1, <1>2, <1>8
        <3>2. \A i \in 1 .. Len(news) : F[i] = ns[i]
            BY <3>1, <1>1, <1>2, <1>5, <1>8
        <3>3. F = ns
            BY <3>1, <3>2, <1>5, <1>8, SeqEqual
        <3>4. last = <<>>
            BY <2>3
        <3> QED BY <3>3, <3>4, LeadsNone
    <2> QED BY <2>1, <2>2, <2>3
<1> HIDE DEF last
<1>11. Leads(With(d, path, Dom(t, at, x, ks)), first \o last, With(d, path, Dom(t, at, x, ns)))
    BY <1>9, <1>10, LeadsOn
<1> QED BY <1>3, <1>11 DEF ks, ns

(* diff_children_keyed.                                                     *)
LEMMA KeyedLeads ==
    ASSUME NEW d, NEW path \in Seq(Nat), HasNode(d, path),
           NEW t, t # TextTag, NEW at, NEW x,
           NEW olds \in Seq(VNodes), NEW news \in Seq(VNodes), Children(olds, news)
    PROVE  Leads(With(d, path, Dom(t, at, x, Snapshots(olds))),
                 DiffChildrenKeyed(Diff, olds, news, path),
                 With(d, path, Dom(t, at, x, Snapshots(news))))
<1> DEFINE m == Matching(olds, news, path)
           p == Prefix(olds, news)
           N == Len(news)
           ks == Snapshots(olds)
           ns == Snapshots(news)
           front == SubSeq(m.pairs, 1, p)
           rest == SubSeq(m.pairs, p + 1, Len(m.pairs))
           first == DiffPairs(Diff, olds, news, path, front)
           cut == IF m.left # {} THEN <<TruncateChildren(path, N)>> ELSE <<>>
           last == DiffPairs(Diff, olds, news, path, rest)
           K == Filled(ks, news, front, Len(front))
           At(kids) == With(d, path, Dom(t, at, x, kids))
<1>0. DiffChildrenKeyed(Diff, olds, news, path) = first \o m.out \o cut \o last
    BY DEF DiffChildrenKeyed
<1>1. /\ ks \in Seq(Snaps) /\ Len(ks) = Len(olds)
      /\ \A i \in 1 .. Len(olds) : ks[i] = FromVNode[olds[i]]
    BY SnapshotsAre
<1>2. /\ ns \in Seq(Snaps) /\ Len(ns) = N
      /\ \A i \in 1 .. N : ns[i] = FromVNode[news[i]]
    BY SnapshotsAre
<1>3. Pairing(olds, news, p, m, N)
    BY MatchingPairs
<1>4. p \in 0 .. Len(olds) /\ p \in 0 .. N /\ p \in Nat /\ N \in Nat /\ Len(olds) \in Nat
    BY PrefixReusable
<1>s. Split(olds, news, p, m, front, rest)
    BY PairsSplit
<1>6. /\ m.pairs \in Seq((1 .. Len(olds)) \X (1 .. N)) /\ Len(m.pairs) >= p
      /\ \A n \in 1 .. p : m.pairs[n] = <<n, n>>
      /\ \A n \in p + 1 .. Len(m.pairs) :
            m.pairs[n][1] \in p + 1 .. Len(olds) /\ m.pairs[n][2] \in p + 1 .. N
      /\ \A n, q \in 1 .. Len(m.pairs) : m.pairs[n][2] = m.pairs[q][2] => n = q
    <2> HIDE DEF m, p, N
    <2> QED BY <1>3 DEF Pairing, N
<1>7. m.out \in Seq(Structural(path, news))
    <2>1. \A j \in 1 .. Len(news) : ns[j] \in Snaps
        BY <1>2
    <2> HIDE DEF ks, ns, m
    <2> QED BY <1>1, <2>1, MatchingResult DEF m
<1>a. \A o \in 1 .. Len(olds), s \in 1 .. Len(news) : Carries(olds[o], news[s])
    BY DEF Children
<1> HIDE DEF m, p, ks, ns, front, rest
<1>5. /\ front \in Seq(Pairs(olds, news)) /\ rest \in Seq(Pairs(olds, news))
      /\ Len(front) = p /\ \A n \in 1 .. p : front[n] = <<n, n>>
      /\ Len(rest) = Len(m.pairs) - p
      /\ \A n \in 1 .. Len(rest) : rest[n] = m.pairs[p + n]
    BY <1>s DEF Split
<1>8. \A n \in 1 .. Len(rest) : /\ p + n \in p + 1 .. Len(m.pairs) /\ p + n \in 1 .. Len(m.pairs)
                                /\ rest[n][1] \in p + 1 .. Len(olds) /\ rest[n][2] \in p + 1 .. N
    <2>1. Len(m.pairs) \in Nat
        BY <1>6
    <2>2. \A n \in 1 .. Len(rest) : p + n \in p + 1 .. Len(m.pairs) /\ p + n \in 1 .. Len(m.pairs)
        <3> DEFINE M == Len(m.pairs)
                   R == Len(rest)
        <3>1. M \in Nat /\ R = M - p
            BY <2>1, <1>5
        <3> HIDE DEF M, R
        <3>2. \A n \in 1 .. R : p + n \in p + 1 .. M /\ p + n \in 1 .. M
            BY <1>4, <3>1
        <3> QED BY <3>2 DEF M, R
    <2> QED BY <1>5, <1>6, <2>2
<1>9. \A j : Hit(front, j) <=> j \in 1 .. p
    BY <1>5 DEF Hit
(* The children at the front, in place.                                     *)
<1>10. /\ K \in Seq(Snaps) /\ Len(K) = Len(olds)
       /\ \A j \in 1 .. Len(olds) : K[j] = IF j <= p THEN FromVNode[news[j]] ELSE FromVNode[olds[j]]
    <2>1. \A n \in 1 .. Len(front) : front[n][2] \in 1 .. Len(news)
        BY <1>4, <1>5
    <2>2. /\ K \in Seq(Snaps) /\ Len(K) = Len(ks)
          /\ \A j \in 1 .. Len(ks) : /\ Hit(front, j) => K[j] = FromVNode[news[j]]
                                     /\ ~ Hit(front, j) => K[j] = ks[j]
        BY <1>1, <2>1, FilledList
    <2> HIDE DEF K
    <2>3. K \in Seq(Snaps) /\ Len(K) = Len(olds)
        BY <1>1, <2>2
    <2>4. ASSUME NEW j \in 1 .. Len(olds)
          PROVE  K[j] = IF j <= p THEN FromVNode[news[j]] ELSE FromVNode[olds[j]]
        <3>1. /\ Hit(front, j) => K[j] = FromVNode[news[j]]
              /\ ~ Hit(front, j) => K[j] = FromVNode[olds[j]]
            BY <1>1, <2>2
        <3>2. Hit(front, j) <=> j <= p
            BY <1>4, <1>9
        <3> QED BY <3>1, <3>2
    <2> QED BY <2>3, <2>4
<1>11. Leads(At(ks), first, At(K))
    <2>1. \A n, q \in 1 .. Len(front) : front[n][2] = front[q][2] => n = q
        BY <1>5
    <2>2. ks = [j \in DOMAIN ks |-> ks[j]]
        BY <1>1
    <2>3. ASSUME NEW n \in 1 .. Len(front)
          PROVE  front[n][2] \in DOMAIN ks /\ ks[front[n][2]] = FromVNode[olds[front[n][1]]]
        <3>1. n \in 1 .. Len(olds) /\ front[n] = <<n, n>>
            BY <1>4, <1>5
        <3> QED BY <3>1, <1>1
    <2> QED BY <1>a, <1>5, <2>1, <2>2, <2>3, PairsLead
<1> HIDE DEF first, K
(* The structure.                                                           *)
<1>b. PICK L : Arranged(olds, news, Snaps, K, ns, m, L)
    <2>1. \A j \in 1 .. Len(news) : ns[j] \in Snaps
        BY <1>2
    <2> QED BY <1>10, <2>1, StructureFollowsMatching DEF m
<1>12. /\ L \in Seq(Snaps) /\ Goes(Snaps, K, m.out, ns, L)
       /\ m.left # {} => N < Len(L)
       /\ Trimmed(L, m, N) \in Seq(Snaps) /\ Len(Trimmed(L, m, N)) = N
       /\ \A o \in 1 .. Len(olds), j \in 1 .. N :
             Paired(m, o, j) => Trimmed(L, m, N)[j] = K[o]
       /\ \A j \in 1 .. N : (\A o \in 1 .. Len(olds) : ~ Paired(m, o, j))
                             => Trimmed(L, m, N)[j] = ns[j]
    BY <1>b DEF Arranged
<1> DEFINE T == Trimmed(L, m, N)
<1>13. Leads(At(K), m.out, At(L))
    BY <1>7, <1>12, StructureLeads DEF ns
<1>14. Leads(At(L), cut, At(T))
    <2>1. CASE m.left = {}
        <3>1. cut = <<>> /\ T = L
            BY <2>1 DEF Trimmed
        <3> QED BY <3>1, LeadsNone
    <2>2. CASE m.left # {}
        <3>1. cut = <<TruncateChildren(path, N)>> /\ T = SubSeq(L, 1, N)
            BY <2>2 DEF Trimmed
        <3>2. N < Len(L) /\ L \in Seq(Snaps)
            BY <2>2, <1>12
        <3> HIDE DEF T, cut, N
        <3> QED BY <1>4, <3>1, <3>2, TruncateLeads
    <2> QED BY <2>1, <2>2
<1>15. /\ T \in Seq(Snaps) /\ Len(T) = N
       /\ \A o \in 1 .. Len(olds), j \in 1 .. N : Paired(m, o, j) => T[j] = K[o]
       /\ \A j \in 1 .. N : (\A o \in 1 .. Len(olds) : ~ Paired(m, o, j)) => T[j] = ns[j]
    BY <1>12
<1> HIDE DEF T, cut
<1> DEFINE F == Filled(T, news, rest, Len(rest))
(* The content of the rest, at its new place.                               *)
<1>16. Leads(At(T), last, At(F))
    <2>1. \A n, q \in 1 .. Len(rest) : rest[n][2] = rest[q][2] => n = q
        <3> SUFFICES ASSUME NEW n \in 1 .. Len(rest), NEW q \in 1 .. Len(rest),
                            rest[n][2] = rest[q][2]
                     PROVE  n = q
            OBVIOUS
        <3>1. p + n = p + q
            <4>1. m.pairs[p + n][2] = m.pairs[p + q][2]
                BY <1>5
            <4>2. p + n \in 1 .. Len(m.pairs) /\ p + q \in 1 .. Len(m.pairs)
                BY <1>8
            <4> DEFINE a == p + n
                       b == p + q
            <4> HIDE DEF a, b
            <4>3. a = b
                BY <1>6, <4>1, <4>2 DEF a, b
            <4> QED BY <4>3 DEF a, b
        <3> QED BY <1>4, <3>1
    <2>2. T = [j \in DOMAIN T |-> T[j]]
        BY <1>15
    <2>3. ASSUME NEW n \in 1 .. Len(rest)
          PROVE  rest[n][2] \in DOMAIN T /\ T[rest[n][2]] = FromVNode[olds[rest[n][1]]]
        <3> DEFINE o == rest[n][1]
                   j == rest[n][2]
        <3>1. o \in p + 1 .. Len(olds) /\ j \in p + 1 .. N
            BY <1>8
        <3>2. o \in 1 .. Len(olds) /\ j \in 1 .. N /\ ~ (o <= p)
            BY <1>4, <3>1
        <3>3. Paired(m, o, j)
            <4>1. rest[n] \in (1 .. Len(olds)) \X (1 .. N)
                BY <1>5 DEF Pairs
            <4>3. rest[n] = <<o, j>>
                BY <4>1
            <4>2. m.pairs[p + n] = <<o, j>> /\ p + n \in 1 .. Len(m.pairs)
                BY <1>5, <1>8, <4>3
            <4> HIDE DEF o, j
            <4> QED BY <4>2 DEF Paired
        <3>4. T[j] = K[o] /\ K[o] = FromVNode[olds[o]]
            <4> HIDE DEF o, j
            <4> QED BY <1>10, <1>15, <3>2, <3>3
        <3> QED BY <1>15, <3>2, <3>4
    <2> QED BY <1>a, <1>5, <2>1, <2>2, <2>3, PairsLead
<1>17. F = ns
    <2>1. \A n \in 1 .. Len(rest) : rest[n][2] \in 1 .. Len(news)
        BY <1>4, <1>8
    <2>2. /\ F \in Seq(Snaps) /\ Len(F) = Len(T)
          /\ \A j \in 1 .. Len(T) : /\ Hit(rest, j) => F[j] = FromVNode[news[j]]
                                    /\ ~ Hit(rest, j) => F[j] = T[j]
        BY <1>15, <2>1, FilledList
    <2> HIDE DEF F
    <2>3. ASSUME NEW j \in 1 .. N PROVE F[j] = ns[j]
        <3>1. CASE Hit(rest, j)
            BY <3>1, <1>2, <1>15, <2>2
        <3>2. CASE ~ Hit(rest, j)
            <4>1. F[j] = T[j]
                BY <3>2, <1>15, <2>2
            <4>2. ASSUME NEW o \in 1 .. Len(olds), Paired(m, o, j) PROVE T[j] = ns[j]
                <5>1. PICK n \in 1 .. Len(m.pairs) : m.pairs[n] = <<o, j>>
                    BY <4>2 DEF Paired
                <5>2. ~ (n > p)
                    <6> SUFFICES ASSUME n > p PROVE FALSE
                        OBVIOUS
                    <6>0. n > p
                        OBVIOUS
                    <6>1. n - p \in 1 .. Len(rest) /\ p + (n - p) = n
                        <7> DEFINE M == Len(m.pairs)
                                   R == Len(rest)
                        <7>1. M \in Nat /\ R = M - p /\ n \in 1 .. M
                            BY <1>5, <1>6
                        <7> HIDE DEF M, R
                        <7>2. n - p \in 1 .. R /\ p + (n - p) = n
                            BY <1>4, <6>0, <7>1
                        <7> QED BY <7>2 DEF R
                    <6>2. rest[n - p] = <<o, j>>
                        BY <1>5, <5>1, <6>1
                    <6> QED BY <3>2, <6>1, <6>2 DEF Hit
                <5>3. n \in 1 .. p
                    BY <1>4, <1>6, <5>2
                <5>4. o = n /\ j = n
                    BY <1>6, <5>1, <5>3
                <5>5. K[o] = FromVNode[news[j]]
                    BY <1>10, <5>3, <5>4
                <5> QED BY <1>2, <1>15, <4>2, <5>5
            <4> QED BY <1>15, <4>1, <4>2
        <3> QED BY <3>1, <3>2
    <2>4. Len(F) = Len(ns) /\ \A j \in 1 .. Len(F) : F[j] = ns[j]
        BY <1>2, <1>15, <2>2, <2>3
    <2> QED BY <1>2, <2>2, <2>4, SeqEqual
<1> HIDE DEF F, last, At
<1>18. Leads(At(ks), first \o m.out, At(L))
    BY <1>11, <1>13, LeadsOn
<1>19. Leads(At(ks), first \o m.out \o cut, At(T))
    BY <1>14, <1>18, LeadsOn
<1>20. Leads(At(ks), first \o m.out \o cut \o last, At(ns))
    BY <1>16, <1>17, <1>19, LeadsOn
<1> QED BY <1>0, <1>20 DEF At, ks, ns

-----------------------------------------------------------------------------
(* diff_node: its three cases, and the recursion.                           *)
LEMMA ReplaceLeads ==
    ASSUME NEW a \in VNodes, NEW b \in VNodes, a.tag # b.tag
    PROVE  Carries(a, b)
<1> SUFFICES ASSUME NEW path \in Seq(Nat), NEW d, HasNode(d, path)
             PROVE  Leads(With(d, path, FromVNode[a]), Diff[<<a, b, path>>],
                          With(d, path, FromVNode[b]))
    BY DEF Carries
<1> DEFINE n == FromVNode[a]
           q == Replace(path, FromVNode[b])
<1>1. Diff[<<a, b, path>>] = <<q>>
    BY DiffIs DEF DiffNode
<1>2. q.path = path /\ q.op = "replace" /\ q.node = FromVNode[b]
    BY DEF Replace
<1> HIDE DEF n, q
<1>3. Suits(n, q) /\ Patched(n, q) = FromVNode[b]
    BY <1>2 DEF Suits, Patched
<1>4. Leads(With(d, path, n), <<q>>, With(d, path, Patched(n, q)))
    BY <1>2, <1>3, OneLeads
<1> QED BY <1>1, <1>3, <1>4 DEF n

LEMMA TextLeads ==
    ASSUME NEW a \in VNodes, NEW b \in VNodes, a.tag = b.tag, IsText(a)
    PROVE  Carries(a, b)
<1> SUFFICES ASSUME NEW path \in Seq(Nat), NEW d, HasNode(d, path)
             PROVE  Leads(With(d, path, FromVNode[a]), Diff[<<a, b, path>>],
                          With(d, path, FromVNode[b]))
    BY DEF Carries
<1>1. a = Text(a.text) /\ b = Text(b.text)
    BY TreeAssumption DEF IsText
<1> DEFINE s == a.text
           r == b.text
           n == FromVNode[a]
           q == SetText(path, r)
           ks == Snapshots(<<>>)
<1>2. a.tag = TextTag /\ a.attrs = <<>> /\ a.kids = <<>>
      /\ b.tag = TextTag /\ b.attrs = <<>> /\ b.kids = <<>>
    <2>1. \A z : Text(z).tag = TextTag /\ Text(z).attrs = <<>> /\ Text(z).kids = <<>>
        BY DEF Text
    <2> QED BY <1>1, <2>1
<1>3. n = Dom(TextTag, <<>>, s, ks) /\ FromVNode[b] = Dom(TextTag, <<>>, r, ks)
    BY <1>2, SnapshotIs
<1>4. Diff[<<a, b, path>>] = IF s = r THEN <<>> ELSE <<q>>
    BY DiffIs DEF DiffNode
<1> HIDE DEF s, r, n, q, ks
<1>5. CASE s = r
    <2>1. n = FromVNode[b] /\ Diff[<<a, b, path>>] = <<>>
        BY <1>3, <1>4, <1>5
    <2> QED BY <2>1, LeadsNone DEF n
<1>6. CASE s # r
    <2>1. q.path = path /\ q.op = "setText" /\ q.text = r
        BY DEF SetText, q
    <2>2. Suits(n, q)
        BY <1>3, <2>1, DomParts DEF Suits, IsText
    <2>3. Patched(n, q) = FromVNode[b]
        <3>1. Patched(n, q) = [n EXCEPT !.text = r]
            BY <2>1 DEF Patched
        <3>2. [Dom(TextTag, <<>>, s, ks) EXCEPT !.text = r] = Dom(TextTag, <<>>, r, ks)
            BY DEF Dom
        <3> QED BY <1>3, <3>1, <3>2
    <2>4. Leads(With(d, path, n), <<q>>, With(d, path, Patched(n, q)))
        BY <2>1, <2>2, OneLeads
    <2>5. Diff[<<a, b, path>>] = <<q>>
        BY <1>4, <1>6
    <2> QED BY <2>3, <2>4, <2>5 DEF n
<1> QED BY <1>5, <1>6

LEMMA ElementLeads ==
    ASSUME NEW a \in VNodes, NEW b \in VNodes, a.tag = b.tag, ~ IsText(a),
           Children(a.kids, b.kids)
    PROVE  Carries(a, b)
<1> SUFFICES ASSUME NEW path \in Seq(Nat), NEW d, HasNode(d, path)
             PROVE  Leads(With(d, path, FromVNode[a]), Diff[<<a, b, path>>],
                          With(d, path, FromVNode[b]))
    BY DEF Carries
<1> DEFINE t == a.tag
           olds == a.kids
           news == b.kids
           at == a.attrs
           bt == b.attrs
           attrs == DiffAttrs(at, bt, path)
           kids == IF HasKeys(olds) \/ HasKeys(news)
                   THEN DiffChildrenKeyed(Diff, olds, news, path)
                   ELSE DiffChildrenPositional(Diff, olds, news, path)
           old0 == Dom(t, at, "", Snapshots(olds))
           mid == Dom(t, bt, "", Snapshots(olds))
           new0 == Dom(t, bt, "", Snapshots(news))
<1>1. Diff[<<a, b, path>>] = attrs \o kids
    BY DiffIs DEF DiffNode
<1>2. FromVNode[a] = old0 /\ FromVNode[b] = new0
    <2>1. ~ IsText(b)
        BY DEF IsText
    <2>2. a.text = "" /\ b.text = ""
        BY <2>1, TreeAssumption
    <2> QED BY <2>2, SnapshotIs
<1>3. /\ at = [y \in DOMAIN at |-> at[y]] /\ IsFiniteSet(DOMAIN at)
      /\ bt = [y \in DOMAIN bt |-> bt[y]] /\ IsFiniteSet(DOMAIN bt)
    BY TreeAssumption
<1>4. olds \in Seq(VNodes) /\ news \in Seq(VNodes)
    BY TreeFacts
<1>5. t # TextTag
    BY DEF IsText
<1>6. Children(olds, news)
    OBVIOUS
<1> HIDE DEF t, olds, news, at, bt
<1>7. Leads(With(d, path, old0), attrs, With(d, path, mid))
    <2> DEFINE ks == Snapshots(olds)
    <2> HIDE DEF ks, attrs
    <2> QED BY <1>3, <1>5, AttrsLead DEF ks, attrs
<1>8. Leads(With(d, path, mid), kids, With(d, path, new0))
    <2>1. CASE HasKeys(olds) \/ HasKeys(news)
        <3>1. kids = DiffChildrenKeyed(Diff, olds, news, path)
            BY <2>1
        <3> HIDE DEF kids
        <3> QED BY <1>4, <1>5, <1>6, <3>1, KeyedLeads
    <2>2. CASE ~ (HasKeys(olds) \/ HasKeys(news))
        <3>1. kids = DiffChildrenPositional(Diff, olds, news, path)
            BY <2>2
        <3> HIDE DEF kids
        <3> QED BY <1>4, <1>5, <1>6, <3>1, PositionalLeads
    <2> QED BY <2>1, <2>2
<1> HIDE DEF attrs, kids, old0, mid, new0
<1> QED BY <1>1, <1>2, <1>7, <1>8, LeadsOn

(* diff and apply: wherever the snapshot of a stands in a DOM, the patches  *)
(* from a to b fit one after the other, leave the snapshot of b there, and  *)
(* the rest of the DOM as it was.                                           *)
THEOREM DiffCarriesOver ==
    \A a, b \in VNodes : Carries(a, b)
<1> DEFINE S == {h \in Nat : \A a, b \in VNodes : Height[a] = h => Carries(a, b)}
<1>1. ASSUME NEW h \in Nat, \A m \in Nat : m < h => m \in S PROVE h \in S
    <2> SUFFICES ASSUME NEW a \in VNodes, NEW b \in VNodes, Height[a] = h PROVE Carries(a, b)
        OBVIOUS
    <2>1. Children(a.kids, b.kids)
        <3> SUFFICES ASSUME NEW o \in 1 .. Len(a.kids), NEW s \in 1 .. Len(b.kids)
                     PROVE  Carries(a.kids[o], b.kids[s])
            BY DEF Children
        <3> DEFINE x == a.kids[o]
                   y == b.kids[s]
        <3>1. o \in DOMAIN a.kids /\ s \in DOMAIN b.kids
            BY TreeFacts
        <3>2. x \in VNodes /\ Height[x] \in Nat /\ Height[x] < h /\ y \in VNodes
            BY <3>1, TreeFacts
        <3> HIDE DEF x, y
        <3>3. Height[x] \in S
            BY <1>1, <3>2
        <3>4. Carries(x, y)
            BY <3>2, <3>3
        <3> QED BY <3>4 DEF x, y
    <2> QED BY <2>1, ReplaceLeads, TextLeads, ElementLeads
<1> HIDE DEF S
<1>2. \A h \in Nat : h \in S
    BY <1>1, StrongSetInduction
<1>3. \A a \in VNodes : Height[a] \in Nat
    BY TreeFacts
<1> QED BY <1>2, <1>3 DEF S

-----------------------------------------------------------------------------
(* The same at the root, where a turn begins.                               *)
LEMMA RootCarries ==
    ASSUME NEW a \in VNodes, NEW b \in VNodes
    PROVE  Leads(FromVNode[a], Diff[<<a, b, <<>>>>], FromVNode[b])
<1> DEFINE d == FromVNode[a]
           root == <<>>
<1>1. root \in Seq(Nat) /\ Len(root) = 0
    OBVIOUS
<1> HIDE DEF d, root
<1>2. HasNode(d, root)
    BY <1>1 DEF HasNode
<1>3. \A n : With(d, root, n) = n
    <2> SUFFICES ASSUME NEW n PROVE With(d, root, n) = n
        OBVIOUS
    <2>1. PICK up : Ups(d, root, n, up) /\ With(d, root, n) = up[Len(root)]
        BY <1>1, WithUps
    <2> QED BY <1>1, <2>1 DEF Ups
<1>4. Leads(With(d, root, FromVNode[a]), Diff[<<a, b, root>>], With(d, root, FromVNode[b]))
    BY <1>1, <1>2, DiffCarriesOver DEF Carries
<1> QED BY <1>3, <1>4 DEF d, root

(* A turn of any two trees a view may render.                               *)
AnyTurnInit == \E a, b \in VNodes : Begin(a, b)

AnyTurnSpec == AnyTurnInit /\ [][Apply]_diffVars

(* diff is given two trees a view has rendered.                             *)
LEMMA TurnIsAny == TreeDiffSpec => AnyTurnSpec
<1>1. TreeDiffInit => AnyTurnInit
    <2> SUFFICES ASSUME NEW turn \in Turns, Begin(turn[1], turn[2]) PROVE AnyTurnInit
        BY DEF TreeDiffInit
    <2>1. turn[1] \in VNodes /\ turn[2] \in VNodes
        BY TreeAssumption
    <2> QED BY <2>1 DEF AnyTurnInit
<1> QED BY <1>1, PTL DEF TreeDiffSpec, AnyTurnSpec

(* The inductive invariant of a turn: what is left to do fits, and leads to *)
(* the new tree.                                                            *)
TurnInv ==
    /\ old \in VNodes /\ new \in VNodes
    /\ Leads(dom, todo, FromVNode[new])

LEMMA FirstFits ==
    ASSUME NEW d, NEW ps, NEW e, Leads(d, ps, e), ps # <<>>
    PROVE  Fits(d, Head(ps)) /\ Leads(Changed(d, Head(ps)), Tail(ps), e)
<1> DEFINE S == {ps[n] : n \in DOMAIN ps}
           N == Len(ps)
           qs == Tail(ps)
<1>1. ps \in Seq(S)
    BY DEF Leads, IsList
<1> HIDE DEF S
<1>2. /\ N \in Nat /\ N >= 1 /\ qs \in Seq(S) /\ Len(qs) = N - 1 /\ Head(ps) = ps[1]
      /\ \A n \in 1 .. N - 1 : qs[n] = ps[n + 1]
    <2>1. N \in Nat /\ N # 0
        BY <1>1, EmptySeq
    <2>2. qs \in Seq(S) /\ Len(qs) = N - 1 /\ \A n \in 1 .. N - 1 : qs[n] = ps[n + 1]
        BY <1>1, HeadTailProperties
    <2> QED BY <1>1, <2>1, <2>2
<1>3. PICK g : LeadsBy(g, d, ps, e)
    BY DEF Leads
<1>4. /\ g[0] = d /\ g[N] = e
      /\ \A n \in 1 .. N : Fits(g[n - 1], ps[n]) /\ g[n] = Changed(g[n - 1], ps[n])
    BY <1>3 DEF LeadsBy
<1> HIDE DEF N, qs
<1>5. Fits(d, ps[1]) /\ g[1] = Changed(d, ps[1])
    BY <1>2, <1>4
<1> DEFINE h == [n \in 0 .. N - 1 |-> g[n + 1]]
<1>6. \A n \in 0 .. N - 1 : h[n] = g[n + 1]
    OBVIOUS
<1> HIDE DEF h
<1>7. h[0] = g[1] /\ h[N - 1] = e
    BY <1>2, <1>4, <1>6
<1>8. ASSUME NEW n \in 1 .. N - 1
      PROVE  Fits(h[n - 1], qs[n]) /\ h[n] = Changed(h[n - 1], qs[n])
    <2>1. n + 1 \in 1 .. N /\ n - 1 \in 0 .. N - 1 /\ n \in 0 .. N - 1 /\ (n - 1) + 1 = n
          /\ (n + 1) - 1 = n
        BY <1>2
    <2>2. h[n - 1] = g[n] /\ h[n] = g[n + 1] /\ qs[n] = ps[n + 1]
        BY <1>2, <1>6, <2>1
    <2>3. Fits(g[n], ps[n + 1]) /\ g[n + 1] = Changed(g[n], ps[n + 1])
        BY <1>4, <2>1
    <2> QED BY <2>2, <2>3
<1>9. LeadsBy(h, g[1], qs, e)
    BY <1>2, <1>7, <1>8 DEF LeadsBy
<1>10. IsList(qs)
    BY <1>2, ListOf
<1>11. Leads(g[1], qs, e)
    BY <1>9, <1>10 DEF Leads
<1> QED BY <1>2, <1>5, <1>11 DEF qs

LEMMA NothingLeft ==
    ASSUME NEW d, NEW e, Leads(d, <<>>, e)
    PROVE  d = e
BY DEF Leads, LeadsBy

LEMMA TurnInvHolds == AnyTurnSpec => []TurnInv
<1>1. AnyTurnInit => TurnInv
    <2> SUFFICES ASSUME NEW a \in VNodes, NEW b \in VNodes, Begin(a, b) PROVE TurnInv
        BY DEF AnyTurnInit
    <2>2. /\ old = a /\ new = b /\ dom = FromVNode[old]
          /\ todo = Diff[<<old, new, <<>>>>]
        BY DEF Begin
    <2>3. old \in VNodes /\ new \in VNodes
        BY <2>2
    <2> QED BY <2>2, <2>3, RootCarries DEF TurnInv
<1>2. TurnInv /\ [Apply]_diffVars => TurnInv'
    <2> SUFFICES ASSUME TurnInv, [Apply]_diffVars PROVE TurnInv'
        OBVIOUS
    <2>1. CASE Apply
        BY <2>1, FirstFits DEF Apply, TurnInv
    <2>2. CASE UNCHANGED diffVars
        BY <2>2 DEF TurnInv, diffVars
    <2> QED BY <2>1, <2>2
<1> QED BY <1>1, <1>2, PTL DEF AnyTurnSpec

(* apply: whatever the two trees, no patch of a turn finds its path leading *)
(* nowhere, a node of the wrong kind, an attribute that is not there or an  *)
(* index out of range, and every move goes from the right to the left.      *)
LEMMA AnyPatchesFit == AnyTurnSpec => []PatchesFit
<1>1. TurnInv => PatchesFit
    BY FirstFits DEF TurnInv, PatchesFit
<1> QED BY <1>1, TurnInvHolds, PTL

(* diff and apply: of the trees of a run, too, no patch fails to fit.       *)
THEOREM TurnPatchesFit == TreeDiffSpec => []PatchesFit
BY AnyPatchesFit, TurnIsAny, PTL

(* diff and apply: when a turn's patches have been applied, the screen      *)
(* shows the tree that was rendered.                                        *)
LEMMA AnyShowsTree == AnyTurnSpec => []ScreenShowsTree
<1>1. TurnInv => ScreenShowsTree
    BY NothingLeft DEF TurnInv, ScreenShowsTree
<1> QED BY <1>1, TurnInvHolds, PTL

(* diff and apply: and the screen then shows the tree that was rendered.    *)
THEOREM TurnShowsTree == TreeDiffSpec => []ScreenShowsTree
BY AnyShowsTree, TurnIsAny, PTL

-----------------------------------------------------------------------------
(* Which DOM node a child of the root is, followed through a list of        *)
(* patches: the places w become v.                                          *)
TracesBy(g, w, ps, v) ==
    g[0] = w /\ g[Len(ps)] = v /\ \A n \in 1 .. Len(ps) : g[n] = Traced(g[n - 1], ps[n])

Traces(w, ps, v) == IsList(ps) /\ \E g : TracesBy(g, w, ps, v)

LEMMA ListLength ==
    ASSUME NEW ps, IsList(ps)
    PROVE  Len(ps) \in Nat /\ DOMAIN ps = 1 .. Len(ps)
<1> DEFINE S == {ps[n] : n \in DOMAIN ps}
<1>1. ps \in Seq(S)
    BY DEF IsList
<1> HIDE DEF S
<1> QED BY <1>1

LEMMA TracesSome ==
    ASSUME NEW w, NEW ps, IsList(ps)
    PROVE  \E v : Traces(w, ps, v)
<1> DEFINE Next(x, k) == Traced(x, ps[k])
           Solves(f, n) == f = [k \in 0 .. n |-> IF k = 0 THEN w ELSE Next(f[k - 1], k)]
           S == {n \in Nat : \E f : Solves(f, n)}
<1> HIDE DEF Next
<1>1. \A n \in Nat : n \in S
    <2>1. 0 \in S
        <3> DEFINE f == [k \in 0 .. 0 |-> w]
        <3>1. Solves(f, 0)
            OBVIOUS
        <3> HIDE DEF f, Solves
        <3> QED BY <3>1
    <2>2. ASSUME NEW n \in Nat, n \in S PROVE n + 1 \in S
        <3>1. PICK f : Solves(f, n)
            BY <2>2
        <3> DEFINE body(x) == [k \in 0 .. n + 1 |-> IF k = 0 THEN w ELSE Next(x[k - 1], k)]
                   g == body(f)
        <3>2. \A k \in 0 .. n : g[k] = f[k]
            BY <3>1
        <3>3. body(f) = body(g)
            <4>1. \A k \in 0 .. n + 1 : k # 0 => k - 1 \in 0 .. n
                OBVIOUS
            <4> HIDE DEF g
            <4> QED BY <3>2, <4>1
        <3>4. Solves(g, n + 1)
            BY <3>3
        <3> HIDE DEF g, Solves
        <3> QED BY <3>4
    <2> HIDE DEF S
    <2> QED BY <2>1, <2>2, NatSetInduction
<1> DEFINE N == Len(ps)
<1>2. N \in Nat
    BY ListLength
<1>3. PICK f : Solves(f, N)
    BY <1>1, <1>2
<1> HIDE DEF N
<1>4. f[0] = w /\ \A k \in 1 .. N : f[k] = Next(f[k - 1], k)
    BY <1>2, <1>3
<1>5. TracesBy(f, w, ps, f[N])
    BY <1>4 DEF TracesBy, Next, N
<1> QED BY <1>5 DEF Traces

LEMMA TracesOn ==
    ASSUME NEW u, NEW ps, NEW v, NEW qs, NEW w, Traces(u, ps, v), Traces(v, qs, w)
    PROVE  Traces(u, ps \o qs, w)
<1> DEFINE N == Len(ps)
           M == Len(qs)
           rs == ps \o qs
<1>1. PICK g : TracesBy(g, u, ps, v)
    BY DEF Traces
<1>2. PICK h : TracesBy(h, v, qs, w)
    BY DEF Traces
<1>3. /\ IsList(rs) /\ N \in Nat /\ M \in Nat /\ Len(rs) = N + M
      /\ \A n \in 1 .. N : rs[n] = ps[n]
      /\ \A n \in 1 .. M : rs[N + n] = qs[n]
    <2>1. IsList(ps) /\ IsList(qs)
        BY DEF Traces
    <2> QED BY <2>1, ListJoin
<1>4. g[0] = u /\ g[N] = v /\ \A n \in 1 .. N : g[n] = Traced(g[n - 1], ps[n])
    BY <1>1 DEF TracesBy
<1>5. h[0] = v /\ h[M] = w /\ \A n \in 1 .. M : h[n] = Traced(h[n - 1], qs[n])
    BY <1>2 DEF TracesBy
<1> HIDE DEF N, M, rs
<1> DEFINE k == [n \in 0 .. N + M |-> IF n <= N THEN g[n] ELSE h[n - N]]
<1>6. \A n \in 0 .. N : k[n] = g[n]
    BY <1>3
<1>7. \A n \in 0 .. M : k[N + n] = h[n]
    <2> SUFFICES ASSUME NEW n \in 0 .. M PROVE k[N + n] = h[n]
        OBVIOUS
    <2>1. CASE n = 0
        BY <2>1, <1>3, <1>4, <1>5
    <2>2. CASE n # 0
        <3>1. N + n \in 0 .. N + M /\ ~ (N + n <= N) /\ (N + n) - N = n
            BY <2>2, <1>3
        <3> QED BY <3>1
    <2> QED BY <2>1, <2>2
<1> HIDE DEF k
<1>8. k[0] = u /\ k[Len(rs)] = w
    <2>1. 0 \in 0 .. N /\ M \in 0 .. M
        BY <1>3
    <2> QED BY <2>1, <1>3, <1>4, <1>5, <1>6, <1>7
<1>9. ASSUME NEW n \in 1 .. N + M PROVE k[n] = Traced(k[n - 1], rs[n])
    <2>1. CASE n <= N
        <3>1. n \in 1 .. N /\ n \in 0 .. N /\ n - 1 \in 0 .. N
            BY <2>1, <1>3
        <3> QED BY <3>1, <1>3, <1>4, <1>6
    <2>2. CASE ~ (n <= N)
        <3> DEFINE m == n - N
        <3>1. m \in 1 .. M /\ m \in 0 .. M /\ m - 1 \in 0 .. M /\ n = N + m /\ n - 1 = N + (m - 1)
            BY <2>2, <1>3
        <3> HIDE DEF m
        <3>2. k[n] = h[m] /\ k[n - 1] = h[m - 1] /\ rs[n] = qs[m]
            BY <3>1, <1>3, <1>7
        <3> QED BY <3>1, <3>2, <1>5
    <2> QED BY <2>1, <2>2
<1>10. TracesBy(k, u, rs, w)
    BY <1>3, <1>8, <1>9 DEF TracesBy
<1> QED BY <1>3, <1>10 DEF Traces, rs

LEMMA TracesFirst ==
    ASSUME NEW w, NEW ps, NEW v, Traces(w, ps, v), ps # <<>>
    PROVE  Traces(Traced(w, Head(ps)), Tail(ps), v)
<1> DEFINE S == {ps[n] : n \in DOMAIN ps}
           N == Len(ps)
           qs == Tail(ps)
<1>1. ps \in Seq(S)
    BY DEF Traces, IsList
<1> HIDE DEF S
<1>2. /\ N \in Nat /\ N >= 1 /\ qs \in Seq(S) /\ Len(qs) = N - 1 /\ Head(ps) = ps[1]
      /\ \A n \in 1 .. N - 1 : qs[n] = ps[n + 1]
    <2>1. N \in Nat /\ N # 0
        BY <1>1, EmptySeq
    <2>2. qs \in Seq(S) /\ Len(qs) = N - 1 /\ \A n \in 1 .. N - 1 : qs[n] = ps[n + 1]
        BY <1>1, HeadTailProperties
    <2> QED BY <1>1, <2>1, <2>2
<1>3. PICK g : TracesBy(g, w, ps, v)
    BY DEF Traces
<1>4. g[0] = w /\ g[N] = v /\ \A n \in 1 .. N : g[n] = Traced(g[n - 1], ps[n])
    BY <1>3 DEF TracesBy
<1> HIDE DEF N, qs
<1>5. g[1] = Traced(w, ps[1])
    BY <1>2, <1>4
<1> DEFINE h == [n \in 0 .. N - 1 |-> g[n + 1]]
<1>6. \A n \in 0 .. N - 1 : h[n] = g[n + 1]
    OBVIOUS
<1> HIDE DEF h
<1>7. h[0] = g[1] /\ h[N - 1] = v
    BY <1>2, <1>4, <1>6
<1>8. ASSUME NEW n \in 1 .. N - 1 PROVE h[n] = Traced(h[n - 1], qs[n])
    <2>1. n + 1 \in 1 .. N /\ n - 1 \in 0 .. N - 1 /\ n \in 0 .. N - 1 /\ (n - 1) + 1 = n
          /\ (n + 1) - 1 = n
        BY <1>2
    <2>2. h[n - 1] = g[n] /\ h[n] = g[n + 1] /\ qs[n] = ps[n + 1]
        BY <1>2, <1>6, <2>1
    <2>3. g[n + 1] = Traced(g[n], ps[n + 1])
        BY <1>4, <2>1
    <2> QED BY <2>2, <2>3
<1>9. TracesBy(h, g[1], qs, v)
    BY <1>2, <1>7, <1>8 DEF TracesBy
<1>10. IsList(qs)
    BY <1>2, ListOf
<1>11. Traces(g[1], qs, v)
    BY <1>9, <1>10 DEF Traces
<1> QED BY <1>2, <1>5, <1>11 DEF qs

LEMMA TracesNone ==
    \A w, v : Traces(w, <<>>, v) => w = v
BY DEF Traces, TracesBy

LEMMA StaysPut ==
    ASSUME NEW w, NEW ps, IsList(ps), \A n \in 1 .. Len(ps) : Traced(w, ps[n]) = w
    PROVE  Traces(w, ps, w)
<1> DEFINE N == Len(ps)
           g == [n \in 0 .. N |-> w]
<1>1. N \in Nat
    BY ListLength
<1>2. g[0] = w /\ g[N] = w /\ \A n \in 1 .. N : g[n] = w /\ g[n - 1] = w
    BY <1>1
<1> HIDE DEF g
<1>3. TracesBy(g, w, ps, w)
    BY <1>2 DEF TracesBy
<1> QED BY <1>3 DEF Traces

-----------------------------------------------------------------------------
(* Where the patches of a and b are: at the path, where they replace only   *)
(* a node of another tag, or deeper.                                        *)
LEMMA FlattenOf ==
    ASSUME NEW n \in Nat, NEW S, NEW ss, Len(ss) = n, n = 0 => ss = <<>>,
           \A i \in 1 .. n : ss[i] \in Seq(S)
    PROVE  FlattenSeq(ss) \in Seq(S)
<1>1. \A i \in 1 .. n : IsList(ss[i])
    BY ListOf
<1>2. PICK fl : Flattens(fl, ss, n) /\ FlattenSeq(ss) = fl[n]
    BY <1>1, FlattenIs
<1>3. fl[0] = <<>> /\ \A i \in 1 .. n : fl[i] = fl[i - 1] \o ss[i]
    BY <1>2 DEF Flattens
<1> DEFINE T == {i \in Nat : i <= n => fl[i] \in Seq(S)}
<1>4. 0 \in T
    <2>1. <<>> \in Seq(S)
        OBVIOUS
    <2> QED BY <1>3, <2>1
<1>5. ASSUME NEW i \in Nat, i \in T PROVE i + 1 \in T
    <2> SUFFICES ASSUME i + 1 <= n PROVE fl[i + 1] \in Seq(S)
        OBVIOUS
    <2>1. i + 1 \in 1 .. n /\ (i + 1) - 1 = i /\ i <= n
        OBVIOUS
    <2>2. fl[i + 1] = fl[i] \o ss[i + 1] /\ fl[i] \in Seq(S) /\ ss[i + 1] \in Seq(S)
        BY <1>3, <1>5, <2>1
    <2> QED BY <2>2
<1> HIDE DEF T
<1>6. n \in T
    BY <1>4, <1>5, NatSetInduction
<1> QED BY <1>2, <1>6 DEF T

Beneath(path, q, other) ==
    \/ q.path = path /\ (q.op = "replace" => other)
    \/ Len(q.path) > Len(path)

Orderly(path, ps, other) ==
    IsList(ps) /\ \A n \in 1 .. Len(ps) : Beneath(path, ps[n], other)

LEMMA OrderlyJoin ==
    ASSUME NEW path, NEW other, NEW ps, NEW qs, Orderly(path, ps, other), Orderly(path, qs, other)
    PROVE  Orderly(path, ps \o qs, other)
<1> DEFINE N == Len(ps)
           M == Len(qs)
           rs == ps \o qs
<1>1. IsList(ps) /\ IsList(qs)
    BY DEF Orderly
<1>2. /\ IsList(rs) /\ N \in Nat /\ M \in Nat /\ Len(rs) = N + M
      /\ \A n \in 1 .. N : rs[n] = ps[n]
      /\ \A n \in 1 .. M : rs[N + n] = qs[n]
    BY <1>1, ListJoin
<1>3. /\ \A n \in 1 .. N : Beneath(path, ps[n], other)
      /\ \A n \in 1 .. M : Beneath(path, qs[n], other)
    BY DEF Orderly
<1> HIDE DEF N, M, rs
<1>4. ASSUME NEW n \in 1 .. N + M PROVE Beneath(path, rs[n], other)
    <2>1. CASE n <= N
        <3>1. n \in 1 .. N
            BY <2>1, <1>2
        <3> QED BY <3>1, <1>2, <1>3
    <2>2. CASE ~ (n <= N)
        <3>1. n - N \in 1 .. M /\ N + (n - N) = n
            BY <2>2, <1>2
        <3>2. rs[n] = qs[n - N]
            BY <1>2, <3>1
        <3> QED BY <3>1, <3>2, <1>3
    <2> QED BY <2>1, <2>2
<1> QED BY <1>2, <1>4 DEF Orderly, rs

LEMMA OrderlyFlatten ==
    ASSUME NEW path, NEW other, NEW n \in Nat, NEW ss, Len(ss) = n, n = 0 => ss = <<>>,
           \A i \in 1 .. n : Orderly(path, ss[i], other)
    PROVE  Orderly(path, FlattenSeq(ss), other)
<1> DEFINE U == UNION {{ss[i][k] : k \in 1 .. Len(ss[i])} : i \in 1 .. n}
           S == {q \in U : Beneath(path, q, other)}
<1>1. ASSUME NEW i \in 1 .. n PROVE ss[i] \in Seq(S)
    <2> DEFINE ps == ss[i]
               R == {ps[k] : k \in DOMAIN ps}
    <2>1. IsList(ps) /\ \A k \in 1 .. Len(ps) : Beneath(path, ps[k], other)
        BY DEF Orderly
    <2>2. Len(ps) \in Nat /\ DOMAIN ps = 1 .. Len(ps)
        BY <2>1, ListLength
    <2>3. \A k \in 1 .. Len(ps) : ps[k] \in U
        OBVIOUS
    <2>4. ps \in Seq(R)
        BY <2>1 DEF IsList
    <2> HIDE DEF U, R
    <2>5. R \subseteq S
        BY <2>1, <2>2, <2>3 DEF R
    <2> HIDE DEF S, ps
    <2>6. ps \in Seq(S)
        BY <2>4, <2>5
    <2> QED BY <2>6 DEF ps
<1> HIDE DEF U
<1>2. FlattenSeq(ss) \in Seq(S)
    <2> HIDE DEF S
    <2> QED BY <1>1, FlattenOf
<1> DEFINE fl == FlattenSeq(ss)
<1> HIDE DEF fl
<1>3. fl \in Seq(S)
    BY <1>2 DEF fl
<1>4. \A k \in 1 .. Len(fl) : fl[k] \in S
    <2> HIDE DEF S
    <2> QED BY <1>3
<1>5. IsList(fl)
    BY <1>3, ListOf
<1>6. Orderly(path, fl, other)
    BY <1>4, <1>5 DEF Orderly
<1> QED BY <1>6 DEF fl

LEMMA OrderlyDeeper ==
    ASSUME NEW path \in Seq(Nat), NEW j \in Nat, NEW ps, NEW other, NEW another,
           Orderly(Append(path, j), ps, other)
    PROVE  Orderly(path, ps, another)
<1> DEFINE q == Append(path, j)
<1>1. Len(q) = Len(path) + 1 /\ Len(path) \in Nat
    OBVIOUS
<1> HIDE DEF q
<1>2. ASSUME NEW n \in 1 .. Len(ps) PROVE Beneath(path, ps[n], another)
    <2>1. Beneath(q, ps[n], other)
        BY DEF Orderly, q
    <2> DEFINE r == ps[n].path
    <2>2. r = q \/ Len(r) > Len(q)
        BY <2>1 DEF Beneath
    <2>3. Len(r) > Len(path)
        <3> HIDE DEF r
        <3>1. CASE r = q
            BY <1>1, <3>1
        <3>2. CASE Len(r) > Len(q)
            BY <1>1, <3>2
        <3> QED BY <2>2, <3>1, <3>2
    <2> QED BY <2>3 DEF Beneath
<1> QED BY <1>2 DEF Orderly

LEMMA OrderlyOne ==
    ASSUME NEW path, NEW q, NEW other, Beneath(path, q, other)
    PROVE  Orderly(path, <<q>>, other)
<1> DEFINE ps == <<q>>
<1>1. Len(ps) = 1 /\ ps[1] = q /\ ps \in Seq({q})
    OBVIOUS
<1> HIDE DEF ps
<1>2. IsList(ps)
    BY <1>1, ListOf
<1>3. Orderly(path, ps, other)
    BY <1>1, <1>2 DEF Orderly
<1> QED BY <1>3 DEF ps

LEMMA OrderlyNone ==
    \A path, other : Orderly(path, <<>>, other)
<1>1. IsList(<<>>)
    BY DEF IsList
<1> QED BY <1>1 DEF Orderly

(* The patches of attributes are all of the node itself.                    *)
AttrPatches(path, ps) ==
    IsList(ps) /\ \A n \in 1 .. Len(ps) : ps[n].path = path /\ ps[n].op \in {"setAttr", "removeAttr"}

LEMMA AttrsInPlace ==
    ASSUME NEW path, NEW a, IsFiniteSet(DOMAIN a), NEW b, IsFiniteSet(DOMAIN b)
    PROVE  AttrPatches(path, DiffAttrs(a, b, path))
<1> DEFINE S == {n \in DOMAIN b : n \notin DOMAIN a \/ a[n] # b[n]}
           R == DOMAIN a \ DOMAIN b
           q == SetToSeq(S)
           r == SetToSeq(R)
           ps == SetEach(path, q, b)
           rs == RemoveEach(path, r)
<1>1. IsFiniteSet(S) /\ IsFiniteSet(R)
    <2>1. S \in SUBSET DOMAIN b /\ R \in SUBSET DOMAIN a
        OBVIOUS
    <2> HIDE DEF S, R
    <2> QED BY <2>1, FS_Subset
<1>2. DiffAttrs(a, b, path) = ps \o rs
    BY DEF DiffAttrs, SetEach, RemoveEach
<1>3. q \in Seq(S) /\ r \in Seq(R)
    <2> HIDE DEF S, R
    <2> QED BY <1>1, SetToSeqIs
<1> HIDE DEF S, R, q, r
<1>4. IsList(ps) /\ \A n \in 1 .. Len(ps) : ps[n].path = path /\ ps[n].op = "setAttr"
    <2> DEFINE N == Len(q)
    <2>1. N \in Nat /\ DOMAIN q = 1 .. N
        BY <1>3
    <2>2. ps = [i \in 1 .. N |-> SetAttr(path, q[i], b[q[i]])]
        BY <2>1 DEF SetEach
    <2> HIDE DEF ps, N
    <2>3. \A i \in 1 .. N : ps[i] = SetAttr(path, q[i], b[q[i]])
        BY <2>2
    <2>4. ps = [i \in 1 .. N |-> ps[i]]
        BY <2>2
    <2>5. Len(ps) = N
        BY <2>1, <2>4, LenOfFunction
    <2> QED BY <2>1, <2>3, <2>4, <2>5, FunctionIsList DEF SetAttr
<1>5. IsList(rs) /\ \A n \in 1 .. Len(rs) : rs[n].path = path /\ rs[n].op = "removeAttr"
    <2> DEFINE N == Len(r)
    <2>1. N \in Nat /\ DOMAIN r = 1 .. N
        BY <1>3
    <2>2. rs = [i \in 1 .. N |-> RemoveAttr(path, r[i])]
        BY <2>1 DEF RemoveEach
    <2> HIDE DEF rs, N
    <2>3. \A i \in 1 .. N : rs[i] = RemoveAttr(path, r[i])
        BY <2>2
    <2>4. rs = [i \in 1 .. N |-> rs[i]]
        BY <2>2
    <2>5. Len(rs) = N
        BY <2>1, <2>4, LenOfFunction
    <2> QED BY <2>1, <2>3, <2>4, <2>5, FunctionIsList DEF RemoveAttr
<1> DEFINE N == Len(ps)
           M == Len(rs)
           u == ps \o rs
<1> HIDE DEF ps, rs
<1>6. /\ IsList(u) /\ N \in Nat /\ M \in Nat /\ Len(u) = N + M
      /\ \A n \in 1 .. N : u[n] = ps[n]
      /\ \A n \in 1 .. M : u[N + n] = rs[n]
    BY <1>4, <1>5, ListJoin
<1> HIDE DEF u
<1>7. ASSUME NEW n \in 1 .. N + M
      PROVE  u[n].path = path /\ u[n].op \in {"setAttr", "removeAttr"}
    <2>1. CASE n <= N
        <3>1. n \in 1 .. N
            BY <2>1, <1>6
        <3> QED BY <3>1, <1>4, <1>6
    <2>2. CASE ~ (n <= N)
        <3>1. n - N \in 1 .. M /\ N + (n - N) = n
            BY <2>2, <1>6
        <3>2. u[n] = rs[n - N]
            BY <1>6, <3>1
        <3> QED BY <3>1, <3>2, <1>5
    <2> QED BY <2>1, <2>2
<1>8. AttrPatches(path, u)
    BY <1>6, <1>7 DEF AttrPatches
<1> QED BY <1>2, <1>8 DEF u

LEMMA AttrsOrderly ==
    ASSUME NEW path, NEW ps, NEW other, AttrPatches(path, ps)
    PROVE  Orderly(path, ps, other)
BY DEF AttrPatches, Orderly, Beneath

LEMMA StructureOrderly ==
    ASSUME NEW path, NEW news, NEW ps \in Seq(Structural(path, news)), NEW other
    PROVE  Orderly(path, ps, other)
<1>1. \A q \in Structural(path, news) : q.path = path /\ q.op # "replace"
    BY DEF Structural, MoveChild, InsertChild
<1>2. \A n \in 1 .. Len(ps) : ps[n] \in Structural(path, news)
    OBVIOUS
<1>3. IsList(ps)
    BY ListOf
<1> QED BY <1>1, <1>2, <1>3 DEF Orderly, Beneath

(* The lists diff_node is called for, pair by pair.                         *)
PairDiff(olds, news, path, pairs, n) ==
    Diff[<<olds[pairs[n][1]], news[pairs[n][2]], Append(path, pairs[n][2])>>]

PairDiffs(olds, news, path, pairs) ==
    [n \in DOMAIN pairs |-> PairDiff(olds, news, path, pairs, n)]

LEMMA PairDiffsAre ==
    ASSUME NEW olds \in Seq(VNodes), NEW news \in Seq(VNodes), NEW path,
           NEW pairs \in Seq(Pairs(olds, news))
    PROVE  /\ Len(pairs) \in Nat
           /\ DiffPairs(Diff, olds, news, path, pairs) = FlattenSeq(PairDiffs(olds, news, path, pairs))
           /\ Len(PairDiffs(olds, news, path, pairs)) = Len(pairs)
           /\ Len(pairs) = 0 => PairDiffs(olds, news, path, pairs) = <<>>
           /\ \A n \in 1 .. Len(pairs) :
                 /\ pairs[n][1] \in 1 .. Len(olds) /\ pairs[n][2] \in 1 .. Len(news)
                 /\ PairDiffs(olds, news, path, pairs)[n] = PairDiff(olds, news, path, pairs, n)
<1> DEFINE N == Len(pairs)
           ss == PairDiffs(olds, news, path, pairs)
<1>1. N \in Nat /\ DOMAIN pairs = 1 .. N
    OBVIOUS
<1>2. \A n \in 1 .. N : pairs[n][1] \in 1 .. Len(olds) /\ pairs[n][2] \in 1 .. Len(news)
    <2>1. \A n \in 1 .. N : pairs[n] \in (1 .. Len(olds)) \X (1 .. Len(news))
        BY DEF Pairs
    <2> QED BY <2>1
<1>3. ss = [n \in 1 .. N |-> PairDiff(olds, news, path, pairs, n)]
    BY <1>1 DEF PairDiffs
<1>4. DiffPairs(Diff, olds, news, path, pairs) = FlattenSeq(ss)
    BY DEF DiffPairs, PairDiffs, PairDiff
<1> HIDE DEF ss, N
<1>5. ss = [n \in 1 .. N |-> ss[n]] /\ \A n \in 1 .. N : ss[n] = PairDiff(olds, news, path, pairs, n)
    BY <1>3
<1>6. Len(ss) = N /\ IsList(ss)
    BY <1>1, <1>5, LenOfFunction, FunctionIsList
<1>7. N = 0 => ss = <<>>
    BY <1>6, EmptySeq DEF IsList
<1> QED BY <1>1, <1>2, <1>4, <1>5, <1>6, <1>7 DEF ss, N

InOrder(a, b) ==
    \A path \in Seq(Nat) : Orderly(path, Diff[<<a, b, path>>], a.tag # b.tag)

AllInOrder(olds, news) ==
    \A o \in 1 .. Len(olds), s \in 1 .. Len(news) : InOrder(olds[o], news[s])

LEMMA PairsOrderly ==
    ASSUME NEW olds \in Seq(VNodes), NEW news \in Seq(VNodes), AllInOrder(olds, news),
           NEW path \in Seq(Nat), NEW pairs \in Seq(Pairs(olds, news)), NEW other
    PROVE  Orderly(path, DiffPairs(Diff, olds, news, path, pairs), other)
<1> DEFINE N == Len(pairs)
           ss == PairDiffs(olds, news, path, pairs)
<1>1. N \in Nat /\ DiffPairs(Diff, olds, news, path, pairs) = FlattenSeq(ss)
    BY PairDiffsAre
<1>2. Len(ss) = N
    BY PairDiffsAre
<1>3. N = 0 => ss = <<>>
    BY PairDiffsAre
<1>4. \A n \in 1 .. N : pairs[n][1] \in 1 .. Len(olds) /\ pairs[n][2] \in 1 .. Len(news)
    BY PairDiffsAre
<1>5. \A n \in 1 .. N : ss[n] = PairDiff(olds, news, path, pairs, n)
    BY PairDiffsAre
<1> HIDE DEF N, ss
<1>6. ASSUME NEW n \in 1 .. N PROVE Orderly(path, ss[n], other)
    <2> DEFINE o == pairs[n][1]
               j == pairs[n][2]
    <2>1. o \in 1 .. Len(olds) /\ j \in 1 .. Len(news) /\ j \in Nat /\ Append(path, j) \in Seq(Nat)
        BY <1>4
    <2>2. ss[n] = Diff[<<olds[o], news[j], Append(path, j)>>]
        BY <1>5 DEF PairDiff
    <2> HIDE DEF o, j
    <2>3. Orderly(Append(path, j), ss[n], olds[o].tag # news[j].tag)
        BY <2>1, <2>2 DEF AllInOrder, InOrder
    <2> QED BY <2>1, <2>3, OrderlyDeeper
<1>7. Orderly(path, FlattenSeq(ss), other)
    BY <1>1, <1>2, <1>3, <1>6, OrderlyFlatten
<1> QED BY <1>1, <1>7

LEMMA PositionalOrderly ==
    ASSUME NEW olds \in Seq(VNodes), NEW news \in Seq(VNodes), AllInOrder(olds, news),
           NEW path \in Seq(Nat), NEW other
    PROVE  Orderly(path, DiffChildrenPositional(Diff, olds, news, path), other)
<1> DEFINE shared == Min({Len(olds), Len(news)})
           pairs == [i \in 1 .. shared |-> <<i, i>>]
           first == DiffPairs(Diff, olds, news, path, pairs)
           add == AppendChildren(path, Snapshots(SubSeq(news, shared + 1, Len(news))))
           cut == TruncateChildren(path, shared)
           last == IF Len(news) > shared THEN <<add>>
                   ELSE IF Len(olds) > shared THEN <<cut>> ELSE <<>>
<1>1. DiffChildrenPositional(Diff, olds, news, path) = first \o last
    BY DEF DiffChildrenPositional
<1>2. pairs \in Seq(Pairs(olds, news))
    <2> DEFINE m == Len(olds)
               n == Len(news)
               S == Pairs(olds, news)
    <2>1. m \in Nat /\ n \in Nat
        OBVIOUS
    <2>2. shared \in Nat /\ shared <= m /\ shared <= n
        <3> HIDE DEF m, n
        <3>1. Min({m, n}) \in Nat /\ Min({m, n}) = IF m <= n THEN m ELSE n
            BY <2>1, MinOfTwo
        <3> QED BY <2>1, <3>1 DEF m, n
    <2> HIDE DEF shared
    <2>3. \A i \in 1 .. shared : <<i, i>> \in S
        BY <2>1, <2>2 DEF Pairs
    <2> HIDE DEF S
    <2>4. pairs \in [1 .. shared -> S]
        BY <2>3
    <2> HIDE DEF pairs
    <2> QED BY <2>2, <2>4, LenOfFunction DEF S
<1>3. /\ add.path = path /\ add.op = "appendChildren"
      /\ cut.path = path /\ cut.op = "truncateChildren"
    BY DEF AppendChildren, TruncateChildren
<1> HIDE DEF pairs, add, cut
<1>4. Orderly(path, first, other)
    BY <1>2, PairsOrderly
<1>5. Orderly(path, last, other)
    <2>1. Orderly(path, <<add>>, other) /\ Orderly(path, <<cut>>, other)
        BY <1>3, OrderlyOne DEF Beneath
    <2> QED BY <2>1, OrderlyNone
<1> HIDE DEF first, last
<1>6. Orderly(path, first \o last, other)
    BY <1>4, <1>5, OrderlyJoin
<1> QED BY <1>1, <1>6 DEF first, last, add, cut, pairs

(* The parts of what diff_children_keyed emits.                             *)
LEMMA KeyedParts ==
    ASSUME NEW olds \in Seq(VNodes), NEW news \in Seq(VNodes), NEW path
    PROVE  LET m == Matching(olds, news, path)
               p == Prefix(olds, news)
           IN  /\ m.out \in Seq(Structural(path, news))
               /\ SubSeq(m.pairs, 1, p) \in Seq(Pairs(olds, news))
               /\ SubSeq(m.pairs, p + 1, Len(m.pairs)) \in Seq(Pairs(olds, news))
<1> DEFINE m == Matching(olds, news, path)
<1>1. m.out \in Seq(Structural(path, news))
    <2> DEFINE ks == Snapshots(olds)
               ns == Snapshots(news)
    <2>1. ks \in Seq(Snaps) /\ Len(ks) = Len(olds) /\ \A j \in 1 .. Len(news) : ns[j] \in Snaps
        <3>1. ks \in Seq(Snaps) /\ Len(ks) = Len(olds)
            BY SnapshotsAre
        <3>2. ns \in Seq(Snaps) /\ Len(ns) = Len(news)
            BY SnapshotsAre
        <3> HIDE DEF ks, ns
        <3> QED BY <3>1, <3>2
    <2> HIDE DEF ks, ns, m
    <2> QED BY <2>1, MatchingResult DEF m
<1> QED BY <1>1, PairsSplit DEF Split

LEMMA KeyedOrderly ==
    ASSUME NEW olds \in Seq(VNodes), NEW news \in Seq(VNodes), AllInOrder(olds, news),
           NEW path \in Seq(Nat), NEW other
    PROVE  Orderly(path, DiffChildrenKeyed(Diff, olds, news, path), other)
<1> DEFINE m == Matching(olds, news, path)
           p == Prefix(olds, news)
           front == SubSeq(m.pairs, 1, p)
           rest == SubSeq(m.pairs, p + 1, Len(m.pairs))
           first == DiffPairs(Diff, olds, news, path, front)
           end == TruncateChildren(path, Len(news))
           cut == IF m.left # {} THEN <<end>> ELSE <<>>
           last == DiffPairs(Diff, olds, news, path, rest)
<1>1. DiffChildrenKeyed(Diff, olds, news, path) = first \o m.out \o cut \o last
    BY DEF DiffChildrenKeyed
<1>2. m.out \in Seq(Structural(path, news))
    BY KeyedParts
<1>3. front \in Seq(Pairs(olds, news)) /\ rest \in Seq(Pairs(olds, news))
    BY KeyedParts
<1>4. end.path = path /\ end.op = "truncateChildren"
    BY DEF TruncateChildren
<1> HIDE DEF front, rest, end
<1>5. Orderly(path, first, other) /\ Orderly(path, last, other)
    BY <1>3, PairsOrderly
<1>6. Orderly(path, m.out, other)
    BY <1>2, StructureOrderly
<1>7. Orderly(path, cut, other)
    <2>1. Orderly(path, <<end>>, other)
        BY <1>4, OrderlyOne DEF Beneath
    <2> QED BY <2>1, OrderlyNone
<1> DEFINE out == m.out
<1> HIDE DEF first, cut, last, m, out
<1>8. Orderly(path, first \o out, other)
    BY <1>5, <1>6, OrderlyJoin DEF out
<1>9. Orderly(path, first \o out \o cut, other)
    BY <1>7, <1>8, OrderlyJoin
<1>10. Orderly(path, first \o out \o cut \o last, other)
    BY <1>5, <1>9, OrderlyJoin
<1> QED BY <1>1, <1>10 DEF out, m, first, cut, last, end, front, rest

LEMMA NodeInOrder ==
    ASSUME NEW a \in VNodes, NEW b \in VNodes, AllInOrder(a.kids, b.kids)
    PROVE  InOrder(a, b)
<1> SUFFICES ASSUME NEW path \in Seq(Nat)
             PROVE  Orderly(path, Diff[<<a, b, path>>], a.tag # b.tag)
    BY DEF InOrder
<1> DEFINE other == a.tag # b.tag
<1>1. Diff[<<a, b, path>>] = DiffNode(Diff, a, b, path)
    BY DiffIs
<1>2. CASE other
    <2> DEFINE q == Replace(path, FromVNode[b])
    <2>1. DiffNode(Diff, a, b, path) = <<q>>
        BY <1>2 DEF DiffNode
    <2>2. q.path = path
        BY DEF Replace
    <2> HIDE DEF q
    <2>3. Beneath(path, q, other)
        BY <1>2, <2>2 DEF Beneath
    <2>4. Orderly(path, <<q>>, other)
        <3> HIDE DEF other
        <3> QED BY <2>3, OrderlyOne
    <2> QED BY <1>1, <2>1, <2>4
<1>3. ASSUME ~ other, IsText(a) PROVE Orderly(path, Diff[<<a, b, path>>], other)
    <2> DEFINE q == SetText(path, b.text)
    <2>1. DiffNode(Diff, a, b, path) = IF a.text = b.text THEN <<>> ELSE <<q>>
        BY <1>3 DEF DiffNode
    <2>2. q.path = path /\ q.op = "setText"
        BY DEF SetText
    <2> HIDE DEF q, other
    <2>3. Orderly(path, <<q>>, other) /\ Orderly(path, <<>>, other)
        BY <2>2, OrderlyOne, OrderlyNone DEF Beneath
    <2> QED BY <1>1, <2>1, <2>3
<1>4. ASSUME ~ other, ~ IsText(a) PROVE Orderly(path, Diff[<<a, b, path>>], other)
    <2> DEFINE attrs == DiffAttrs(a.attrs, b.attrs, path)
               keyed == DiffChildrenKeyed(Diff, a.kids, b.kids, path)
               placed == DiffChildrenPositional(Diff, a.kids, b.kids, path)
               kids == IF HasKeys(a.kids) \/ HasKeys(b.kids) THEN keyed ELSE placed
    <2>1. DiffNode(Diff, a, b, path) = attrs \o kids
        BY <1>4 DEF DiffNode
    <2>2. Orderly(path, attrs, other)
        <3>1. IsFiniteSet(DOMAIN a.attrs) /\ IsFiniteSet(DOMAIN b.attrs)
            BY TreeAssumption
        <3>2. AttrPatches(path, attrs)
            BY <3>1, AttrsInPlace
        <3> HIDE DEF attrs, other
        <3> QED BY <3>2, AttrsOrderly
    <2>3. a.kids \in Seq(VNodes) /\ b.kids \in Seq(VNodes)
        BY TreeFacts
    <2>4. Orderly(path, keyed, other) /\ Orderly(path, placed, other)
        <3> HIDE DEF other
        <3> QED BY <2>3, KeyedOrderly, PositionalOrderly
    <2>5. Orderly(path, kids, other)
        BY <2>4
    <2> HIDE DEF attrs, kids, other
    <2>6. Orderly(path, attrs \o kids, other)
        BY <2>2, <2>5, OrderlyJoin
    <2> QED BY <1>1, <2>1, <2>6
<1> QED BY <1>2, <1>3, <1>4

LEMMA AlwaysInOrder ==
    \A a, b \in VNodes : InOrder(a, b)
<1> DEFINE S == {h \in Nat : \A a, b \in VNodes : Height[a] = h => InOrder(a, b)}
<1>1. ASSUME NEW h \in Nat, \A m \in Nat : m < h => m \in S PROVE h \in S
    <2> SUFFICES ASSUME NEW a \in VNodes, NEW b \in VNodes, Height[a] = h PROVE InOrder(a, b)
        OBVIOUS
    <2>1. AllInOrder(a.kids, b.kids)
        <3> SUFFICES ASSUME NEW o \in 1 .. Len(a.kids), NEW s \in 1 .. Len(b.kids)
                     PROVE  InOrder(a.kids[o], b.kids[s])
            BY DEF AllInOrder
        <3> DEFINE x == a.kids[o]
                   y == b.kids[s]
        <3>1. o \in DOMAIN a.kids /\ s \in DOMAIN b.kids
            BY TreeFacts
        <3>2. x \in VNodes /\ Height[x] \in Nat /\ Height[x] < h /\ y \in VNodes
            BY <3>1, TreeFacts
        <3> HIDE DEF x, y
        <3>3. Height[x] \in S
            BY <1>1, <3>2
        <3>4. InOrder(x, y)
            BY <3>2, <3>3
        <3> QED BY <3>4 DEF x, y
    <2> QED BY <2>1, NodeInOrder
<1> HIDE DEF S
<1>2. \A h \in Nat : h \in S
    BY <1>1, StrongSetInduction
<1>3. \A a \in VNodes : Height[a] \in Nat
    BY TreeFacts
<1> QED BY <1>2, <1>3 DEF S

-----------------------------------------------------------------------------
(* What becomes of the root's children.                                     *)
Spares(q, Z) ==
    q.path # <<>> /\ (Len(q.path) = 1 /\ q.op = "replace" => q.path[1] \in Z)

SparesAll(ps, Z) == IsList(ps) /\ \A n \in 1 .. Len(ps) : Spares(ps[n], Z)

LEMMA SparesBelow ==
    ASSUME NEW j \in Nat, NEW ps, NEW other, Orderly(<<j>>, ps, other), NEW Z, other => j \in Z
    PROVE  SparesAll(ps, Z)
<1> DEFINE path == <<j>>
<1>1. Len(path) = 1 /\ path[1] = j /\ path # <<>>
    OBVIOUS
<1> HIDE DEF path
<1>2. ASSUME NEW n \in 1 .. Len(ps) PROVE Spares(ps[n], Z)
    <2>1. Beneath(path, ps[n], other)
        BY DEF Orderly, path
    <2>2. CASE ps[n].path = path /\ (ps[n].op = "replace" => other)
        BY <1>1, <2>2 DEF Spares
    <2>3. CASE Len(ps[n].path) > Len(path)
        <3> DEFINE r == ps[n].path
        <3>1. Len(r) > 1
            BY <1>1, <2>3
        <3>2. Len(<<>>) = 0
            OBVIOUS
        <3> HIDE DEF r
        <3>3. r # <<>> /\ Len(r) # 1
            <4>1. ~ (0 > 1) /\ ~ (1 > 1)
                OBVIOUS
            <4>2. ASSUME Len(r) = 0 PROVE FALSE
                <5>1. 0 > 1
                    BY <3>1, <4>2
                <5> QED BY <4>1, <5>1
            <4>3. ASSUME Len(r) = 1 PROVE FALSE
                <5>1. 1 > 1
                    BY <3>1, <4>3
                <5> QED BY <4>1, <5>1
            <4> QED BY <3>2, <4>2, <4>3
        <3> QED BY <3>3 DEF Spares, r
    <2> QED BY <2>1, <2>2, <2>3 DEF Beneath
<1>3. IsList(ps)
    BY DEF Orderly
<1> QED BY <1>2, <1>3 DEF SparesAll

LEMMA SparesFlatten ==
    ASSUME NEW Z, NEW n \in Nat, NEW ss, Len(ss) = n, n = 0 => ss = <<>>,
           \A i \in 1 .. n : SparesAll(ss[i], Z)
    PROVE  SparesAll(FlattenSeq(ss), Z)
<1> DEFINE U == UNION {{ss[i][k] : k \in 1 .. Len(ss[i])} : i \in 1 .. n}
           S == {q \in U : Spares(q, Z)}
<1>1. ASSUME NEW i \in 1 .. n PROVE ss[i] \in Seq(S)
    <2> DEFINE ps == ss[i]
               R == {ps[k] : k \in DOMAIN ps}
    <2>1. IsList(ps) /\ \A k \in 1 .. Len(ps) : Spares(ps[k], Z)
        BY DEF SparesAll
    <2>2. Len(ps) \in Nat /\ DOMAIN ps = 1 .. Len(ps)
        BY <2>1, ListLength
    <2>3. \A k \in 1 .. Len(ps) : ps[k] \in U
        OBVIOUS
    <2>4. ps \in Seq(R)
        BY <2>1 DEF IsList
    <2> HIDE DEF U, R
    <2>5. R \subseteq S
        BY <2>1, <2>2, <2>3 DEF R
    <2> HIDE DEF S, ps
    <2>6. ps \in Seq(S)
        BY <2>4, <2>5
    <2> QED BY <2>6 DEF ps
<1> HIDE DEF U
<1>2. FlattenSeq(ss) \in Seq(S)
    <2> HIDE DEF S
    <2> QED BY <1>1, FlattenOf
<1> DEFINE fl == FlattenSeq(ss)
<1> HIDE DEF fl
<1>3. fl \in Seq(S)
    BY <1>2 DEF fl
<1>4. \A k \in 1 .. Len(fl) : fl[k] \in S
    <2> HIDE DEF S
    <2> QED BY <1>3
<1>5. IsList(fl)
    BY <1>3, ListOf
<1>6. SparesAll(fl, Z)
    BY <1>4, <1>5 DEF SparesAll
<1> QED BY <1>6 DEF fl

LEMMA PairsSpare ==
    ASSUME NEW olds \in Seq(VNodes), NEW news \in Seq(VNodes),
           NEW pairs \in Seq(Pairs(olds, news)), NEW Z,
           \A n \in 1 .. Len(pairs) :
              olds[pairs[n][1]].tag # news[pairs[n][2]].tag => pairs[n][2] \in Z
    PROVE  SparesAll(DiffPairs(Diff, olds, news, <<>>, pairs), Z)
<1> DEFINE N == Len(pairs)
           ss == PairDiffs(olds, news, <<>>, pairs)
<1>1. N \in Nat /\ DiffPairs(Diff, olds, news, <<>>, pairs) = FlattenSeq(ss)
    BY PairDiffsAre
<1>2. Len(ss) = N
    BY PairDiffsAre
<1>3. N = 0 => ss = <<>>
    BY PairDiffsAre
<1>4. \A n \in 1 .. N : pairs[n][1] \in 1 .. Len(olds) /\ pairs[n][2] \in 1 .. Len(news)
    BY PairDiffsAre
<1>5. \A n \in 1 .. N : ss[n] = PairDiff(olds, news, <<>>, pairs, n)
    BY PairDiffsAre
<1> HIDE DEF ss
<1>6. ASSUME NEW n \in 1 .. N PROVE SparesAll(ss[n], Z)
    <2> DEFINE o == pairs[n][1]
               j == pairs[n][2]
               other == olds[o].tag # news[j].tag
    <2>1. o \in 1 .. Len(olds) /\ j \in 1 .. Len(news) /\ j \in Nat /\ <<j>> \in Seq(Nat)
        BY <1>4
    <2>2. ss[n] = Diff[<<olds[o], news[j], <<j>>>>]
        <3>1. Append(<<>>, j) = <<j>>
            OBVIOUS
        <3> QED BY <1>5, <3>1 DEF PairDiff
    <2>3. other => j \in Z
        OBVIOUS
    <2>4. olds[o] \in VNodes /\ news[j] \in VNodes
        BY <2>1
    <2> HIDE DEF o, j
    <2>5. Orderly(<<j>>, ss[n], other)
        BY <2>1, <2>2, <2>4, AlwaysInOrder DEF InOrder
    <2> HIDE DEF other
    <2> QED BY <2>1, <2>3, <2>5, SparesBelow
<1> HIDE DEF N
<1>7. SparesAll(FlattenSeq(ss), Z)
    BY <1>1, <1>2, <1>3, <1>6, SparesFlatten
<1> QED BY <1>1, <1>7

KeptOutside(w, v, Z) ==
    v \in Seq(Nat) /\ Len(v) = Len(w) /\ \A k \in 1 .. Len(w) : k \notin Z => v[k] = w[k]

LEMMA SparedStep ==
    ASSUME NEW w \in Seq(Nat), NEW q, NEW Z, Spares(q, Z)
    PROVE  KeptOutside(w, Traced(w, q), Z)
<1>1. CASE Len(q.path) = 1 /\ q.op = "replace"
    <2> DEFINE j == q.path[1]
               v == [w EXCEPT ![j] = 0]
    <2>1. Traced(w, q) = v /\ j \in Z
        BY <1>1 DEF Traced, Spares
    <2> HIDE DEF j
    <2>2. v \in Seq(Nat) /\ Len(v) = Len(w)
        <3> DEFINE n == Len(w)
        <3>1. n \in Nat /\ w \in [1 .. n -> Nat]
            OBVIOUS
        <3> HIDE DEF n
        <3>2. v \in [1 .. n -> Nat]
            BY <3>1
        <3> HIDE DEF v
        <3>3. Len(v) = n /\ v \in Seq(Nat)
            BY <3>1, <3>2, LenOfFunction
        <3> QED BY <3>3 DEF n
    <2>3. \A k \in 1 .. Len(w) : k # j => v[k] = w[k]
        OBVIOUS
    <2> HIDE DEF v
    <2> QED BY <2>1, <2>2, <2>3 DEF KeptOutside
<1>2. CASE ~ (Len(q.path) = 1 /\ q.op = "replace")
    <2>1. Traced(w, q) = w
        BY <1>2 DEF Traced, Spares
    <2> QED BY <2>1 DEF KeptOutside
<1> QED BY <1>1, <1>2

LEMMA SparedTrace ==
    ASSUME NEW w \in Seq(Nat), NEW ps, NEW Z, SparesAll(ps, Z)
    PROVE  \E v : Traces(w, ps, v) /\ KeptOutside(w, v, Z)
<1> DEFINE N == Len(ps)
<1>1. IsList(ps) /\ N \in Nat /\ \A n \in 1 .. N : Spares(ps[n], Z)
    BY ListLength DEF SparesAll
<1>2. PICK v : Traces(w, ps, v)
    BY <1>1, TracesSome
<1>3. PICK g : TracesBy(g, w, ps, v)
    BY <1>2 DEF Traces
<1> HIDE DEF N
<1>4. g[0] = w /\ g[N] = v /\ \A n \in 1 .. N : g[n] = Traced(g[n - 1], ps[n])
    BY <1>3 DEF TracesBy, N
<1> DEFINE T == {n \in Nat : n <= N => KeptOutside(w, g[n], Z)}
<1>5. 0 \in T
    BY <1>4 DEF KeptOutside
<1>6. ASSUME NEW n \in Nat, n \in T PROVE n + 1 \in T
    <2> SUFFICES ASSUME n + 1 <= N PROVE KeptOutside(w, g[n + 1], Z)
        OBVIOUS
    <2>1. n + 1 \in 1 .. N /\ (n + 1) - 1 = n /\ n <= N
        BY <1>1
    <2> DEFINE x == g[n]
               q == ps[n + 1]
    <2>2. g[n + 1] = Traced(x, q) /\ Spares(q, Z) /\ KeptOutside(w, x, Z)
        BY <1>1, <1>4, <1>6, <2>1
    <2> HIDE DEF x, q
    <2>3. KeptOutside(x, Traced(x, q), Z)
        BY <2>2, SparedStep DEF KeptOutside
    <2> QED BY <2>2, <2>3 DEF KeptOutside
<1> HIDE DEF T
<1>7. N \in T
    BY <1>1, <1>5, <1>6, NatSetInduction
<1> QED BY <1>1, <1>2, <1>4, <1>7 DEF T

LEMMA StructureTraces ==
    ASSUME NEW news, NEW ps \in Seq(Structural(<<>>, news)), NEW U, NEW K, NEW L, NEW fr,
           \A j \in 1 .. Len(news) : fr[j] = 0, Goes(U, K, ps, fr, L)
    PROVE  Traces(K, ps, L)
<1> DEFINE N == Len(ps)
<1>1. PICK g : /\ g[0] = K /\ g[N] = L
               /\ \A n \in 1 .. N : g[n] = Rearranged(g[n - 1], ps[n], Anew(ps[n], fr))
    BY DEF Goes
<1>2. \A n \in 1 .. N : ps[n] \in Structural(<<>>, news)
    OBVIOUS
<1>3. IsList(ps)
    BY ListOf
<1>4. ASSUME NEW q \in Structural(<<>>, news), NEW w
      PROVE  Traced(w, q) = Rearranged(w, q, Anew(q, fr))
    <2>1. Traced(w, q) = Rearranged(w, q, [i \in DOMAIN Brought(q) |-> 0])
        <3>1. q.path = <<>> /\ q.op # "replace"
            BY DEF Structural, MoveChild, InsertChild
        <3> QED BY <3>1 DEF Traced
    <2>2. CASE q \in {MoveChild(<<>>, f, t) : f \in Nat, t \in Nat}
        <3>1. q.op = "moveChild"
            BY <2>2 DEF MoveChild
        <3>2. \A b : Rearranged(w, q, b) = InsertAt(RemoveAt(w, q.from), q.to, w[q.from])
            BY <3>1 DEF Rearranged
        <3> QED BY <2>1, <3>2
    <2>3. CASE q \in {InsertChild(<<>>, j, FromVNode[news[j]]) : j \in 1 .. Len(news)}
        <3>1. PICK j \in 1 .. Len(news) : q = InsertChild(<<>>, j, FromVNode[news[j]])
            BY <2>3
        <3>2. q.op = "insertChild" /\ q.index = j
            BY <3>1 DEF InsertChild
        <3> DEFINE b == [i \in DOMAIN Brought(q) |-> 0]
        <3>3. b[1] = 0
            BY <3>2 DEF Brought
        <3>4. Anew(q, fr)[1] = 0
            BY <3>2 DEF Anew
        <3> HIDE DEF b
        <3>5. \A c : Rearranged(w, q, c) = InsertAt(w, Min({q.index, Len(w) + 1}), c[1])
            BY <3>2 DEF Rearranged
        <3> QED BY <2>1, <3>3, <3>4, <3>5 DEF b
    <2> QED BY <2>2, <2>3 DEF Structural
<1>5. TracesBy(g, K, ps, L)
    BY <1>1, <1>2, <1>4 DEF TracesBy
<1> QED BY <1>3, <1>5 DEF Traces

(* A child before and a child after the turn with one key and one tag, a    *)
(* key no other child has.                                                  *)
Lone(olds, news, i, j) ==
    /\ olds[i].key # NoKey
    /\ olds[i].key = news[j].key
    /\ olds[i].tag = news[j].tag
    /\ \A k \in DOMAIN olds \ {i} : olds[k].key # olds[i].key
    /\ \A k \in DOMAIN news \ {j} : news[k].key # news[j].key

LEMMA SameKey ==
    ASSUME NEW a \in VNodes, NEW b \in VNodes, a.key # NoKey
    PROVE  /\ Reusable(a, b) => b.key = a.key
           /\ Reusable(b, a) => b.key = a.key
           /\ a.key = b.key => Reusable(a, b)
<1>1. \A v \in VNodes : IsText(v) => v.key = NoKey
    <2>1. \A v \in VNodes : IsText(v) => v = Text(v.text)
        BY TreeAssumption
    <2>2. \A s : Text(s).key = NoKey
        BY DEF Text
    <2> QED BY <2>1, <2>2
<1>2. Queue(a) = <<"key", a.key>>
    BY <1>1 DEF Queue
<1>3. Queue(b) = <<"key", a.key>> => b.key = a.key
    <2> SUFFICES ASSUME Queue(b) = <<"key", a.key>> PROVE b.key = a.key
        OBVIOUS
    <2>1. Queue(b) # <<"text">> /\ Queue(b) # <<"tag", b.tag>>
        OBVIOUS
    <2>2. Queue(b) = <<"key", b.key>>
        BY <2>1 DEF Queue
    <2>3. <<"key", b.key>> = <<"key", a.key>>
        BY <2>2
    <2> QED BY <2>3
<1>4. a.key = b.key => Queue(b) = <<"key", b.key>>
    BY <1>1 DEF Queue
<1> QED BY <1>2, <1>3, <1>4 DEF Reusable

LEMMA LoneMatch ==
    ASSUME NEW olds \in Seq(VNodes), NEW news \in Seq(VNodes),
           NEW i \in 1 .. Len(olds), NEW j \in 1 .. Len(news), Lone(olds, news, i, j)
    PROVE  /\ Reusable(olds[i], news[j])
           /\ \A x \in 1 .. Len(olds) : Reusable(olds[x], news[j]) => x = i
           /\ \A y \in 1 .. Len(news) : Reusable(olds[i], news[y]) => y = j
<1>1. /\ DOMAIN olds = 1 .. Len(olds) /\ DOMAIN news = 1 .. Len(news)
      /\ \A x \in 1 .. Len(olds) : olds[x] \in VNodes
      /\ \A y \in 1 .. Len(news) : news[y] \in VNodes
    OBVIOUS
<1>2. /\ olds[i].key # NoKey /\ news[j].key # NoKey /\ olds[i].key = news[j].key
      /\ \A k \in 1 .. Len(olds) : k # i => olds[k].key # olds[i].key
      /\ \A k \in 1 .. Len(news) : k # j => news[k].key # news[j].key
    BY <1>1 DEF Lone
<1>3. Reusable(olds[i], news[j])
    BY <1>1, <1>2, SameKey
<1>4. ASSUME NEW x \in 1 .. Len(olds), Reusable(olds[x], news[j]) PROVE x = i
    <2>1. olds[x].key = news[j].key
        BY <1>1, <1>2, <1>4, SameKey
    <2> QED BY <1>2, <2>1
<1>5. ASSUME NEW y \in 1 .. Len(news), Reusable(olds[i], news[y]) PROVE y = j
    <2>1. news[y].key = olds[i].key
        BY <1>1, <1>2, <1>5, SameKey
    <2> QED BY <1>2, <2>1
<1> QED BY <1>3, <1>4, <1>5

Places(olds) == [i \in DOMAIN olds |-> i]

LEMMA CutTraces ==
    ASSUME NEW path, path = <<>>, NEW U, NEW L \in Seq(U), NEW n \in Nat, n < Len(L)
    PROVE  Traces(L, <<TruncateChildren(path, n)>>, SubSeq(L, 1, n))
<1> DEFINE q == TruncateChildren(path, n)
           ps == <<q>>
           T == SubSeq(L, 1, n)
<1>1. q.path = <<>> /\ q.op = "truncateChildren" /\ q.len = n
    BY DEF TruncateChildren
<1>2. Len(ps) = 1 /\ ps[1] = q /\ ps \in Seq({q})
    OBVIOUS
<1> HIDE DEF q, ps
<1>3. IsList(ps)
    BY <1>2, ListOf
<1>4. Min({n, Len(L)}) = n
    BY MinOfTwo
<1>5. \A b : Rearranged(L, q, b) = T
    BY <1>1, <1>4 DEF Rearranged
<1> HIDE DEF T
<1>6. Traced(L, q) = T
    BY <1>1, <1>5 DEF Traced
<1> DEFINE g == [k \in 0 .. 1 |-> IF k = 0 THEN L ELSE T]
<1>7. g[0] = L /\ g[1] = T /\ \A k \in 1 .. 1 : k = 1 /\ k - 1 = 0
    OBVIOUS
<1> HIDE DEF g
<1>8. TracesBy(g, L, ps, T)
    BY <1>2, <1>6, <1>7 DEF TracesBy
<1>9. Traces(L, ps, T)
    BY <1>3, <1>8 DEF Traces
<1> QED BY <1>9 DEF ps, q, T

LEMMA KeyedTraces ==
    ASSUME NEW olds \in Seq(VNodes), NEW news \in Seq(VNodes)
    PROVE  \E v : /\ Traces(Places(olds), DiffChildrenKeyed(Diff, olds, news, <<>>), v)
                  /\ \A i \in DOMAIN olds, j \in DOMAIN news : Lone(olds, news, i, j) => v[j] = i
<1> DEFINE root == <<>>
           m == Matching(olds, news, root)
           p == Prefix(olds, news)
           N == Len(news)
           front == SubSeq(m.pairs, 1, p)
           rest == SubSeq(m.pairs, p + 1, Len(m.pairs))
           first == DiffPairs(Diff, olds, news, root, front)
           cut == IF m.left # {} THEN <<TruncateChildren(root, N)>> ELSE <<>>
           last == DiffPairs(Diff, olds, news, root, rest)
           w == Places(olds)
           Other(pairs) == {pairs[n][2] : n \in {n \in 1 .. Len(pairs) :
                                olds[pairs[n][1]].tag # news[pairs[n][2]].tag}}
<1>1. DiffChildrenKeyed(Diff, olds, news, root) = first \o m.out \o cut \o last
    BY DEF DiffChildrenKeyed
<1>2. m.out \in Seq(Structural(root, news))
    BY KeyedParts
<1>3. Split(olds, news, p, m, front, rest) /\ Pairing(olds, news, p, m, N)
    BY PairsSplit, MatchingPairs
<1>4. p \in 0 .. Len(olds) /\ p \in 0 .. N /\ p \in Nat /\ N \in Nat /\ Len(olds) \in Nat
    BY PrefixReusable
<1>5. w \in Seq(Nat) /\ Len(w) = Len(olds) /\ \A i \in 1 .. Len(olds) : w[i] = i
    <2> DEFINE n == Len(olds)
    <2>1. n \in Nat /\ DOMAIN olds = 1 .. n
        OBVIOUS
    <2>2. w = [i \in 1 .. n |-> i]
        BY <2>1 DEF Places
    <2> HIDE DEF w, n
    <2>3. w \in [1 .. n -> Nat] /\ \A i \in 1 .. n : w[i] = i
        BY <2>2
    <2> QED BY <2>1, <2>3, LenOfFunction DEF n
<1>r. root = <<>>
    OBVIOUS
<1> HIDE DEF root, m, p, front, rest, w
<1>6. /\ front \in Seq(Pairs(olds, news)) /\ rest \in Seq(Pairs(olds, news))
      /\ Len(front) = p /\ \A n \in 1 .. p : front[n] = <<n, n>>
      /\ Len(rest) = Len(m.pairs) - p
      /\ \A n \in 1 .. Len(rest) : rest[n] = m.pairs[p + n]
    BY <1>3 DEF Split
<1>7. PICK K : Traces(w, first, K) /\ KeptOutside(w, K, Other(front))
    <2> DEFINE Z == Other(front)
    <2>1. \A n \in 1 .. Len(front) :
             olds[front[n][1]].tag # news[front[n][2]].tag => front[n][2] \in Z
        OBVIOUS
    <2> HIDE DEF Z
    <2>2. SparesAll(first, Z)
        BY <1>6, <1>r, <2>1, PairsSpare
    <2> HIDE DEF first
    <2> QED BY <1>5, <2>2, SparedTrace DEF Z
<1>8. K \in Seq(Nat) /\ Len(K) = Len(olds)
    BY <1>5, <1>7 DEF KeptOutside
<1> DEFINE fr == [j \in 1 .. N |-> 0]
<1>9. \A j \in 1 .. Len(news) : fr[j] = 0 /\ fr[j] \in Nat
    OBVIOUS
<1> HIDE DEF fr
<1>10. PICK L : Arranged(olds, news, Nat, K, fr, m, L)
    BY <1>8, <1>9, StructureFollowsMatching DEF m
<1> DEFINE T == Trimmed(L, m, N)
<1>11. /\ L \in Seq(Nat) /\ Goes(Nat, K, m.out, fr, L)
       /\ m.left # {} => N < Len(L)
       /\ T \in Seq(Nat) /\ Len(T) = N
       /\ \A o \in 1 .. Len(olds), j \in 1 .. N : Paired(m, o, j) => T[j] = K[o]
    BY <1>10 DEF Arranged
<1>12. Traces(K, m.out, L)
    <2> DEFINE ps == m.out
    <2>1. ps \in Seq(Structural(<<>>, news))
        BY <1>2, <1>r
    <2>2. Goes(Nat, K, ps, fr, L) /\ \A j \in 1 .. Len(news) : fr[j] = 0
        BY <1>9, <1>11
    <2> HIDE DEF ps
    <2> QED BY <2>1, <2>2, StructureTraces DEF ps
<1>13. Traces(L, cut, T)
    <2>1. CASE m.left = {}
        <3>1. cut = <<>> /\ T = L
            BY <2>1 DEF Trimmed
        <3>2. Traces(L, <<>>, L)
            <4>1. IsList(<<>>) /\ Len(<<>>) = 0
                BY DEF IsList
            <4> QED BY <4>1, StaysPut
        <3> QED BY <3>1, <3>2
    <2>2. CASE m.left # {}
        <3>1. cut = <<TruncateChildren(root, N)>> /\ T = SubSeq(L, 1, N)
            BY <2>2 DEF Trimmed
        <3>2. N < Len(L) /\ L \in Seq(Nat)
            BY <2>2, <1>11
        <3> HIDE DEF T, cut, N
        <3> QED BY <1>4, <1>r, <3>1, <3>2, CutTraces
    <2> QED BY <2>1, <2>2
<1> HIDE DEF T, cut
<1>14. PICK v : Traces(T, last, v) /\ KeptOutside(T, v, Other(rest))
    <2> DEFINE Z == Other(rest)
    <2>1. \A n \in 1 .. Len(rest) :
             olds[rest[n][1]].tag # news[rest[n][2]].tag => rest[n][2] \in Z
        OBVIOUS
    <2> HIDE DEF Z
    <2>2. SparesAll(last, Z)
        BY <1>6, <1>r, <2>1, PairsSpare
    <2> HIDE DEF last
    <2> QED BY <1>11, <2>2, SparedTrace DEF Z
<1>15. ASSUME NEW i \in 1 .. Len(olds), NEW j \in 1 .. N, Lone(olds, news, i, j)
       PROVE  v[j] = i
    <2>1. /\ Reusable(olds[i], news[j])
          /\ \A x \in 1 .. Len(olds) : Reusable(olds[x], news[j]) => x = i
          /\ \A y \in 1 .. Len(news) : Reusable(olds[i], news[y]) => y = j
        BY <1>15, LoneMatch
    <2>2. olds[i].tag = news[j].tag
        BY <1>15 DEF Lone
    <2>3. Paired(m, i, j)
        BY <2>1, OnlyMatchIsTaken DEF m
    <2>4. T[j] = K[i]
        BY <1>11, <2>3
    (* Pairs are reusable, so one of them that has i or j is the pair i, j. *)
    <2>5. \A n \in 1 .. Len(m.pairs) :
             /\ m.pairs[n][1] \in 1 .. Len(olds) /\ m.pairs[n][2] \in 1 .. N
             /\ Reusable(olds[m.pairs[n][1]], news[m.pairs[n][2]])
        <3>1. m.pairs \in Seq((1 .. Len(olds)) \X (1 .. N))
            BY <1>3 DEF Pairing
        <3>2. \A n \in 1 .. Len(m.pairs) : m.pairs[n] \in (1 .. Len(olds)) \X (1 .. N)
            BY <3>1
        <3> QED BY <1>3, <3>2 DEF Pairing
    <2>6. \A n \in 1 .. p : n \in 1 .. Len(m.pairs) /\ m.pairs[n] = <<n, n>>
        <3>1. Len(m.pairs) >= p /\ Len(m.pairs) \in Nat
            BY <1>3 DEF Pairing
        <3>2. \A n \in 1 .. p : m.pairs[n] = <<n, n>>
            BY <1>3 DEF Pairing
        <3> DEFINE M == Len(m.pairs)
        <3> HIDE DEF M
        <3>3. \A n \in 1 .. p : n \in 1 .. M
            BY <1>4, <3>1 DEF M
        <3> QED BY <3>2, <3>3 DEF M
    <2>7. i \notin Other(front)
        <3> SUFFICES ASSUME NEW n \in 1 .. p, front[n][2] = i,
                            olds[front[n][1]].tag # news[front[n][2]].tag
                     PROVE  FALSE
            BY <1>6
        <3>1. front[n] = <<n, n>> /\ n = i
            BY <1>6
        <3>2. Reusable(olds[i], news[i]) /\ i \in 1 .. N
            BY <2>5, <2>6, <3>1
        <3>3. i = j
            BY <2>1, <3>2
        <3> QED BY <2>2, <3>1, <3>3
    <2>8. K[i] = i
        BY <1>5, <1>7, <2>7 DEF KeptOutside
    <2>9. j \notin Other(rest)
        <3> SUFFICES ASSUME NEW n \in 1 .. Len(rest), rest[n][2] = j,
                            olds[rest[n][1]].tag # news[rest[n][2]].tag
                     PROVE  FALSE
            OBVIOUS
        <3>1. p + n \in 1 .. Len(m.pairs)
            <4> DEFINE M == Len(m.pairs)
                       R == Len(rest)
            <4>1. M \in Nat /\ R = M - p
                <5>1. m.pairs \in Seq((1 .. Len(olds)) \X (1 .. N))
                    BY <1>3 DEF Pairing
                <5> QED BY <1>6, <5>1
            <4>2. n \in 1 .. R
                OBVIOUS
            <4> HIDE DEF M, R
            <4>3. p + n \in 1 .. M
                BY <1>4, <4>1, <4>2
            <4> QED BY <4>3 DEF M
        <3>2. rest[n] = m.pairs[p + n]
            BY <1>6
        <3>3. rest[n][1] \in 1 .. Len(olds) /\ Reusable(olds[rest[n][1]], news[j])
            BY <2>5, <3>1, <3>2
        <3>4. rest[n][1] = i
            BY <2>1, <3>3
        <3> QED BY <2>2, <3>4
    <2>10. v[j] = T[j]
        BY <1>11, <1>14, <2>9 DEF KeptOutside
    <2> QED BY <2>4, <2>8, <2>10
<1> DEFINE out == m.out
<1>16. Traces(w, first, K) /\ Traces(K, out, L) /\ Traces(T, last, v)
    BY <1>7, <1>12, <1>14
<1> HIDE DEF first, last, out
<1>17. Traces(w, first \o out, L)
    BY <1>16, TracesOn
<1>18. Traces(w, first \o out \o cut, T)
    BY <1>13, <1>17, TracesOn
<1>19. Traces(w, first \o out \o cut \o last, v)
    BY <1>16, <1>18, TracesOn
<1>20. DOMAIN olds = 1 .. Len(olds) /\ DOMAIN news = 1 .. N
    OBVIOUS
<1>21. DiffChildrenKeyed(Diff, olds, news, <<>>) = first \o out \o cut \o last
    BY <1>1, <1>r DEF first, out, cut, last
<1>22. Traces(Places(olds), DiffChildrenKeyed(Diff, olds, news, <<>>), v)
    BY <1>19, <1>21 DEF w
<1> QED BY <1>15, <1>20, <1>22

Kept(a, b, v) ==
    \A i \in DOMAIN a.kids, j \in DOMAIN b.kids : Lone(a.kids, b.kids, i, j) => v[j] = i

(* diff: what its patches do to the root's children, from the first patch.  *)
LEMMA NodesKept ==
    ASSUME NEW a \in VNodes, NEW b \in VNodes, a.tag = b.tag
    PROVE  \E v : Traces(Places(a.kids), Diff[<<a, b, <<>>>>], v) /\ Kept(a, b, v)
<1> DEFINE root == <<>>
           olds == a.kids
           news == b.kids
           w == Places(olds)
<1>r. root \in Seq(Nat)
    OBVIOUS
<1>1. Diff[<<a, b, root>>] = DiffNode(Diff, a, b, root)
    <2> HIDE DEF root
    <2> QED BY <1>r, DiffIs
<1>2. IsList(Diff[<<a, b, root>>])
    <2> HIDE DEF root
    <2>1. Orderly(root, Diff[<<a, b, root>>], a.tag # b.tag)
        BY <1>r, AlwaysInOrder DEF InOrder
    <2> QED BY <2>1 DEF Orderly
<1>3. olds \in Seq(VNodes) /\ news \in Seq(VNodes) /\ DOMAIN olds = 1 .. Len(olds)
      /\ DOMAIN news = 1 .. Len(news)
    BY TreeFacts
<1>4. CASE IsText(a) \/ ~ (HasKeys(olds) \/ HasKeys(news))
    <2>1. \A i \in DOMAIN olds : olds[i].key = NoKey
        <3>1. CASE IsText(a)
            <4>1. a = Text(a.text)
                BY <3>1, TreeAssumption
            <4>2. olds = <<>>
                BY <4>1 DEF Text
            <4> QED BY <4>2
        <3>2. CASE ~ (HasKeys(olds) \/ HasKeys(news))
            BY <3>2 DEF HasKeys
        <3> QED BY <1>4, <3>1, <3>2
    <2>2. PICK v : Traces(w, Diff[<<a, b, root>>], v)
        BY <1>2, TracesSome
    <2>3. Kept(a, b, v)
        BY <2>1 DEF Kept, Lone
    <2> QED BY <2>2, <2>3
<1>5. ASSUME ~ IsText(a), HasKeys(olds) \/ HasKeys(news)
      PROVE  \E v : Traces(w, Diff[<<a, b, root>>], v) /\ Kept(a, b, v)
    <2> DEFINE attrs == DiffAttrs(a.attrs, b.attrs, root)
               kids == DiffChildrenKeyed(Diff, olds, news, root)
    <2>1. Diff[<<a, b, root>>] = attrs \o kids
        BY <1>1, <1>5 DEF DiffNode
    <2>2. AttrPatches(root, attrs)
        <3>1. IsFiniteSet(DOMAIN a.attrs) /\ IsFiniteSet(DOMAIN b.attrs)
            BY TreeAssumption
        <3> QED BY <3>1, AttrsInPlace
    <2>3. root = <<>>
        OBVIOUS
    <2> HIDE DEF attrs, root
    <2>4. \A n \in 1 .. Len(attrs) : Traced(w, attrs[n]) = w
        <3> SUFFICES ASSUME NEW n \in 1 .. Len(attrs) PROVE Traced(w, attrs[n]) = w
            OBVIOUS
        <3> DEFINE q == attrs[n]
        <3>1. q.path = <<>> /\ q.op \in {"setAttr", "removeAttr"}
            BY <2>2, <2>3 DEF AttrPatches
        <3> HIDE DEF q, w
        <3>2. Traced(w, q) = Rearranged(w, q, [i \in DOMAIN Brought(q) |-> 0])
            BY <3>1 DEF Traced
        <3>3. \A c : Rearranged(w, q, c) = w
            BY <3>1 DEF Rearranged
        <3> QED BY <3>2, <3>3 DEF q
    <2>5. Traces(w, attrs, w)
        <3>1. IsList(attrs)
            BY <2>2 DEF AttrPatches
        <3> HIDE DEF w
        <3> QED BY <2>4, <3>1, StaysPut
    <2>6. PICK v : /\ Traces(w, kids, v)
                   /\ \A i \in DOMAIN olds, j \in DOMAIN news : Lone(olds, news, i, j) => v[j] = i
        BY <1>3, <2>3, KeyedTraces
    <2> HIDE DEF kids
    <2>7. Traces(w, attrs \o kids, v)
        BY <2>5, <2>6, TracesOn
    <2>8. Kept(a, b, v)
        BY <2>6 DEF Kept
    <2> QED BY <2>1, <2>7, <2>8
<1> QED BY <1>4, <1>5

(* The inductive invariant for the children of the root: following what is  *)
(* left of the patches from where they are now ends where it should.        *)
PlacesInv ==
    /\ old \in VNodes /\ new \in VNodes
    /\ old.tag = new.tag => \E v : Traces(was, todo, v) /\ Kept(old, new, v)

LEMMA PlacesInvHolds == AnyTurnSpec => []PlacesInv
<1>1. AnyTurnInit => PlacesInv
    <2> SUFFICES ASSUME NEW a \in VNodes, NEW b \in VNodes, Begin(a, b) PROVE PlacesInv
        BY DEF AnyTurnInit
    <2>2. /\ old = a /\ new = b /\ was = Places(old.kids)
          /\ todo = Diff[<<old, new, <<>>>>]
        BY DEF Begin, Places
    <2>3. old \in VNodes /\ new \in VNodes
        BY <2>2
    <2>4. old.tag = new.tag => \E v : Traces(was, todo, v) /\ Kept(old, new, v)
        BY <2>2, <2>3, NodesKept
    <2> QED BY <2>3, <2>4 DEF PlacesInv
<1>2. PlacesInv /\ [Apply]_diffVars => PlacesInv'
    <2> SUFFICES ASSUME PlacesInv, [Apply]_diffVars PROVE PlacesInv'
        OBVIOUS
    <2>1. CASE Apply
        <3>1. /\ todo # <<>> /\ was' = Traced(was, Head(todo)) /\ todo' = Tail(todo)
              /\ old' = old /\ new' = new
            BY <2>1 DEF Apply
        <3>2. ASSUME old.tag = new.tag
              PROVE  \E v : Traces(was', todo', v) /\ Kept(old, new, v)
            <4>1. PICK v : Traces(was, todo, v) /\ Kept(old, new, v)
                BY <3>2 DEF PlacesInv
            <4>2. Traces(was', todo', v)
                BY <3>1, <4>1, TracesFirst
            <4> QED BY <4>1, <4>2
        <3>3. old' \in VNodes /\ new' \in VNodes
            BY <3>1 DEF PlacesInv
        <3>4. old'.tag = new'.tag => \E v : Traces(was', todo', v) /\ Kept(old', new', v)
            BY <3>1, <3>2
        <3> QED BY <3>3, <3>4 DEF PlacesInv
    <2>2. CASE UNCHANGED diffVars
        BY <2>2 DEF PlacesInv, diffVars
    <2> QED BY <2>1, <2>2
<1> QED BY <1>1, <1>2, PTL DEF AnyTurnSpec

(* diff_children_keyed: whatever the two lists and whatever else happens in *)
(* the turn, an element with a key of its own is not made anew or swapped   *)
(* for another, wherever the reorder takes it.                              *)
LEMMA AnyKeepsKeyedNodes == AnyTurnSpec => []KeyedNodesSurvive
<1>1. PlacesInv => KeyedNodesSurvive
    <2> SUFFICES ASSUME PlacesInv, todo = <<>>, old.tag = new.tag,
                        NEW i \in DOMAIN old.kids, NEW j \in DOMAIN new.kids,
                        Lone(old.kids, new.kids, i, j)
                 PROVE  was[j] = i
        BY DEF KeyedNodesSurvive, Lone
    <2>1. PICK v : Traces(was, <<>>, v) /\ Kept(old, new, v)
        BY DEF PlacesInv
    <2> QED BY <2>1, TracesNone DEF Kept
<1> QED BY <1>1, PlacesInvHolds, PTL

(* diff_children_keyed: and elements with a key of their own are kept.      *)
THEOREM TurnKeepsKeyedNodes == TreeDiffSpec => []KeyedNodesSurvive
BY AnyKeepsKeyedNodes, TurnIsAny, PTL
=============================================================================
