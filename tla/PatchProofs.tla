---------------------------- MODULE PatchProofs ----------------------------
(***************************************************************************)
(* apply, one patch after the other: what a list of patches makes of the   *)
(* node they speak of, wherever in the page it is.                         *)
(***************************************************************************)
EXTENDS Patch, FiniteSetTheorems, WellFoundedInduction, SequenceTheorems, TLAPS

-----------------------------------------------------------------------------
(* Induction, with the set of the numbers that have the property.           *)
LEMMA NatSetInduction ==
    ASSUME NEW S, 0 \in S, \A n \in Nat : n \in S => n + 1 \in S
    PROVE  \A n \in Nat : n \in S
<1> DEFINE T == Nat \ S
<1> SUFFICES ASSUME T # {} PROVE FALSE
    OBVIOUS
<1>1. PICK x \in T : \A y \in T : ~ (<<y, x>> \in OpToRel(<, Nat))
    BY NatLessThanWellFounded, WFMin, Zenon
<1>2. x # 0 /\ x - 1 \in Nat
    OBVIOUS
<1>3. x - 1 \in S
    <2>1. <<x - 1, x>> \in OpToRel(<, Nat)
        BY <1>2 DEF OpToRel
    <2>2. x - 1 \notin T
        BY <1>1, <2>1, Zenon
    <2> QED BY <1>2, <2>2
<1> QED BY <1>2, <1>3

LEMMA StrongSetInduction ==
    ASSUME NEW S, \A n \in Nat : (\A m \in Nat : m < n => m \in S) => n \in S
    PROVE  \A n \in Nat : n \in S
<1> DEFINE B == {n \in Nat : \A m \in Nat : m < n => m \in S}
<1>1. 0 \in B
    OBVIOUS
<1>2. \A n \in Nat : n \in B => n + 1 \in B
    <2> SUFFICES ASSUME NEW n \in Nat, n \in B PROVE n + 1 \in B
        OBVIOUS
    <2>1. n \in S
        OBVIOUS
    <2>2. ASSUME NEW m \in Nat, m < n + 1 PROVE m \in S
        <3>1. m < n \/ m = n
            BY <2>2
        <3> QED BY <2>1, <3>1
    <2> QED BY <2>2
<1> HIDE DEF B
<1>3. \A n \in Nat : n \in B
    BY <1>1, <1>2, NatSetInduction
<1> QED BY <1>3 DEF B

LEMMA LenOfFunction ==
    ASSUME NEW n \in Nat, NEW S, NEW f \in [1 .. n -> S]
    PROVE  Len(f) = n /\ f \in Seq(S)
OBVIOUS

-----------------------------------------------------------------------------
(* nodeAt, and the tree with another node in its place.                     *)
LEMMA WayIs ==
    ASSUME NEW d, NEW path \in Seq(Nat)
    PROVE  /\ Way(d, path)[0] = d
           /\ \A k \in 1 .. Len(path) : Way(d, path)[k] = Way(d, path)[k - 1].kids[path[k]]
<1> DEFINE N == Len(path)
           Child(x, k) == x.kids[path[k]]
           Solves(f, n) == f = [k \in 0 .. n |-> IF k = 0 THEN d ELSE Child(f[k - 1], k)]
           S == {n \in Nat : \E f : Solves(f, n)}
<1>1. Way(d, path) = CHOOSE f : Solves(f, N)
    BY DEF Way
<1> HIDE DEF Child
<1>2. \A n \in Nat : n \in S
    <2>1. 0 \in S
        <3>1. Solves([k \in 0 .. 0 |-> d], 0)
            OBVIOUS
        <3> QED BY <3>1
    <2>2. ASSUME NEW n \in Nat, n \in S PROVE n + 1 \in S
        <3>1. PICK f : Solves(f, n)
            BY <2>2
        <3> DEFINE body(x) == [k \in 0 .. n + 1 |-> IF k = 0 THEN d ELSE Child(x[k - 1], k)]
                   g == body(f)
        <3>2. \A k \in 0 .. n : g[k] = f[k]
            BY <3>1
        <3>3. body(f) = body(g)
            <4> HIDE DEF g
            <4>1. ASSUME NEW k \in 0 .. n + 1
                  PROVE  (IF k = 0 THEN d ELSE Child(f[k - 1], k))
                           = (IF k = 0 THEN d ELSE Child(g[k - 1], k))
                <5>1. CASE k = 0
                    BY <5>1
                <5>2. CASE k # 0
                    <6>1. k - 1 \in 0 .. n
                        BY <5>2
                    <6>2. f[k - 1] = g[k - 1]
                        BY <6>1, <3>2
                    <6> QED BY <6>2
                <5> QED BY <5>1, <5>2
            <4> QED BY <4>1
        <3>4. Solves(g, n + 1)
            BY <3>3
        <3> HIDE DEF g, Solves
        <3> QED BY <3>4
    <2> HIDE DEF S
    <2> QED BY <2>1, <2>2, NatSetInduction
<1>3. N \in Nat
    OBVIOUS
<1> DEFINE w == Way(d, path)
<1>4. Solves(w, N)
    <2>1. \E f : Solves(f, N)
        BY <1>2, <1>3
    <2> HIDE DEF Solves, w
    <2> QED BY <1>1, <2>1 DEF w
<1> HIDE DEF w, N
<1>5. w[0] = d /\ \A k \in 1 .. N : w[k] = Child(w[k - 1], k)
    BY <1>3, <1>4
<1> QED BY <1>5 DEF w, N, Child

(* The node n with x for its child i.                                       *)
Put(n, i, x) == Holding(n, [n.kids EXCEPT ![i] = x])

LEMMA PutKids ==
    \A n, i, x : DOMAIN Put(n, i, x).kids = DOMAIN n.kids
BY DEF Put, Holding

LEMMA PutAt ==
    \A n, i, x : i \in DOMAIN n.kids => Put(n, i, x).kids[i] = x
BY DEF Put, Holding

LEMMA PutAgain ==
    \A n, i, x, y : Put(Put(n, i, x), i, y) = Put(n, i, y)
<1> SUFFICES ASSUME NEW n, NEW i, NEW x, NEW y PROVE Put(Put(n, i, x), i, y) = Put(n, i, y)
    OBVIOUS
<1> DEFINE k == [n.kids EXCEPT ![i] = x]
           h == Put(n, i, x)
<1>1. [k EXCEPT ![i] = y] = [n.kids EXCEPT ![i] = y]
    OBVIOUS
<1>2. h.kids = k /\ \A q : Holding(h, q) = Holding(n, q)
    BY DEF Put, Holding
<1> HIDE DEF k, h
<1>3. Put(h, i, y) = Holding(n, [n.kids EXCEPT ![i] = y])
    BY <1>1, <1>2 DEF Put
<1> QED BY <1>3 DEF h, Put

(* The nodes on the way back up.                                            *)
Ups(d, path, n, up) ==
    /\ up[0] = n
    /\ \A k \in 1 .. Len(path) :
          up[k] = Put(Way(d, path)[Len(path) - k], path[Len(path) - k + 1], up[k - 1])

LEMMA WithUps ==
    ASSUME NEW d, NEW path \in Seq(Nat), NEW n
    PROVE  \E up : Ups(d, path, n, up) /\ With(d, path, n) = up[Len(path)]
<1> DEFINE L == Len(path)
           w == Way(d, path)
           Body(x, k) == Put(w[L - k], path[L - k + 1], x)
           Solves(f, m) == f = [k \in 0 .. m |-> IF k = 0 THEN n ELSE Body(f[k - 1], k)]
           S == {m \in Nat : \E f : Solves(f, m)}
<1>1. With(d, path, n) = (CHOOSE f : Solves(f, L))[L]
    BY DEF With, Put
<1>2. \A up : Ups(d, path, n, up) <=> up[0] = n /\ \A k \in 1 .. L : up[k] = Body(up[k - 1], k)
    BY DEF Ups
<1>3. L \in Nat
    OBVIOUS
<1> HIDE DEF Body, L, w
<1>4. \A m \in Nat : m \in S
    <2>1. 0 \in S
        <3>1. Solves([k \in 0 .. 0 |-> n], 0)
            OBVIOUS
        <3> QED BY <3>1
    <2>2. ASSUME NEW m \in Nat, m \in S PROVE m + 1 \in S
        <3>1. PICK f : Solves(f, m)
            BY <2>2
        <3> DEFINE body(x) == [k \in 0 .. m + 1 |-> IF k = 0 THEN n ELSE Body(x[k - 1], k)]
                   g == body(f)
        <3>2. \A k \in 0 .. m : g[k] = f[k]
            BY <3>1
        <3>3. body(f) = body(g)
            <4> HIDE DEF g
            <4>1. ASSUME NEW k \in 0 .. m + 1
                  PROVE  (IF k = 0 THEN n ELSE Body(f[k - 1], k))
                           = (IF k = 0 THEN n ELSE Body(g[k - 1], k))
                <5>1. CASE k = 0
                    BY <5>1
                <5>2. CASE k # 0
                    <6>1. k - 1 \in 0 .. m
                        BY <5>2
                    <6>2. f[k - 1] = g[k - 1]
                        BY <6>1, <3>2
                    <6> QED BY <6>2
                <5> QED BY <5>1, <5>2
            <4> QED BY <4>1
        <3>4. Solves(g, m + 1)
            BY <3>3
        <3> HIDE DEF g, Solves
        <3> QED BY <3>4
    <2> HIDE DEF S
    <2> QED BY <2>1, <2>2, NatSetInduction
<1> DEFINE up == CHOOSE f : Solves(f, L)
<1>5. Solves(up, L)
    <2>1. \E f : Solves(f, L)
        BY <1>3, <1>4
    <2> HIDE DEF Solves
    <2> QED BY <2>1
<1> HIDE DEF up
<1>6. up[0] = n /\ \A k \in 1 .. L : up[k] = Body(up[k - 1], k)
    BY <1>3, <1>5
<1> QED BY <1>1, <1>2, <1>6 DEF up, L

LEMMA UpsUnique ==
    ASSUME NEW d, NEW path \in Seq(Nat), NEW n, NEW up, Ups(d, path, n, up)
    PROVE  With(d, path, n) = up[Len(path)]
<1>1. PICK v : Ups(d, path, n, v) /\ With(d, path, n) = v[Len(path)]
    BY WithUps
<1> DEFINE L == Len(path)
           S == {k \in Nat : k <= L => v[k] = up[k]}
<1>3. \A k \in Nat : k \in S
    <2>1. 0 \in S
        BY <1>1 DEF Ups
    <2>2. ASSUME NEW k \in Nat, k \in S PROVE k + 1 \in S
        <3> SUFFICES ASSUME k + 1 <= L PROVE v[k + 1] = up[k + 1]
            OBVIOUS
        <3> DEFINE i == k + 1
        <3>1. i \in 1 .. L /\ v[i - 1] = up[i - 1]
            BY <2>2
        <3> HIDE DEF i
        <3>2. v[i] = up[i]
            BY <1>1, <3>1 DEF Ups
        <3> QED BY <3>2 DEF i
    <2> HIDE DEF S
    <2> QED BY <2>1, <2>2, NatSetInduction
<1>4. L \in Nat /\ L <= L
    OBVIOUS
<1> QED BY <1>1, <1>3, <1>4

LEMMA WithWay ==
    ASSUME NEW d, NEW path \in Seq(Nat), HasNode(d, path), NEW n, NEW up, Ups(d, path, n, up)
    PROVE  /\ \A k \in 0 .. Len(path) : Way(With(d, path, n), path)[k] = up[Len(path) - k]
           /\ HasNode(With(d, path, n), path)
           /\ NodeAt(With(d, path, n), path) = n
<1> DEFINE e == With(d, path, n)
           L == Len(path)
           w == Way(d, path)
           y == Way(e, path)
           S == {k \in Nat : k <= L => y[k] = up[L - k]}
<1>0. L \in Nat
    OBVIOUS
<1>1. e = up[L]
    BY UpsUnique
<1>2. y[0] = e /\ \A k \in 1 .. L : y[k] = y[k - 1].kids[path[k]]
    <2> HIDE DEF e
    <2> QED BY WayIs
<1>3. \A k \in 1 .. L : path[k] \in DOMAIN w[k - 1].kids
    BY DEF HasNode
<1>4. up[0] = n
      /\ \A k \in 1 .. L : up[k] = Put(w[L - k], path[L - k + 1], up[k - 1])
    BY DEF Ups
<1> HIDE DEF e, w, y, L
<1>5. \A k \in 1 .. L : up[L - (k - 1)] = Put(w[k - 1], path[k], up[L - k])
    <2> SUFFICES ASSUME NEW k \in 1 .. L
                 PROVE  up[L - (k - 1)] = Put(w[k - 1], path[k], up[L - k])
        OBVIOUS
    <2> DEFINE i == L - (k - 1)
    <2>1. i \in 1 .. L /\ L - i = k - 1 /\ L - i + 1 = k /\ i - 1 = L - k
        BY <1>0
    <2> HIDE DEF i
    <2>2. up[i] = Put(w[L - i], path[L - i + 1], up[i - 1])
        BY <1>4, <2>1
    <2> QED BY <2>1, <2>2 DEF i
<1>6. \A k \in 1 .. L : DOMAIN up[L - (k - 1)].kids = DOMAIN w[k - 1].kids
    BY <1>5, PutKids
<1>6a. \A k \in 1 .. L : up[L - (k - 1)].kids[path[k]] = up[L - k]
    BY <1>3, <1>5, PutAt
<1>7. \A k \in Nat : k \in S
    <2>1. 0 \in S
        BY <1>0, <1>1, <1>2
    <2>2. ASSUME NEW k \in Nat, k \in S PROVE k + 1 \in S
        <3> SUFFICES ASSUME k + 1 <= L PROVE y[k + 1] = up[L - (k + 1)]
            OBVIOUS
        <3> DEFINE i == k + 1
        <3>1. i \in 1 .. L /\ i - 1 = k /\ y[i - 1] = up[L - (i - 1)]
            BY <2>2, <1>0
        <3> HIDE DEF i
        <3>2. y[i] = up[L - i]
            BY <3>1, <1>2, <1>6a
        <3> QED BY <3>2 DEF i
    <2> HIDE DEF S
    <2> QED BY <2>1, <2>2, NatSetInduction
<1>8. \A k \in 0 .. L : y[k] = up[L - k]
    BY <1>7, <1>0
<1>9. HasNode(e, path)
    <2> SUFFICES ASSUME NEW k \in 1 .. L PROVE path[k] \in DOMAIN y[k - 1].kids
        BY DEF HasNode, y, L
    <2>1. k - 1 \in 0 .. L
        BY <1>0
    <2>2. y[k - 1] = up[L - (k - 1)]
        BY <1>8, <2>1
    <2> QED BY <2>2, <1>3, <1>6
<1>10. NodeAt(e, path) = n
    <2>1. L \in 0 .. L /\ L - L = 0
        BY <1>0
    <2>2. y[L] = up[0]
        BY <1>8, <2>1
    <2> QED BY <2>2, <1>4 DEF NodeAt, y, L
<1> QED BY <1>8, <1>9, <1>10 DEF e, y, L

(* After a replacement the path still leads somewhere, to the new node.     *)
LEMMA WithNode ==
    ASSUME NEW d, NEW path \in Seq(Nat), HasNode(d, path), NEW n
    PROVE  HasNode(With(d, path, n), path) /\ NodeAt(With(d, path, n), path) = n
<1>1. PICK up : Ups(d, path, n, up)
    BY WithUps
<1> QED BY <1>1, WithWay

LEMMA WithTwice ==
    ASSUME NEW d, NEW path \in Seq(Nat), HasNode(d, path), NEW n, NEW m
    PROVE  With(With(d, path, n), path, m) = With(d, path, m)
<1> DEFINE e == With(d, path, n)
           L == Len(path)
           w == Way(d, path)
           y == Way(e, path)
<1>1. PICK u : Ups(d, path, n, u)
    BY WithUps
<1>2. PICK v : Ups(d, path, m, v) /\ With(d, path, m) = v[L]
    BY WithUps
<1>3. \A k \in 0 .. L : y[k] = u[L - k]
    BY <1>1, WithWay
<1>4. \A k \in 1 .. L : u[k] = Put(w[L - k], path[L - k + 1], u[k - 1])
    BY <1>1 DEF Ups
<1>5. v[0] = m
      /\ \A k \in 1 .. L : v[k] = Put(w[L - k], path[L - k + 1], v[k - 1])
    BY <1>2 DEF Ups
<1>6. \A k \in 1 .. L : L - k \in 0 .. L /\ L - (L - k) = k
    OBVIOUS
<1> HIDE DEF e, L, w, y
<1>7. \A k \in 1 .. L : v[k] = Put(y[L - k], path[L - k + 1], v[k - 1])
    <2> SUFFICES ASSUME NEW k \in 1 .. L
                 PROVE  v[k] = Put(y[L - k], path[L - k + 1], v[k - 1])
        OBVIOUS
    <2>1. y[L - k] = Put(w[L - k], path[L - k + 1], u[k - 1])
        BY <1>3, <1>4, <1>6
    <2>2. v[k] = Put(w[L - k], path[L - k + 1], v[k - 1])
        BY <1>5
    <2> QED BY <2>1, <2>2, PutAgain
<1>8. Ups(e, path, m, v)
    BY <1>5, <1>7 DEF Ups, y, L
<1>9. With(e, path, m) = v[L]
    BY <1>8, UpsUnique DEF L
<1> QED BY <1>2, <1>9 DEF e

(* A child of the node at the end of a path.                                *)
LEMMA WithChild ==
    ASSUME NEW d, NEW path \in Seq(Nat), HasNode(d, path),
           NEW i \in Nat, i \in DOMAIN NodeAt(d, path).kids, NEW x
    PROVE  /\ HasNode(d, Append(path, i))
           /\ With(d, Append(path, i), x) = With(d, path, Put(NodeAt(d, path), i, x))
<1> DEFINE L == Len(path)
           q == Append(path, i)
           w == Way(d, path)
           y == Way(d, q)
           S == {k \in Nat : k <= L => y[k] = w[k]}
<1>0. /\ L \in Nat /\ q \in Seq(Nat) /\ Len(q) = L + 1 /\ q[L + 1] = i
      /\ \A k \in 1 .. L : q[k] = path[k]
    OBVIOUS
<1>1. w[0] = d /\ \A k \in 1 .. L : w[k] = w[k - 1].kids[path[k]]
    BY WayIs
<1>2. y[0] = d /\ \A k \in 1 .. L + 1 : y[k] = y[k - 1].kids[q[k]]
    <2> HIDE DEF q
    <2>1. /\ Way(d, q)[0] = d
          /\ \A k \in 1 .. Len(q) : Way(d, q)[k] = Way(d, q)[k - 1].kids[q[k]]
        BY <1>0, WayIs
    <2> QED BY <1>0, <2>1
<1>n. NodeAt(d, path) = w[L] /\ \A k \in 1 .. L : path[k] \in DOMAIN w[k - 1].kids
    BY DEF NodeAt, HasNode
<1> HIDE DEF w, y, q, L
<1>3. \A k \in Nat : k \in S
    <2>1. 0 \in S
        BY <1>1, <1>2
    <2>2. ASSUME NEW k \in Nat, k \in S PROVE k + 1 \in S
        <3> SUFFICES ASSUME k + 1 <= L PROVE y[k + 1] = w[k + 1]
            OBVIOUS
        <3> DEFINE m == k + 1
        <3>1. m \in 1 .. L /\ m \in 1 .. L + 1 /\ y[m - 1] = w[m - 1]
            BY <2>2, <1>0
        <3> HIDE DEF m
        <3>2. y[m] = w[m]
            BY <3>1, <1>0, <1>1, <1>2
        <3> QED BY <3>2 DEF m
    <2> HIDE DEF S
    <2> QED BY <2>1, <2>2, NatSetInduction
<1>4. \A k \in 0 .. L : y[k] = w[k]
    BY <1>3, <1>0
<1>5. HasNode(d, q)
    <2> SUFFICES ASSUME NEW k \in 1 .. L + 1 PROVE q[k] \in DOMAIN y[k - 1].kids
        BY <1>0 DEF HasNode, y
    <2>1. k - 1 \in 0 .. L /\ (k \in 1 .. L \/ k = L + 1)
        BY <1>0
    <2>2. y[k - 1] = w[k - 1]
        BY <1>4, <2>1
    <2>3. CASE k = L + 1
        <3>1. k - 1 = L
            BY <2>3, <1>0
        <3> QED BY <2>2, <2>3, <3>1, <1>0, <1>n
    <2>4. CASE k \in 1 .. L
        BY <2>2, <2>4, <1>0, <1>n
    <2> QED BY <2>1, <2>3, <2>4
<1>6. PICK v : Ups(d, q, x, v) /\ With(d, q, x) = v[L + 1]
    <2>1. \E v : Ups(d, q, x, v) /\ With(d, q, x) = v[Len(q)]
        BY <1>0, WithUps
    <2> QED BY <2>1, <1>0
<1>7. v[0] = x /\ \A k \in 1 .. L + 1 : v[k] = Put(y[(L + 1) - k], q[((L + 1) - k) + 1], v[k - 1])
    <2> DEFINE Q(l) == v[0] = x /\ \A k \in 1 .. l : v[k] = Put(y[l - k], q[(l - k) + 1], v[k - 1])
    <2>1. Q(Len(q))
        BY <1>6 DEF Ups, y
    <2>2. Len(q) = L + 1
        BY <1>0
    <2> HIDE DEF Q
    <2>3. Q(L + 1)
        BY <2>1, <2>2
    <2> QED BY <2>3 DEF Q
<1>8. v[1] = Put(w[L], i, x)
    <2>1. 1 \in 1 .. L + 1 /\ (L + 1) - 1 = L /\ ((L + 1) - 1) + 1 = L + 1 /\ 1 - 1 = 0 /\ L \in 0 .. L
        BY <1>0
    <2>2. v[1] = Put(y[L], q[L + 1], v[0])
        BY <1>7, <2>1
    <2>3. v[0] = x
        BY <1>7
    <2>4. q[L + 1] = i
        BY <1>0, <1>4
    <2>5. y[L] = w[L]
        BY <1>4, <2>1
    <2> QED BY <2>2, <2>3, <2>4, <2>5
<1> DEFINE u == [k \in 0 .. L |-> v[k + 1]]
<1>9. \A k \in 1 .. L : u[k] = Put(w[L - k], path[L - k + 1], u[k - 1])
    <2> SUFFICES ASSUME NEW k \in 1 .. L PROVE u[k] = Put(w[L - k], path[L - k + 1], u[k - 1])
        OBVIOUS
    <2> DEFINE m == k + 1
    <2>1. m \in 1 .. L + 1 /\ (L + 1) - m = L - k /\ m - 1 = k /\ L - k \in 0 .. L /\ L - k + 1 \in 1 .. L
        BY <1>0
    <2>2. u[k] = v[m] /\ u[k - 1] = v[k]
        <3>1. k \in 0 .. L /\ k - 1 \in 0 .. L /\ (k - 1) + 1 = k
            BY <1>0
        <3> QED BY <3>1
    <2> HIDE DEF m, u
    <2>3. v[m] = Put(y[L - k], q[L - k + 1], v[k])
        BY <1>7, <2>1
    <2>4. y[L - k] = w[L - k] /\ q[L - k + 1] = path[L - k + 1]
        BY <1>0, <1>4, <2>1
    <2> QED BY <2>2, <2>3, <2>4
<1>10. u[0] = Put(w[L], i, x) /\ u[L] = v[L + 1]
    BY <1>0, <1>8
<1> HIDE DEF u
<1>11. Ups(d, path, Put(w[L], i, x), u)
    BY <1>9, <1>10 DEF Ups, w, L
<1>12. With(d, path, Put(w[L], i, x)) = u[L]
    BY <1>11, UpsUnique DEF L
<1> QED BY <1>5, <1>6, <1>10, <1>12, <1>n DEF q

LEMMA ChildOfWith ==
    ASSUME NEW d, NEW path \in Seq(Nat), HasNode(d, path), NEW n,
           NEW i \in Nat, i \in DOMAIN n.kids, NEW x
    PROVE  /\ HasNode(With(d, path, n), Append(path, i))
           /\ With(With(d, path, n), Append(path, i), x) = With(d, path, Put(n, i, x))
<1> DEFINE e == With(d, path, n)
<1>1. HasNode(e, path) /\ NodeAt(e, path) = n
    BY WithNode
<1>2. With(e, path, Put(n, i, x)) = With(d, path, Put(n, i, x))
    BY WithTwice
<1> HIDE DEF e
<1>3. HasNode(e, Append(path, i))
      /\ With(e, Append(path, i), x) = With(e, path, Put(n, i, x))
    BY <1>1, WithChild
<1> QED BY <1>2, <1>3 DEF e

-----------------------------------------------------------------------------
(* The patches ps fit one after the other and take the tree d to e.         *)
IsList(ps) == ps \in Seq({ps[n] : n \in DOMAIN ps})

LeadsBy(g, d, ps, e) ==
    /\ g[0] = d /\ g[Len(ps)] = e
    /\ \A n \in 1 .. Len(ps) : Fits(g[n - 1], ps[n]) /\ g[n] = Changed(g[n - 1], ps[n])

Leads(d, ps, e) == IsList(ps) /\ \E g : LeadsBy(g, d, ps, e)

LEMMA ListOf ==
    ASSUME NEW S, NEW ps \in Seq(S)
    PROVE  IsList(ps)
BY DEF IsList

(* Lists, as functions.                                                     *)
LEMMA ListIs ==
    ASSUME NEW ps, IsList(ps)
    PROVE  Len(ps) \in Nat /\ DOMAIN ps = 1 .. Len(ps) /\ ps = [i \in 1 .. Len(ps) |-> ps[i]]
<1> DEFINE T == {ps[n] : n \in DOMAIN ps}
<1>1. ps \in Seq(T)
    BY DEF IsList
<1> HIDE DEF T
<1> QED BY <1>1

(* Two lists with the same entries.                                         *)
LEMMA SameList ==
    ASSUME NEW a, NEW b, IsList(a), IsList(b), Len(a) = Len(b),
           \A i \in 1 .. Len(a) : a[i] = b[i]
    PROVE  a = b
<1> DEFINE n == Len(a)
<1>1. a = [i \in 1 .. n |-> a[i]] /\ b = [i \in 1 .. n |-> b[i]]
    BY ListIs
<1>2. [i \in 1 .. n |-> a[i]] = [i \in 1 .. n |-> b[i]]
    OBVIOUS
<1> QED BY <1>1, <1>2

LEMMA EmptyList == IsList(<<>>) /\ Len(<<>>) = 0
BY DEF IsList

LEMMA ListJoin ==
    ASSUME NEW ps, NEW qs, IsList(ps), IsList(qs)
    PROVE  /\ IsList(ps \o qs)
           /\ Len(ps) \in Nat /\ Len(qs) \in Nat /\ Len(ps \o qs) = Len(ps) + Len(qs)
           /\ \A n \in 1 .. Len(ps) : (ps \o qs)[n] = ps[n]
           /\ \A n \in 1 .. Len(qs) : (ps \o qs)[Len(ps) + n] = qs[n]
<1> DEFINE S == {ps[n] : n \in DOMAIN ps}
           T == {qs[n] : n \in DOMAIN qs}
           U == S \cup T
<1>1. ps \in Seq(S) /\ qs \in Seq(T)
    BY DEF IsList
<1> HIDE DEF S, T
<1>2. ps \in Seq(U) /\ qs \in Seq(U)
    BY <1>1
<1> HIDE DEF U
<1>3. ps \o qs \in Seq(U) /\ Len(ps) \in Nat /\ Len(qs) \in Nat /\ Len(ps \o qs) = Len(ps) + Len(qs)
    BY <1>2
<1>4. IsList(ps \o qs)
    BY <1>3, ListOf
<1>5. \A n \in 1 .. Len(ps) : (ps \o qs)[n] = ps[n]
    BY <1>2
<1>6. \A n \in 1 .. Len(qs) : (ps \o qs)[Len(ps) + n] = qs[n]
    BY <1>2
<1> QED BY <1>3, <1>4, <1>5, <1>6

LEMMA LeadsNone ==
    ASSUME NEW d
    PROVE  Leads(d, <<>>, d)
<1> DEFINE g == [n \in 0 .. 0 |-> d]
<1>1. g[0] = d /\ Len(<<>>) = 0 /\ IsList(<<>>)
    BY DEF IsList
<1> HIDE DEF g
<1>2. LeadsBy(g, d, <<>>, d)
    BY <1>1 DEF LeadsBy
<1> QED BY <1>1, <1>2 DEF Leads

LEMMA LeadsOn ==
    ASSUME NEW d, NEW ps, NEW e, NEW qs, NEW f, Leads(d, ps, e), Leads(e, qs, f)
    PROVE  Leads(d, ps \o qs, f)
<1> DEFINE N == Len(ps)
           M == Len(qs)
           rs == ps \o qs
<1>1. PICK g : LeadsBy(g, d, ps, e)
    BY DEF Leads
<1>2. PICK h : LeadsBy(h, e, qs, f)
    BY DEF Leads
<1>3. /\ IsList(rs) /\ N \in Nat /\ M \in Nat /\ Len(rs) = N + M
      /\ \A n \in 1 .. N : rs[n] = ps[n]
      /\ \A n \in 1 .. M : rs[N + n] = qs[n]
    <2>1. IsList(ps) /\ IsList(qs)
        BY DEF Leads
    <2> QED BY <2>1, ListJoin
<1>4. /\ g[0] = d /\ g[N] = e
      /\ \A n \in 1 .. N : Fits(g[n - 1], ps[n]) /\ g[n] = Changed(g[n - 1], ps[n])
    BY <1>1 DEF LeadsBy
<1>5. /\ h[0] = e /\ h[M] = f
      /\ \A n \in 1 .. M : Fits(h[n - 1], qs[n]) /\ h[n] = Changed(h[n - 1], qs[n])
    BY <1>2 DEF LeadsBy
<1> HIDE DEF N, M, rs
<1> DEFINE k == [n \in 0 .. N + M |-> IF n <= N THEN g[n] ELSE h[n - N]]
<1>6. \A n \in 0 .. N : k[n] = g[n]
    BY <1>3
<1>7. \A n \in 0 .. M : k[N + n] = h[n]
    <2> SUFFICES ASSUME NEW n \in 0 .. M PROVE k[N + n] = h[n]
        OBVIOUS
    <2>1. CASE n = 0
        BY <2>1, <1>3, <1>4, <1>5
    <2>2. CASE n # 0
        <3>1. N + n \in 0 .. N + M /\ ~ (N + n <= N) /\ (N + n) - N = n
            BY <2>2, <1>3
        <3> QED BY <3>1
    <2> QED BY <2>1, <2>2
<1> HIDE DEF k
<1>8. k[0] = d /\ k[Len(rs)] = f
    <2>1. 0 \in 0 .. N /\ M \in 0 .. M
        BY <1>3
    <2> QED BY <2>1, <1>3, <1>4, <1>5, <1>6, <1>7
<1>9. ASSUME NEW n \in 1 .. N + M
      PROVE  Fits(k[n - 1], rs[n]) /\ k[n] = Changed(k[n - 1], rs[n])
    <2>1. CASE n <= N
        <3>1. n \in 1 .. N /\ n \in 0 .. N /\ n - 1 \in 0 .. N
            BY <2>1, <1>3
        <3> QED BY <3>1, <1>3, <1>4, <1>6
    <2>2. CASE ~ (n <= N)
        <3> DEFINE m == n - N
        <3>1. m \in 1 .. M /\ m \in 0 .. M /\ m - 1 \in 0 .. M /\ n = N + m /\ n - 1 = N + (m - 1)
            BY <2>2, <1>3
        <3> HIDE DEF m
        <3>2. k[n] = h[m] /\ k[n - 1] = h[m - 1] /\ rs[n] = qs[m]
            BY <3>1, <1>3, <1>7
        <3> QED BY <3>1, <3>2, <1>5
    <2> QED BY <2>1, <2>2
<1>10. LeadsBy(k, d, rs, f)
    BY <1>3, <1>8, <1>9 DEF LeadsBy
<1> QED BY <1>3, <1>10 DEF Leads, rs

(* FlattenSeq, as the recursion it is.                                      *)
Flattens(fl, ss, n) ==
    fl[0] = <<>> /\ \A i \in 1 .. n : fl[i] = fl[i - 1] \o ss[i]

LEMMA FlattenIs ==
    ASSUME NEW n \in Nat, NEW ss, Len(ss) = n, n = 0 => ss = <<>>,
           \A i \in 1 .. n : IsList(ss[i])
    PROVE  \E fl : Flattens(fl, ss, n) /\ FlattenSeq(ss) = fl[n]
<1>1. CASE n = 0
    <2> DEFINE fl == [i \in 0 .. 0 |-> <<>>]
    <2>1. FlattenSeq(ss) = <<>>
        BY <1>1 DEF FlattenSeq
    <2>2. fl[0] = <<>> /\ \A i \in 1 .. 0 : FALSE
        OBVIOUS
    <2> HIDE DEF fl
    <2>3. Flattens(fl, ss, n) /\ FlattenSeq(ss) = fl[n]
        BY <1>1, <2>1, <2>2 DEF Flattens
    <2> QED BY <2>3
<1>2. CASE n # 0
    <2> DEFINE Join(x, i) == x \o ss[i]
               Solves(f, m) == f = [i \in 1 .. m |-> IF i = 1 THEN ss[i] ELSE Join(f[i - 1], i)]
               S == {m \in Nat : \E f : Solves(f, m)}
    <2>j. FlattenSeq(ss) = (CHOOSE f : Solves(f, n))[n]
        BY <1>2 DEF FlattenSeq
    <2> HIDE DEF Join
    <2>1. \A m \in Nat : m \in S
        <3>1. 0 \in S
            <4> DEFINE f == [i \in 1 .. 0 |-> <<>>]
            <4>1. Solves(f, 0)
                OBVIOUS
            <4> HIDE DEF f, Solves
            <4> QED BY <4>1
        <3>2. ASSUME NEW m \in Nat, m \in S PROVE m + 1 \in S
            <4>1. PICK f : Solves(f, m)
                BY <3>2
            <4> DEFINE body(x) == [i \in 1 .. m + 1 |-> IF i = 1 THEN ss[i] ELSE Join(x[i - 1], i)]
                       g == body(f)
            <4>2. \A i \in 1 .. m : g[i] = f[i]
                BY <4>1
            <4>3. body(f) = body(g)
                <5>1. \A i \in 1 .. m + 1 : i # 1 => i - 1 \in 1 .. m
                    OBVIOUS
                <5> HIDE DEF g
                <5> QED BY <4>2, <5>1
            <4>4. Solves(g, m + 1)
                BY <4>3
            <4> HIDE DEF g, Solves
            <4> QED BY <4>4
        <3> HIDE DEF S
        <3> QED BY <3>1, <3>2, NatSetInduction
    <2> DEFINE f == CHOOSE x : Solves(x, n)
    <2>2. Solves(f, n)
        <3>1. \E x : Solves(x, n)
            BY <2>1
        <3> HIDE DEF Solves
        <3> QED BY <3>1
    <2>3. FlattenSeq(ss) = f[n]
        BY <2>j
    <2> HIDE DEF f
    <2>4. f[1] = ss[1] /\ \A i \in 2 .. n : f[i] = f[i - 1] \o ss[i]
        <3>1. 1 \in 1 .. n /\ \A i \in 2 .. n : i \in 1 .. n /\ i # 1
            BY <1>2
        <3>2. f[1] = ss[1] /\ \A i \in 2 .. n : f[i] = Join(f[i - 1], i)
            BY <2>2, <3>1
        <3> QED BY <3>2 DEF Join
    <2> DEFINE fl == [i \in 0 .. n |-> IF i = 0 THEN <<>> ELSE f[i]]
    <2>5. fl[0] = <<>> /\ \A i \in 1 .. n : fl[i] = f[i]
        OBVIOUS
    <2> HIDE DEF fl, Solves
    <2>6. <<>> \o ss[1] = ss[1]
        <3>1. IsList(ss[1])
            BY <1>2
        <3> QED BY <3>1, ConcatEmptySeq DEF IsList
    <2>7. ASSUME NEW i \in 1 .. n PROVE fl[i] = fl[i - 1] \o ss[i]
        <3>1. CASE i = 1
            <4>1. fl[i - 1] = <<>> /\ fl[i] = f[1] /\ ss[i] = ss[1]
                BY <3>1, <2>5
            <4> QED BY <4>1, <2>4, <2>6
        <3>2. CASE i # 1
            <4>1. i \in 2 .. n /\ i - 1 \in 1 .. n
                BY <3>2
            <4> QED BY <4>1, <2>4, <2>5
        <3> QED BY <3>1, <3>2
    <2>8. n \in 1 .. n
        BY <1>2
    <2>9. Flattens(fl, ss, n) /\ FlattenSeq(ss) = fl[n]
        BY <2>3, <2>5, <2>7, <2>8 DEF Flattens
    <2> QED BY <2>9
<1> QED BY <1>1, <1>2

LEMMA LeadsThrough ==
    ASSUME NEW n \in Nat, NEW ss, Len(ss) = n, n = 0 => ss = <<>>,
           NEW h, \A i \in 1 .. n : Leads(h[i - 1], ss[i], h[i])
    PROVE  Leads(h[0], FlattenSeq(ss), h[n])
<1>1. \A i \in 1 .. n : IsList(ss[i])
    BY DEF Leads
<1>2. PICK fl : Flattens(fl, ss, n) /\ FlattenSeq(ss) = fl[n]
    BY <1>1, FlattenIs
<1> DEFINE S == {i \in Nat : i <= n => Leads(h[0], fl[i], h[i])}
<1>3. \A i \in Nat : i \in S
    <2>1. 0 \in S
        BY <1>2, LeadsNone DEF Flattens
    <2>2. ASSUME NEW i \in Nat, i \in S PROVE i + 1 \in S
        <3> SUFFICES ASSUME i + 1 <= n PROVE Leads(h[0], fl[i + 1], h[i + 1])
            OBVIOUS
        <3> DEFINE k == i + 1
        <3>1. k \in 1 .. n /\ k - 1 = i /\ Leads(h[0], fl[i], h[i])
            BY <2>2
        <3> HIDE DEF k
        <3>2. fl[k] = fl[i] \o ss[k] /\ Leads(h[i], ss[k], h[k])
            BY <1>2, <3>1 DEF Flattens
        <3>3. Leads(h[0], fl[k], h[k])
            BY <3>1, <3>2, LeadsOn
        <3> QED BY <3>3 DEF k
    <2> HIDE DEF S
    <2> QED BY <2>1, <2>2, NatSetInduction
<1> QED BY <1>2, <1>3

(* Patches of one node that suit it one after the other.                    *)
LocallyBy(f, path, ps) ==
    \A n \in 1 .. Len(ps) :
       ps[n].path = path /\ Suits(f[n - 1], ps[n]) /\ f[n] = Patched(f[n - 1], ps[n])

LEMMA LocallyLeads ==
    ASSUME NEW d, NEW path \in Seq(Nat), HasNode(d, path), NEW ps, IsList(ps),
           NEW f, LocallyBy(f, path, ps)
    PROVE  Leads(With(d, path, f[0]), ps, With(d, path, f[Len(ps)]))
<1> DEFINE N == Len(ps)
           g == [n \in 0 .. N |-> With(d, path, f[n])]
<1>0. N \in Nat
    BY DEF IsList
<1>1. \A n \in 0 .. N : g[n] = With(d, path, f[n])
    OBVIOUS
<1> HIDE DEF g
<1>2. ASSUME NEW n \in 1 .. N
      PROVE  Fits(g[n - 1], ps[n]) /\ g[n] = Changed(g[n - 1], ps[n])
    <2>1. n \in 0 .. N /\ n - 1 \in 0 .. N
        BY <1>0
    <2>2. /\ ps[n].path = path /\ Suits(f[n - 1], ps[n])
          /\ f[n] = Patched(f[n - 1], ps[n])
        BY DEF LocallyBy
    <2> DEFINE e == With(d, path, f[n - 1])
    <2>3. HasNode(e, path) /\ NodeAt(e, path) = f[n - 1]
        BY WithNode
    <2>4. \A m : With(e, path, m) = With(d, path, m)
        BY WithTwice
    <2> HIDE DEF e
    <2>5. Fits(e, ps[n])
        BY <2>2, <2>3 DEF Fits
    <2>6. Changed(e, ps[n]) = With(d, path, f[n])
        BY <2>2, <2>3, <2>4 DEF Changed
    <2>7. g[n - 1] = e /\ g[n] = With(d, path, f[n])
        BY <1>1, <2>1 DEF e
    <2> QED BY <2>5, <2>6, <2>7
<1>3. 0 \in 0 .. N /\ N \in 0 .. N
    BY <1>0
<1>4. LeadsBy(g, With(d, path, f[0]), ps, With(d, path, f[N]))
    BY <1>1, <1>2, <1>3 DEF LeadsBy
<1> QED BY <1>4 DEF Leads

-----------------------------------------------------------------------------
(* A DOM node, by its parts, and what a patch of it does.                   *)
Dom(t, at, x, ks) == [tag |-> t, attrs |-> at, text |-> x, kids |-> ks]

LEMMA DomParts ==
    \A t, at, x, ks :
       /\ Dom(t, at, x, ks).tag = t /\ Dom(t, at, x, ks).attrs = at
       /\ Dom(t, at, x, ks).text = x /\ Dom(t, at, x, ks).kids = ks
       /\ \A q : Holding(Dom(t, at, x, ks), q) = Dom(t, at, x, q)
BY DEF Dom, Holding

LEMMA SetAttrPatches ==
    \A t, at, x, ks, path, n, v : t # TextTag =>
       /\ SetAttr(path, n, v).path = path
       /\ Suits(Dom(t, at, x, ks), SetAttr(path, n, v))
       /\ Patched(Dom(t, at, x, ks), SetAttr(path, n, v)) = Dom(t, Updated(at, n, v), x, ks)
BY DEF Dom, SetAttr, Suits, Patched, IsText

LEMMA RemoveAttrPatches ==
    \A t, at, x, ks, path, n : t # TextTag /\ n \in DOMAIN at =>
       /\ RemoveAttr(path, n).path = path
       /\ Suits(Dom(t, at, x, ks), RemoveAttr(path, n))
       /\ Patched(Dom(t, at, x, ks), RemoveAttr(path, n)) = Dom(t, Without(at, n), x, ks)
BY DEF Dom, RemoveAttr, Suits, Patched, IsText

LEMMA SetToSeqIs ==
    ASSUME NEW S, IsFiniteSet(S)
    PROVE  /\ SetToSeq(S) \in Seq(S)
           /\ \A i, j \in 1 .. Len(SetToSeq(S)) : SetToSeq(S)[i] = SetToSeq(S)[j] => i = j
           /\ \A x \in S : \E i \in 1 .. Len(SetToSeq(S)) : SetToSeq(S)[i] = x
<1> DEFINE n == Cardinality(S)
           q == SetToSeq(S)
<1>1. n \in Nat /\ ExistsBijection(1 .. n, S)
    BY FS_CardinalityType
<1>2. \E f \in [1 .. n -> S] : IsInjective(f)
    BY <1>1 DEF ExistsBijection, Bijection, Injection
<1>3. q \in [1 .. n -> S] /\ IsInjective(q)
    BY <1>2 DEF SetToSeq
<1>4. IsFiniteSet(1 .. n) /\ Cardinality(1 .. n) = n
    BY <1>1, FS_Interval
<1> HIDE DEF n, q
<1>5. q \in Surjection(1 .. n, S)
    <2>1. q \in Injection(1 .. n, S)
        BY <1>3 DEF Injection
    <2>2. Cardinality(1 .. n) = Cardinality(S)
        BY <1>4 DEF n
    <2> QED BY <2>1, <2>2, FS_Injection
<1>6. \A x \in S : \E i \in 1 .. n : q[i] = x
    BY <1>5 DEF Surjection
<1>7. q \in Seq(S) /\ Len(q) = n
    BY <1>1, <1>3
<1>8. \A i, j \in 1 .. n : q[i] = q[j] => i = j
    BY <1>3 DEF IsInjective
<1> QED BY <1>6, <1>7, <1>8 DEF q

LEMMA FunctionIsList ==
    ASSUME NEW n \in Nat, NEW f, f = [i \in 1 .. n |-> f[i]]
    PROVE  IsList(f)
<1> DEFINE T == {f[i] : i \in DOMAIN f}
<1>1. DOMAIN f = 1 .. n
    OBVIOUS
<1>2. \A i \in 1 .. n : f[i] \in T
    BY <1>1
<1> HIDE DEF T
<1>3. f \in [1 .. n -> T]
    BY <1>2
<1>4. f \in Seq(T)
    BY <1>3, SeqDef
<1> QED BY <1>4 DEF IsList, T

(* What diff_attrs emits, and the attributes it leaves.                     *)
SetEach(path, q, b) == [i \in DOMAIN q |-> SetAttr(path, q[i], b[q[i]])]
RemoveEach(path, q) == [i \in DOMAIN q |-> RemoveAttr(path, q[i])]
Overlaid(a, b, S) == [y \in DOMAIN a \cup S |-> IF y \in S THEN b[y] ELSE a[y]]
Stripped(a, S) == [y \in DOMAIN a \ S |-> a[y]]

(* diff_attrs: the attributes that are set, one after the other.            *)
LEMMA SetsLead ==
    ASSUME NEW d, NEW path \in Seq(Nat), HasNode(d, path),
           NEW t, t # TextTag, NEW x, NEW ks, NEW a, NEW b, a = [y \in DOMAIN a |-> a[y]],
           NEW S, NEW q \in Seq(S), \A y \in S : \E i \in 1 .. Len(q) : q[i] = y
    PROVE  Leads(With(d, path, Dom(t, a, x, ks)),
                 SetEach(path, q, b),
                 With(d, path, Dom(t, Overlaid(a, b, S), x, ks)))
<1> DEFINE N == Len(q)
           ps == [i \in DOMAIN q |-> SetAttr(path, q[i], b[q[i]])]
           Done(k) == {q[i] : i \in 1 .. k}
           At(k) == [y \in DOMAIN a \cup Done(k) |-> IF y \in Done(k) THEN b[y] ELSE a[y]]
           f == [k \in 0 .. N |-> Dom(t, At(k), x, ks)]
<1>1. N \in Nat /\ DOMAIN q = 1 .. N
    OBVIOUS
<1>2. IsList(ps) /\ Len(ps) = N /\ \A i \in 1 .. N : ps[i] = SetAttr(path, q[i], b[q[i]])
    <2>1. ps = [i \in 1 .. N |-> ps[i]] /\ \A i \in 1 .. N : ps[i] = SetAttr(path, q[i], b[q[i]])
        BY <1>1
    <2> HIDE DEF ps, N
    <2>3. Len(ps) = N
        BY <1>1, <2>1, LenOfFunction
    <2>4. IsList(ps)
        BY <1>1, <2>1, FunctionIsList
    <2> QED BY <2>1, <2>3, <2>4
<1>3. At(0) = a
    <2>1. Done(0) = {}
        OBVIOUS
    <2> HIDE DEF Done
    <2> QED BY <2>1
<1>4. At(N) = [y \in DOMAIN a \cup S |-> IF y \in S THEN b[y] ELSE a[y]]
    <2>1. Done(N) = S
        BY <1>1
    <2> HIDE DEF Done
    <2> QED BY <2>1
<1>5. ASSUME NEW k \in 1 .. N PROVE Updated(At(k - 1), q[k], b[q[k]]) = At(k)
    <2>1. Done(k) = Done(k - 1) \cup {q[k]}
        <3>1. 1 .. k = (1 .. k - 1) \cup {k}
            BY <1>1
        <3> QED BY <3>1
    <2> HIDE DEF Done
    <2> DEFINE E == Done(k - 1)
               F == Done(k)
               z == q[k]
               g == At(k - 1)
    <2>2. g = [y \in DOMAIN a \cup E |-> IF y \in E THEN b[y] ELSE a[y]]
        OBVIOUS
    <2>3. F = E \cup {z}
        BY <2>1
    <2> HIDE DEF g, E, F, z
    <2>4. DOMAIN g = DOMAIN a \cup E /\ \A y \in DOMAIN g : g[y] = IF y \in E THEN b[y] ELSE a[y]
        BY <2>2
    <2>5. Updated(g, z, b[z]) = [y \in (DOMAIN a \cup E) \cup {z} |-> IF y = z THEN b[z] ELSE g[y]]
        BY <2>4 DEF Updated
    <2>6. (DOMAIN a \cup E) \cup {z} = DOMAIN a \cup F
        BY <2>3
    <2>7. \A y \in DOMAIN a \cup F :
             (IF y = z THEN b[z] ELSE g[y]) = (IF y \in F THEN b[y] ELSE a[y])
        BY <2>3, <2>4
    <2>8. Updated(g, z, b[z]) = [y \in DOMAIN a \cup F |-> IF y \in F THEN b[y] ELSE a[y]]
        BY <2>5, <2>6, <2>7
    <2> QED BY <2>8 DEF g, z, F
<1> HIDE DEF At, ps
<1>6. ASSUME NEW n \in 1 .. N
      PROVE  ps[n].path = path /\ Suits(f[n - 1], ps[n]) /\ f[n] = Patched(f[n - 1], ps[n])
    <2>1. f[n] = Dom(t, At(n), x, ks) /\ f[n - 1] = Dom(t, At(n - 1), x, ks)
        BY <1>1
    <2> HIDE DEF f
    <2> QED BY <1>2, <1>5, <2>1, SetAttrPatches
<1>7. f[0] = Dom(t, a, x, ks) /\ f[N] = Dom(t, At(N), x, ks)
    BY <1>1, <1>3
<1> HIDE DEF f
<1>8. LocallyBy(f, path, ps)
    BY <1>2, <1>6 DEF LocallyBy
<1>9. Leads(With(d, path, f[0]), ps, With(d, path, f[Len(ps)]))
    BY <1>2, <1>8, LocallyLeads
<1> QED BY <1>2, <1>4, <1>7, <1>9 DEF ps, SetEach, Overlaid

(* And those that are removed, each still being there.                      *)
LEMMA RemovalsLead ==
    ASSUME NEW d, NEW path \in Seq(Nat), HasNode(d, path),
           NEW t, t # TextTag, NEW x, NEW ks, NEW a, a = [y \in DOMAIN a |-> a[y]],
           NEW S \in SUBSET DOMAIN a, NEW q \in Seq(S),
           \A i, j \in 1 .. Len(q) : q[i] = q[j] => i = j,
           \A y \in S : \E i \in 1 .. Len(q) : q[i] = y
    PROVE  Leads(With(d, path, Dom(t, a, x, ks)),
                 RemoveEach(path, q),
                 With(d, path, Dom(t, Stripped(a, S), x, ks)))
<1> DEFINE N == Len(q)
           ps == [i \in DOMAIN q |-> RemoveAttr(path, q[i])]
           Done(k) == {q[i] : i \in 1 .. k}
           At(k) == [y \in DOMAIN a \ Done(k) |-> a[y]]
           f == [k \in 0 .. N |-> Dom(t, At(k), x, ks)]
<1>1. N \in Nat /\ DOMAIN q = 1 .. N /\ \A i \in 1 .. N : q[i] \in DOMAIN a
    OBVIOUS
<1>2. IsList(ps) /\ Len(ps) = N /\ \A i \in 1 .. N : ps[i] = RemoveAttr(path, q[i])
    <2>1. ps = [i \in 1 .. N |-> ps[i]] /\ \A i \in 1 .. N : ps[i] = RemoveAttr(path, q[i])
        BY <1>1
    <2> HIDE DEF ps, N
    <2>3. Len(ps) = N
        BY <1>1, <2>1, LenOfFunction
    <2>4. IsList(ps)
        BY <1>1, <2>1, FunctionIsList
    <2> QED BY <2>1, <2>3, <2>4
<1>3. At(0) = a
    <2>1. Done(0) = {}
        OBVIOUS
    <2> HIDE DEF Done
    <2> QED BY <2>1
<1>4. At(N) = [y \in DOMAIN a \ S |-> a[y]]
    <2>1. Done(N) = S
        BY <1>1
    <2> HIDE DEF Done
    <2> QED BY <2>1
<1>5. ASSUME NEW k \in 1 .. N
      PROVE  q[k] \in DOMAIN At(k - 1) /\ Without(At(k - 1), q[k]) = At(k)
    <2>1. Done(k) = Done(k - 1) \cup {q[k]}
        <3>1. 1 .. k = (1 .. k - 1) \cup {k}
            BY <1>1
        <3> QED BY <3>1
    <2>2. q[k] \notin Done(k - 1)
        BY <1>1
    <2> HIDE DEF Done
    <2> DEFINE E == Done(k - 1)
               F == Done(k)
               z == q[k]
               g == At(k - 1)
    <2>3. g = [y \in DOMAIN a \ E |-> a[y]] /\ z \in DOMAIN a /\ z \notin E
        BY <1>1, <2>2
    <2>4. F = E \cup {z}
        BY <2>1
    <2> HIDE DEF g, E, F, z
    <2>5. DOMAIN g = DOMAIN a \ E /\ \A y \in DOMAIN g : g[y] = a[y]
        BY <2>3
    <2>6. Without(g, z) = [y \in (DOMAIN a \ E) \ {z} |-> g[y]]
        BY <2>5 DEF Without
    <2>7. (DOMAIN a \ E) \ {z} = DOMAIN a \ F
        BY <2>4
    <2>8. Without(g, z) = [y \in DOMAIN a \ F |-> a[y]]
        BY <2>4, <2>5, <2>6, <2>7
    <2>9. z \in DOMAIN g
        BY <2>3, <2>5
    <2> QED BY <2>8, <2>9 DEF g, z, F
<1> HIDE DEF At, ps
<1>6. ASSUME NEW n \in 1 .. N
      PROVE  ps[n].path = path /\ Suits(f[n - 1], ps[n]) /\ f[n] = Patched(f[n - 1], ps[n])
    <2>1. f[n] = Dom(t, At(n), x, ks) /\ f[n - 1] = Dom(t, At(n - 1), x, ks)
        BY <1>1
    <2> HIDE DEF f
    <2> QED BY <1>2, <1>5, <2>1, RemoveAttrPatches
<1>7. f[0] = Dom(t, a, x, ks) /\ f[N] = Dom(t, At(N), x, ks)
    BY <1>1, <1>3
<1> HIDE DEF f
<1>8. LocallyBy(f, path, ps)
    BY <1>2, <1>6 DEF LocallyBy
<1>9. Leads(With(d, path, f[0]), ps, With(d, path, f[Len(ps)]))
    BY <1>2, <1>8, LocallyLeads
<1> QED BY <1>2, <1>4, <1>7, <1>9 DEF ps, RemoveEach, Stripped

LEMMA OneLeads ==
    ASSUME NEW d, NEW path \in Seq(Nat), HasNode(d, path), NEW n, NEW p,
           p.path = path, Suits(n, p)
    PROVE  Leads(With(d, path, n), <<p>>, With(d, path, Patched(n, p)))
<1> DEFINE f == [k \in 0 .. 1 |-> IF k = 0 THEN n ELSE Patched(n, p)]
           ps == <<p>>
<1>1. f[0] = n /\ f[1] = Patched(n, p)
    OBVIOUS
<1>2. Len(ps) = 1 /\ ps[1] = p /\ IsList(ps)
    <2>1. ps \in Seq({p})
        OBVIOUS
    <2>2. IsList(ps)
        <3> HIDE DEF ps
        <3> QED BY <2>1, ListOf
    <2> QED BY <2>2
<1> HIDE DEF f, ps
<1>3. \A k \in 1 .. 1 : k = 1 /\ k - 1 = 0
    OBVIOUS
<1>4. LocallyBy(f, path, ps)
    BY <1>1, <1>2, <1>3 DEF LocallyBy
<1>5. Leads(With(d, path, f[0]), ps, With(d, path, f[Len(ps)]))
    BY <1>2, <1>4, LocallyLeads
<1> QED BY <1>1, <1>2, <1>5 DEF ps

(* The list ks with y at j.                                                 *)
Swapped(ks, j, y) == [ks EXCEPT ![j] = y]

LEMMA PutDom ==
    \A t, at, x, ks, j, y : Put(Dom(t, at, x, ks), j, y) = Dom(t, at, x, Swapped(ks, j, y))
BY DEF Put, Dom, Holding, Swapped

(* Parts of a path, behind its first o steps.                               *)
LEMMA PartOfPath ==
    ASSUME NEW p \in Seq(Nat), NEW o \in Nat, NEW i \in o .. Len(p)
    PROVE  /\ SubSeq(p, o + 1, i) \in Seq(Nat) /\ Len(SubSeq(p, o + 1, i)) = i - o
           /\ \A k \in 1 .. i - o : SubSeq(p, o + 1, i)[k] = p[o + k]
<1>1. i \in Nat /\ i <= Len(p) /\ o <= i /\ Len(p) \in Nat
    OBVIOUS
<1>2. SubSeq(p, o + 1, i) = [k \in 1 .. i - o |-> p[o + k]]
    <2>1. SubSeq(p, o + 1, i) = [k \in 1 .. 1 + i - (o + 1) |-> p[k + (o + 1) - 1]]
        OBVIOUS
    <2>2. 1 + i - (o + 1) = i - o
        BY <1>1
    <2>3. \A k \in 1 .. i - o : k + (o + 1) - 1 = o + k
        BY <1>1
    <2> QED BY <2>1, <2>2, <2>3
<1>3. i - o \in Nat
    BY <1>1
<1>4. \A k \in 1 .. i - o : p[o + k] \in Nat
    <2>1. \A k \in 1 .. i - o : o + k \in 1 .. Len(p)
        BY <1>1
    <2> QED BY <2>1
<1>5. SubSeq(p, o + 1, i) \in [1 .. i - o -> Nat]
    BY <1>2, <1>4
<1> QED BY <1>2, <1>3, <1>5, LenOfFunction

(* The nodes on the way to the end of a path.                               *)
LEMMA OnTheWay ==
    ASSUME NEW v, NEW p \in Seq(Nat), HasNode(v, p), NEW k \in 0 .. Len(p)
    PROVE  HasNode(v, SubSeq(p, 1, k)) /\ NodeAt(v, SubSeq(p, 1, k)) = Way(v, p)[k]
<1> DEFINE q == SubSeq(p, 1, k)
           w == Way(v, p)
           x == Way(v, q)
           N == Len(p)
<1>1. q \in Seq(Nat) /\ Len(q) = k /\ k \in Nat /\ N \in Nat /\ k <= N
    <2>1. 0 \in Nat /\ k \in 0 .. N /\ 0 + 1 = 1 /\ k - 0 = k
        OBVIOUS
    <2>2. SubSeq(p, 0 + 1, k) \in Seq(Nat) /\ Len(SubSeq(p, 0 + 1, k)) = k - 0
        BY <2>1, PartOfPath
    <2> QED BY <2>1, <2>2
<1>2. \A i \in 1 .. k : q[i] = p[i]
    BY <1>1
<1>3. w[0] = v /\ \A i \in 1 .. N : w[i] = w[i - 1].kids[p[i]]
    BY WayIs
<1>4. x[0] = v /\ \A i \in 1 .. k : x[i] = x[i - 1].kids[q[i]]
    <2>0. q \in Seq(Nat)
        BY <1>1
    <2> HIDE DEF q
    <2>1. x[0] = v /\ \A i \in 1 .. Len(q) : x[i] = x[i - 1].kids[q[i]]
        BY <2>0, WayIs
    <2> QED BY <1>1, <2>1
<1>5. \A i \in 1 .. N : p[i] \in DOMAIN w[i - 1].kids
    BY DEF HasNode
<1> HIDE DEF q, w, x, N
<1> DEFINE S == {i \in Nat : i <= k => x[i] = w[i]}
<1>6. \A i \in Nat : i \in S
    <2>1. 0 \in S
        BY <1>3, <1>4
    <2>2. ASSUME NEW i \in Nat, i \in S PROVE i + 1 \in S
        <3> SUFFICES ASSUME i + 1 <= k PROVE x[i + 1] = w[i + 1]
            OBVIOUS
        <3> DEFINE j == i + 1
        <3>1. j \in 1 .. k /\ j \in 1 .. N /\ j - 1 = i /\ i <= k
            BY <1>1
        <3>2. x[i] = w[i]
            BY <2>2, <3>1
        <3> HIDE DEF j
        <3>3. x[j] = x[i].kids[q[j]] /\ w[j] = w[i].kids[p[j]] /\ q[j] = p[j]
            BY <1>2, <1>3, <1>4, <3>1
        <3> QED BY <3>2, <3>3 DEF j
    <2> HIDE DEF S
    <2> QED BY <2>1, <2>2, NatSetInduction
<1>7. \A i \in 0 .. k : x[i] = w[i]
    BY <1>6
<1> HIDE DEF S
<1>8. ASSUME NEW i \in 1 .. k PROVE q[i] \in DOMAIN x[i - 1].kids
    <2>1. i \in 1 .. N /\ i - 1 \in 0 .. k
        BY <1>1
    <2> QED BY <1>2, <1>5, <1>7, <2>1
<1>9. HasNode(v, q)
    BY <1>1, <1>8 DEF HasNode, x
<1>10. NodeAt(v, q) = w[k]
    BY <1>1, <1>7 DEF NodeAt, x
<1> QED BY <1>9, <1>10 DEF q, w
=============================================================================
