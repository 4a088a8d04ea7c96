--------------------------- MODULE LiveTurnProofs ----------------------------
(***************************************************************************)
(* What crosses the socket of a live page arrives as it was sent.           *)
(*                                                                         *)
(* What the page says: vu and str of zumar-live.js and of frame.rs for      *)
(* numbers and strings of any length, and then dispatch, resolve and notify *)
(* for any event, response and tick.  What the program sends: every method  *)
(* of the Reader of zumar-wire.js for what wire.rs has written, by          *)
(* induction over the tree, and so decodeInit, decodeUpdate and             *)
(* peekEventNames.  And then a turn of the two together: the patches are    *)
(* applied as diff made them, and an event is answered by the listener it   *)
(* belongs to.                                                              *)
(***************************************************************************)
EXTENDS LiveTurn, TreeDiffProofs

-----------------------------------------------------------------------------
(* A number is what its last digit says, and a smaller number.              *)
LEMMA Digits ==
    ASSUME NEW n \in Nat
    PROVE  /\ n \div Radix \in Nat /\ n % Radix \in 0 .. Radix - 1
           /\ n = (n % Radix) + Radix * (n \div Radix)
           /\ n >= Radix => n \div Radix < n
<1>1. Radix \in Nat /\ Radix > 1
    BY CodecAssumption
<1>2. n \div Radix \in Nat /\ n % Radix \in 0 .. Radix - 1 /\ n = (n % Radix) + Radix * (n \div Radix)
    BY <1>1
<1>3. ASSUME n >= Radix PROVE n \div Radix < n
    <2> DEFINE q == n \div Radix
               d == n % Radix
    <2>1. q \in Nat /\ d \in Nat /\ n = d + Radix * q
        BY <1>1, <1>2
    <2> HIDE DEF q, d
    <2>2. q = 0 => q < n
        BY <1>1, <1>3
    <2>3. q > 0 => Radix * q >= 2 * q
        BY <1>1, <2>1
    <2>4. q > 0 => Radix * q > q
        BY <2>1, <2>3, <1>1
    <2>5. Radix * q \in Nat
        BY <1>1, <2>1
    <2>6. q < n
        BY <2>1, <2>2, <2>4, <2>5
    <2> QED BY <2>6 DEF q
<1> QED BY <1>2, <1>3

(* vu, as the recursion it is.                                              *)
LEMMA VarintIs ==
    \A n \in Nat : Varint[n] = IF n < Radix THEN <<n>>
                               ELSE <<Radix + (n % Radix)>> \o Varint[n \div Radix]
<1> DEFINE Next(f, i) == IF i < Radix THEN <<i>> ELSE <<Radix + (i % Radix)>> \o f[i \div Radix]
           Solves(f, n) == f = [i \in 0 .. n |-> Next(f, i)]
           S == {n \in Nat : \E f : Solves(f, n)}
           F == [n \in Nat |-> CHOOSE f : Solves(f, n)]
           G == [i \in Nat |-> F[i][i]]
<1>h. \A i \in Nat : ~ (i < Radix) => i \div Radix \in 0 .. i - 1
    <2> SUFFICES ASSUME NEW i \in Nat, ~ (i < Radix) PROVE i \div Radix \in 0 .. i - 1
        OBVIOUS
    <2>1. i \div Radix \in Nat /\ i \div Radix < i
        BY Digits, CodecAssumption
    <2> QED BY <2>1
<1>x. ASSUME NEW f, NEW g, NEW i \in Nat, ~ (i < Radix) => f[i \div Radix] = g[i \div Radix]
      PROVE  Next(f, i) = Next(g, i)
    BY <1>x
<1>1. \A n \in Nat : n \in S
    <2>1. ASSUME NEW n \in Nat, NEW f, NEW g, g = [i \in 0 .. n |-> Next(f, i)],
                 \A i \in 0 .. n - 1 : g[i] = f[i]
          PROVE  Solves(g, n)
        <3>1. ASSUME NEW i \in 0 .. n PROVE Next(f, i) = Next(g, i)
            <4>1. ASSUME ~ (i < Radix) PROVE f[i \div Radix] = g[i \div Radix]
                <5>1. i \div Radix \in 0 .. n - 1
                    BY <4>1, <1>h
                <5> QED BY <5>1, <2>1
            <4> HIDE DEF Next
            <4> QED BY <4>1, <1>x
        <3> HIDE DEF Next
        <3>2. [i \in 0 .. n |-> Next(f, i)] = [i \in 0 .. n |-> Next(g, i)]
            BY <3>1
        <3> QED BY <2>1, <3>2
    <2>2. 0 \in S
        <3> DEFINE g == [i \in 0 .. 0 |-> Next(<<>>, i)]
        <3>1. Solves(g, 0)
            <4>1. g = [i \in 0 .. 0 |-> Next(<<>>, i)] /\ \A i \in 0 .. 0 - 1 : g[i] = <<>>[i]
                OBVIOUS
            <4> HIDE DEF g, Solves
            <4> QED BY <2>1, <4>1
        <3> HIDE DEF g, Solves
        <3> QED BY <3>1
    <2>3. ASSUME NEW n \in Nat, n \in S PROVE n + 1 \in S
        <3>1. PICK f : Solves(f, n)
            BY <2>3
        <3> DEFINE m == n + 1
                   g == [i \in 0 .. m |-> Next(f, i)]
        <3>2. \A i \in 0 .. n : g[i] = f[i]
            <4>1. \A i \in 0 .. n : f[i] = Next(f, i)
                BY <3>1
            <4> HIDE DEF Next
            <4> QED BY <4>1
        <3>3. m \in Nat /\ m - 1 = n
            OBVIOUS
        <3>4. Solves(g, m)
            <4>1. g = [i \in 0 .. m |-> Next(f, i)] /\ \A i \in 0 .. m - 1 : g[i] = f[i]
                BY <3>2, <3>3
            <4> HIDE DEF g, Solves, m
            <4> QED BY <2>1, <3>3, <4>1
        <3> HIDE DEF g, Solves
        <3> QED BY <3>4
    <2> HIDE DEF S
    <2> QED BY <2>2, <2>3, NatSetInduction
<1>2. \A n \in Nat : \A i \in 0 .. n : F[n][i] = Next(F[n], i)
    <2> SUFFICES ASSUME NEW n \in Nat, NEW i \in 0 .. n PROVE F[n][i] = Next(F[n], i)
        OBVIOUS
    <2>1. Solves(F[n], n)
        BY <1>1
    <2> HIDE DEF F, Next
    <2> QED BY <2>1
<1> HIDE DEF F
<1> DEFINE Same == {i \in Nat : \A n, m \in Nat : i \in 0 .. n /\ i \in 0 .. m => F[n][i] = F[m][i]}
<1>3. \A i \in Nat : i \in Same
    <2>1. ASSUME NEW i \in Nat, \A j \in Nat : j < i => j \in Same
          PROVE  i \in Same
        <3> SUFFICES ASSUME NEW n \in Nat, NEW m \in Nat, i \in 0 .. n, i \in 0 .. m
                     PROVE  F[n][i] = F[m][i]
            OBVIOUS
        <3>1. F[n][i] = Next(F[n], i) /\ F[m][i] = Next(F[m], i)
            BY <1>2
        <3>2. ASSUME ~ (i < Radix) PROVE F[n][i \div Radix] = F[m][i \div Radix]
            <4>1. i \div Radix \in 0 .. i - 1
                BY <3>2, <1>h
            <4>2. i \div Radix \in Same /\ i \div Radix \in 0 .. n /\ i \div Radix \in 0 .. m
                BY <4>1, <2>1
            <4> QED BY <4>2
        <3> HIDE DEF Next
        <3>3. Next(F[n], i) = Next(F[m], i)
            BY <3>2, <1>x
        <3> QED BY <3>1, <3>3
    <2> HIDE DEF Same
    <2> QED BY <2>1, StrongSetInduction
<1>4. \A i \in Nat : G[i] = Next(G, i)
    <2> SUFFICES ASSUME NEW i \in Nat PROVE G[i] = Next(G, i)
        OBVIOUS
    <2>1. F[i][i] = Next(F[i], i) /\ G[i] = F[i][i]
        BY <1>2
    <2>2. ASSUME ~ (i < Radix) PROVE F[i][i \div Radix] = G[i \div Radix]
        <3>1. i \div Radix \in 0 .. i - 1
            BY <2>2, <1>h
        <3>2. i \div Radix \in Same
            BY <3>1, <1>3
        <3> QED BY <3>1, <3>2
    <2> HIDE DEF G, Next
    <2>3. Next(F[i], i) = Next(G, i)
        BY <2>2, <1>x
    <2> QED BY <2>1, <2>3
<1>5. G = [i \in Nat |-> Next(G, i)]
    <2> HIDE DEF Next
    <2> QED BY <1>4
<1> HIDE DEF G
<1>6. Varint = CHOOSE f : f = [i \in Nat |-> Next(f, i)]
    BY DEF Varint
<1>7. Varint = [i \in Nat |-> Next(Varint, i)]
    <2> HIDE DEF Next
    <2> QED BY <1>5, <1>6
<1>8. \A n \in Nat : Varint[n] = Next(Varint, n)
    <2> HIDE DEF Next
    <2> QED BY <1>7
<1> QED BY <1>8

(* What a byte gives to the number.                                         *)
LEMMA DigitOf ==
    ASSUME NEW d \in 0 .. Radix - 1
    PROVE  d % Radix = d /\ (Radix + d) % Radix = d
<1>1. Radix \in Nat /\ Radix > 1
    BY CodecAssumption
<1>2. ASSUME NEW q \in Int, NEW m \in 0 .. Radix - 1, d = m + Radix * q
      PROVE  m = d
    <2>1. q >= 1 => Radix * q >= Radix
        BY <1>1
    <2>2. q <= -1 => Radix * q <= - Radix
        BY <1>1
    <2>3. q = 0
        BY <1>1, <1>2, <2>1, <2>2
    <2> QED BY <1>1, <1>2, <2>3
<1>3. d % Radix = d
    <2>1. d % Radix \in 0 .. Radix - 1 /\ d \div Radix \in Int /\ d = (d % Radix) + Radix * (d \div Radix)
        BY <1>1
    <2> QED BY <1>2, <2>1
<1>4. (Radix + d) % Radix = d
    <2> DEFINE n == Radix + d
               m == n % Radix
               p == n \div Radix
               q == p - 1
    <2>1. n \in Nat
        BY <1>1
    <2> HIDE DEF n
    <2>2. m \in 0 .. Radix - 1 /\ p \in Int /\ n = m + Radix * p
        BY <1>1, <2>1
    <2> HIDE DEF m, p
    <2>3. Radix * p = Radix * q + Radix
        BY <1>1, <2>2
    <2>4. q \in Int /\ d = m + Radix * q
        BY <1>1, <2>2, <2>3 DEF n
    <2>5. m = d
        BY <1>2, <2>2, <2>4
    <2> QED BY <2>5 DEF m, n
<1> QED BY <1>3, <1>4

(* The loop of vu() in the readers.                                         *)
Sums(read, bytes) ==
    /\ read[0] = [n |-> 0, shift |-> 1]
    /\ \A k \in 1 .. Len(bytes) :
          read[k] = [n     |-> read[k - 1].n + (bytes[k] % Radix) * read[k - 1].shift,
                     shift |-> read[k - 1].shift * Radix]

(* The number that the loop has added up at the end.                       *)
LEMMA NumberIs ==
    ASSUME NEW bytes \in Seq(Nat)
    PROVE  \E read : Sums(read, bytes) /\ NumberOf(bytes) = read[Len(bytes)].n
<1> DEFINE N == Len(bytes)
           zero == [n |-> 0, shift |-> 1]
           Next(x, k) == [n |-> x.n + (bytes[k] % Radix) * x.shift, shift |-> x.shift * Radix]
           Solves(f, n) == f = [k \in 0 .. n |-> IF k = 0 THEN zero ELSE Next(f[k - 1], k)]
           S == {n \in Nat : \E f : Solves(f, n)}
           w == CHOOSE f : Solves(f, N)
<1>1. NumberOf(bytes) = w[N].n
    BY DEF NumberOf
<1>3. N \in Nat
    OBVIOUS
<1>z. zero = [n |-> 0, shift |-> 1]
    OBVIOUS
<1> HIDE DEF Next, zero
<1>2. \A n \in Nat : n \in S
    <2>1. 0 \in S
        <3>1. Solves([k \in 0 .. 0 |-> zero], 0)
            OBVIOUS
        <3> QED BY <3>1
    <2>2. ASSUME NEW n \in Nat, n \in S PROVE n + 1 \in S
        <3>1. PICK f : Solves(f, n)
            BY <2>2
        <3> DEFINE body(x) == [k \in 0 .. n + 1 |-> IF k = 0 THEN zero ELSE Next(x[k - 1], k)]
                   g == body(f)
        <3>2. \A k \in 0 .. n : g[k] = f[k]
            BY <3>1
        <3>3. body(f) = body(g)
            <4> HIDE DEF g
            <4>1. ASSUME NEW k \in 0 .. n + 1
                  PROVE  (IF k = 0 THEN zero ELSE Next(f[k - 1], k))
                           = (IF k = 0 THEN zero ELSE Next(g[k - 1], k))
                <5>1. CASE k = 0
                    BY <5>1
                <5>2. CASE k # 0
                    <6>1. k - 1 \in 0 .. n
                        BY <5>2
                    <6>2. f[k - 1] = g[k - 1]
                        BY <6>1, <3>2
                    <6> QED BY <6>2
                <5> QED BY <5>1, <5>2
            <4> QED BY <4>1
        <3>4. Solves(g, n + 1)
            BY <3>3
        <3> HIDE DEF g, Solves
        <3> QED BY <3>4
    <2> HIDE DEF S
    <2> QED BY <2>1, <2>2, NatSetInduction
<1>4. Solves(w, N)
    <2>1. \E f : Solves(f, N)
        BY <1>2, <1>3
    <2> HIDE DEF Solves
    <2> QED BY <2>1
<1> HIDE DEF w, N
<1>5. w[0] = zero /\ \A k \in 1 .. N : w[k] = Next(w[k - 1], k)
    BY <1>3, <1>4
<1>6. Sums(w, bytes)
    BY <1>5, <1>z DEF Sums, N, Next
<1> QED BY <1>1, <1>6 DEF N

(* One byte more in front.                                                  *)
LEMMA NumberBehind ==
    ASSUME NEW x \in Nat, NEW s \in Seq(Nat)
    PROVE  /\ NumberOf(s) \in Nat
           /\ NumberOf(<<x>> \o s) = (x % Radix) + Radix * NumberOf(s)
<1> DEFINE b == <<x>> \o s
           N == Len(s)
           d == x % Radix
<1>1. /\ b \in Seq(Nat) /\ Len(b) = N + 1 /\ N \in Nat /\ b[1] = x
      /\ \A k \in 1 .. N : b[k + 1] = s[k]
    OBVIOUS
<1>r. Radix \in Nat /\ Radix > 1 /\ d \in Nat
    BY CodecAssumption
<1> HIDE DEF b
<1>2. PICK q : Sums(q, s) /\ NumberOf(s) = q[N].n
    BY NumberIs
<1>3. PICK r : Sums(r, b) /\ NumberOf(b) = r[Len(b)].n
    BY <1>1, NumberIs
<1> DEFINE Fine(k) == /\ q[k].n \in Nat /\ q[k].shift \in Nat
                      /\ r[k + 1].n = d + Radix * q[k].n
                      /\ r[k + 1].shift = Radix * q[k].shift
           S == {k \in Nat : k <= N => Fine(k)}
<1>4. /\ q[0].n = 0 /\ q[0].shift = 1 /\ r[0].n = 0 /\ r[0].shift = 1
      /\ \A k \in 1 .. N : /\ q[k].n = q[k - 1].n + (s[k] % Radix) * q[k - 1].shift
                           /\ q[k].shift = q[k - 1].shift * Radix
      /\ \A k \in 1 .. N + 1 : /\ r[k].n = r[k - 1].n + (b[k] % Radix) * r[k - 1].shift
                               /\ r[k].shift = r[k - 1].shift * Radix
    <2>1. /\ q[0] = [n |-> 0, shift |-> 1]
          /\ \A k \in 1 .. N :
                q[k] = [n     |-> q[k - 1].n + (s[k] % Radix) * q[k - 1].shift,
                        shift |-> q[k - 1].shift * Radix]
        BY <1>2 DEF Sums
    <2>2. /\ r[0] = [n |-> 0, shift |-> 1]
          /\ \A k \in 1 .. N + 1 :
                r[k] = [n     |-> r[k - 1].n + (b[k] % Radix) * r[k - 1].shift,
                        shift |-> r[k - 1].shift * Radix]
        BY <1>1, <1>3 DEF Sums
    <2> HIDE DEF N
    <2>3. /\ q[0].n = 0 /\ q[0].shift = 1
          /\ \A k \in 1 .. N : /\ q[k].n = q[k - 1].n + (s[k] % Radix) * q[k - 1].shift
                               /\ q[k].shift = q[k - 1].shift * Radix
        <3>1. ASSUME NEW k \in 1 .. N
              PROVE  /\ q[k].n = q[k - 1].n + (s[k] % Radix) * q[k - 1].shift
                     /\ q[k].shift = q[k - 1].shift * Radix
            <4> DEFINE x1 == q[k - 1].n + (s[k] % Radix) * q[k - 1].shift
                       y1 == q[k - 1].shift * Radix
            <4>1. q[k] = [n |-> x1, shift |-> y1]
                BY <2>1
            <4> HIDE DEF x1, y1
            <4>2. q[k].n = x1 /\ q[k].shift = y1
                BY <4>1
            <4> QED BY <4>2 DEF x1, y1
        <3>2. q[0].n = 0 /\ q[0].shift = 1
            BY <2>1
        <3> QED BY <3>1, <3>2
    <2>4. /\ r[0].n = 0 /\ r[0].shift = 1
          /\ \A k \in 1 .. N + 1 : /\ r[k].n = r[k - 1].n + (b[k] % Radix) * r[k - 1].shift
                                   /\ r[k].shift = r[k - 1].shift * Radix
        <3>1. ASSUME NEW k \in 1 .. N + 1
              PROVE  /\ r[k].n = r[k - 1].n + (b[k] % Radix) * r[k - 1].shift
                     /\ r[k].shift = r[k - 1].shift * Radix
            <4> DEFINE x1 == r[k - 1].n + (b[k] % Radix) * r[k - 1].shift
                       y1 == r[k - 1].shift * Radix
            <4>1. r[k] = [n |-> x1, shift |-> y1]
                BY <2>2
            <4> HIDE DEF x1, y1
            <4>2. r[k].n = x1 /\ r[k].shift = y1
                BY <4>1
            <4> QED BY <4>2 DEF x1, y1
        <3>2. r[0].n = 0 /\ r[0].shift = 1
            BY <2>2
        <3> QED BY <3>1, <3>2
    <2> QED BY <2>3, <2>4
<1> HIDE DEF N, d
<1>5. \A k \in Nat : k \in S
    <2>1. 0 \in S
        <3>1. 1 \in 1 .. N + 1 /\ 1 - 1 = 0 /\ 0 + 1 = 1
            BY <1>1
        <3>2. r[1].n = 0 + d * 1 /\ r[1].shift = 1 * Radix
            BY <1>1, <1>4, <3>1 DEF d
        <3>3. Fine(0)
            BY <1>4, <1>r, <3>1, <3>2
        <3> QED BY <3>3
    <2>2. ASSUME NEW k \in Nat, k \in S PROVE k + 1 \in S
        <3> SUFFICES ASSUME k + 1 <= N PROVE Fine(k + 1)
            OBVIOUS
        <3> DEFINE i == k + 1
                   j == i + 1
                   e == s[i] % Radix
                   p == q[k].n
                   h == q[k].shift
        <3>1. i \in 1 .. N /\ j \in 1 .. N + 1 /\ i - 1 = k /\ j - 1 = i /\ i \in Nat
            BY <1>1
        <3>2. /\ p \in Nat /\ h \in Nat /\ r[i].n = d + Radix * p /\ r[i].shift = Radix * h
            <4>1. k <= N
                BY <1>1
            <4>2. Fine(k)
                BY <2>2, <4>1
            <4> QED BY <4>2
        <3>3. e \in Nat /\ b[j] = s[i]
            <4>1. s[i] \in Nat
                BY <3>1 DEF N
            <4>2. e \in Nat
                BY <1>r, <4>1
            <4>3. b[i + 1] = s[i]
                BY <1>1, <3>1
            <4> QED BY <4>2, <4>3
        <3>4. q[i].n = p + e * h /\ q[i].shift = h * Radix
            BY <1>4, <3>1
        <3>5. r[j].n = (d + Radix * p) + e * (Radix * h) /\ r[j].shift = (Radix * h) * Radix
            BY <1>4, <3>1, <3>2, <3>3
        <3> HIDE DEF i, j, e, p, h
        <3>6. e * h \in Nat /\ h * Radix \in Nat
            BY <1>r, <3>2, <3>3
        <3>7. e * (Radix * h) = Radix * (e * h) /\ Radix * (p + e * h) = Radix * p + Radix * (e * h)
              /\ (Radix * h) * Radix = Radix * (h * Radix)
            BY <1>r, <3>2, <3>3
        <3>8. r[j].n = d + Radix * q[i].n /\ r[j].shift = Radix * q[i].shift
            <4> DEFINE y == Radix * (e * h)
                       z == Radix * p
            <4>1. y \in Nat /\ z \in Nat
                BY <1>r, <3>2, <3>6
            <4>2. r[j].n = (d + z) + y /\ Radix * q[i].n = z + y
                BY <3>4, <3>5, <3>7
            <4> HIDE DEF y, z
            <4>3. r[j].n = d + Radix * q[i].n
                BY <1>r, <4>1, <4>2
            <4>4. r[j].shift = Radix * q[i].shift
                BY <3>4, <3>5, <3>7
            <4> QED BY <4>3, <4>4
        <3>9. Fine(i)
            BY <3>2, <3>4, <3>6, <3>8 DEF j
        <3> QED BY <3>9 DEF i
    <2> HIDE DEF S
    <2> QED BY <2>1, <2>2, NatSetInduction
<1>6. Fine(N)
    BY <1>1, <1>5
<1> QED BY <1>1, <1>2, <1>3, <1>6 DEF b, N, d

(* vu in the writers: as many bytes as it takes, of which the readers make  *)
(* the number again.                                                        *)
LEMMA VarintRead ==
    \A n \in Nat :
       /\ Varint[n] \in Seq(Nat) /\ Len(Varint[n]) \in Nat \ {0}
       /\ \A i \in 1 .. Len(Varint[n]) : Varint[n][i] < Radix <=> i = Len(Varint[n])
       /\ NumberOf(Varint[n]) = n
<1> DEFINE Fine(n) ==
               /\ Varint[n] \in Seq(Nat) /\ Len(Varint[n]) \in Nat \ {0}
               /\ \A i \in 1 .. Len(Varint[n]) : Varint[n][i] < Radix <=> i = Len(Varint[n])
               /\ NumberOf(Varint[n]) = n
           S == {n \in Nat : Fine(n)}
<1>r. Radix \in Nat /\ Radix > 1
    BY CodecAssumption
<1>0. NumberOf(<<>>) = 0
    <2> DEFINE e == <<>>
    <2>1. e \in Seq(Nat) /\ Len(e) = 0
        OBVIOUS
    <2> HIDE DEF e
    <2>2. PICK r : Sums(r, e) /\ NumberOf(e) = r[Len(e)].n
        BY <2>1, NumberIs
    <2>3. r[0] = [n |-> 0, shift |-> 1]
        BY <2>2 DEF Sums
    <2>4. NumberOf(e) = 0
        BY <2>1, <2>2, <2>3
    <2> QED BY <2>4 DEF e
<1>1. ASSUME NEW n \in Nat, n < Radix PROVE Fine(n)
    <2>1. Varint[n] = <<n>>
        BY <1>1, VarintIs
    <2> DEFINE e == <<>>
    <2>3. e \in Seq(Nat) /\ <<n>> \o e = <<n>>
        OBVIOUS
    <2> HIDE DEF e
    <2>2. NumberOf(<<n>> \o e) = (n % Radix) + Radix * NumberOf(e)
        BY <2>3, NumberBehind
    <2>4. n % Radix = n
        BY <1>1, <1>r, DigitOf
    <2>5. NumberOf(<<n>>) = n
        BY <1>0, <1>r, <2>2, <2>3, <2>4 DEF e
    <2> QED BY <1>1, <2>1, <2>5
<1>2. ASSUME NEW n \in Nat, n >= Radix, Fine(n \div Radix) PROVE Fine(n)
    <2> DEFINE d == n % Radix
               m == n \div Radix
               x == Radix + d
               s == Varint[m]
               v == <<x>> \o s
    <2>1. d \in 0 .. Radix - 1 /\ m \in Nat /\ n = d + Radix * m
        BY Digits
    <2>2. Varint[n] = v
        <3>1. ~ (n < Radix)
            BY <1>2, <1>r
        <3>2. Varint[n] = IF n < Radix THEN <<n>>
                          ELSE <<Radix + (n % Radix)>> \o Varint[n \div Radix]
            BY VarintIs
        <3> QED BY <3>1, <3>2
    <2>3. /\ s \in Seq(Nat) /\ Len(s) \in Nat \ {0}
          /\ \A i \in 1 .. Len(s) : s[i] < Radix <=> i = Len(s)
          /\ NumberOf(s) = m
        BY <1>2
    <2>4. x \in Nat /\ x >= Radix /\ x % Radix = d
        BY <1>r, <2>1, DigitOf
    <2> HIDE DEF d, m, s, x
    <2>5. NumberOf(v) = n
        BY <2>1, <2>3, <2>4, NumberBehind
    <2>6. v \in Seq(Nat) /\ Len(v) = Len(s) + 1 /\ v[1] = x /\ \A i \in 1 .. Len(s) : v[i + 1] = s[i]
        BY <2>3, <2>4
    <2> HIDE DEF v
    <2>7. ASSUME NEW i \in 1 .. Len(v) PROVE v[i] < Radix <=> i = Len(v)
        <3>1. CASE i = 1
            BY <1>r, <2>3, <2>4, <2>6, <3>1
        <3>2. CASE i # 1
            <4> DEFINE j == i - 1
            <4>1. j \in 1 .. Len(s) /\ i = j + 1
                BY <2>3, <2>6, <3>2
            <4> HIDE DEF j
            <4>2. v[i] = s[j] /\ (i = Len(v) <=> j = Len(s))
                BY <2>3, <2>6, <4>1
            <4> QED BY <2>3, <4>1, <4>2
        <3> QED BY <3>1, <3>2
    <2> QED BY <2>2, <2>3, <2>5, <2>6, <2>7
<1>3. \A n \in Nat : n \in S
    <2>1. ASSUME NEW n \in Nat, \A m \in Nat : m < n => m \in S PROVE n \in S
        <3>1. CASE n < Radix
            BY <1>1, <3>1
        <3>2. CASE ~ (n < Radix)
            <4>1. n >= Radix /\ n \div Radix \in Nat /\ n \div Radix < n
                BY <1>r, <3>2, Digits
            <4>2. Fine(n \div Radix)
                BY <2>1, <4>1
            <4> HIDE DEF Fine
            <4>3. Fine(n)
                BY <1>2, <4>1, <4>2
            <4> QED BY <4>3
        <3> QED BY <3>1, <3>2
    <2> HIDE DEF S
    <2> QED BY <2>1, StrongSetInduction
<1> QED BY <1>3

-----------------------------------------------------------------------------
(* The order in which the bytes of a frame are put together does not        *)
(* matter; behind the two names a prover sees no more than is stated here.  *)
IsBytes(x) == x \in Seq(Nat)
Cat(u, v) == u \o v

(* Bytes can be put together in any order.                                  *)
LEMMA CatAssociates ==
    \A u, v, w : IsBytes(u) /\ IsBytes(v) /\ IsBytes(w) => Cat(Cat(u, v), w) = Cat(u, Cat(v, w))
BY DEF IsBytes, Cat

(* What is put together from bytes is bytes.                                *)
LEMMA CatIsBytes ==
    ASSUME NEW u, IsBytes(u), NEW v, IsBytes(v)
    PROVE  IsBytes(Cat(u, v))
BY DEF IsBytes, Cat

(* The parts of a resolve.                                                  *)
LEMMA FiveBytes ==
    ASSUME NEW e, IsBytes(e), NEW a, IsBytes(a), NEW b, IsBytes(b), NEW c, IsBytes(c),
           NEW d, IsBytes(d)
    PROVE  /\ Cat(Cat(Cat(Cat(e, a), b), c), d) = Cat(e, Cat(a, Cat(b, Cat(c, d))))
           /\ IsBytes(Cat(a, Cat(b, Cat(c, d)))) /\ IsBytes(Cat(b, Cat(c, d))) /\ IsBytes(Cat(c, d))
<1>1. IsBytes(Cat(c, d)) /\ IsBytes(Cat(e, a))
    BY CatIsBytes
<1>2. IsBytes(Cat(b, Cat(c, d))) /\ IsBytes(Cat(Cat(e, a), b))
    BY <1>1, CatIsBytes
<1>3. IsBytes(Cat(a, Cat(b, Cat(c, d))))
    BY <1>2, CatIsBytes
<1>4. Cat(Cat(Cat(Cat(e, a), b), c), d) = Cat(Cat(Cat(e, a), b), Cat(c, d))
    BY <1>2, CatAssociates
<1>5. Cat(Cat(Cat(e, a), b), Cat(c, d)) = Cat(Cat(e, a), Cat(b, Cat(c, d)))
    BY <1>1, CatAssociates
<1>6. Cat(Cat(e, a), Cat(b, Cat(c, d))) = Cat(e, Cat(a, Cat(b, Cat(c, d))))
    BY <1>2, CatAssociates
<1> QED BY <1>1, <1>2, <1>3, <1>4, <1>5, <1>6

(* The parts of a dispatch.                                                 *)
Regroups(e, k, p, n, g, u, w) ==
    /\ Cat(Cat(Cat(Cat(Cat(e, Cat(k, p)), n), g), u), w)
         = Cat(e, Cat(k, Cat(p, Cat(n, Cat(g, Cat(u, w))))))
    /\ IsBytes(Cat(k, Cat(p, Cat(n, Cat(g, Cat(u, w))))))

(* They regroup, so that each is in front of what comes behind it.          *)
LEMMA DispatchBytes ==
    ASSUME NEW e, IsBytes(e), NEW k, IsBytes(k), NEW p, IsBytes(p), NEW n, IsBytes(n),
           NEW g, IsBytes(g), NEW u, IsBytes(u), NEW w, IsBytes(w)
    PROVE  Regroups(e, k, p, n, g, u, w)
<1>1. /\ IsBytes(Cat(k, p)) /\ IsBytes(Cat(u, w))
    BY CatIsBytes
<1>2. /\ IsBytes(Cat(e, Cat(k, p))) /\ IsBytes(Cat(g, Cat(u, w)))
    BY <1>1, CatIsBytes
<1>3. /\ IsBytes(Cat(Cat(e, Cat(k, p)), n)) /\ IsBytes(Cat(n, Cat(g, Cat(u, w))))
    BY <1>2, CatIsBytes
<1>4. /\ IsBytes(Cat(Cat(Cat(e, Cat(k, p)), n), g)) /\ IsBytes(Cat(p, Cat(n, Cat(g, Cat(u, w)))))
    BY <1>3, CatIsBytes
<1>5. IsBytes(Cat(k, Cat(p, Cat(n, Cat(g, Cat(u, w))))))
    BY <1>4, CatIsBytes
<1>6. Cat(Cat(Cat(Cat(Cat(e, Cat(k, p)), n), g), u), w)
        = Cat(Cat(Cat(Cat(e, Cat(k, p)), n), g), Cat(u, w))
    BY <1>4, CatAssociates
<1>7. Cat(Cat(Cat(Cat(e, Cat(k, p)), n), g), Cat(u, w))
        = Cat(Cat(Cat(e, Cat(k, p)), n), Cat(g, Cat(u, w)))
    BY <1>1, <1>3, CatAssociates
<1>8. Cat(Cat(Cat(e, Cat(k, p)), n), Cat(g, Cat(u, w)))
        = Cat(Cat(e, Cat(k, p)), Cat(n, Cat(g, Cat(u, w))))
    BY <1>2, CatAssociates
<1>9. Cat(Cat(e, Cat(k, p)), Cat(n, Cat(g, Cat(u, w))))
        = Cat(e, Cat(Cat(k, p), Cat(n, Cat(g, Cat(u, w)))))
    BY <1>1, <1>3, CatAssociates
<1>10. Cat(Cat(k, p), Cat(n, Cat(g, Cat(u, w)))) = Cat(k, Cat(p, Cat(n, Cat(g, Cat(u, w)))))
    BY <1>3, CatAssociates
<1> QED BY <1>5, <1>6, <1>7, <1>8, <1>9, <1>10 DEF Regroups

-----------------------------------------------------------------------------
(* A reader that has not thrown, and what it takes from the bytes.          *)
Yes == TRUE
At(b, out) == [b |-> b, out |-> out, ok |-> Yes]

Takes(what, x, v) ==
    /\ x \in Seq(Nat)
    /\ \A rest \in Seq(Nat) : \A out :
          IsList(out) => Leaf(what, At(x \o rest, out)) = At(rest, Append(out, v))

(* What is left of the bytes.                                               *)
LEMMA RestIs ==
    ASSUME NEW x \in Seq(Nat), NEW rest \in Seq(Nat)
    PROVE  /\ x \o rest \in Seq(Nat) /\ Len(x \o rest) = Len(x) + Len(rest)
           /\ SubSeq(x \o rest, 1, Len(x)) = x
           /\ SubSeq(x \o rest, Len(x) + 1, Len(x \o rest)) = rest
           /\ \A i \in 1 .. Len(x) : (x \o rest)[i] = x[i]
OBVIOUS

(* What taking bytes leaves, and what it adds.                              *)
LEMMA TakenIs ==
    ASSUME NEW x \in Seq(Nat), NEW rest \in Seq(Nat), NEW out, NEW v
    PROVE  Taken(At(x \o rest, out), Len(x), v) = At(rest, Append(out, v))
<1> DEFINE b == x \o rest
           n == Len(x)
           more == Append(out, v)
<1>1. SubSeq(b, n + 1, Len(b)) = rest
    BY RestIs
<1> HIDE DEF b
<1> DEFINE r == At(b, out)
<1>2. r.b = b /\ r.out = out /\ r = [b |-> b, out |-> out, ok |-> Yes]
    BY DEF At
<1>3. Taken(r, n, v) = [r EXCEPT !.b = SubSeq(r.b, n + 1, Len(r.b)), !.out = Append(r.out, v)]
    BY DEF Taken
<1> HIDE DEF r, more, n
<1>4. Taken(r, n, v) = [r EXCEPT !.b = rest, !.out = more]
    BY <1>1, <1>2, <1>3 DEF more
<1>5. Taken(r, n, v) = [b |-> rest, out |-> more, ok |-> Yes]
    BY <1>4 DEF r, At
<1> QED BY <1>5 DEF At, b, n, more, r

(* u8, vu and str: each takes what its writer wrote, and no more.           *)
LEMMA ByteTaken ==
    ASSUME NEW n \in Nat
    PROVE  Takes("u8", <<n>>, n)
<1> DEFINE x == <<n>>
<1>1. x \in Seq(Nat) /\ Len(x) = 1 /\ x[1] = n
    OBVIOUS
<1> HIDE DEF x
<1>2. ASSUME NEW rest \in Seq(Nat), NEW out
      PROVE  Leaf("u8", At(x \o rest, out)) = At(rest, Append(out, n))
    <2> DEFINE b == x \o rest
    <2>1. b # <<>> /\ b[1] = n
        BY <1>1
    <2>2. Taken(At(b, out), 1, n) = At(rest, Append(out, n))
        <3>0. x \in Seq(Nat)
            BY <1>1
        <3>2. \A v : Taken(At(x \o rest, out), Len(x), v) = At(rest, Append(out, v))
            BY <3>0, TakenIs
        <3>1. Taken(At(b, out), Len(x), n) = At(rest, Append(out, n))
            BY <3>2
        <3> QED BY <1>1, <3>1
    <2> HIDE DEF b
    <2>3. Leaf("u8", At(b, out)) = ReadU8(At(b, out))
        BY DEF Leaf
    <2>4. ReadU8(At(b, out)) = Taken(At(b, out), 1, n)
        BY <2>1 DEF ReadU8, At
    <2> QED BY <2>2, <2>3, <2>4 DEF b
<1> QED BY <1>1, <1>2 DEF Takes, x

(* The first of some numbers.                                               *)
LEMMA LeastIs ==
    ASSUME NEW S \in SUBSET Nat, NEW x \in S, \A y \in S : x <= y
    PROVE  Min(S) = x
<1>1. \A y \in S : (\A z \in S : y <= z) => y = x
    OBVIOUS
<1>2. Min(S) = CHOOSE y \in S : \A z \in S : y <= z
    BY DEF Min
<1> QED BY <1>1, <1>2

(* vu: the first byte without a top bit is the last one written.            *)
LEMMA NumberTaken ==
    ASSUME NEW n \in Number
    PROVE  Takes("vu", Varint[n], n)
<1> DEFINE x == Varint[n]
           L == Len(x)
<1>1. /\ x \in Seq(Nat) /\ L \in Nat \ {0} /\ L <= MaxVarint
      /\ \A i \in 1 .. L : x[i] < Radix <=> i = L
      /\ NumberOf(x) = n
    <2>1. n \in Nat /\ L <= MaxVarint
        BY NumbersFit DEF Number
    <2> QED BY <2>1, VarintRead
<1> HIDE DEF x, L
<1>2. ASSUME NEW rest \in Seq(Nat), NEW out
      PROVE  Leaf("vu", At(x \o rest, out)) = At(rest, Append(out, n))
    <2> DEFINE b == x \o rest
               most == Min({MaxVarint, Len(b)})
               ends == {i \in 1 .. most : b[i] < Radix}
               r == At(b, out)
    <2>1. b \in Seq(Nat) /\ Len(b) >= L /\ SubSeq(b, 1, L) = x /\ \A i \in 1 .. L : b[i] = x[i]
        <3>1. Len(x) = L
            BY DEF L
        <3> QED BY <1>1, <3>1, RestIs
    <2> HIDE DEF b
    <2>2. most \in Nat /\ L <= most
        <3>1. Len(b) \in Nat /\ MaxVarint \in Nat
            BY <2>1 DEF MaxVarint
        <3>2. CASE MaxVarint <= Len(b)
            <4>1. most = MaxVarint
                BY <3>1, <3>2, LeastIs
            <4> QED BY <1>1, <3>1, <4>1
        <3>3. CASE ~ (MaxVarint <= Len(b))
            <4>1. most = Len(b)
                BY <3>1, <3>3, LeastIs
            <4> QED BY <2>1, <3>1, <4>1
        <3> QED BY <3>2, <3>3
    <2> HIDE DEF most
    <2>3. ends \in SUBSET Nat /\ L \in ends /\ \A y \in ends : L <= y
        <3>1. L \in ends
            BY <1>1, <2>1, <2>2
        <3>2. ASSUME NEW y \in ends, y < L PROVE FALSE
            <4>1. y \in 1 .. L /\ y # L /\ b[y] < Radix
                BY <1>1, <2>2, <3>2
            <4>2. x[y] < Radix
                BY <2>1, <4>1
            <4> QED BY <1>1, <4>1, <4>2
        <3>3. \A y \in ends : y \in Nat
            BY <2>2
        <3> QED BY <1>1, <3>1, <3>2, <3>3
    <2>4. Min(ends) = L /\ ends # {}
        BY <2>3, LeastIs
    <2>5. Leaf("vu", r) = ReadVu(r)
        BY DEF Leaf
    <2>6. r.b = b
        BY DEF At
    <2>7. ReadVu(r) = IF ends = {} THEN Throw(r)
                      ELSE Taken(r, Min(ends), NumberOf(SubSeq(b, 1, Min(ends))))
        BY <2>6 DEF ReadVu, most
    <2> HIDE DEF ends, r
    <2>8. ReadVu(r) = Taken(r, L, n)
        BY <1>1, <2>1, <2>4, <2>7
    <2>9. Taken(r, L, n) = At(rest, Append(out, n))
        BY <1>1, TakenIs DEF r, b, L
    <2> QED BY <2>5, <2>8, <2>9 DEF r, b
<1> QED BY <1>1, <1>2 DEF Takes, x

(* str: as many bytes as its length says, which are those of one string.    *)
LEMMA StringTaken ==
    ASSUME NEW s \in DOMAIN Utf8
    PROVE  Takes("str", Str(s), s)
<1> DEFINE u == Utf8[s]
           k == Len(u)
           x == Varint[k]
<1>1. u \in Seq(Nat) /\ k \in Number
    BY CodecAssumption, NumbersFit DEF Byte
<1>2. Takes("vu", x, k)
    BY <1>1, NumberTaken
<1>3. StringOf(u) = s
    <2>1. \A y \in DOMAIN Utf8 : Utf8[y] = u => y = s
        BY CodecAssumption DEF IsInjective
    <2>2. StringOf(u) = CHOOSE y \in DOMAIN Utf8 : Utf8[y] = u
        BY DEF StringOf
    <2> HIDE DEF u
    <2>3. \E y \in DOMAIN Utf8 : Utf8[y] = u
        BY DEF u
    <2> QED BY <2>1, <2>2, <2>3
<1>4. x \in Seq(Nat) /\ x \o u \in Seq(Nat)
    BY <1>1, <1>2 DEF Takes
<1>5. Str(s) = x \o u
    BY DEF Str
<1> HIDE DEF u, k, x
<1>6. ASSUME NEW rest \in Seq(Nat), NEW out, IsList(out)
      PROVE  Leaf("str", At((x \o u) \o rest, out)) = At(rest, Append(out, s))
    <2> DEFINE b == u \o rest
               r == At(x \o b, out)
               more == Append(out, k)
               q == At(b, more)
    <2>1. (x \o u) \o rest = x \o b /\ b \in Seq(Nat)
        <3>1. IsBytes(x) /\ IsBytes(u) /\ IsBytes(rest)
            BY <1>1, <1>4 DEF IsBytes
        <3>2. Cat(Cat(x, u), rest) = Cat(x, Cat(u, rest)) /\ IsBytes(Cat(u, rest))
            BY <3>1, CatAssociates, CatIsBytes
        <3> QED BY <3>2 DEF Cat, IsBytes
    <2>2. ReadVu(r) = q
        <3>1. Leaf("vu", r) = q
            BY <1>2, <1>6, <2>1 DEF Takes
        <3> QED BY <3>1 DEF Leaf
    <2>3. Last(more) = k
        <3> DEFINE T == {out[i] : i \in DOMAIN out} \cup {k}
        <3>1. out \in Seq({out[i] : i \in DOMAIN out})
            BY <1>6 DEF IsList
        <3>2. out \in Seq(T) /\ k \in T
            BY <3>1
        <3> HIDE DEF T
        <3>3. Len(more) = Len(out) + 1 /\ more[Len(out) + 1] = k
            BY <3>2
        <3> QED BY <3>3 DEF Last
    <2>4. k \in Nat /\ Len(b) \in Nat /\ k <= Len(b) /\ SubSeq(b, 1, k) = u
        BY <1>1, <2>1, RestIs DEF k
    <2> HIDE DEF b, more
    <2>5. [q EXCEPT !.out = r.out] = At(b, out) /\ q.out = more
        <3>1. r.out = out
            BY DEF At
        <3> HIDE DEF r
        <3>2. q.out = more
            BY DEF At
        <3>3. [q EXCEPT !.out = r.out] = At(b, out)
            BY <3>1 DEF At
        <3> QED BY <3>2, <3>3
    <2>6. ReadStr(r) = Sized(At(b, out), k)
        BY <2>2, <2>3, <2>5 DEF ReadStr
    <2>7. Sized(At(b, out), k) = Taken(At(b, out), k, s)
        <3>1. At(b, out).ok = TRUE /\ At(b, out).b = b
            BY DEF At, Yes
        <3>2. ~ (k > Len(b))
            BY <2>4
        <3> QED BY <1>3, <2>4, <3>1, <3>2 DEF Sized
    <2>8. Taken(At(b, out), k, s) = At(rest, Append(out, s))
        BY <1>1, TakenIs DEF b, k
    <2>9. Leaf("str", r) = ReadStr(r)
        BY DEF Leaf
    <2> QED BY <2>1, <2>6, <2>7, <2>8, <2>9
<1> QED BY <1>4, <1>5, <1>6 DEF Takes

-----------------------------------------------------------------------------
(* Several reads one after the other.                                       *)
Steps(f, whats, r) ==
    /\ f[0] = r
    /\ \A k \in 1 .. Len(whats) : f[k] = IF f[k - 1].ok THEN Leaf(whats[k], f[k - 1]) ELSE f[k - 1]

(* Reads in a row, as a list of readers.                                    *)
LEMMA InTurnIs ==
    ASSUME NEW whats, Len(whats) \in Nat, NEW r
    PROVE  \E f : Steps(f, whats, r) /\ InTurn(whats, r) = f[Len(whats)]
<1> DEFINE N == Len(whats)
           Next(x, k) == IF x.ok THEN Leaf(whats[k], x) ELSE x
           Solves(f, n) == f = [k \in 0 .. n |-> IF k = 0 THEN r ELSE Next(f[k - 1], k)]
           S == {n \in Nat : \E f : Solves(f, n)}
           w == CHOOSE f : Solves(f, N)
<1>1. InTurn(whats, r) = w[N]
    BY DEF InTurn
<1>3. N \in Nat
    OBVIOUS
<1> HIDE DEF Next
<1>2. \A n \in Nat : n \in S
    <2>1. 0 \in S
        <3>1. Solves([k \in 0 .. 0 |-> r], 0)
            OBVIOUS
        <3> QED BY <3>1
    <2>2. ASSUME NEW n \in Nat, n \in S PROVE n + 1 \in S
        <3>1. PICK f : Solves(f, n)
            BY <2>2
        <3> DEFINE body(x) == [k \in 0 .. n + 1 |-> IF k = 0 THEN r ELSE Next(x[k - 1], k)]
                   g == body(f)
        <3>2. \A k \in 0 .. n : g[k] = f[k]
            BY <3>1
        <3>3. body(f) = body(g)
            <4> HIDE DEF g
            <4>1. ASSUME NEW k \in 0 .. n + 1
                  PROVE  (IF k = 0 THEN r ELSE Next(f[k - 1], k))
                           = (IF k = 0 THEN r ELSE Next(g[k - 1], k))
                <5>1. CASE k = 0
                    BY <5>1
                <5>2. CASE k # 0
                    <6>1. k - 1 \in 0 .. n
                        BY <5>2
                    <6>2. f[k - 1] = g[k - 1]
                        BY <6>1, <3>2
                    <6> QED BY <6>2
                <5> QED BY <5>1, <5>2
            <4> QED BY <4>1
        <3>4. Solves(g, n + 1)
            BY <3>3
        <3> HIDE DEF g, Solves
        <3> QED BY <3>4
    <2> HIDE DEF S
    <2> QED BY <2>1, <2>2, NatSetInduction
<1>4. Solves(w, N)
    <2>1. \E f : Solves(f, N)
        BY <1>2, <1>3
    <2> HIDE DEF Solves
    <2> QED BY <2>1
<1> HIDE DEF w, N
<1>5. w[0] = r /\ \A k \in 1 .. N : w[k] = Next(w[k - 1], k)
    BY <1>3, <1>4
<1>6. Steps(w, whats, r)
    BY <1>5 DEF Steps, N, Next
<1> QED BY <1>1, <1>6 DEF N

(* The first values that are read, and the next.                            *)
LEMMA OneMore ==
    ASSUME NEW vs, IsList(vs), NEW k \in Nat, k + 1 <= Len(vs)
    PROVE  /\ IsList(SubSeq(vs, 1, k))
           /\ SubSeq(vs, 1, k + 1) = Append(SubSeq(vs, 1, k), vs[k + 1])
<1> DEFINE T == {vs[i] : i \in DOMAIN vs}
<1>1. vs \in Seq(T)
    BY DEF IsList
<1> HIDE DEF T
<1>2. SubSeq(vs, 1, k) \in Seq(T)
    BY <1>1
<1>3. SubSeq(vs, 1, k + 1) = Append(SubSeq(vs, 1, k), vs[k + 1])
    BY <1>1
<1> QED BY <1>2, <1>3, ListOf

EachTakes(n, whats, xs, vs) == \A i \in 1 .. n : Takes(whats[i], xs[i], vs[i])

(* What was written one after the other is read one after the other.        *)
LEMMA AllTaken ==
    ASSUME NEW n \in Nat, NEW whats, Len(whats) = n, NEW xs, Len(xs) = n, n = 0 => xs = <<>>,
           NEW vs, IsList(vs), Len(vs) = n,
           EachTakes(n, whats, xs, vs), NEW rest \in Seq(Nat)
    PROVE  /\ FlattenSeq(xs) \in Seq(Nat)
           /\ InTurn(whats, At(FlattenSeq(xs) \o rest, <<>>)) = At(rest, vs)
<1> DEFINE none == <<>>
<1>0. \A i \in 1 .. n : Takes(whats[i], xs[i], vs[i])
    BY DEF EachTakes
<1>1. \A i \in 1 .. n : xs[i] \in Seq(Nat)
    BY <1>0 DEF Takes
<1>2. PICK fl : Flattens(fl, xs, n) /\ FlattenSeq(xs) = fl[n]
    <2>1. \A i \in 1 .. n : IsList(xs[i])
        BY <1>1, ListOf
    <2> QED BY <2>1, FlattenIs
<1>3. fl[0] = none /\ \A i \in 1 .. n : fl[i] = fl[i - 1] \o xs[i]
    BY <1>2 DEF Flattens
<1> DEFINE out(k) == SubSeq(vs, 1, k)
           Reads(k, b) == \A f : Steps(f, whats, At(fl[k] \o b, none)) => f[k] = At(b, out(k))
           S == {k \in Nat : k <= n => fl[k] \in Seq(Nat) /\ \A b \in Seq(Nat) : Reads(k, b)}
<1>e. out(0) = none /\ none \in Seq(Nat) /\ out(n) = vs
    <2> DEFINE T == {vs[i] : i \in DOMAIN vs}
    <2>1. vs \in Seq(T)
        BY DEF IsList
    <2> HIDE DEF T
    <2> QED BY <2>1
<1>f. \A b \in Seq(Nat) : none \o b = b
    OBVIOUS
<1> HIDE DEF none
<1>4. \A k \in Nat : k \in S
    <2>1. 0 \in S
        <3>1. ASSUME NEW b \in Seq(Nat), NEW f, Steps(f, whats, At(fl[0] \o b, none))
              PROVE  f[0] = At(b, out(0))
            <4>1. f[0] = At(fl[0] \o b, none)
                BY <3>1 DEF Steps
            <4> HIDE DEF out
            <4> QED BY <1>3, <1>e, <1>f, <4>1
        <3> HIDE DEF out
        <3> QED BY <1>3, <1>e, <3>1
    <2>2. ASSUME NEW k \in Nat, k \in S PROVE k + 1 \in S
        <3> DEFINE i == k + 1
        <3> SUFFICES ASSUME i <= n
                     PROVE  fl[i] \in Seq(Nat) /\ \A b \in Seq(Nat) : Reads(i, b)
            OBVIOUS
        <3>1. i \in 1 .. n /\ i - 1 = k /\ k <= n /\ i \in Nat
            OBVIOUS
        <3>2. /\ fl[k] \in Seq(Nat) /\ xs[i] \in Seq(Nat) /\ fl[i] = fl[k] \o xs[i]
              /\ \A b \in Seq(Nat) : Reads(k, b)
            BY <1>1, <1>3, <2>2, <3>1
        <3>3. fl[i] \in Seq(Nat)
            BY <3>2
        <3>4. IsList(out(k)) /\ out(i) = Append(out(k), vs[i])
            BY <3>1, OneMore
        <3> HIDE DEF i, out
        <3>5. ASSUME NEW b \in Seq(Nat), NEW f, Steps(f, whats, At(fl[i] \o b, none))
              PROVE  f[i] = At(b, out(i))
            <4> DEFINE c == xs[i] \o b
            <4>1. c \in Seq(Nat) /\ fl[i] \o b = fl[k] \o c
                <5> DEFINE u == fl[k]
                           x == xs[i]
                <5>1. u \in Seq(Nat) /\ x \in Seq(Nat) /\ fl[i] = u \o x
                    BY <3>2
                <5> HIDE DEF u, x
                <5>2. IsBytes(u) /\ IsBytes(x) /\ IsBytes(b)
                    BY <5>1 DEF IsBytes
                <5>3. Cat(Cat(u, x), b) = Cat(u, Cat(x, b)) /\ IsBytes(Cat(x, b))
                    BY <5>2, CatAssociates, CatIsBytes
                <5>4. fl[i] \o b = u \o (x \o b) /\ x \o b \in Seq(Nat)
                    BY <5>1, <5>3 DEF Cat, IsBytes
                <5> QED BY <5>4 DEF u, x
            <4>2. f[k] = At(c, out(k))
                <5>1. Reads(k, c)
                    BY <3>2, <4>1
                <5> HIDE DEF c
                <5> QED BY <3>5, <4>1, <5>1
            <4>3. f[i] = IF f[k].ok THEN Leaf(whats[i], f[k]) ELSE f[k]
                BY <3>1, <3>5 DEF Steps
            <4>4. f[k].ok = TRUE
                BY <4>2 DEF At, Yes
            <4>5. Takes(whats[i], xs[i], vs[i])
                BY <1>0, <3>1
            <4>6. Leaf(whats[i], At(c, out(k))) = At(b, Append(out(k), vs[i]))
                BY <3>4, <4>5 DEF Takes
            <4> QED BY <3>4, <4>2, <4>3, <4>4, <4>6
        <3> QED BY <3>3, <3>5
    <2> HIDE DEF S
    <2> QED BY <2>1, <2>2, NatSetInduction
<1>5. fl[n] \in Seq(Nat) /\ Reads(n, rest)
    BY <1>4
<1> DEFINE start == At(fl[n] \o rest, none)
<1>6. InTurn(whats, start) = At(rest, vs)
    <2>1. PICK f : Steps(f, whats, start) /\ InTurn(whats, start) = f[n]
        <3> HIDE DEF start
        <3> QED BY InTurnIs
    <2>2. f[n] = At(rest, out(n))
        BY <1>5, <2>1
    <2> HIDE DEF out
    <2> QED BY <1>e, <2>1, <2>2
<1> QED BY <1>2, <1>5, <1>6 DEF none

-----------------------------------------------------------------------------
(* The lists of decode, one by one.                                         *)
LEMMA NothingTaken ==
    ASSUME NEW rest \in Seq(Nat)
    PROVE  InTurn(<<>>, At(rest, <<>>)) = At(rest, <<>>)
<1> DEFINE none == <<>>
           r == At(rest, none)
<1>1. Len(none) = 0
    OBVIOUS
<1>n. Len(none) \in Nat
    BY <1>1
<1> HIDE DEF none, r
<1>2. PICK f : Steps(f, none, r) /\ InTurn(none, r) = f[Len(none)]
    BY <1>n, InTurnIs
<1>3. f[0] = r
    BY <1>2 DEF Steps
<1> QED BY <1>1, <1>2, <1>3 DEF none, r

(* One read.                                                                *)
LEMMA OneTaken ==
    ASSUME NEW what, NEW x, NEW v, Takes(what, x, v), NEW rest \in Seq(Nat)
    PROVE  InTurn(<<what>>, At(x \o rest, <<>>)) = At(rest, <<v>>)
<1> DEFINE none == <<>>
           whats == <<what>>
           r == At(x \o rest, none)
<1>1. Len(whats) = 1 /\ whats[1] = what /\ Append(none, v) = <<v>>
    OBVIOUS
<1>2. IsList(none)
    BY EmptyList
<1>3. Leaf(what, r) = At(rest, Append(none, v))
    <2> HIDE DEF none
    <2> QED BY <1>2 DEF Takes
<1>4. r.ok = TRUE
    BY DEF At, Yes
<1> HIDE DEF none, whats, r
<1>n. Len(whats) \in Nat
    BY <1>1
<1>5. PICK f : Steps(f, whats, r) /\ InTurn(whats, r) = f[Len(whats)]
    BY <1>n, InTurnIs
<1>6. f[0] = r /\ f[1] = IF f[0].ok THEN Leaf(whats[1], f[0]) ELSE f[0]
    <2>1. 1 \in 1 .. Len(whats) /\ 1 - 1 = 0
        BY <1>1
    <2> QED BY <1>5, <2>1 DEF Steps
<1> QED BY <1>1, <1>3, <1>4, <1>5, <1>6 DEF none, whats, r

(* Lists of two, as Append and \o make them.                                *)
LEMMA Pair ==
    ASSUME NEW a, NEW b
    PROVE  Append(<<a>>, b) = <<a, b>>
<1> DEFINE one == <<a>>
<1>1. one \in Seq({a, b}) /\ Len(one) = 1
    OBVIOUS
<1>2. <<a, b>> \in Seq({a, b}) /\ Len(<<a, b>>) = 2
    OBVIOUS
<1>3. Append(one, b) \in Seq({a, b}) /\ Len(Append(one, b)) = 2
    BY <1>1
<1>4. Append(one, b)[1] = a /\ Append(one, b)[2] = b
    BY <1>1
<1>5. ASSUME NEW i \in 1 .. 2 PROVE Append(one, b)[i] = <<a, b>>[i]
    BY <1>4
<1> QED BY <1>2, <1>3, <1>5, SeqEqual

(* The same for \o.                                                         *)
LEMMA Joined ==
    ASSUME NEW a, NEW b
    PROVE  <<a>> \o <<b>> = <<a, b>>
<1> DEFINE T == {a, b}
           s == <<a>> \o <<b>>
           t == <<a, b>>
<1>1. s \in Seq(T) /\ Len(s) = 2
    OBVIOUS
<1>2. s[1] = a /\ s[2] = b
    OBVIOUS
<1>3. t \in Seq(T) /\ Len(t) = 2 /\ t[1] = a /\ t[2] = b
    OBVIOUS
<1> HIDE DEF s, t, T
<1>4. \A i \in 1 .. 2 : s[i] = t[i]
    BY <1>2, <1>3
<1>5. s = t
    BY <1>1, <1>3, <1>4, SeqEqual
<1> QED BY <1>5 DEF s, t

(* Two reads.                                                               *)
LEMMA TwoTaken ==
    ASSUME NEW whatA, NEW a, NEW vA, Takes(whatA, a, vA),
           NEW whatB, NEW b, NEW vB, Takes(whatB, b, vB), NEW rest \in Seq(Nat)
    PROVE  InTurn(<<whatA, whatB>>, At(a \o (b \o rest), <<>>)) = At(rest, <<vA, vB>>)
<1> DEFINE none == <<>>
           one == <<vA>>
           whats == <<whatA, whatB>>
           more == b \o rest
           r == At(a \o more, none)
<1>a. Append(none, vA) = one
    OBVIOUS
<1>b. Append(one, vB) = <<vA, vB>>
    BY Pair
<1>1. /\ Len(whats) = 2 /\ whats[1] = whatA /\ whats[2] = whatB
      /\ Append(none, vA) = one /\ Append(one, vB) = <<vA, vB>>
    BY <1>a, <1>b
<1>2. IsList(none) /\ IsList(one)
    <2>1. one \in Seq({vA})
        OBVIOUS
    <2> QED BY <2>1, EmptyList, ListOf
<1>3. more \in Seq(Nat)
    BY DEF Takes
<1> HIDE DEF none, one, whats, more
<1>4. Leaf(whatA, r) = At(more, one)
    <2>1. Leaf(whatA, At(a \o more, none)) = At(more, Append(none, vA))
        BY <1>2, <1>3 DEF Takes
    <2> QED BY <1>1, <2>1
<1>5. Leaf(whatB, At(more, one)) = At(rest, <<vA, vB>>)
    <2>1. Leaf(whatB, At(b \o rest, one)) = At(rest, Append(one, vB))
        BY <1>2 DEF Takes
    <2> QED BY <1>1, <2>1 DEF more
<1>6. r.ok = TRUE /\ At(more, one).ok = TRUE
    BY DEF At, Yes
<1> HIDE DEF r
<1>n. Len(whats) \in Nat
    BY <1>1
<1>7. PICK f : Steps(f, whats, r) /\ InTurn(whats, r) = f[Len(whats)]
    BY <1>n, InTurnIs
<1>8. /\ f[0] = r /\ f[1] = IF f[0].ok THEN Leaf(whats[1], f[0]) ELSE f[0]
      /\ f[2] = IF f[1].ok THEN Leaf(whats[2], f[1]) ELSE f[1]
    <2>1. 1 \in 1 .. Len(whats) /\ 1 - 1 = 0 /\ 2 \in 1 .. Len(whats) /\ 2 - 1 = 1
        BY <1>1
    <2> QED BY <1>7, <2>1 DEF Steps
<1>9. f[1] = At(more, one)
    BY <1>1, <1>4, <1>6, <1>8
<1>10. f[2] = At(rest, <<vA, vB>>)
    BY <1>1, <1>5, <1>6, <1>8, <1>9
<1> QED BY <1>1, <1>7, <1>10 DEF none, whats, more, r

(* Lists of three and of four.                                              *)
LEMMA Appended ==
    ASSUME NEW a, NEW b, NEW c, NEW d
    PROVE  /\ Append(<<a, b>>, c) = <<a, b, c>> /\ Append(<<a, b, c>>, d) = <<a, b, c, d>>
           /\ IsList(<<a, b>>) /\ IsList(<<a, b, c>>)
<1> DEFINE T == {a, b, c, d}
           two == <<a, b>>
           three == <<a, b, c>>
           four == <<a, b, c, d>>
<1>1. /\ two \in Seq(T) /\ Len(two) = 2 /\ two[1] = a /\ two[2] = b
      /\ three \in Seq(T) /\ Len(three) = 3 /\ three[1] = a /\ three[2] = b /\ three[3] = c
      /\ four \in Seq(T) /\ Len(four) = 4 /\ four[1] = a /\ four[2] = b /\ four[3] = c /\ four[4] = d
      /\ c \in T /\ d \in T
    OBVIOUS
<1> HIDE DEF T, two, three, four
<1>a. ASSUME NEW s \in Seq(T), NEW x \in T
      PROVE  /\ Append(s, x) \in Seq(T) /\ Len(Append(s, x)) = Len(s) + 1
             /\ Append(s, x)[Len(s) + 1] = x
             /\ \A i \in 1 .. Len(s) : Append(s, x)[i] = s[i]
    OBVIOUS
<1>2. /\ Append(two, c) \in Seq(T) /\ Len(Append(two, c)) = 3
      /\ Append(two, c)[1] = a /\ Append(two, c)[2] = b /\ Append(two, c)[3] = c
    <2>1. /\ Append(two, c) \in Seq(T) /\ Len(Append(two, c)) = Len(two) + 1
          /\ Append(two, c)[Len(two) + 1] = c
          /\ \A i \in 1 .. Len(two) : Append(two, c)[i] = two[i]
        BY <1>1, <1>a
    <2>2. 1 \in 1 .. Len(two) /\ 2 \in 1 .. Len(two) /\ Len(two) + 1 = 3
        BY <1>1
    <2> QED BY <1>1, <2>1, <2>2
<1>3. /\ Append(three, d) \in Seq(T) /\ Len(Append(three, d)) = 4
      /\ Append(three, d)[1] = a /\ Append(three, d)[2] = b /\ Append(three, d)[3] = c
      /\ Append(three, d)[4] = d
    <2>1. /\ Append(three, d) \in Seq(T) /\ Len(Append(three, d)) = Len(three) + 1
          /\ Append(three, d)[Len(three) + 1] = d
          /\ \A i \in 1 .. Len(three) : Append(three, d)[i] = three[i]
        BY <1>1, <1>a
    <2>2. /\ 1 \in 1 .. Len(three) /\ 2 \in 1 .. Len(three) /\ 3 \in 1 .. Len(three)
          /\ Len(three) + 1 = 4
        BY <1>1
    <2> QED BY <1>1, <2>1, <2>2
<1>4. Append(two, c) = three
    <2>1. \A i \in 1 .. 3 : Append(two, c)[i] = three[i]
        BY <1>1, <1>2
    <2> QED BY <1>1, <1>2, <2>1, SeqEqual
<1>5. Append(three, d) = four
    <2>1. \A i \in 1 .. 4 : Append(three, d)[i] = four[i]
        BY <1>1, <1>3
    <2> QED BY <1>1, <1>3, <2>1, SeqEqual
<1>6. IsList(two) /\ IsList(three)
    BY <1>1, ListOf
<1> QED BY <1>4, <1>5, <1>6 DEF two, three, four

(* Four reads.                                                              *)
LEMMA FourTaken ==
    ASSUME NEW whatA, NEW a, NEW vA, Takes(whatA, a, vA),
           NEW whatB, NEW b, NEW vB, Takes(whatB, b, vB),
           NEW whatC, NEW c, NEW vC, Takes(whatC, c, vC),
           NEW whatD, NEW d, NEW vD, Takes(whatD, d, vD), NEW rest \in Seq(Nat)
    PROVE  InTurn(<<whatA, whatB, whatC, whatD>>, At(a \o (b \o (c \o (d \o rest))), <<>>))
             = At(rest, <<vA, vB, vC, vD>>)
<1> DEFINE none == <<>>
           one == <<vA>>
           two == <<vA, vB>>
           three == <<vA, vB, vC>>
           four == <<vA, vB, vC, vD>>
           whats == <<whatA, whatB, whatC, whatD>>
           d0 == d \o rest
           c0 == c \o d0
           b0 == b \o c0
           r == At(a \o b0, none)
<1>a. Append(none, vA) = one /\ IsList(none) /\ IsList(one)
    <2>1. one \in Seq({vA}) /\ Append(none, vA) = one
        OBVIOUS
    <2> QED BY <2>1, EmptyList, ListOf
<1>b. Append(one, vB) = two
    BY Pair
<1>1. /\ Append(two, vC) = three /\ Append(three, vD) = four
      /\ IsList(two) /\ IsList(three)
    BY Appended, ZenonT(20)
<1>2. /\ Len(whats) = 4 /\ whats[1] = whatA /\ whats[2] = whatB
      /\ whats[3] = whatC /\ whats[4] = whatD
    OBVIOUS
<1> HIDE DEF none, one, two, three, four, whats
<1>d. d0 \in Seq(Nat)
    BY DEF Takes
<1> HIDE DEF d0
<1>c. c0 \in Seq(Nat)
    BY <1>d DEF Takes
<1> HIDE DEF c0
<1>e. b0 \in Seq(Nat)
    BY <1>c DEF Takes
<1> HIDE DEF b0
<1>3. Leaf(whatA, r) = At(b0, one)
    BY <1>a, <1>e DEF Takes
<1>4. Leaf(whatB, At(b0, one)) = At(c0, two)
    BY <1>a, <1>b, <1>c DEF Takes, b0
<1>5. Leaf(whatC, At(c0, two)) = At(d0, three)
    BY <1>1, <1>d DEF Takes, c0
<1>6. Leaf(whatD, At(d0, three)) = At(rest, four)
    BY <1>1 DEF Takes, d0
<1>7. r.ok = TRUE /\ \A x, y : At(x, y).ok = TRUE
    BY DEF At, Yes
<1> HIDE DEF r
<1>n. Len(whats) \in Nat
    BY <1>2
<1>8. PICK f : Steps(f, whats, r) /\ InTurn(whats, r) = f[Len(whats)]
    BY <1>n, InTurnIs
<1>9. /\ f[0] = r
      /\ \A k \in 1 .. Len(whats) :
            f[k] = IF f[k - 1].ok THEN Leaf(whats[k], f[k - 1]) ELSE f[k - 1]
    BY <1>8 DEF Steps
<1>10. f[1] = At(b0, one)
    <2>1. f[1] = IF f[0].ok THEN Leaf(whats[1], f[0]) ELSE f[0]
        <3>1. 1 \in 1 .. Len(whats) /\ 1 - 1 = 0
            BY <1>2
        <3> QED BY <1>9, <3>1
    <2> QED BY <1>2, <1>3, <1>7, <1>9, <2>1
<1>11. f[2] = At(c0, two)
    <2>1. f[2] = IF f[1].ok THEN Leaf(whats[2], f[1]) ELSE f[1]
        <3>1. 2 \in 1 .. Len(whats) /\ 2 - 1 = 1
            BY <1>2
        <3> QED BY <1>9, <3>1
    <2> QED BY <1>2, <1>4, <1>7, <1>10, <2>1
<1>12. f[3] = At(d0, three)
    <2>1. f[3] = IF f[2].ok THEN Leaf(whats[3], f[2]) ELSE f[2]
        <3>1. 3 \in 1 .. Len(whats) /\ 3 - 1 = 2
            BY <1>2
        <3> QED BY <1>9, <3>1
    <2> QED BY <1>2, <1>5, <1>7, <1>11, <2>1
<1>13. f[4] = At(rest, four)
    <2>1. f[4] = IF f[3].ok THEN Leaf(whats[4], f[3]) ELSE f[3]
        <3>1. 4 \in 1 .. Len(whats) /\ 4 - 1 = 3
            BY <1>2
        <3> QED BY <1>9, <3>1
    <2> QED BY <1>2, <1>6, <1>7, <1>12, <2>1
<1> QED BY <1>2, <1>8, <1>13 DEF none, four, whats, r, b0, c0, d0

-----------------------------------------------------------------------------
(* The flags of a payload.                                                  *)
LEMMA BitsSet ==
    ASSUME NEW a \in {0, 1}, NEW b \in {0, 2}, NEW c \in {0, 4}, NEW d \in {0, 8}
    PROVE  /\ Set(a + b + c + d, 1) <=> a = 1
           /\ Set(a + b + c + d, 2) <=> b = 2
           /\ Set(a + b + c + d, 4) <=> c = 4
           /\ Set(a + b + c + d, 8) <=> d = 8
           /\ a + b + c + d \in Nat
<1> DEFINE f == a + b + c + d
<1>0. f \in 0 .. 15
    OBVIOUS
<1>1. \A n \in 0 .. 15 : n \div 1 = n
    OBVIOUS
<1>2. f % 2 = 1 <=> a = 1
    OBVIOUS
<1>3. (f \div 2) % 2 = 1 <=> b = 2
    OBVIOUS
<1>4. (f \div 4) % 2 = 1 <=> c = 4
    OBVIOUS
<1>5. (f \div 8) % 2 = 1 <=> d = 8
    OBVIOUS
<1> QED BY <1>0, <1>1, <1>2, <1>3, <1>4, <1>5 DEF Set

(* What an event can bring along.                                           *)
EventPayload ==
    {p \in UNION {[slots -> DOMAIN Utf8 \cup BOOLEAN] : slots \in SUBSET {"value", "checked", "key"}} :
        \A slot \in DOMAIN p : p[slot] \in IF slot = "checked" THEN BOOLEAN ELSE DOMAIN Utf8}

(* The slots of a payload have values that can be sent.                     *)
LEMMA PayloadParts ==
    ASSUME NEW p \in EventPayload
    PROVE  /\ p = [slot \in DOMAIN p |-> p[slot]]
           /\ DOMAIN p \subseteq {"value", "checked", "key"}
           /\ Has(p, "checked") => p["checked"] \in BOOLEAN
           /\ Has(p, "value") => p["value"] \in DOMAIN Utf8
           /\ Has(p, "key") => p["key"] \in DOMAIN Utf8
<1>1. PICK slots \in SUBSET {"value", "checked", "key"} : p \in [slots -> DOMAIN Utf8 \cup BOOLEAN]
    BY DEF EventPayload
<1>2. DOMAIN p = slots /\ p = [slot \in DOMAIN p |-> p[slot]]
    BY <1>1
<1>3. \A slot \in DOMAIN p : p[slot] \in IF slot = "checked" THEN BOOLEAN ELSE DOMAIN Utf8
    BY DEF EventPayload
<1>4. Has(p, "checked") => p["checked"] \in BOOLEAN
    BY <1>3 DEF Has
<1>5. Has(p, "value") => p["value"] \in DOMAIN Utf8
    BY <1>3 DEF Has
<1>6. Has(p, "key") => p["key"] \in DOMAIN Utf8
    BY <1>3 DEF Has
<1> QED BY <1>2, <1>4, <1>5, <1>6

(* The flags of a payload say what it has.                                  *)
LEMMA FlagsSay ==
    ASSUME NEW p \in EventPayload
    PROVE  /\ Flags(p) \in Nat
           /\ Set(Flags(p), 1) <=> Has(p, "value")
           /\ Set(Flags(p), 2) <=> Has(p, "checked")
           /\ Set(Flags(p), 4) <=> (Has(p, "checked") /\ p["checked"])
           /\ Set(Flags(p), 8) <=> Has(p, "key")
<1> DEFINE A == Has(p, "value")
           B == Has(p, "checked")
           C == Has(p, "checked") /\ p["checked"]
           D == Has(p, "key")
           a == Bit(A, 1)
           b == Bit(B, 2)
           c == Bit(C, 4)
           d == Bit(D, 8)
<1>1. Flags(p) = a + b + c + d
    BY DEF Flags
<1>2. a \in {0, 1} /\ (a = 1 <=> A)
    <2> HIDE DEF A
    <2> QED BY DEF Bit
<1>3. b \in {0, 2} /\ (b = 2 <=> B)
    <2> HIDE DEF B
    <2> QED BY DEF Bit
<1>4. c \in {0, 4} /\ (c = 4 <=> C)
    <2> HIDE DEF C
    <2> QED BY DEF Bit
<1>5. d \in {0, 8} /\ (d = 8 <=> D)
    <2> HIDE DEF D
    <2> QED BY DEF Bit
<1> HIDE DEF A, B, C, D, a, b, c, d
<1> DEFINE f == a + b + c + d
<1>6. (Set(f, 1) <=> a = 1) /\ (Set(f, 2) <=> b = 2) /\ (Set(f, 4) <=> c = 4)
      /\ (Set(f, 8) <=> d = 8) /\ f \in Nat
    BY <1>2, <1>3, <1>4, <1>5, BitsSet
<1>7. Flags(p) = f
    BY <1>1
<1> HIDE DEF f
<1>8. (Set(f, 1) <=> A) /\ (Set(f, 2) <=> B) /\ (Set(f, 4) <=> C) /\ (Set(f, 8) <=> D)
    BY <1>2, <1>3, <1>4, <1>5, <1>6
<1> QED BY <1>6, <1>7, <1>8 DEF A, B, C, D

(* A payload put together from what the flags and the strings say.          *)
SlotsOf(flags) == When(Set(flags, 1), "value") \o When(Set(flags, 8), "key")
Fills(strings, p, slots) == \A i \in DOMAIN slots : strings[i] = p[slots[i]]

(* What decode makes of such strings is the payload.                        *)
LEMMA PayloadFrom ==
    ASSUME NEW p \in EventPayload, NEW strings,
           ToSet(SlotsOf(Flags(p))) = DOMAIN p \ {"checked"},
           Fills(strings, p, SlotsOf(Flags(p)))
    PROVE  Payload(Flags(p), strings) = p
<1> DEFINE f == Flags(p)
           slots == SlotsOf(f)
           checked == ToSet(When(Set(f, 2), "checked"))
           find(slot) == CHOOSE i \in DOMAIN slots : slots[i] = slot
<1>1. Payload(f, strings) = [slot \in ToSet(slots) \cup checked |->
                                IF slot = "checked" THEN Set(f, 4) ELSE strings[find(slot)]]
    BY DEF Payload, SlotsOf
<1>s. ToSet(slots) = DOMAIN p \ {"checked"} /\ \A i \in DOMAIN slots : strings[i] = p[slots[i]]
    BY DEF Fills
<1> HIDE DEF slots
<1>2. checked = IF Has(p, "checked") THEN {"checked"} ELSE {}
    <2>1. ToSet(<<"checked">>) = {"checked"} /\ ToSet(<<>>) = {}
        BY DEF ToSet
    <2>2. Set(f, 2) <=> Has(p, "checked")
        BY FlagsSay
    <2> QED BY <2>1, <2>2 DEF When
<1>3. ToSet(slots) \cup checked = DOMAIN p
    BY <1>2, <1>s DEF Has
<1>4. Has(p, "checked") => (Set(f, 4) = p["checked"])
    <2> SUFFICES ASSUME Has(p, "checked") PROVE Set(f, 4) = p["checked"]
        OBVIOUS
    <2>1. p["checked"] \in BOOLEAN
        BY PayloadParts
    <2>2. Set(f, 4) <=> p["checked"]
        BY FlagsSay
    <2>3. Set(f, 4) \in BOOLEAN
        BY DEF Set
    <2> QED BY <2>1, <2>2, <2>3
<1>5. \A slot \in ToSet(slots) : strings[find(slot)] = p[slot]
    <2> SUFFICES ASSUME NEW slot \in ToSet(slots) PROVE strings[find(slot)] = p[slot]
        OBVIOUS
    <2>1. \E i \in DOMAIN slots : slots[i] = slot
        BY DEF ToSet
    <2>2. find(slot) \in DOMAIN slots /\ slots[find(slot)] = slot
        BY <2>1
    <2> QED BY <1>s, <2>2
<1> HIDE DEF f, checked, find
<1>6. ASSUME NEW slot \in DOMAIN p
      PROVE  (IF slot = "checked" THEN Set(f, 4) ELSE strings[find(slot)]) = p[slot]
    <2>1. CASE slot = "checked"
        BY <1>4, <2>1 DEF Has
    <2>2. CASE slot # "checked"
        <3>1. slot \in ToSet(slots)
            BY <1>s, <2>2
        <3> QED BY <1>5, <2>2, <3>1
    <2> QED BY <2>1, <2>2
<1>7. Payload(f, strings) = [slot \in DOMAIN p |->
                                IF slot = "checked" THEN Set(f, 4) ELSE strings[find(slot)]]
    BY <1>1, <1>3
<1>8. Payload(f, strings) = [slot \in DOMAIN p |-> p[slot]]
    BY <1>6, <1>7
<1> QED BY <1>8, PayloadParts DEF f

(* The strings behind the flags are read, and the payload is what it was.   *)
LEMMA PayloadArrives ==
    ASSUME NEW p \in EventPayload, NEW rest \in Seq(Nat)
    PROVE  \E x \in Seq(Nat) : \E strings :
              /\ Optional(p, "value") \o Optional(p, "key") = x
              /\ InTurn(Strings(Flags(p)), At(x \o rest, <<>>)) = At(rest, strings)
              /\ Payload(Flags(p), strings) = p
<1> DEFINE f == Flags(p)
           v == Has(p, "value")
           k == Has(p, "key")
           slots == SlotsOf(f)
           none == <<>>
<1>1. (Set(f, 1) <=> v) /\ (Set(f, 8) <=> k)
    BY FlagsSay
<1>2. slots = When(v, "value") \o When(k, "key") /\ Strings(f) = When(v, "str") \o When(k, "str")
    BY <1>1 DEF Strings, When, SlotsOf
<1>3. /\ DOMAIN p \ {"checked"} = {s \in {"value", "key"} : s \in DOMAIN p}
      /\ (v <=> "value" \in DOMAIN p) /\ (k <=> "key" \in DOMAIN p)
    BY PayloadParts DEF Has
<1>4. /\ v => p["value"] \in DOMAIN Utf8 /\ Takes("str", Str(p["value"]), p["value"])
      /\ k => p["key"] \in DOMAIN Utf8 /\ Takes("str", Str(p["key"]), p["key"])
    BY PayloadParts, StringTaken
<1>5. /\ Optional(p, "value") = IF v THEN Str(p["value"]) ELSE none
      /\ Optional(p, "key") = IF k THEN Str(p["key"]) ELSE none
    BY DEF Optional
<1>6. \A strings : ToSet(slots) = DOMAIN p \ {"checked"} /\ Fills(strings, p, slots)
                      => Payload(f, strings) = p
    BY PayloadFrom
<1>e. none \in Seq(Nat) /\ \A x \in Seq(Nat) : none \o x = x /\ x \o none = x
    OBVIOUS
<1> HIDE DEF f, slots, v, k
<1>7. CASE v /\ k
    <2> DEFINE a == Str(p["value"])
               b == Str(p["key"])
               x == a \o b
               strings == <<p["value"], p["key"]>>
    <2>1. slots = <<"value", "key">> /\ Strings(f) = <<"str", "str">>
        <3>1. <<"value">> \o <<"key">> = <<"value", "key">> /\ <<"str">> \o <<"str">> = <<"str", "str">>
            BY Joined
        <3> QED BY <1>2, <1>7, <3>1 DEF When
    <2>2. ToSet(slots) = DOMAIN p \ {"checked"}
        BY <1>3, <1>7, <2>1 DEF ToSet
    <2>3. \A i \in DOMAIN slots : strings[i] = p[slots[i]]
        BY <2>1
    <2>4. Optional(p, "value") \o Optional(p, "key") = x
        BY <1>5, <1>7
    <2>5. a \in Seq(Nat) /\ b \in Seq(Nat) /\ Takes("str", a, p["value"]) /\ Takes("str", b, p["key"])
        BY <1>4, <1>7 DEF Takes
    <2>6. InTurn(<<"str", "str">>, At(a \o (b \o rest), none)) = At(rest, strings)
        BY <2>5, TwoTaken
    <2> HIDE DEF a, b, strings
    <2>7. x \in Seq(Nat) /\ x \o rest = a \o (b \o rest)
        <3>1. IsBytes(a) /\ IsBytes(b) /\ IsBytes(rest)
            BY <2>5 DEF IsBytes
        <3>2. Cat(Cat(a, b), rest) = Cat(a, Cat(b, rest)) /\ IsBytes(Cat(a, b))
            BY <3>1, CatAssociates, CatIsBytes
        <3> QED BY <3>2 DEF Cat, IsBytes
    <2>8. Payload(f, strings) = p
        BY <1>6, <2>2, <2>3 DEF Fills
    <2> HIDE DEF x
    <2>9. InTurn(Strings(f), At(x \o rest, none)) = At(rest, strings)
        BY <2>1, <2>6, <2>7
    <2> QED BY <2>4, <2>7, <2>8, <2>9 DEF f
<1>8. CASE v /\ ~ k
    <2> DEFINE x == Str(p["value"])
               strings == <<p["value"]>>
    <2>1. slots = <<"value">> /\ Strings(f) = <<"str">>
        BY <1>2, <1>8 DEF When
    <2>2. ToSet(slots) = DOMAIN p \ {"checked"}
        BY <1>3, <1>8, <2>1 DEF ToSet
    <2>3. \A i \in DOMAIN slots : strings[i] = p[slots[i]]
        BY <2>1
    <2>5. x \in Seq(Nat) /\ Takes("str", x, p["value"])
        BY <1>4, <1>8 DEF Takes
    <2>4. Optional(p, "value") \o Optional(p, "key") = x
        BY <1>5, <1>8, <1>e, <2>5
    <2>6. InTurn(<<"str">>, At(x \o rest, none)) = At(rest, strings)
        BY <2>5, OneTaken
    <2> HIDE DEF strings, x
    <2>8. Payload(f, strings) = p
        BY <1>6, <2>2, <2>3 DEF Fills
    <2>9. InTurn(Strings(f), At(x \o rest, none)) = At(rest, strings)
        BY <2>1, <2>6
    <2> QED BY <2>4, <2>5, <2>8, <2>9 DEF f
<1>9. CASE ~ v /\ k
    <2> DEFINE x == Str(p["key"])
               strings == <<p["key"]>>
    <2>1. slots = <<"key">> /\ Strings(f) = <<"str">>
        BY <1>2, <1>9 DEF When
    <2>2. ToSet(slots) = DOMAIN p \ {"checked"}
        BY <1>3, <1>9, <2>1 DEF ToSet
    <2>3. \A i \in DOMAIN slots : strings[i] = p[slots[i]]
        BY <2>1
    <2>5. x \in Seq(Nat) /\ Takes("str", x, p["key"])
        BY <1>4, <1>9 DEF Takes
    <2>4. Optional(p, "value") \o Optional(p, "key") = x
        BY <1>5, <1>9, <1>e, <2>5
    <2>6. InTurn(<<"str">>, At(x \o rest, none)) = At(rest, strings)
        BY <2>5, OneTaken
    <2> HIDE DEF strings, x
    <2>8. Payload(f, strings) = p
        BY <1>6, <2>2, <2>3 DEF Fills
    <2>9. InTurn(Strings(f), At(x \o rest, none)) = At(rest, strings)
        BY <2>1, <2>6
    <2> QED BY <2>4, <2>5, <2>8, <2>9 DEF f
<1>10. CASE ~ v /\ ~ k
    <2>1. slots = none /\ Strings(f) = none
        BY <1>2, <1>10 DEF When
    <2>2. ToSet(slots) = DOMAIN p \ {"checked"}
        BY <1>3, <1>10, <2>1 DEF ToSet
    <2>3. \A i \in DOMAIN slots : none[i] = p[slots[i]]
        BY <2>1
    <2>4. Optional(p, "value") \o Optional(p, "key") = none
        BY <1>5, <1>10, <1>e
    <2>6. InTurn(none, At(rest, none)) = At(rest, none)
        BY NothingTaken
    <2> HIDE DEF none
    <2>8. Payload(f, none) = p
        BY <1>6, <2>2, <2>3 DEF Fills
    <2>9. InTurn(Strings(f), At(none \o rest, none)) = At(rest, none)
        BY <1>e, <2>1, <2>6
    <2>10. none \in Seq(Nat)
        BY <1>e
    <2> QED BY <2>4, <2>8, <2>9, <2>10 DEF f, none
<1> QED BY <1>7, <1>8, <1>9, <1>10

-----------------------------------------------------------------------------
(* A frame is read as it was written, by the reader that starts at its      *)
(* first byte.                                                              *)
LEMMA Begins ==
    ASSUME NEW kind \in Nat, NEW rest \in Seq(Nat)
    PROVE  InTurn(<<"u8", "u8">>, Reader(<<FrameVersion>> \o (<<kind>> \o rest)))
             = At(rest, <<FrameVersion, kind>>)
<1>1. FrameVersion \in Nat
    BY DEF FrameVersion
<1>2. Takes("u8", <<FrameVersion>>, FrameVersion) /\ Takes("u8", <<kind>>, kind)
    BY <1>1, ByteTaken
<1>3. \A b : Reader(b) = At(b, <<>>)
    BY DEF Reader, At, Yes
<1> HIDE DEF FrameVersion
<1>4. InTurn(<<"u8", "u8">>, At(<<FrameVersion>> \o (<<kind>> \o rest), <<>>))
        = At(rest, <<FrameVersion, kind>>)
    BY <1>2, TwoTaken
<1> QED BY <1>3, <1>4

(* What is read of a frame starts a new list.                               *)
LEMMA Afresh ==
    ASSUME NEW b, NEW out
    PROVE  Fresh(At(b, out)) = At(b, <<>>)
BY DEF Fresh, At

(* notify: NOTIFY, the id, the time.                                        *)
LEMMA NotifyArrives ==
    ASSUME NEW id \in Number, NEW now \in Number
    PROVE  Decode(FrameBytes(NotifyFrame(id, now)))
             = IF id <= MaxU32 THEN NotifyFrame(id, now) ELSE Malformed
<1> DEFINE a == Varint[id]
           b == Varint[now]
           none == <<>>
           rest == a \o b
           start == At(rest, <<FrameVersion, 2>>)
<1>1. Takes("vu", a, id) /\ Takes("vu", b, now) /\ a \in Seq(Nat) /\ b \in Seq(Nat)
    BY NumberTaken DEF Takes
<1>2. none \in Seq(Nat) /\ \A x \in Seq(Nat) : x \o none = x
    OBVIOUS
<1>3. FrameBytes(NotifyFrame(id, now)) = <<FrameVersion>> \o ((<<2>> \o a) \o b)
    BY DEF FrameBytes, NotifyFrame
<1>4. (<<2>> \o a) \o b = <<2>> \o rest /\ rest \in Seq(Nat) /\ rest = a \o (b \o none)
    <2> DEFINE e == <<2>>
    <2>1. IsBytes(e)
        BY DEF IsBytes
    <2>2. IsBytes(a) /\ IsBytes(b) /\ b \o none = b
        BY <1>1, <1>2 DEF IsBytes
    <2> HIDE DEF a, b, e, none
    <2>3. Cat(Cat(e, a), b) = Cat(e, Cat(a, b)) /\ IsBytes(Cat(a, b))
        BY <2>1, <2>2, CatAssociates, CatIsBytes
    <2> QED BY <2>2, <2>3 DEF e, Cat, IsBytes
<1>5. InTurn(<<"vu", "vu">>, At(rest, none)) = At(none, <<id, now>>)
    <2> HIDE DEF a, b
    <2>0. none \in Seq(Nat)
        BY <1>2
    <2>t. Takes("vu", a, id) /\ Takes("vu", b, now)
        BY <1>1
    <2>a. ASSUME NEW z \in Seq(Nat)
          PROVE  InTurn(<<"vu", "vu">>, At(a \o (b \o z), <<>>)) = At(z, <<id, now>>)
        BY <2>t, TwoTaken
    <2>1. InTurn(<<"vu", "vu">>, At(a \o (b \o none), <<>>)) = At(none, <<id, now>>)
        <3> HIDE DEF none
        <3> QED BY <2>0, <2>a
    <2> QED BY <1>4, <2>1
<1>6. InTurn(<<"u8", "u8">>, Reader(<<FrameVersion>> \o (<<2>> \o rest))) = start
    <2> HIDE DEF rest
    <2> QED BY <1>4, Begins
<1> HIDE DEF rest, a, b
<1>7. Decode(FrameBytes(NotifyFrame(id, now))) = DecodeBody(start)
    BY <1>3, <1>4, <1>6 DEF Decode
<1>8. /\ start.ok = TRUE /\ start.out[1] = FrameVersion
      /\ start.out[2] = 2 /\ Fresh(start) = At(rest, none)
    <2>1. Fresh(start) = At(rest, none)
        BY Afresh
    <2>2. start.ok = TRUE /\ start.out = <<FrameVersion, 2>>
        BY DEF At, Yes
    <2>3. start.out[1] = FrameVersion /\ start.out[2] = 2
        BY <2>2
    <2> QED BY <2>1, <2>2, <2>3
<1> HIDE DEF start
<1>9. DecodeBody(start) = DecodeNotify(At(none, <<id, now>>))
    BY <1>5, <1>8 DEF DecodeBody
<1>10. DecodeNotify(At(none, <<id, now>>)) = IF id <= MaxU32 THEN NotifyFrame(id, now) ELSE Malformed
    BY DEF DecodeNotify, At, Yes
<1> QED BY <1>7, <1>9, <1>10

(* resolve: RESOLVE, the id, whether it went well, the status, the body.    *)
LEMMA ResolveArrives ==
    ASSUME NEW id \in Number, NEW ok \in BOOLEAN, NEW status \in Number, NEW body \in DOMAIN Utf8
    PROVE  Decode(FrameBytes(ResolveFrame(id, ok, status, body)))
             = IF id <= MaxU32 /\ status <= MaxU16 THEN ResolveFrame(id, ok, status, body)
               ELSE Malformed
<1> DEFINE a == Varint[id]
           n == Bit(ok, 1)
           b == <<n>>
           c == Varint[status]
           d == Str(body)
           none == <<>>
           rest == a \o (b \o (c \o d))
           start == At(rest, <<FrameVersion, 1>>)
           read == <<id, n, status, body>>
<1>0. n \in Nat /\ (n # 0) = ok
    BY DEF Bit
<1>1. /\ Takes("vu", a, id) /\ Takes("u8", b, n) /\ Takes("vu", c, status) /\ Takes("str", d, body)
      /\ a \in Seq(Nat) /\ b \in Seq(Nat) /\ c \in Seq(Nat) /\ d \in Seq(Nat)
    <2> HIDE DEF n
    <2>1. Takes("vu", a, id) /\ Takes("vu", c, status)
        BY NumberTaken
    <2>2. Takes("u8", b, n) /\ Takes("str", d, body)
        BY <1>0, ByteTaken, StringTaken
    <2> QED BY <2>1, <2>2 DEF Takes
<1>2. none \in Seq(Nat) /\ \A x \in Seq(Nat) : x \o none = x
    OBVIOUS
<1>3. FrameBytes(ResolveFrame(id, ok, status, body)) = <<FrameVersion>> \o ((((<<1>> \o a) \o b) \o c) \o d)
    BY DEF FrameBytes, ResolveFrame
<1>4. (((<<1>> \o a) \o b) \o c) \o d = <<1>> \o rest /\ rest \in Seq(Nat)
    <2> DEFINE e == <<1>>
    <2>1. IsBytes(e)
        BY DEF IsBytes
    <2>2. IsBytes(a) /\ IsBytes(b) /\ IsBytes(c) /\ IsBytes(d)
        BY <1>1 DEF IsBytes
    <2> HIDE DEF a, b, c, d, e
    <2>3. /\ Cat(Cat(Cat(Cat(e, a), b), c), d) = Cat(e, Cat(a, Cat(b, Cat(c, d))))
          /\ IsBytes(Cat(a, Cat(b, Cat(c, d))))
        BY <2>1, <2>2, FiveBytes
    <2> QED BY <2>3 DEF e, Cat, IsBytes
<1>e. rest = a \o (b \o (c \o (d \o none)))
    BY <1>1, <1>2
<1>5. InTurn(<<"vu", "u8", "vu", "str">>, At(rest, none)) = At(none, read)
    <2> HIDE DEF a, b, c, d, n
    <2>0. none \in Seq(Nat)
        BY <1>2
    <2>t. Takes("vu", a, id) /\ Takes("u8", b, n) /\ Takes("vu", c, status) /\ Takes("str", d, body)
        BY <1>1
    <2>a. ASSUME NEW z \in Seq(Nat)
          PROVE  InTurn(<<"vu", "u8", "vu", "str">>, At(a \o (b \o (c \o (d \o z))), <<>>)) = At(z, read)
        BY <2>t, FourTaken
    <2>1. InTurn(<<"vu", "u8", "vu", "str">>, At(a \o (b \o (c \o (d \o none))), <<>>)) = At(none, read)
        <3> HIDE DEF none, read
        <3> QED BY <2>0, <2>a
    <2> HIDE DEF rest, read
    <2> QED BY <1>e, <2>1
<1>6. InTurn(<<"u8", "u8">>, Reader(<<FrameVersion>> \o (<<1>> \o rest))) = start
    <2> HIDE DEF rest
    <2> QED BY <1>4, Begins
<1> HIDE DEF rest, a, b, c, d
<1>7. Decode(FrameBytes(ResolveFrame(id, ok, status, body))) = DecodeBody(start)
    BY <1>3, <1>4, <1>6 DEF Decode
<1>8. /\ start.ok = TRUE /\ start.out[1] = FrameVersion
      /\ start.out[2] = 1 /\ Fresh(start) = At(rest, none)
    <2>1. Fresh(start) = At(rest, none)
        BY Afresh
    <2>2. start.ok = TRUE /\ start.out = <<FrameVersion, 1>>
        BY DEF At, Yes
    <2>3. start.out[1] = FrameVersion /\ start.out[2] = 1
        BY <2>2
    <2> QED BY <2>1, <2>2, <2>3
<1> HIDE DEF start
<1>9. DecodeBody(start) = DecodeResolve(At(none, read))
    BY <1>5, <1>8 DEF DecodeBody
<1>10. DecodeResolve(At(none, read))
         = IF id <= MaxU32 /\ status <= MaxU16 THEN ResolveFrame(id, ok, status, body) ELSE Malformed
    <2> HIDE DEF n
    <2> QED BY <1>0 DEF DecodeResolve, At, Yes
<1> QED BY <1>7, <1>9, <1>10

(* Where an event can happen: the numbers of children that a reader can take. *)
EventPath == {p \in Seq(Nat \ {0}) : Len(p) \in Number /\ \A i \in DOMAIN p : p[i] - 1 \in Number}

(* The path of an event: the numbers from zero are written, those from one  *)
(* are made of them.                                                        *)
LEMMA PathArrives ==
    ASSUME NEW path \in EventPath, NEW rest \in Seq(Nat)
    PROVE  LET nums == [i \in DOMAIN path |-> Varint[path[i] - 1]]
               taken == [i \in 1 .. Len(path) |-> path[i] - 1]
           IN  /\ Counted(nums) = Varint[Len(path)] \o FlattenSeq(nums)
               /\ FlattenSeq(nums) \in Seq(Nat)
               /\ InTurn([i \in 1 .. Len(path) |-> "vu"], At(FlattenSeq(nums) \o rest, <<>>))
                    = At(rest, taken)
               /\ [i \in DOMAIN taken |-> taken[i] + 1] = path
<1> DEFINE n == Len(path)
           nums == [i \in DOMAIN path |-> Varint[path[i] - 1]]
           taken == [i \in 1 .. n |-> path[i] - 1]
           whats == [i \in 1 .. n |-> "vu"]
<1>1. /\ path \in Seq(Nat \ {0}) /\ n \in Nat /\ DOMAIN path = 1 .. n
      /\ \A i \in 1 .. n : path[i] \in Nat \ {0} /\ path[i] - 1 \in Number
    BY DEF EventPath
<1>2. /\ Len(nums) = n /\ Len(whats) = n /\ Len(taken) = n
    BY <1>1, LenOfFunction
<1>3. n = 0 => nums = <<>>
    BY <1>1
<1>4. IsList(taken)
    <2>1. taken \in Seq(Int)
        BY <1>1
    <2> QED BY <2>1, ListOf
<1>5. ASSUME NEW i \in 1 .. n PROVE Takes(whats[i], nums[i], taken[i])
    <2>1. Takes("vu", Varint[path[i] - 1], path[i] - 1)
        BY <1>1, NumberTaken
    <2> QED BY <1>1, <2>1
<1>6. Counted(nums) = Varint[n] \o FlattenSeq(nums)
    BY <1>2 DEF Counted
<1>7. [i \in DOMAIN taken |-> taken[i] + 1] = path
    <2>1. DOMAIN taken = 1 .. n
        OBVIOUS
    <2>2. \A i \in 1 .. n : taken[i] + 1 = path[i]
        BY <1>1
    <2>3. path = [i \in 1 .. n |-> path[i]]
        BY <1>1
    <2> QED BY <2>1, <2>2, <2>3
<1> HIDE DEF n, nums, taken, whats
<1>8. /\ FlattenSeq(nums) \in Seq(Nat)
      /\ InTurn(whats, At(FlattenSeq(nums) \o rest, <<>>)) = At(rest, taken)
    <2>1. EachTakes(n, whats, nums, taken)
        BY <1>5 DEF EachTakes
    <2>2. n \in Nat
        BY <1>1
    <2> QED BY <1>2, <1>3, <1>4, <2>1, <2>2, AllTaken
<1> QED BY <1>6, <1>7, <1>8 DEF n, nums, taken, whats

(* dispatch: DISPATCH, the path, the name, the flags, and the strings there *)
(* are.                                                                     *)
LEMMA DispatchArrives ==
    ASSUME NEW path \in EventPath, NEW name \in DOMAIN Utf8, NEW payload \in EventPayload
    PROVE  Decode(FrameBytes(DispatchFrame(path, name, payload)))
             = IF Len(path) > MaxPath \/ \E i \in DOMAIN path : path[i] - 1 > MaxU32 THEN Malformed
               ELSE DispatchFrame(path, name, payload)
<1> DEFINE frame == DispatchFrame(path, name, payload)
           n == Len(path)
           nums == [i \in DOMAIN path |-> Varint[path[i] - 1]]
           taken == [i \in 1 .. n |-> path[i] - 1]
           vus == [i \in 1 .. n |-> "vu"]
           f == Flags(payload)
           k == Varint[n]
           p == FlattenSeq(nums)
           s == Str(name)
           g == <<f>>
           u == Optional(payload, "value")
           w == Optional(payload, "key")
           e == <<0>>
           none == <<>>
           large == \E i \in DOMAIN taken : taken[i] > MaxU32
<1>p. DOMAIN path = 1 .. n
    BY DEF EventPath
<1>1. /\ Counted(nums) = k \o p /\ p \in Seq(Nat)
      /\ [i \in DOMAIN taken |-> taken[i] + 1] = path
      /\ \A b \in Seq(Nat) : InTurn(vus, At(p \o b, none)) = At(b, taken)
    <2>1. none \in Seq(Nat)
        OBVIOUS
    <2>2. Counted(nums) = k \o p /\ p \in Seq(Nat) /\ [i \in DOMAIN taken |-> taken[i] + 1] = path
        BY <2>1, PathArrives
    <2>3. ASSUME NEW b \in Seq(Nat) PROVE InTurn(vus, At(p \o b, none)) = At(b, taken)
        BY PathArrives
    <2> QED BY <2>2, <2>3
<1>2. /\ Takes("vu", k, n) /\ Takes("str", s, name) /\ Takes("u8", g, f)
      /\ IsBytes(k) /\ IsBytes(p) /\ IsBytes(s) /\ IsBytes(g) /\ IsBytes(e)
    <2>1. n \in Number /\ f \in Nat
        BY FlagsSay DEF EventPath
    <2>2. Takes("vu", k, n) /\ Takes("str", s, name)
        BY <2>1, NumberTaken, StringTaken
    <2>3. Takes("u8", g, f)
        <3> HIDE DEF f
        <3> QED BY <2>1, ByteTaken
    <2>4. e \in Seq(Nat)
        OBVIOUS
    <2> HIDE DEF k, p, s, g, f, e
    <2> QED BY <1>1, <2>2, <2>3, <2>4 DEF Takes, IsBytes
<1>3. IsBytes(u) /\ IsBytes(w)
    <2>1. none \in Seq(Nat)
        OBVIOUS
    <2>2. \A x \in DOMAIN Utf8 : Str(x) \in Seq(Nat)
        BY StringTaken DEF Takes
    <2>3. Has(payload, "value") => payload["value"] \in DOMAIN Utf8
        BY PayloadParts
    <2>4. Has(payload, "key") => payload["key"] \in DOMAIN Utf8
        BY PayloadParts
    <2> QED BY <2>1, <2>2, <2>3, <2>4 DEF Optional, IsBytes
<1> DEFINE x == Cat(u, w)
           d == Cat(g, x)
           c == Cat(s, d)
           b == Cat(p, c)
           rest == Cat(k, b)
<1>4. /\ FrameBytes(frame) = <<FrameVersion>> \o Cat(Cat(Cat(Cat(Cat(e, Cat(k, p)), s), g), u), w)
    <2>1. /\ frame.kind = "dispatch" /\ frame.path = path /\ frame.name = name
          /\ frame.payload = payload
        BY DEF DispatchFrame
    <2>2. FrameBytes(frame) = <<FrameVersion>> \o (((((e \o Counted(nums)) \o s) \o g) \o u) \o w)
        <3> HIDE DEF frame
        <3> QED BY <2>1 DEF FrameBytes
    <2> QED BY <1>1, <2>2 DEF Cat
<1> HIDE DEF e, k, p, s, g, u, w
<1>5. /\ Cat(Cat(Cat(Cat(Cat(e, Cat(k, p)), s), g), u), w) = Cat(e, rest)
      /\ IsBytes(rest) /\ IsBytes(b) /\ IsBytes(c) /\ IsBytes(d) /\ IsBytes(x)
    <2>1. IsBytes(k) /\ IsBytes(p) /\ IsBytes(s) /\ IsBytes(g) /\ IsBytes(e)
        BY <1>2
    <2> DEFINE z == Cat(k, Cat(p, Cat(s, Cat(g, Cat(u, w)))))
    <2>2. /\ Cat(Cat(Cat(Cat(Cat(e, Cat(k, p)), s), g), u), w) = Cat(e, z)
          /\ IsBytes(z)
        <3>1. /\ IsBytes(e) /\ IsBytes(k) /\ IsBytes(p) /\ IsBytes(s)
              /\ IsBytes(g) /\ IsBytes(u) /\ IsBytes(w)
            BY <1>3, <2>1
        <3>2. Regroups(e, k, p, s, g, u, w)
            BY <3>1, DispatchBytes
        <3> QED BY <3>2 DEF Regroups
    <2>3. IsBytes(x)
        BY <1>3, CatIsBytes
    <2> HIDE DEF x
    <2>4. IsBytes(d)
        BY <2>1, <2>3, CatIsBytes
    <2> HIDE DEF d
    <2>5. IsBytes(c)
        BY <2>1, <2>4, CatIsBytes
    <2> HIDE DEF c
    <2>6. IsBytes(b)
        BY <2>1, <2>5, CatIsBytes
    <2>7. z = rest
        BY DEF x, d, c
    <2> QED BY <2>2, <2>3, <2>4, <2>5, <2>6, <2>7
<1> HIDE DEF x
<1> DEFINE start == At(rest, <<FrameVersion, 0>>)
<1>6. Decode(FrameBytes(frame)) = DecodeBody(start)
    <2>1. rest \in Seq(Nat)
        BY <1>5 DEF IsBytes
    <2> HIDE DEF rest
    <2>2. InTurn(<<"u8", "u8">>, Reader(<<FrameVersion>> \o (<<0>> \o rest))) = start
        BY <2>1, Begins
    <2>3. FrameBytes(frame) = <<FrameVersion>> \o (<<0>> \o rest)
        BY <1>4, <1>5 DEF Cat, e
    <2> HIDE DEF start, frame
    <2> QED BY <2>2, <2>3 DEF Decode
<1> HIDE DEF frame
<1> DEFINE depth == At(b, <<n>>)
<1>7. DecodeBody(start) = DecodeDispatch(depth)
    <2>1. b \in Seq(Nat)
        BY <1>5 DEF IsBytes
    <2> HIDE DEF b
    <2>2. InTurn(<<"vu">>, At(k \o b, <<>>)) = depth
        <3> HIDE DEF n
        <3> QED BY <1>2, <2>1, OneTaken
    <2>3. /\ start.ok = TRUE /\ start.out[1] = FrameVersion
          /\ start.out[2] = 0 /\ Fresh(start) = At(rest, <<>>)
        <3>1. Fresh(start) = At(rest, <<>>)
            BY Afresh
        <3>2. start.ok = TRUE /\ start.out = <<FrameVersion, 0>>
            BY DEF At, Yes
        <3>3. start.out[1] = FrameVersion /\ start.out[2] = 0
            BY <3>2
        <3> QED BY <3>1, <3>2, <3>3
    <2>4. Fresh(start) = At(k \o b, <<>>)
        BY <2>3 DEF rest, Cat
    <2> HIDE DEF start, depth
    <2> QED BY <2>2, <2>3, <2>4 DEF DecodeBody
<1>8. depth.ok = TRUE /\ depth.out[1] = n /\ Fresh(depth) = At(b, none)
    <2> HIDE DEF n
    <2>1. depth.ok = TRUE /\ depth.out = <<n>>
        BY DEF At, Yes
    <2>2. Fresh(depth) = At(b, none)
        BY Afresh
    <2> QED BY <2>1, <2>2
<1> HIDE DEF start, depth
<1>9. CASE n > MaxPath
    <2>1. DecodeDispatch(depth) = Malformed
        BY <1>8, <1>9 DEF DecodeDispatch
    <2> QED BY <1>6, <1>7, <1>9, <2>1 DEF frame
<1>10. CASE ~ (n > MaxPath)
    <2>1. InTurn(vus, Fresh(depth)) = At(c, taken)
        <3>1. c \in Seq(Nat)
            BY <1>5 DEF IsBytes
        <3> HIDE DEF c, vus, taken
        <3> QED BY <1>1, <1>8, <3>1 DEF b, Cat
    <2>2. At(c, taken).out = taken /\ Fresh(At(c, taken)) = At(c, none)
        <3> HIDE DEF taken, c
        <3> QED BY Afresh DEF At
    <2> DEFINE q == At(x, <<name, f>>)
    <2>3. InTurn(<<"str", "u8">>, At(c, none)) = q
        <3>1. x \in Seq(Nat)
            BY <1>5 DEF IsBytes
        <3> HIDE DEF f
        <3>2. InTurn(<<"str", "u8">>, At(s \o (g \o x), <<>>)) = q
            BY <1>2, <3>1, TwoTaken
        <3>3. c = s \o (g \o x)
            BY DEF Cat
        <3> HIDE DEF c, q
        <3> QED BY <3>2, <3>3
    <2>4. q.ok = TRUE /\ q.out[1] = name /\ q.out[2] = f /\ Fresh(q) = At(x, none)
        <3> HIDE DEF f
        <3>1. q.ok = TRUE /\ q.out = <<name, f>>
            BY DEF At, Yes
        <3>2. Fresh(q) = At(x, none)
            BY Afresh
        <3> QED BY <3>1, <3>2
    <2>5. PICK strings : /\ InTurn(Strings(f), At(x, none)) = At(none, strings)
                         /\ Payload(f, strings) = payload
        <3>1. none \in Seq(Nat)
            OBVIOUS
        <3>2. PICK y \in Seq(Nat) : \E strings :
                    /\ u \o w = y
                    /\ InTurn(Strings(f), At(y \o none, none)) = At(none, strings)
                    /\ Payload(f, strings) = payload
            BY <3>1, PayloadArrives DEF u, w
        <3>3. PICK strings :
                    /\ u \o w = y
                    /\ InTurn(Strings(f), At(y \o none, none)) = At(none, strings)
                    /\ Payload(f, strings) = payload
            BY <3>2
        <3>4. y \o none = y
            OBVIOUS
        <3>5. x = y
            BY <3>3 DEF x, Cat
        <3> HIDE DEF f, none
        <3> QED BY <3>3, <3>4, <3>5
    <2>6. At(none, strings).ok = TRUE /\ At(none, strings).out = strings
        BY DEF At, Yes
    <2> HIDE DEF q, taken, f, c, none, vus, large
    <2>7. DecodeDispatch(depth) = IF large THEN Malformed ELSE Dispatched(taken, q)
        <3>1. DecodeDispatch(depth)
                = LET r == InTurn(vus, Fresh(depth))
                  IN  IF \E i \in DOMAIN r.out : r.out[i] > MaxU32 THEN Malformed
                      ELSE Dispatched(r.out, InTurn(<<"str", "u8">>, Fresh(r)))
            BY <1>8, <1>10 DEF DecodeDispatch, vus
        <3> QED BY <2>1, <2>2, <2>3, <3>1 DEF large
    <2>8. Dispatched(taken, q) = DispatchFrame([i \in DOMAIN taken |-> taken[i] + 1], name, payload)
        BY <2>4, <2>5, <2>6 DEF Dispatched
    <2>9. large <=> \E i \in DOMAIN path : path[i] - 1 > MaxU32
        BY <1>p DEF large, taken
    <2> QED BY <1>1, <1>6, <1>7, <1>10, <2>7, <2>8, <2>9 DEF frame
<1> QED BY <1>9, <1>10 DEF frame, n

(* What a page says is heard, and heard as it was said: the frame that      *)
(* zumar-live.js writes is the one frame.rs reads.  "keep in lockstep"      *)
(* (frame.rs 2, zumar-live.js 10).  Malformed are just the events more than *)
(* MAX_PATH levels deep and what u32 and u16 have no room for.  It holds    *)
(* for every event, response and tick whose numbers JavaScript holds        *)
(* exactly, whatever the strings.                                           *)
THEOREM FramesArrive ==
    /\ \A path \in EventPath, name \in DOMAIN Utf8, payload \in EventPayload :
          Decode(FrameBytes(DispatchFrame(path, name, payload)))
            = IF Len(path) > MaxPath \/ \E i \in DOMAIN path : path[i] - 1 > MaxU32 THEN Malformed
              ELSE DispatchFrame(path, name, payload)
    /\ \A id \in Number, ok \in BOOLEAN, status \in Number, body \in DOMAIN Utf8 :
          Decode(FrameBytes(ResolveFrame(id, ok, status, body)))
            = IF id <= MaxU32 /\ status <= MaxU16 THEN ResolveFrame(id, ok, status, body)
              ELSE Malformed
    /\ \A id \in Number, now \in Number :
          Decode(FrameBytes(NotifyFrame(id, now)))
            = IF id <= MaxU32 THEN NotifyFrame(id, now) ELSE Malformed
BY DispatchArrives, ResolveArrives, NotifyArrives

-----------------------------------------------------------------------------
(* The recursions of the writers, of the readers and of a turn, as one: the *)
(* value at x of that called kind, given the function f that it is.         *)
ReadAllAt(reads, whats, b, f, k) ==
    IF k = 0 THEN Reader(b)
    ELSE LET r == f[k - 1] IN IF r.ok THEN Then(r, reads[<<whats[k], r.b>>]) ELSE r

ReadAt(f, n) ==
    [call \in Method \X Seq(Nat) |->
        IF n = 0 THEN Throw(Reader(call[2])) ELSE Entered(f[n - 1], call[1], call[2])]

NodeBytesAt(f, n) ==
    IF IsText(n) THEN <<0>> \o Str(n.text)
    ELSE <<1>> \o Str(n.tag) \o AttrsBytes(n.attrs) \o Counted([i \in DOMAIN n.kids |-> f[n.kids[i]]])

PastAllAt(past, b, f, k) == IF k = 0 THEN b ELSE past[f[k - 1]]

PastNodeAt(f, n) ==
    [b \in Seq(Nat) |->
        IF n = 0 THEN b
        ELSE IF b[1] = 0 THEN PastStr[Past(b, 1)] ELSE PastEl(f[n - 1], Past(b, 1))]

HeededAt(f, v) ==
    {<<name, v.on[name].prevent>> : name \in DOMAIN v.on}
    \cup UNION {f[v.kids[i]] : i \in DOMAIN v.kids}

FindAt(root, path, event, f, k) ==
    LET above == IF k = 0 THEN {} ELSE f[k - 1]
        way   == SubSeq(path, 1, k)
    IN  IF HasNode(root, way) THEN ListenerAt(NodeAt(root, way), event, above) ELSE above

PathsAt(d, f, n) ==
    IF n = 0 THEN {<<>>}
    ELSE UNION {{Append(p, i) : i \in {i \in DOMAIN NodeAt(d, p).kids :
                                         ~ IsText(NodeAt(d, p).kids[i])}}
                : p \in f[n - 1]}

Unfolds(kind, env, f, x) ==
    CASE kind = "ReadAll" -> ReadAllAt(env.reads, env.whats, env.b, f, x)
      [] kind = "Read" -> ReadAt(f, x)
      [] kind = "NodeBytes" -> NodeBytesAt(f, x)
      [] kind = "PastAll" -> PastAllAt(env.past, env.b, f, x)
      [] kind = "PastNode" -> PastNodeAt(f, x)
      [] kind = "Heeded" -> HeededAt(f, x)
      [] kind = "FindListener" -> FindAt(env.root, env.path, env.event, f, x)
      [] kind = "PathsOf" -> PathsAt(env.d, f, x)

(* Two functions that agree on what is lower than x.                        *)
Below(V, H, f, g, x) == \A y \in V : H[y] < H[x] => f[y] = g[y]

(* The value at x depends on no more than that.                             *)
Founded(kind, env, V, H) ==
    \A f, g : \A x \in V : Below(V, H, f, g, x) => Unfolds(kind, env, f, x) = Unfolds(kind, env, g, x)

(* Then the recursion ends, and there is such a function.                   *)
LEMMA RecursionEnds ==
    ASSUME NEW kind, NEW env, NEW V, NEW H \in [V -> Nat], Founded(kind, env, V, H)
    PROVE  \E F : F = [x \in V |-> Unfolds(kind, env, F, x)]
<1> DEFINE Next(f, x) == Unfolds(kind, env, f, x)
           W(n) == {x \in V : H[x] < n}
           Solves(f, n) == f = [x \in W(n) |-> Next(f, x)]
           S == {n \in Nat : \E f : Solves(f, n)}
<1>h. \A x \in V : H[x] \in Nat
    OBVIOUS
<1>s. ASSUME NEW f, NEW g, NEW x \in V, \A y \in V : H[y] < H[x] => f[y] = g[y]
      PROVE  Next(f, x) = Next(g, x)
    BY <1>s DEF Founded, Below
<1> HIDE DEF Next
<1>1. \A n \in Nat : n \in S
    <2>1. 0 \in S
        <3> DEFINE f == [x \in W(0) |-> 0]
        <3>1. W(0) = {}
            BY <1>h
        <3>2. Solves(f, 0)
            BY <3>1
        <3> HIDE DEF f, Solves
        <3> QED BY <3>2
    <2>2. ASSUME NEW n \in Nat, n \in S PROVE n + 1 \in S
        <3>1. PICK f : Solves(f, n)
            BY <2>2
        <3> DEFINE g == [x \in W(n + 1) |-> Next(f, x)]
        <3>2. \A x \in V : H[x] < n => g[x] = f[x]
            <4>1. \A x \in V : H[x] < n => x \in W(n + 1) /\ x \in W(n)
                BY <1>h
            <4> QED BY <3>1, <4>1
        <3>3. \A x \in W(n + 1) : Next(f, x) = Next(g, x)
            <4> SUFFICES ASSUME NEW x \in V, H[x] < n + 1 PROVE Next(f, x) = Next(g, x)
                OBVIOUS
            <4>1. ASSUME NEW y \in V, H[y] < H[x] PROVE f[y] = g[y]
                <5>1. H[y] < n
                    BY <1>h, <4>1
                <5> HIDE DEF g
                <5> QED BY <3>2, <5>1
            <4> HIDE DEF g
            <4> QED BY <4>1, <1>s
        <3>4. g = [x \in W(n + 1) |-> Next(f, x)]
            OBVIOUS
        <3>5. Solves(g, n + 1)
            <4> HIDE DEF g, W
            <4> QED BY <3>3, <3>4
        <3> HIDE DEF g, Solves
        <3> QED BY <3>5
    <2> HIDE DEF S
    <2> QED BY <2>1, <2>2, NatSetInduction
<1> DEFINE G == [n \in Nat |-> CHOOSE f : Solves(f, n)]
<1>2. \A n \in Nat : Solves(G[n], n)
    <2> SUFFICES ASSUME NEW n \in Nat PROVE Solves(G[n], n)
        OBVIOUS
    <2>1. \E f : Solves(f, n)
        BY <1>1
    <2>2. G[n] = CHOOSE f : Solves(f, n)
        OBVIOUS
    <2> HIDE DEF Solves, G
    <2> QED BY <2>1, <2>2
<1>3. \A n \in Nat : \A x \in V : H[x] < n => G[n][x] = Next(G[n], x)
    <2> SUFFICES ASSUME NEW n \in Nat, NEW x \in V, H[x] < n PROVE G[n][x] = Next(G[n], x)
        OBVIOUS
    <2> DEFINE g == G[n]
    <2>1. g = [y \in W(n) |-> Next(g, y)] /\ x \in W(n)
        BY <1>2
    <2> HIDE DEF g, W
    <2>2. g[x] = Next(g, x)
        BY <2>1
    <2> QED BY <2>2 DEF g
<1> HIDE DEF G, S, Solves
<1> DEFINE Same(x) == \A n, m \in Nat : H[x] < n /\ H[x] < m => G[n][x] = G[m][x]
           R == {h \in Nat : \A x \in V : H[x] = h => Same(x)}
<1>4. \A h \in Nat : h \in R
    <2>1. ASSUME NEW h \in Nat, \A k \in Nat : k < h => k \in R PROVE h \in R
        <3> SUFFICES ASSUME NEW x \in V, H[x] = h, NEW n \in Nat, NEW m \in Nat, h < n, h < m
                     PROVE  G[n][x] = G[m][x]
            OBVIOUS
        <3>1. ASSUME NEW y \in V, H[y] < H[x] PROVE G[n][y] = G[m][y]
            <4>1. H[y] \in Nat /\ H[y] < h
                BY <1>h, <3>1
            <4>2. H[y] \in R
                BY <2>1, <4>1
            <4>3. Same(y)
                BY <4>1, <4>2
            <4>4. H[y] < n /\ H[y] < m
                BY <4>1
            <4> QED BY <4>3, <4>4
        <3>2. Next(G[n], x) = Next(G[m], x)
            BY <3>1, <1>s
        <3> QED BY <1>3, <3>2
    <2> HIDE DEF R
    <2> QED BY <2>1, StrongSetInduction
<1> DEFINE F == [x \in V |-> G[H[x] + 1][x]]
<1>5. \A x \in V : F[x] = Next(F, x)
    <2> SUFFICES ASSUME NEW x \in V PROVE F[x] = Next(F, x)
        OBVIOUS
    <2> DEFINE n == H[x] + 1
    <2>1. F[x] = G[n][x] /\ n \in Nat /\ H[x] < n
        BY <1>h
    <2>2. ASSUME NEW y \in V, H[y] < H[x] PROVE G[n][y] = F[y]
        <3>1. Same(y)
            BY <1>4, <1>h
        <3>2. F[y] = G[H[y] + 1][y]
            OBVIOUS
        <3>3. H[y] + 1 \in Nat /\ H[y] < H[y] + 1 /\ H[y] < n /\ n \in Nat
            BY <1>h, <2>2
        <3> HIDE DEF F, n
        <3> QED BY <3>1, <3>2, <3>3
    <2> HIDE DEF n, F
    <2>3. Next(G[n], x) = Next(F, x)
        BY <2>2, <1>s
    <2> QED BY <1>3, <2>1, <2>3
<1>6. F = [x \in V |-> Next(F, x)]
    <2>1. F = [x \in V |-> F[x]]
        OBVIOUS
    <2> HIDE DEF F
    <2> QED BY <1>5, <2>1
<1> HIDE DEF F
<1>7. F = [x \in V |-> Unfolds(kind, env, F, x)]
    BY <1>6 DEF Next
<1> QED BY <1>7

-----------------------------------------------------------------------------
(* A recursion over numbers whose values depend on the value before.        *)
Chained(kind, env) ==
    \A f, g : \A k \in Nat :
        (k # 0 => f[k - 1] = g[k - 1]) => Unfolds(kind, env, f, k) = Unfolds(kind, env, g, k)

(* There is such a chain, of any length and without an end.                 *)
LEMMA ChainEnds ==
    ASSUME NEW kind, NEW env, Chained(kind, env), NEW N \in Nat
    PROVE  /\ \E F : F = [k \in 0 .. N |-> Unfolds(kind, env, F, k)]
           /\ \E F : F = [k \in Nat |-> Unfolds(kind, env, F, k)]
<1>1. ASSUME NEW V, V \subseteq Nat, \A k \in V : k # 0 => k - 1 \in V
      PROVE  \E F : F = [k \in V |-> Unfolds(kind, env, F, k)]
    <2> DEFINE H == [k \in V |-> k]
    <2>1. H \in [V -> Nat]
        BY <1>1
    <2>2. Founded(kind, env, V, H)
        <3> SUFFICES ASSUME NEW f, NEW g, NEW k \in V, Below(V, H, f, g, k)
                     PROVE  Unfolds(kind, env, f, k) = Unfolds(kind, env, g, k)
            BY DEF Founded
        <3>1. k \in Nat
            BY <1>1
        <3>2. ASSUME k # 0 PROVE f[k - 1] = g[k - 1]
            <4>1. k - 1 \in V
                BY <1>1, <3>2
            <4>2. H[k - 1] = k - 1 /\ H[k] = k
                BY <4>1
            <4>3. H[k - 1] < H[k]
                BY <3>1, <4>2
            <4> HIDE DEF H
            <4> QED BY <4>1, <4>3 DEF Below
        <3> QED BY <3>1, <3>2 DEF Chained
    <2> HIDE DEF H
    <2> QED BY <2>1, <2>2, RecursionEnds
<1>2. 0 .. N \subseteq Nat /\ \A k \in 0 .. N : k # 0 => k - 1 \in 0 .. N
    OBVIOUS
<1>3. \A k \in Nat : k # 0 => k - 1 \in Nat
    OBVIOUS
<1> QED BY <1>1, <1>2, <1>3

(* Read, as the recursion it is.                                            *)
LEMMA ReadIs ==
    \A n \in Nat : \A what \in Method, b \in Seq(Nat) :
       Read[n][<<what, b>>] = IF n = 0 THEN Throw(Reader(b)) ELSE Entered(Read[n - 1], what, b)
<1> DEFINE env == <<>>
<1>1. \A f, n : Unfolds("Read", env, f, n) = ReadAt(f, n)
    BY DEF Unfolds
<1>2. Chained("Read", env)
    <2> SUFFICES ASSUME NEW f, NEW g, NEW k \in Nat, k # 0 => f[k - 1] = g[k - 1]
                 PROVE  ReadAt(f, k) = ReadAt(g, k)
        BY <1>1 DEF Chained
    <2> QED BY DEF ReadAt
<1> HIDE DEF env
<1>3. PICK F : F = [n \in Nat |-> Unfolds("Read", env, F, n)]
    BY <1>2, ChainEnds
<1>4. F = [n \in Nat |-> ReadAt(F, n)]
    BY <1>1, <1>3
<1> DEFINE f == Read
<1>5. f = [n \in Nat |-> ReadAt(f, n)]
    <2>1. f = CHOOSE g : g = [n \in Nat |-> ReadAt(g, n)]
        BY DEF Read, ReadAt
    <2>2. \E g : g = [n \in Nat |-> ReadAt(g, n)]
        BY <1>4
    <2> HIDE DEF f
    <2> QED BY <2>1, <2>2
<1> HIDE DEF f
<1>6. \A n \in Nat : f[n] = ReadAt(f, n)
    BY <1>5
<1>7. ASSUME NEW n \in Nat, NEW what \in Method, NEW b \in Seq(Nat)
      PROVE  f[n][<<what, b>>] = IF n = 0 THEN Throw(Reader(b)) ELSE Entered(f[n - 1], what, b)
    BY <1>6 DEF ReadAt
<1> QED BY <1>7 DEF f

(* The same of the walk past a node.                                        *)
LEMMA PastNodeIs ==
    \A n \in Nat : \A b \in Seq(Nat) :
       PastNode[n][b] = IF n = 0 THEN b
                        ELSE IF b[1] = 0 THEN PastStr[Past(b, 1)] ELSE PastEl(PastNode[n - 1], Past(b, 1))
<1> DEFINE env == <<>>
<1>1. \A f, n : Unfolds("PastNode", env, f, n) = PastNodeAt(f, n)
    BY DEF Unfolds
<1>2. Chained("PastNode", env)
    <2> SUFFICES ASSUME NEW f, NEW g, NEW k \in Nat, k # 0 => f[k - 1] = g[k - 1]
                 PROVE  PastNodeAt(f, k) = PastNodeAt(g, k)
        BY <1>1 DEF Chained
    <2> QED BY DEF PastNodeAt
<1> HIDE DEF env
<1>3. PICK F : F = [n \in Nat |-> Unfolds("PastNode", env, F, n)]
    BY <1>2, ChainEnds
<1>4. F = [n \in Nat |-> PastNodeAt(F, n)]
    BY <1>1, <1>3
<1> DEFINE f == PastNode
<1>5. f = [n \in Nat |-> PastNodeAt(f, n)]
    <2>1. f = CHOOSE g : g = [n \in Nat |-> PastNodeAt(g, n)]
        BY DEF PastNode, PastNodeAt
    <2>2. \E g : g = [n \in Nat |-> PastNodeAt(g, n)]
        BY <1>4
    <2> HIDE DEF f
    <2> QED BY <2>1, <2>2
<1> HIDE DEF f
<1>6. \A n \in Nat : f[n] = PastNodeAt(f, n)
    BY <1>5
<1>7. ASSUME NEW n \in Nat, NEW b \in Seq(Nat)
      PROVE  f[n][b] = IF n = 0 THEN b
                       ELSE IF b[1] = 0 THEN PastStr[Past(b, 1)] ELSE PastEl(f[n - 1], Past(b, 1))
    BY <1>6 DEF PastNodeAt
<1> QED BY <1>7 DEF f

(* ReadAll and PastAll: the last link of a chain.                           *)
Calling(f, reads, whats, b) ==
    /\ f[0] = Reader(b)
    /\ \A k \in 1 .. Len(whats) :
          f[k] = IF f[k - 1].ok THEN Then(f[k - 1], reads[<<whats[k], f[k - 1].b>>]) ELSE f[k - 1]

(* ReadAll is the end of such a chain, each call made on what the one       *)
(* before it has left.                                                      *)
LEMMA ReadAllIs ==
    ASSUME NEW reads, NEW whats, Len(whats) \in Nat, NEW b
    PROVE  \E f : Calling(f, reads, whats, b) /\ ReadAll(reads, whats, b) = f[Len(whats)]
<1> DEFINE env == [reads |-> reads, whats |-> whats, b |-> b]
           N == Len(whats)
           Solves(f) == f = [k \in 0 .. N |-> ReadAllAt(reads, whats, b, f, k)]
           w == CHOOSE f : Solves(f)
<1>1. \A f, k : Unfolds("ReadAll", env, f, k) = ReadAllAt(reads, whats, b, f, k)
    BY DEF Unfolds
<1>2. ReadAll(reads, whats, b) = w[N]
    BY DEF ReadAll, ReadAllAt
<1>3. Chained("ReadAll", env)
    <2> SUFFICES ASSUME NEW f, NEW g, NEW k \in Nat, k # 0 => f[k - 1] = g[k - 1]
                 PROVE  ReadAllAt(reads, whats, b, f, k) = ReadAllAt(reads, whats, b, g, k)
        BY <1>1 DEF Chained
    <2> QED BY DEF ReadAllAt
<1> HIDE DEF env
<1>4. Solves(w)
    <2>1. PICK f : f = [k \in 0 .. N |-> Unfolds("ReadAll", env, f, k)]
        BY <1>3, ChainEnds
    <2>2. Solves(f)
        BY <1>1, <2>1
    <2> HIDE DEF Solves
    <2> QED BY <2>2
<1> HIDE DEF w
<1>5. \A k \in 0 .. N : w[k] = ReadAllAt(reads, whats, b, w, k)
    BY <1>4
<1>6. /\ w[0] = Reader(b)
      /\ \A k \in 1 .. N : w[k] = IF w[k - 1].ok
                                  THEN Then(w[k - 1], reads[<<whats[k], w[k - 1].b>>]) ELSE w[k - 1]
    <2>1. 0 \in 0 .. N /\ \A k \in 1 .. N : k \in 0 .. N /\ k # 0
        OBVIOUS
    <2> HIDE DEF N
    <2> QED BY <1>5, <2>1 DEF ReadAllAt
<1>7. Calling(w, reads, whats, b)
    BY <1>6 DEF Calling
<1> HIDE DEF N
<1> QED BY <1>2, <1>7 DEF N

Walking(f, past, b, N) == f[0] = b /\ \A k \in 1 .. N : f[k] = past[f[k - 1]]

(* PastAll is the end of such a walk.                                       *)
LEMMA PastAllIs ==
    ASSUME NEW past, NEW b, NEW N \in Nat
    PROVE  \E f : Walking(f, past, b, N) /\ PastAll(past, b, N) = f[N]
<1> DEFINE env == [past |-> past, b |-> b]
           Solves(f) == f = [k \in 0 .. N |-> PastAllAt(past, b, f, k)]
           w == CHOOSE f : Solves(f)
<1>1. \A f, k : Unfolds("PastAll", env, f, k) = PastAllAt(past, b, f, k)
    BY DEF Unfolds
<1>2. PastAll(past, b, N) = w[N]
    BY DEF PastAll, PastAllAt
<1>3. Chained("PastAll", env)
    <2> SUFFICES ASSUME NEW f, NEW g, NEW k \in Nat, k # 0 => f[k - 1] = g[k - 1]
                 PROVE  PastAllAt(past, b, f, k) = PastAllAt(past, b, g, k)
        BY <1>1 DEF Chained
    <2> QED BY DEF PastAllAt
<1> HIDE DEF env
<1>4. Solves(w)
    <2>1. PICK f : f = [k \in 0 .. N |-> Unfolds("PastAll", env, f, k)]
        BY <1>3, ChainEnds
    <2>2. Solves(f)
        BY <1>1, <2>1
    <2> HIDE DEF Solves
    <2> QED BY <2>2
<1> HIDE DEF w
<1>5. \A k \in 0 .. N : w[k] = PastAllAt(past, b, w, k)
    BY <1>4
<1>6. w[0] = b /\ \A k \in 1 .. N : w[k] = past[w[k - 1]]
    BY <1>5 DEF PastAllAt
<1> QED BY <1>2, <1>6 DEF Walking

-----------------------------------------------------------------------------
(* The bytes x tell a method the value v: of any bytes that start with x,   *)
(* read no deeper than x is long, it takes just these.                      *)
Tells(what, x, v) ==
    /\ what \in Method /\ x \in Seq(Nat) /\ Len(x) \in Nat \ {0}
    /\ \A n \in Nat : n >= Len(x) =>
          \A rest \in Seq(Nat) : Read[n][<<what, x \o rest>>] = At(rest, <<v>>)

(* What a reader starts with.                                               *)
LEMMA ReaderIs ==
    \A b : Reader(b) = At(b, <<>>)
BY DEF Reader, At, Yes

(* u8, vu and str.                                                          *)
LEMMA PrimitiveTells ==
    ASSUME NEW what \in Primitive, NEW x, Len(x) \in Nat \ {0}, NEW v, Takes(what, x, v)
    PROVE  Tells(what, x, v)
<1> DEFINE none == <<>>
<1>1. what \in Method /\ x \in Seq(Nat)
    BY DEF Method, Takes
<1>2. IsList(none) /\ Append(none, v) = <<v>>
    BY EmptyList
<1> HIDE DEF none
<1>3. ASSUME NEW n \in Nat, n >= Len(x), NEW rest \in Seq(Nat)
      PROVE  Read[n][<<what, x \o rest>>] = At(rest, <<v>>)
    <2> DEFINE b == x \o rest
    <2>1. b \in Seq(Nat)
        BY <1>1
    <2>2. n # 0
        BY <1>3
    <2>3. Leaf(what, At(x \o rest, none)) = At(rest, Append(none, v))
        BY <1>2 DEF Takes
    <2> HIDE DEF b
    <2>4. Read[n][<<what, b>>] = Entered(Read[n - 1], what, b)
        BY <1>1, <2>1, <2>2, ReadIs
    <2>5. Entered(Read[n - 1], what, b) = Leaf(what, Reader(b))
        <3>1. what # "unknown" /\ what \notin DOMAIN Many
            BY DEF Primitive, Many
        <3> QED BY <3>1 DEF Entered
    <2>6. Reader(b) = At(b, none)
        BY ReaderIs DEF none
    <2> QED BY <1>2, <2>3, <2>4, <2>5, <2>6 DEF b
<1> QED BY <1>1, <1>3 DEF Tells

(* u8 of zumar-wire.js.                                                     *)
LEMMA ByteTells ==
    ASSUME NEW n \in Nat
    PROVE  Tells("u8", <<n>>, n)
<1>1. Takes("u8", <<n>>, n) /\ Len(<<n>>) \in Nat \ {0} /\ "u8" \in Primitive
    BY ByteTaken DEF Primitive
<1> DEFINE x == <<n>>
<1> HIDE DEF x
<1>2. Takes("u8", x, n) /\ Len(x) \in Nat \ {0} /\ "u8" \in Primitive
    BY <1>1 DEF x
<1>3. Tells("u8", x, n)
    BY <1>2, PrimitiveTells
<1> QED BY <1>3 DEF x

(* vu, for every number that can be sent.                                   *)
LEMMA NumberTells ==
    ASSUME NEW n \in Number
    PROVE  Tells("vu", Varint[n], n)
<1>1. n \in Nat
    BY DEF Number
<1>2. Takes("vu", Varint[n], n) /\ Len(Varint[n]) \in Nat \ {0} /\ "vu" \in Primitive
    BY <1>1, NumberTaken, VarintRead DEF Primitive
<1> QED BY <1>2, PrimitiveTells

(* str, for every string that is sent.                                      *)
LEMMA StringTells ==
    ASSUME NEW s \in String
    PROVE  Tells("str", Str(s), s)
<1>1. Takes("str", Str(s), s) /\ "str" \in Primitive
    BY StringTaken DEF Primitive, String
<1>2. Len(Str(s)) \in Nat \ {0}
    <2> DEFINE n == Len(Utf8[s])
               u == Utf8[s]
    <2>1. n \in Nat /\ u \in Seq(Byte)
        BY CodecAssumption DEF String
    <2>2. Varint[n] \in Seq(Nat) /\ Len(Varint[n]) \in Nat \ {0}
        BY <2>1, VarintRead
    <2>3. Byte \subseteq Nat
        BY CodecAssumption DEF Byte
    <2>4. u \in Seq(Nat)
        <3>1. n = Len(u) /\ u \in [1 .. n -> Byte]
            BY <2>1
        <3>2. u \in [1 .. n -> Nat]
            BY <2>3, <3>1
        <3> QED BY <2>1, <3>2
    <2>5. Str(s) = Varint[n] \o u
        BY DEF Str
    <2> DEFINE a == Varint[n]
    <2> HIDE DEF n, u, a
    <2>6. a \in Seq(Nat) /\ Len(a) \in Nat \ {0}
        BY <2>2 DEF a
    <2>7. Len(a \o u) = Len(a) + Len(u) /\ Len(u) \in Nat
        BY <2>4, <2>6
    <2>8. Len(a \o u) \in Nat \ {0}
        BY <2>6, <2>7
    <2> QED BY <2>5, <2>8 DEF a
<1> QED BY <1>1, <1>2, PrimitiveTells

-----------------------------------------------------------------------------
(* Parts of a message that tell their values.                               *)
EachTells(n, whats, xs, vs) == \A i \in 1 .. n : Tells(whats[i], xs[i], vs[i])
NoLonger(n, xs, m) == \A i \in 1 .. n : Len(xs[i]) <= m

(* What is read next, put behind what has been read.                        *)
LEMMA ThenIs ==
    ASSUME NEW r, NEW b, NEW v
    PROVE  Then(r, At(b, v)) = At(b, r.out \o v)
<1> DEFINE q == At(b, v)
           w == r.out \o v
<1>1. q = [b |-> b, out |-> v, ok |-> Yes] /\ q.out = v
    BY DEF At
<1>2. Then(r, q) = [q EXCEPT !.out = w]
    BY <1>1 DEF Then
<1> HIDE DEF q, w
<1>3. Then(r, q) = [b |-> b, out |-> w, ok |-> Yes]
    BY <1>1, <1>2
<1> QED BY <1>3 DEF q, w, At

(* What was written one after the other is read one after the other, if the *)
(* parts are no longer than calls may be nested.                            *)
LEMMA AllRead ==
    ASSUME NEW n \in Nat, NEW whats, Len(whats) = n, NEW xs, Len(xs) = n, n = 0 => xs = <<>>,
           NEW vs, IsList(vs), Len(vs) = n,
           EachTells(n, whats, xs, vs), NEW m \in Nat, NoLonger(n, xs, m), NEW rest \in Seq(Nat)
    PROVE  /\ FlattenSeq(xs) \in Seq(Nat)
           /\ ReadAll(Read[m], whats, FlattenSeq(xs) \o rest) = At(rest, vs)
<1> DEFINE none == <<>>
           reads == Read[m]
           Steps1(f, b) == Calling(f, reads, whats, b)
<1>0. \A i \in 1 .. n : Tells(whats[i], xs[i], vs[i])
    BY DEF EachTells
<1>1. \A i \in 1 .. n : xs[i] \in Seq(Nat)
    BY <1>0 DEF Tells
<1>2. PICK fl : Flattens(fl, xs, n) /\ FlattenSeq(xs) = fl[n]
    <2>1. \A i \in 1 .. n : IsList(xs[i])
        BY <1>1, ListOf
    <2> QED BY <2>1, FlattenIs
<1>3. fl[0] = none /\ \A i \in 1 .. n : fl[i] = fl[i - 1] \o xs[i]
    BY <1>2 DEF Flattens
<1> DEFINE out(k) == SubSeq(vs, 1, k)
           Reads(k, b) == \A f : Steps1(f, fl[k] \o b) => f[k] = At(b, out(k))
           S == {k \in Nat : k <= n => fl[k] \in Seq(Nat) /\ \A b \in Seq(Nat) : Reads(k, b)}
<1>e. out(0) = none /\ none \in Seq(Nat) /\ out(n) = vs
    <2> DEFINE T == {vs[i] : i \in DOMAIN vs}
    <2>1. vs \in Seq(T)
        BY DEF IsList
    <2> HIDE DEF T
    <2> QED BY <2>1
<1>f. \A b \in Seq(Nat) : none \o b = b
    OBVIOUS
<1>r. \A b : Reader(b) = At(b, none)
    BY ReaderIs
<1> HIDE DEF none
<1>4. \A k \in Nat : k \in S
    <2>1. 0 \in S
        <3>1. ASSUME NEW b \in Seq(Nat), NEW f, Steps1(f, fl[0] \o b)
              PROVE  f[0] = At(b, out(0))
            <4>1. f[0] = At(fl[0] \o b, none)
                BY <1>r, <3>1 DEF Calling
            <4> HIDE DEF out
            <4> QED BY <1>3, <1>e, <1>f, <4>1
        <3> HIDE DEF out, Steps1
        <3> QED BY <1>3, <1>e, <3>1
    <2>2. ASSUME NEW k \in Nat, k \in S PROVE k + 1 \in S
        <3> DEFINE i == k + 1
        <3> SUFFICES ASSUME i <= n
                     PROVE  fl[i] \in Seq(Nat) /\ \A b \in Seq(Nat) : Reads(i, b)
            OBVIOUS
        <3>1. i \in 1 .. n /\ i - 1 = k /\ k <= n /\ i \in Nat
            OBVIOUS
        <3> HIDE DEF Steps1
        <3>2. /\ fl[k] \in Seq(Nat) /\ xs[i] \in Seq(Nat) /\ fl[i] = fl[k] \o xs[i]
              /\ \A b \in Seq(Nat) : Reads(k, b)
            BY <1>1, <1>3, <2>2, <3>1
        <3>3. fl[i] \in Seq(Nat)
            BY <3>2
        <3>4. IsList(out(k)) /\ out(i) = Append(out(k), vs[i])
            BY <3>1, OneMore
        <3> HIDE DEF i, out
        <3>5. ASSUME NEW b \in Seq(Nat), NEW f, Steps1(f, fl[i] \o b)
              PROVE  f[i] = At(b, out(i))
            <4> DEFINE c == xs[i] \o b
            <4>1. c \in Seq(Nat) /\ fl[i] \o b = fl[k] \o c
                <5> DEFINE u == fl[k]
                           x == xs[i]
                <5>1. u \in Seq(Nat) /\ x \in Seq(Nat) /\ fl[i] = u \o x
                    BY <3>2
                <5> HIDE DEF u, x
                <5>2. IsBytes(u) /\ IsBytes(x) /\ IsBytes(b)
                    BY <5>1 DEF IsBytes
                <5>3. Cat(Cat(u, x), b) = Cat(u, Cat(x, b)) /\ IsBytes(Cat(x, b))
                    BY <5>2, CatAssociates, CatIsBytes
                <5>4. fl[i] \o b = u \o (x \o b) /\ x \o b \in Seq(Nat)
                    BY <5>1, <5>3 DEF Cat, IsBytes
                <5> QED BY <5>4 DEF u, x
            <4>2. f[k] = At(c, out(k))
                <5>1. Reads(k, c)
                    BY <3>2, <4>1
                <5> HIDE DEF c
                <5> QED BY <3>5, <4>1, <5>1
            <4>3. f[i] = IF f[k].ok THEN Then(f[k], reads[<<whats[i], f[k].b>>]) ELSE f[k]
                BY <3>1, <3>5 DEF Steps1, Calling
            <4>4. f[k].ok = TRUE /\ f[k].b = c /\ f[k].out = out(k)
                BY <4>2 DEF At, Yes
            <4>5. reads[<<whats[i], c>>] = At(b, <<vs[i]>>)
                <5>1. Len(xs[i]) <= m /\ Tells(whats[i], xs[i], vs[i])
                    BY <1>0, <3>1 DEF NoLonger
                <5>2. m >= Len(xs[i])
                    BY <5>1 DEF Tells
                <5>3. Read[m][<<whats[i], xs[i] \o b>>] = At(b, <<vs[i]>>)
                    BY <5>1, <5>2 DEF Tells
                <5> QED BY <5>3
            <4>6. Then(f[k], At(b, <<vs[i]>>)) = At(b, out(i))
                <5> DEFINE one == <<vs[i]>>
                <5>1. out(k) \o one = Append(out(k), vs[i])
                    <6> DEFINE T == {out(k)[j] : j \in DOMAIN out(k)}
                    <6>1. out(k) \in Seq(T)
                        BY <3>4 DEF IsList
                    <6> HIDE DEF T
                    <6> QED BY <6>1
                <5> HIDE DEF one
                <5>2. Then(f[k], At(b, one)) = At(b, out(k) \o one)
                    BY <4>4, ThenIs
                <5> QED BY <3>4, <5>1, <5>2 DEF one
            <4> HIDE DEF c, reads
            <4> QED BY <4>3, <4>4, <4>5, <4>6
        <3> QED BY <3>3, <3>5
    <2> HIDE DEF S
    <2> QED BY <2>1, <2>2, NatSetInduction
<1>5. fl[n] \in Seq(Nat) /\ Reads(n, rest)
    <2>1. n \in S
        BY <1>4
    <2> HIDE DEF Reads
    <2> QED BY <2>1
<1> DEFINE start == fl[n] \o rest
<1>6. ReadAll(reads, whats, start) = At(rest, vs)
    <2>1. PICK f : Calling(f, reads, whats, start) /\ ReadAll(reads, whats, start) = f[n]
        <3>1. Len(whats) \in Nat
            OBVIOUS
        <3> HIDE DEF start, reads
        <3> QED BY <3>1, ReadAllIs
    <2>2. f[n] = At(rest, out(n))
        <3>1. Steps1(f, start)
            BY <2>1
        <3> HIDE DEF Steps1, out
        <3> QED BY <1>5, <3>1
    <2> HIDE DEF out
    <2> QED BY <1>e, <2>1, <2>2
<1> QED BY <1>2, <1>5, <1>6

-----------------------------------------------------------------------------
(* Parts of at least a byte each: how long they are together, and what they *)
(* begin with.                                                              *)
Parts(n, xs) == \A i \in 1 .. n : xs[i] \in Seq(Nat) /\ Len(xs[i]) \in Nat \ {0}

(* Together they are longer than each of them by those that are not it.     *)
LEMMA PartsTogether ==
    ASSUME NEW n \in Nat, NEW xs, Len(xs) = n, n = 0 => xs = <<>>, Parts(n, xs)
    PROVE  /\ FlattenSeq(xs) \in Seq(Nat) /\ Len(FlattenSeq(xs)) \in Nat
           /\ n > 0 => Len(FlattenSeq(xs)) > 0 /\ FlattenSeq(xs)[1] = xs[1][1]
           /\ \A i \in 1 .. n : Len(xs[i]) + (n - 1) <= Len(FlattenSeq(xs))
<1>1. \A i \in 1 .. n : xs[i] \in Seq(Nat) /\ Len(xs[i]) \in Nat \ {0}
    BY DEF Parts
<1>2. PICK fl : Flattens(fl, xs, n) /\ FlattenSeq(xs) = fl[n]
    <2>1. \A i \in 1 .. n : IsList(xs[i])
        BY <1>1, ListOf
    <2> QED BY <2>1, FlattenIs
<1>3. fl[0] = <<>> /\ \A i \in 1 .. n : fl[i] = fl[i - 1] \o xs[i]
    BY <1>2 DEF Flattens
<1> DEFINE Fine(k) ==
               /\ fl[k] \in Seq(Nat) /\ Len(fl[k]) \in Nat /\ k <= Len(fl[k])
               /\ k > 0 => fl[k][1] = xs[1][1]
               /\ \A i \in 1 .. k : Len(xs[i]) + (k - 1) <= Len(fl[k])
           S == {k \in Nat : k <= n => Fine(k)}
<1>4. \A k \in Nat : k \in S
    <2>1. 0 \in S
        <3> DEFINE u == fl[0]
        <3>1. u \in Seq(Nat) /\ Len(u) = 0
            BY <1>3
        <3>2. Fine(0)
            <4> HIDE DEF u
            <4> QED BY <3>1 DEF u
        <3> HIDE DEF Fine
        <3> QED BY <3>2
    <2>2. ASSUME NEW k \in Nat, k \in S PROVE k + 1 \in S
        <3> DEFINE j == k + 1
        <3> SUFFICES ASSUME j <= n PROVE Fine(j)
            OBVIOUS
        <3>1. j \in 1 .. n /\ j - 1 = k /\ k <= n /\ j \in Nat
            OBVIOUS
        <3>2. Fine(k)
            BY <2>2, <3>1
        <3> DEFINE u == fl[k]
                   x == xs[j]
                   z == fl[j]
        <3>3. /\ u \in Seq(Nat) /\ Len(u) \in Nat /\ x \in Seq(Nat) /\ Len(x) \in Nat \ {0}
              /\ z = u \o x /\ k <= Len(u)
            BY <1>1, <1>3, <3>1, <3>2
        <3>4. \A i \in 1 .. k : Len(xs[i]) + (k - 1) <= Len(u) /\ Len(xs[i]) \in Nat
            <4>1. \A i \in 1 .. k : i \in 1 .. n
                BY <3>1
            <4> QED BY <1>1, <3>2, <4>1
        <3>5. k > 0 => u[1] = xs[1][1]
            BY <3>2
        <3>6. k = 0 => u = <<>> /\ x = xs[1]
            BY <1>3
        <3> HIDE DEF u, x, z
        <3>7. /\ z \in Seq(Nat) /\ Len(z) = Len(u) + Len(x) /\ Len(z) \in Nat
              /\ Len(u) > 0 => z[1] = u[1]
              /\ u = <<>> => z = x
            BY <3>3
        <3>8. j <= Len(z) /\ z[1] = xs[1][1]
            <4>1. CASE k = 0
                BY <4>1, <3>3, <3>6, <3>7
            <4>2. CASE k > 0
                <5>1. Len(u) > 0
                    BY <3>3, <4>2
                <5> QED BY <5>1, <4>2, <3>3, <3>5, <3>7
            <4> QED BY <4>1, <4>2
        <3>9. ASSUME NEW i \in 1 .. j PROVE Len(xs[i]) + (j - 1) <= Len(z)
            <4>1. CASE i = j
                <5>1. Len(xs[i]) = Len(x)
                    BY <4>1 DEF x
                <5> QED BY <5>1, <3>1, <3>3, <3>7
            <4>2. CASE i \in 1 .. k
                <5> DEFINE w == Len(xs[i])
                <5>1. w + (k - 1) <= Len(u) /\ w \in Nat
                    BY <4>2, <3>4
                <5> HIDE DEF w
                <5>2. w + (j - 1) <= Len(z)
                    BY <5>1, <3>1, <3>3, <3>7
                <5> QED BY <5>2 DEF w
            <4> QED BY <4>1, <4>2, <3>1
        <3>10. Fine(j)
            <4> HIDE DEF j
            <4> QED BY <3>7, <3>8, <3>9 DEF z
        <3> QED BY <3>10
    <2> HIDE DEF S
    <2> QED BY <2>1, <2>2, NatSetInduction
<1>5. Fine(n)
    <2>1. n \in S /\ n <= n
        BY <1>4
    <2> HIDE DEF Fine
    <2> QED BY <2>1
<1>6. n > 0 => n <= Len(fl[n])
    BY <1>5
<1> QED BY <1>2, <1>5, <1>6

(* What tells something is a part.                                          *)
LEMMA TellsParts ==
    ASSUME NEW n \in Nat, NEW whats, NEW xs, NEW vs, EachTells(n, whats, xs, vs)
    PROVE  Parts(n, xs)
BY DEF EachTells, Tells, Parts

-----------------------------------------------------------------------------
(* What has been read is one value now.                                     *)
LEMMA ClosedIs ==
    ASSUME NEW b, NEW out, NEW v
    PROVE  Closed(At(b, out), v) = At(b, <<v>>)
<1> DEFINE z == At(b, out)
           value == <<v>>
<1>1. z.ok = TRUE /\ z = [b |-> b, out |-> out, ok |-> Yes]
    BY DEF At, Yes
<1>2. Closed(z, v) = [z EXCEPT !.out = value]
    BY <1>1 DEF Closed, value
<1> HIDE DEF z, value
<1>3. Closed(z, v) = [b |-> b, out |-> value, ok |-> Yes]
    BY <1>1, <1>2
<1> QED BY <1>3 DEF z, value, At

(* A list: how many there are, and each of them.                            *)
EachSays(what, xs, vs) == \A i \in 1 .. Len(xs) : Tells(what, xs[i], vs[i])

(* A method that reads a count, and then as many items (path, nodes, attrs  *)
(* and the others): the items arrive if each of them does.                  *)
LEMMA ListTells ==
    ASSUME NEW many \in DOMAIN Many, NEW xs, Len(xs) \in Number, Len(xs) = 0 => xs = <<>>,
           NEW vs, IsList(vs), Len(vs) = Len(xs), EachSays(Many[many], xs, vs)
    PROVE  Tells(many, Counted(xs), vs)
<1> DEFINE n == Len(xs)
           what == Many[many]
           whats == [i \in 1 .. n |-> what]
           head == Varint[n]
           flat == FlattenSeq(xs)
<1>0. n \in Nat /\ many \in Method /\ Counted(xs) = head \o flat
    BY DEF Number, Method, Counted
<1>1. Len(whats) = n
    BY <1>0, LenOfFunction
<1>2. EachTells(n, whats, xs, vs)
    BY DEF EachTells, EachSays
<1>3. Parts(n, xs)
    BY <1>0, <1>2, TellsParts
<1> HIDE DEF whats
<1>4. /\ flat \in Seq(Nat) /\ Len(flat) \in Nat
      /\ \A i \in 1 .. n : Len(xs[i]) + (n - 1) <= Len(flat)
    BY <1>0, <1>3, PartsTogether
<1>5. \A i \in 1 .. n : Len(xs[i]) \in Nat
    BY <1>3 DEF Parts
<1>6. head \in Seq(Nat) /\ Len(head) \in Nat \ {0}
    BY <1>0, VarintRead
<1>7. Takes("vu", head, n)
    BY NumberTaken
<1> HIDE DEF head, flat
<1> DEFINE x == head \o flat
<1>8. x \in Seq(Nat) /\ Len(x) = Len(head) + Len(flat)
    BY <1>4, <1>6
<1>9. ASSUME NEW m \in Nat, m >= Len(x), NEW rest \in Seq(Nat)
      PROVE  Read[m][<<many, x \o rest>>] = At(rest, <<vs>>)
    <2> DEFINE k == m - 1
               c == flat \o rest
               b == x \o rest
               none == <<>>
    <2>1. k \in Nat /\ m # 0 /\ k >= Len(flat)
        BY <1>4, <1>6, <1>8, <1>9
    <2>2. NoLonger(n, xs, k)
        <3> SUFFICES ASSUME NEW i \in 1 .. n PROVE Len(xs[i]) <= k
            BY DEF NoLonger
        <3> DEFINE l == Len(xs[i])
        <3>1. l + (n - 1) <= Len(flat) /\ l \in Nat /\ n \in Nat /\ n >= 1
            BY <1>0, <1>4, <1>5
        <3> HIDE DEF l, n, k
        <3>2. l <= k
            BY <1>4, <2>1, <3>1
        <3> QED BY <3>2 DEF l
    <2>3. b = head \o c /\ c \in Seq(Nat) /\ b \in Seq(Nat)
        <3>1. IsBytes(head) /\ IsBytes(flat) /\ IsBytes(rest)
            BY <1>4, <1>6 DEF IsBytes
        <3>2. Cat(Cat(head, flat), rest) = Cat(head, Cat(flat, rest)) /\ IsBytes(Cat(flat, rest))
            BY <3>1, CatAssociates, CatIsBytes
        <3>3. b = head \o c /\ c \in Seq(Nat)
            BY <3>2 DEF Cat, IsBytes
        <3>4. b \in Seq(Nat)
            BY <1>8
        <3> QED BY <3>3, <3>4
    <2>4. ReadAll(Read[k], whats, c) = At(rest, vs)
        <3>1. FlattenSeq(xs) = flat
            BY DEF flat
        <3>2. ReadAll(Read[k], whats, FlattenSeq(xs) \o rest) = At(rest, vs)
            <4>1. Len(xs) = n /\ Len(vs) = n /\ n \in Nat /\ k \in Nat /\ (n = 0 => xs = <<>>)
                BY <1>0, <2>1
            <4> HIDE DEF k, n, what
            <4> QED BY <4>1, <1>1, <1>2, <2>2, AllRead
        <3> QED BY <3>1, <3>2
    <2> HIDE DEF b, c, k
    <2>5. Read[m][<<many, b>>] = Entered(Read[k], many, b)
        BY <1>0, <2>1, <2>3, ReadIs DEF k
    <2>6. Entered(Read[k], many, b) = Items(Read[k], what, ReadVu(Reader(b)))
        <3>1. many # "unknown" /\ many \notin Primitive
            BY DEF Primitive, Many
        <3> QED BY <3>1 DEF Entered
    <2>7. ReadVu(Reader(b)) = At(c, <<n>>)
        <3>1. IsList(none) /\ Append(none, n) = <<n>>
            BY EmptyList
        <3> HIDE DEF none, n
        <3>2. Leaf("vu", At(head \o c, none)) = At(c, Append(none, n))
            BY <1>7, <2>3, <3>1 DEF Takes
        <3>3. Reader(b) = At(head \o c, none)
            BY <2>3, ReaderIs DEF none
        <3> QED BY <3>1, <3>2, <3>3 DEF Leaf
    <2> DEFINE one == <<n>>
               q == At(c, one)
               value == <<vs>>
    <2>8. one[1] = n
        OBVIOUS
    <2> HIDE DEF one, value
    <2>9. q.ok = TRUE /\ q.b = c /\ q.out[1] = n
        BY <2>8 DEF At, Yes
    <2> HIDE DEF q
    <2>10. Items(Read[k], what, q) = Closed(At(rest, vs), vs)
        <3>1. Items(Read[k], what, q)
                = LET z == ReadAll(Read[k], whats, c) IN Closed(z, z.out)
            BY <2>9 DEF Items, whats
        <3>2. At(rest, vs).out = vs
            BY DEF At
        <3> QED BY <2>4, <3>1, <3>2
    <2>11. Closed(At(rest, vs), vs) = At(rest, value)
        BY ClosedIs DEF value
    <2> QED BY <2>5, <2>6, <2>7, <2>10, <2>11 DEF b, q, one, value
<1>10. Tells(many, x, vs)
    <2>1. Len(x) \in Nat \ {0}
        BY <1>4, <1>6, <1>8
    <2> HIDE DEF x
    <2> QED BY <1>0, <1>8, <1>9, <2>1 DEF Tells
<1> QED BY <1>0, <1>10

-----------------------------------------------------------------------------
(* A structure: its fields in turn, and what is made of them.               *)
Structures == Method \ (Primitive \cup DOMAIN Many \cup {"unknown"})

(* A method that reads one field after another makes its value of them.     *)
LEMMA StructureTells ==
    ASSUME NEW what \in Structures, NEW n \in Nat, n >= 2, NEW whats, Len(whats) = n,
           NEW xs, Len(xs) = n, NEW vs, IsList(vs), Len(vs) = n, EachTells(n, whats, xs, vs),
           Layout(what, xs[1][1]) = whats
    PROVE  Tells(what, FlattenSeq(xs), MadeOf(what, vs))
<1> DEFINE x == FlattenSeq(xs)
           made == MadeOf(what, vs)
<1>0. what \in Method /\ what \notin Primitive /\ what # "unknown" /\ what \notin DOMAIN Many
    BY DEF Structures
<1>1. Parts(n, xs)
    BY TellsParts
<1>2. /\ x \in Seq(Nat) /\ Len(x) \in Nat /\ Len(x) > 0 /\ x[1] = xs[1][1]
      /\ \A i \in 1 .. n : Len(xs[i]) + (n - 1) <= Len(x)
    <2>1. n > 0 /\ ~ (n = 0)
        OBVIOUS
    <2> QED BY <1>1, <2>1, PartsTogether
<1>3. \A i \in 1 .. n : Len(xs[i]) \in Nat
    BY <1>1 DEF Parts
<1>4. ASSUME NEW m \in Nat, m >= Len(x), NEW rest \in Seq(Nat)
      PROVE  Read[m][<<what, x \o rest>>] = At(rest, <<made>>)
    <2> DEFINE k == m - 1
               b == x \o rest
               value == <<made>>
    <2>1. k \in Nat /\ m # 0
        BY <1>2, <1>4
    <2>2. NoLonger(n, xs, k)
        <3> SUFFICES ASSUME NEW i \in 1 .. n PROVE Len(xs[i]) <= k
            BY DEF NoLonger
        <3> DEFINE l == Len(xs[i])
                   t == Len(x)
        <3>1. l + (n - 1) <= t /\ l \in Nat /\ t \in Nat /\ m >= t
            BY <1>2, <1>3, <1>4
        <3> HIDE DEF l, t
        <3>2. l <= m - 1
            BY <3>1
        <3> QED BY <3>2 DEF l
    <2>3. ReadAll(Read[k], whats, b) = At(rest, vs)
        <3>1. n = 0 => xs = <<>>
            OBVIOUS
        <3> HIDE DEF k
        <3> QED BY <2>1, <2>2, <3>1, AllRead
    <2> HIDE DEF x
    <2>4. b \in Seq(Nat) /\ b # <<>> /\ b[1] = x[1]
        BY <1>2
    <2> HIDE DEF b, k
    <2>5. Read[m][<<what, b>>] = Entered(Read[k], what, b)
        BY <1>0, <2>1, <2>4, ReadIs DEF k
    <2>6. Entered(Read[k], what, b) = Structure(what, ReadAll(Read[k], Layout(what, b[1]), b))
        BY <1>0, <2>4 DEF Entered
    <2>7. Layout(what, b[1]) = whats
        BY <1>2, <2>4
    <2>8. Structure(what, At(rest, vs)) = At(rest, value)
        <3> DEFINE z == At(rest, vs)
        <3>1. z.ok = TRUE /\ z.out = vs
            BY DEF At, Yes
        <3>2. Closed(z, made) = At(rest, value)
            BY ClosedIs
        <3> HIDE DEF z
        <3>3. Structure(what, z) = Closed(z, made)
            BY <3>1 DEF Structure
        <3> QED BY <3>2, <3>3 DEF z
    <2> QED BY <2>3, <2>5, <2>6, <2>7, <2>8 DEF b
<1> HIDE DEF x, made
<1>5. Tells(what, x, made)
    <2>1. what \in Method /\ x \in Seq(Nat) /\ Len(x) \in Nat \ {0}
        BY <1>0, <1>2
    <2> QED BY <1>4, <2>1 DEF Tells
<1> QED BY <1>5 DEF x, made

(* The same of two fields, of three and of four, written one by one.        *)
LEMMA TwoTell ==
    ASSUME NEW what \in Structures,
           NEW p, NEW a, NEW v, Tells(p, a, v), NEW q, NEW b, NEW w, Tells(q, b, w),
           Layout(what, a[1]) = <<p, q>>
    PROVE  Tells(what, a \o b, MadeOf(what, <<v, w>>))
<1> DEFINE n == 2
           whats == <<p, q>>
           xs == <<a, b>>
           vs == <<v, w>>
<1>l. IsList(vs)
    <2>1. vs \in Seq({v, w})
        OBVIOUS
    <2> HIDE DEF vs
    <2> QED BY <2>1, ListOf
<1>1. /\ Len(whats) = n /\ Len(xs) = n /\ Len(vs) = n /\ xs[1] = a /\ xs[2] = b
      /\ n \in Nat /\ n >= 2
    OBVIOUS
<1>2. EachTells(n, whats, xs, vs)
    <2>1. \A i \in 1 .. n : i = 1 \/ i = 2
        OBVIOUS
    <2>2. whats[1] = p /\ whats[2] = q /\ vs[1] = v /\ vs[2] = w
        OBVIOUS
    <2> HIDE DEF n, whats, xs, vs
    <2> QED BY <1>1, <2>1, <2>2 DEF EachTells
<1>3. FlattenSeq(xs) = a \o b
    <2> HIDE DEF n, whats, xs, vs
    <2>1. \A i \in 1 .. n : IsList(xs[i])
        <3>1. Parts(n, xs)
            BY <1>1, <1>2, TellsParts
        <3> QED BY <3>1, ListOf DEF Parts
    <2>2. PICK fl : Flattens(fl, xs, n) /\ FlattenSeq(xs) = fl[n]
        <3>1. n = 0 => xs = <<>>
            BY <1>1
        <3> QED BY <1>1, <2>1, <3>1, FlattenIs
    <2>3. fl[0] = <<>> /\ fl[1] = fl[0] \o a /\ fl[2] = fl[1] \o b
        <3>1. 1 \in 1 .. n /\ 2 \in 1 .. n /\ 1 - 1 = 0 /\ 2 - 1 = 1
            BY DEF n
        <3> QED BY <1>1, <2>2, <3>1 DEF Flattens
    <2>4. <<>> \o a = a
        BY DEF Tells
    <2> QED BY <2>2, <2>3, <2>4 DEF n
<1> HIDE DEF n, whats, xs, vs
<1>4. Layout(what, xs[1][1]) = whats
    BY <1>1 DEF whats
<1>5. Tells(what, FlattenSeq(xs), MadeOf(what, vs))
    BY <1>l, <1>1, <1>2, <1>4, StructureTells
<1> QED BY <1>3, <1>5 DEF vs

(* The same for three fields, in their order.                               *)
LEMMA ThreeTell ==
    ASSUME NEW what \in Structures,
           NEW p, NEW a, NEW v, Tells(p, a, v), NEW q, NEW b, NEW w, Tells(q, b, w),
           NEW r, NEW c, NEW x, Tells(r, c, x),
           Layout(what, a[1]) = <<p, q, r>>
    PROVE  Tells(what, a \o b \o c, MadeOf(what, <<v, w, x>>))
<1> DEFINE n == 3
           whats == <<p, q, r>>
           xs == <<a, b, c>>
           vs == <<v, w, x>>
<1>l. IsList(vs)
    <2>1. vs \in Seq({v, w, x})
        OBVIOUS
    <2> HIDE DEF vs
    <2> QED BY <2>1, ListOf
<1>1. /\ Len(whats) = n /\ Len(xs) = n /\ Len(vs) = n
      /\ xs[1] = a /\ xs[2] = b /\ xs[3] = c
      /\ n \in Nat /\ n >= 2
    OBVIOUS
<1>2. EachTells(n, whats, xs, vs)
    <2>1. \A i \in 1 .. n : i = 1 \/ i = 2 \/ i = 3
        OBVIOUS
    <2>2. /\ whats[1] = p /\ whats[2] = q /\ whats[3] = r
          /\ vs[1] = v /\ vs[2] = w /\ vs[3] = x
        OBVIOUS
    <2> HIDE DEF n, whats, xs, vs
    <2> QED BY <1>1, <2>1, <2>2 DEF EachTells
<1>3. FlattenSeq(xs) = a \o b \o c
    <2> HIDE DEF n, whats, xs, vs
    <2>1. \A i \in 1 .. n : IsList(xs[i])
        <3>1. Parts(n, xs)
            BY <1>1, <1>2, TellsParts
        <3> QED BY <3>1, ListOf DEF Parts
    <2>2. PICK fl : Flattens(fl, xs, n) /\ FlattenSeq(xs) = fl[n]
        <3>1. n = 0 => xs = <<>>
            BY <1>1
        <3> QED BY <1>1, <2>1, <3>1, FlattenIs
    <2>3. /\ fl[0] = <<>>
          /\ fl[1] = fl[0] \o a /\ fl[2] = fl[1] \o b /\ fl[3] = fl[2] \o c
        <3>1. /\ 1 \in 1 .. n /\ 2 \in 1 .. n /\ 3 \in 1 .. n
              /\ 1 - 1 = 0 /\ 2 - 1 = 1 /\ 3 - 1 = 2
            BY DEF n
        <3> QED BY <1>1, <2>2, <3>1 DEF Flattens
    <2>4. <<>> \o a = a
        BY DEF Tells
    <2> QED BY <2>2, <2>3, <2>4 DEF n
<1> HIDE DEF n, whats, xs, vs
<1>4. Layout(what, xs[1][1]) = whats
    BY <1>1 DEF whats
<1>5. Tells(what, FlattenSeq(xs), MadeOf(what, vs))
    BY <1>l, <1>1, <1>2, <1>4, StructureTells
<1> QED BY <1>3, <1>5 DEF vs

(* The same for four.                                                       *)
LEMMA FourTell ==
    ASSUME NEW what \in Structures,
           NEW p, NEW a, NEW v, Tells(p, a, v), NEW q, NEW b, NEW w, Tells(q, b, w),
           NEW r, NEW c, NEW x, Tells(r, c, x), NEW s, NEW d, NEW y, Tells(s, d, y),
           Layout(what, a[1]) = <<p, q, r, s>>
    PROVE  Tells(what, a \o b \o c \o d, MadeOf(what, <<v, w, x, y>>))
<1> DEFINE n == 4
           whats == <<p, q, r, s>>
           xs == <<a, b, c, d>>
           vs == <<v, w, x, y>>
<1>l. IsList(vs)
    <2>1. vs \in Seq({v, w, x, y})
        OBVIOUS
    <2> HIDE DEF vs
    <2> QED BY <2>1, ListOf
<1>1. /\ Len(whats) = n /\ Len(xs) = n /\ Len(vs) = n
      /\ xs[1] = a /\ xs[2] = b /\ xs[3] = c /\ xs[4] = d
      /\ n \in Nat /\ n >= 2
    OBVIOUS
<1>2. EachTells(n, whats, xs, vs)
    <2>1. \A i \in 1 .. n : i = 1 \/ i = 2 \/ i = 3 \/ i = 4
        OBVIOUS
    <2>2. /\ whats[1] = p /\ whats[2] = q /\ whats[3] = r /\ whats[4] = s
          /\ vs[1] = v /\ vs[2] = w /\ vs[3] = x /\ vs[4] = y
        OBVIOUS
    <2> HIDE DEF n, whats, xs, vs
    <2> QED BY <1>1, <2>1, <2>2 DEF EachTells
<1>3. FlattenSeq(xs) = a \o b \o c \o d
    <2> HIDE DEF n, whats, xs, vs
    <2>1. \A i \in 1 .. n : IsList(xs[i])
        <3>1. Parts(n, xs)
            BY <1>1, <1>2, TellsParts
        <3> QED BY <3>1, ListOf DEF Parts
    <2>2. PICK fl : Flattens(fl, xs, n) /\ FlattenSeq(xs) = fl[n]
        <3>1. n = 0 => xs = <<>>
            BY <1>1
        <3> QED BY <1>1, <2>1, <3>1, FlattenIs
    <2>3. /\ fl[0] = <<>>
          /\ fl[1] = fl[0] \o a /\ fl[2] = fl[1] \o b /\ fl[3] = fl[2] \o c /\ fl[4] = fl[3] \o d
        <3>1. /\ 1 \in 1 .. n /\ 2 \in 1 .. n /\ 3 \in 1 .. n /\ 4 \in 1 .. n
              /\ 1 - 1 = 0 /\ 2 - 1 = 1 /\ 3 - 1 = 2 /\ 4 - 1 = 3
            BY DEF n
        <3> QED BY <1>1, <2>2, <3>1 DEF Flattens
    <2>4. <<>> \o a = a
        BY DEF Tells
    <2> QED BY <2>2, <2>3, <2>4 DEF n
<1> HIDE DEF n, whats, xs, vs
<1>4. Layout(what, xs[1][1]) = whats
    BY <1>1 DEF whats
<1>5. Tells(what, FlattenSeq(xs), MadeOf(what, vs))
    BY <1>l, <1>1, <1>2, <1>4, StructureTells
<1> QED BY <1>3, <1>5 DEF vs

-----------------------------------------------------------------------------
(* The methods that read structures.                                        *)
LEMMA StructuresAre ==
    {"node", "attr", "patch", "event", "cmd", "cmdSpec", "sub", "subSpec", "tail", "init", "update"}
       \subseteq Structures
BY DEF Structures, Method, Primitive, Many

(* What a byte or a number begins with.                                     *)
LEMMA Tags ==
    \A n : <<n>>[1] = n
OBVIOUS

-----------------------------------------------------------------------------
(* A path: the numbers from zero.                                           *)
Zeroed(path) == [i \in 1 .. Len(path) |-> path[i] - 1]

(* The path of a patch arrives, its numbers from one again.                 *)
LEMMA PathTells ==
    ASSUME NEW path \in EventPath
    PROVE  Tells("path", PathBytes(path), Zeroed(path)) /\ FromZero(Zeroed(path)) = path
<1> DEFINE n == Len(path)
           nums == [i \in DOMAIN path |-> Varint[path[i] - 1]]
           vs == Zeroed(path)
<1>1. /\ path \in Seq(Nat \ {0}) /\ n \in Nat /\ n \in Number /\ DOMAIN path = 1 .. n
      /\ \A i \in 1 .. n : path[i] \in Nat \ {0} /\ path[i] - 1 \in Number
    BY DEF EventPath
<1>2. Len(nums) = n /\ Len(vs) = n
    BY <1>1, LenOfFunction DEF Zeroed
<1>3. n = 0 => nums = <<>>
    BY <1>1
<1>4. IsList(vs)
    <2>1. vs \in Seq(Int)
        BY <1>1 DEF Zeroed
    <2> QED BY <2>1, ListOf
<1>5. EachSays("vu", nums, vs)
    <2> SUFFICES ASSUME NEW i \in 1 .. n PROVE Tells("vu", nums[i], vs[i])
        BY <1>2 DEF EachSays
    <2>1. Tells("vu", Varint[path[i] - 1], path[i] - 1)
        BY <1>1, NumberTells
    <2> QED BY <1>1, <2>1 DEF Zeroed
<1>6. FromZero(vs) = path
    <2>1. DOMAIN vs = 1 .. n
        BY DEF Zeroed
    <2>2. \A i \in 1 .. n : vs[i] + 1 = path[i]
        BY <1>1 DEF Zeroed
    <2>3. path = [i \in 1 .. n |-> path[i]]
        BY <1>1
    <2> QED BY <2>1, <2>2, <2>3 DEF FromZero
<1>7. PathBytes(path) = Counted(nums)
    BY DEF PathBytes
<1>8. "path" \in DOMAIN Many /\ Many["path"] = "vu"
    BY DEF Many
<1>9. Len(nums) \in Number /\ (Len(nums) = 0 => nums = <<>>) /\ Len(vs) = Len(nums)
    BY <1>1, <1>2, <1>3
<1> HIDE DEF nums, vs, n
<1>10. Tells("path", Counted(nums), vs)
    <2> DEFINE many == "path"
    <2>1. many \in DOMAIN Many /\ Many[many] = "vu"
        BY <1>8
    <2> HIDE DEF many
    <2>2. EachSays(Many[many], nums, vs)
        BY <1>5, <2>1
    <2>3. Tells(many, Counted(nums), vs)
        BY <1>4, <1>9, <2>1, <2>2, ListTells
    <2> QED BY <2>3 DEF many
<1> QED BY <1>6, <1>7, <1>10 DEF vs

(* An attribute.                                                            *)
LEMMA AttrTells ==
    ASSUME NEW n \in String, NEW s \in String
    PROVE  Tells("attr", Str(n) \o Str(s), <<n, s>>)
<1> DEFINE what == "attr"
<1>1. what \in Structures
    BY StructuresAre
<1>2. Tells("str", Str(n), n) /\ Tells("str", Str(s), s)
    BY StringTells
<1>3. \A tag : Layout(what, tag) = <<"str", "str">>
    BY DEF Layout
<1>4. \A v : MadeOf(what, v) = v
    BY DEF MadeOf
<1> DEFINE a == Str(n)
           b == Str(s)
<1> HIDE DEF what, a, b
<1>5. Tells("str", a, n) /\ Tells("str", b, s) /\ Layout(what, a[1]) = <<"str", "str">>
    BY <1>2, <1>3 DEF a, b
<1>6. Tells(what, a \o b, MadeOf(what, <<n, s>>))
    BY <1>1, <1>5, TwoTell
<1> QED BY <1>4, <1>6 DEF what, a, b

(* The attributes of a node: as many as there are names, each of them once. *)
Sendable(attrs) ==
    /\ attrs = [n \in DOMAIN attrs |-> attrs[n]]
    /\ IsFiniteSet(DOMAIN attrs) /\ Cardinality(DOMAIN attrs) \in Number
    /\ \A n \in DOMAIN attrs : n \in String /\ attrs[n] \in String

(* The attributes are written in some order, none of them twice.            *)
LEMMA SetToSeqLength ==
    ASSUME NEW S, IsFiniteSet(S)
    PROVE  Len(SetToSeq(S)) = Cardinality(S)
<1> DEFINE n == Cardinality(S)
           q == SetToSeq(S)
<1>1. n \in Nat /\ ExistsBijection(1 .. n, S)
    BY FS_CardinalityType
<1>2. \E f \in [1 .. n -> S] : IsInjective(f)
    <2>1. PICK f \in Injection(1 .. n, S) : TRUE
        BY <1>1 DEF ExistsBijection, Bijection
    <2> QED BY <2>1 DEF Injection
<1>3. q \in [1 .. n -> S]
    BY <1>2 DEF SetToSeq
<1> HIDE DEF q
<1>4. Len(q) = n
    BY <1>1, <1>3, LenOfFunction
<1> QED BY <1>4 DEF q

(* attrs: what has been read is the attributes again, in whatever order     *)
(* they were written.                                                       *)
LEMMA AttrsTell ==
    ASSUME NEW attrs, Sendable(attrs)
    PROVE  \E pairs : Tells("attrs", AttrsBytes(attrs), pairs) /\ AttrsOf(pairs) = attrs
<1> DEFINE D == DOMAIN attrs
           names == SetToSeq(D)
           k == Len(names)
           xs == [i \in DOMAIN names |-> Str(names[i]) \o Str(attrs[names[i]])]
           pairs == [i \in 1 .. k |-> <<names[i], attrs[names[i]]>>]
<1>0. IsFiniteSet(D) /\ Cardinality(D) \in Number
    BY DEF Sendable
<1>1. /\ k \in Nat /\ DOMAIN names = 1 .. k /\ k \in Number
      /\ \A i \in 1 .. k : names[i] \in D
      /\ \A x \in D : \E i \in 1 .. k : names[i] = x
      /\ \A i, j \in 1 .. k : names[i] = names[j] => i = j
    <2>1. names \in Seq(D) /\ k = Cardinality(D)
        BY <1>0, SetToSeqIs, SetToSeqLength
    <2>2. \A i, j \in 1 .. k : names[i] = names[j] => i = j
        BY <1>0, SetToSeqIs
    <2>3. \A x \in D : \E i \in 1 .. k : names[i] = x
        BY <1>0, SetToSeqIs
    <2> HIDE DEF names
    <2> QED BY <1>0, <2>1, <2>2, <2>3
<1> HIDE DEF names
<1>2. Len(xs) = k /\ Len(pairs) = k
    BY <1>1, LenOfFunction
<1>3. k = 0 => xs = <<>>
    BY <1>1
<1>4. IsList(pairs)
    <2>1. pairs = [i \in 1 .. k |-> pairs[i]]
        OBVIOUS
    <2> HIDE DEF pairs
    <2> QED BY <1>1, <2>1, FunctionIsList
<1>5. EachSays("attr", xs, pairs)
    <2> SUFFICES ASSUME NEW i \in 1 .. k PROVE Tells("attr", xs[i], pairs[i])
        BY <1>2 DEF EachSays
    <2>1. names[i] \in String /\ attrs[names[i]] \in String
        BY <1>1 DEF Sendable
    <2>2. Tells("attr", Str(names[i]) \o Str(attrs[names[i]]), <<names[i], attrs[names[i]]>>)
        BY <2>1, AttrTells
    <2> QED BY <1>1, <2>2
<1>6. AttrsOf(pairs) = attrs
    <2>1. DOMAIN pairs = 1 .. k /\ \A i \in 1 .. k : pairs[i][1] = names[i] /\ pairs[i][2] = attrs[names[i]]
        OBVIOUS
    <2> HIDE DEF pairs
    <2>2. {pairs[i][1] : i \in DOMAIN pairs} = D
        <3>1. ASSUME NEW x \in D PROVE \E i \in DOMAIN pairs : pairs[i][1] = x
            <4>1. PICK i \in 1 .. k : names[i] = x
                BY <1>1
            <4> QED BY <2>1, <4>1
        <3>2. ASSUME NEW i \in DOMAIN pairs PROVE pairs[i][1] \in D
            BY <1>1, <2>1
        <3> HIDE DEF D
        <3> QED BY <3>1, <3>2
    <2>3. ASSUME NEW n \in D
          PROVE  pairs[Max({i \in DOMAIN pairs : pairs[i][1] = n})][2] = attrs[n]
        <3>1. PICK j \in 1 .. k : names[j] = n
            BY <1>1
        <3> DEFINE T == {i \in DOMAIN pairs : pairs[i][1] = n}
        <3>2. T \in SUBSET (0 .. k) /\ T # {} /\ \A i \in T : i = j
            BY <1>1, <2>1, <3>1
        <3> HIDE DEF T
        <3>3. Max(T) = j
            BY <1>1, <3>2, MaxIsIn
        <3> QED BY <2>1, <3>1, <3>3 DEF T
    <2>4. AttrsOf(pairs) = [n \in D |-> attrs[n]]
        BY <2>2, <2>3 DEF AttrsOf
    <2> QED BY <2>4 DEF Sendable
<1>7. AttrsBytes(attrs) = Counted(xs)
    BY DEF AttrsBytes, names
<1> DEFINE many == "attrs"
<1>8. many \in DOMAIN Many /\ Many[many] = "attr"
    BY DEF Many
<1>9. Len(xs) \in Number /\ (Len(xs) = 0 => xs = <<>>) /\ Len(pairs) = Len(xs)
    BY <1>1, <1>2, <1>3
<1> HIDE DEF xs, pairs, many, k
<1>10. EachSays(Many[many], xs, pairs)
    BY <1>5, <1>8
<1>11. Tells(many, Counted(xs), pairs)
    BY <1>4, <1>8, <1>9, <1>10, ListTells
<1> QED BY <1>6, <1>7, <1>11 DEF many

-----------------------------------------------------------------------------
(* The bytes of a node, as the recursion they are: it ends because a tree   *)
(* is higher than its parts.                                                *)
LEMMA NodeBytesIs ==
    \A v \in VNodes : NodeBytes[FromVNode[v]] = NodeBytesAt(NodeBytes, FromVNode[v])
<1> DEFINE env == <<>>
           V == SerNodes
           Heights(n) == {Height[v] : v \in {u \in VNodes : FromVNode[u] = n}}
           H == [n \in V |-> Min(Heights(n))]
<1>1. \A f, n : Unfolds("NodeBytes", env, f, n) = NodeBytesAt(f, n)
    BY DEF Unfolds
<1>2. ASSUME NEW n \in V
      PROVE  /\ Min(Heights(n)) \in Nat
             /\ \E v \in VNodes : FromVNode[v] = n /\ Height[v] = Min(Heights(n))
             /\ \A v \in VNodes : FromVNode[v] = n => Min(Heights(n)) <= Height[v]
    <2> DEFINE T == Heights(n)
    <2>1. T \in SUBSET Nat /\ T # {}
        <3>1. \A v \in VNodes : Height[v] \in Nat
            BY TreeAssumption
        <3>2. \E v \in VNodes : FromVNode[v] = n
            BY DEF SerNodes
        <3> QED BY <3>1, <3>2
    <2>2. \A v \in VNodes : FromVNode[v] = n => Height[v] \in T
        OBVIOUS
    <2>3. \A h \in T : \E v \in VNodes : FromVNode[v] = n /\ Height[v] = h
        OBVIOUS
    <2> HIDE DEF T
    <2>4. Min(T) \in T /\ \A y \in T : Min(T) <= y
        BY <2>1, MinIsIn
    <2>5. Min(T) \in Nat
        BY <2>1, <2>4
    <2> QED BY <2>2, <2>3, <2>4, <2>5 DEF T
<1> HIDE DEF Heights
<1>3. H \in [V -> Nat]
    BY <1>2
<1>4. ASSUME NEW n \in V, NEW i \in DOMAIN n.kids
      PROVE  n.kids[i] \in V /\ H[n.kids[i]] < H[n]
    <2>1. PICK v \in VNodes : FromVNode[v] = n /\ Height[v] = H[n]
        BY <1>2
    <2>2. n.kids = [j \in DOMAIN v.kids |-> FromVNode[v.kids[j]]]
        <3>1. FromVNode[v] = Snapshot(FromVNode, v)
            BY FromVNodeIs
        <3>2. n = Snapshot(FromVNode, v)
            BY <2>1, <3>1
        <3> QED BY <3>2 DEF Snapshot
    <2> DEFINE w == v.kids[i]
               k == n.kids[i]
               ks == n.kids
    <2>3. i \in DOMAIN v.kids /\ k = FromVNode[w]
        <3>1. ks = [j \in DOMAIN v.kids |-> FromVNode[v.kids[j]]] /\ i \in DOMAIN ks
            BY <2>2
        <3> HIDE DEF ks
        <3>2. i \in DOMAIN v.kids /\ ks[i] = FromVNode[w]
            BY <3>1
        <3> QED BY <3>2 DEF ks
    <2>4. w \in VNodes /\ Height[w] < Height[v] /\ Height[w] \in Nat
        BY <2>3, TreeFacts
    <2>5. k \in V
        BY <2>3, <2>4 DEF SerNodes
    <2> HIDE DEF w, k
    <2>6. H[k] <= Height[w] /\ H[k] \in Nat /\ H[n] \in Nat
        BY <1>2, <1>3, <2>3, <2>4, <2>5
    <2>7. H[k] < H[n]
        BY <2>1, <2>4, <2>6
    <2> QED BY <2>5, <2>7 DEF k
<1> HIDE DEF H
<1>5. Founded("NodeBytes", env, V, H)
    <2> SUFFICES ASSUME NEW f, NEW g, NEW n \in V, Below(V, H, f, g, n)
                 PROVE  NodeBytesAt(f, n) = NodeBytesAt(g, n)
        BY <1>1 DEF Founded
    <2>1. \A i \in DOMAIN n.kids : f[n.kids[i]] = g[n.kids[i]]
        BY <1>4 DEF Below
    <2>2. [i \in DOMAIN n.kids |-> f[n.kids[i]]] = [i \in DOMAIN n.kids |-> g[n.kids[i]]]
        BY <2>1
    <2> QED BY <2>2 DEF NodeBytesAt
<1> HIDE DEF env
<1>6. PICK F : F = [n \in V |-> Unfolds("NodeBytes", env, F, n)]
    <2> HIDE DEF V
    <2> QED BY <1>3, <1>5, RecursionEnds
<1>7. F = [n \in SerNodes |-> NodeBytesAt(F, n)]
    BY <1>1, <1>6
<1> DEFINE f == NodeBytes
<1>8. f = [n \in SerNodes |-> NodeBytesAt(f, n)]
    <2>1. f = CHOOSE g : g = [n \in SerNodes |-> NodeBytesAt(g, n)]
        BY DEF NodeBytes, NodeBytesAt
    <2>2. \E g : g = [n \in SerNodes |-> NodeBytesAt(g, n)]
        BY <1>7
    <2> HIDE DEF f
    <2> QED BY <2>1, <2>2
<1> HIDE DEF f
<1>9. ASSUME NEW v \in VNodes PROVE f[FromVNode[v]] = NodeBytesAt(f, FromVNode[v])
    <2>1. FromVNode[v] \in SerNodes
        BY DEF SerNodes
    <2> QED BY <1>8, <2>1
<1> QED BY <1>9 DEF f

(* A node is told what it is from its bytes.                                *)
NodeTold(v) == Tells("node", NodeBytes[FromVNode[v]], FromVNode[v])

(* The children of a node.                                                  *)
LEMMA NodesTell ==
    ASSUME NEW nodes, Len(nodes) \in Number, IsList(nodes),
           \A i \in 1 .. Len(nodes) : Tells("node", NodeBytes[nodes[i]], nodes[i])
    PROVE  Tells("nodes", NodesBytes(nodes), nodes)
<1> DEFINE k == Len(nodes)
           xs == [i \in DOMAIN nodes |-> NodeBytes[nodes[i]]]
           many == "nodes"
<1>1. k \in Nat /\ DOMAIN nodes = 1 .. k
    BY ListIs
<1>2. Len(xs) = k /\ (k = 0 => xs = <<>>)
    BY <1>1, LenOfFunction
<1>3. \A i \in 1 .. k : xs[i] = NodeBytes[nodes[i]]
    BY <1>1
<1>4. NodesBytes(nodes) = Counted(xs)
    BY DEF NodesBytes
<1>5. many \in DOMAIN Many /\ Many[many] = "node"
    BY DEF Many
<1> HIDE DEF xs, many
<1>6. EachSays(Many[many], xs, nodes)
    BY <1>2, <1>3, <1>5 DEF EachSays
<1>7. Tells(many, Counted(xs), nodes)
    BY <1>2, <1>5, <1>6, ListTells
<1> QED BY <1>4, <1>7 DEF many

(* SerNode and node(): the bytes of a node tell the node, however high the  *)
(* tree.                                                                    *)
LEMMA NodeTells ==
    \A v \in VNodes : NodeTold(v)
<1> DEFINE S == {h \in Nat : \A v \in VNodes : Height[v] = h => NodeTold(v)}
<1>1. ASSUME NEW h \in Nat, \A m \in Nat : m < h => m \in S PROVE h \in S
    <2> SUFFICES ASSUME NEW v \in VNodes, Height[v] = h PROVE NodeTold(v)
        OBVIOUS
    <2>1. ASSUME NEW i \in DOMAIN v.kids PROVE NodeTold(v.kids[i])
        <3>1. v.kids[i] \in VNodes /\ Height[v.kids[i]] < h /\ Height[v.kids[i]] \in Nat
            BY TreeFacts
        <3>2. Height[v.kids[i]] \in S
            BY <1>1, <3>1
        <3> QED BY <3>1, <3>2
    <2> DEFINE n == FromVNode[v]
               kids == n.kids
               u == "node"
    <2>2. /\ n = [tag |-> v.tag, attrs |-> v.attrs, text |-> v.text, kids |-> Snapshots(v.kids)]
          /\ NodeBytes[n] = NodeBytesAt(NodeBytes, n)
        BY NodeBytesIs, SnapshotIs DEF Dom
    <2>3. n.tag = v.tag /\ n.attrs = v.attrs /\ n.text = v.text /\ kids = Snapshots(v.kids)
        BY <2>2
    <2> HIDE DEF n
    <2>4. u \in Structures /\ Tells("u8", <<0>>, 0) /\ Tells("u8", <<1>>, 1)
        BY StructuresAre, ByteTells
    <2> DEFINE zero == <<0>>
               one == <<1>>
               s == Str(v.text)
               t == Str(v.tag)
    <2>5. CASE IsText(v)
        <3>1. v.text \in String /\ v.tag = TextTag
            BY <2>5, TreesFit DEF IsText
        <3>2. v.attrs = <<>> /\ v.kids = <<>>
            <4>1. v = Text(v.text)
                BY <2>5, TreeAssumption
            <4> QED BY <4>1 DEF Text
        <3>3. n = SerText(v.text)
            <4>1. Snapshots(v.kids) = <<>>
                BY <3>2 DEF Snapshots
            <4> QED BY <2>2, <3>1, <3>2, <4>1 DEF SerText
        <3>4. NodeBytes[n] = zero \o s
            BY <2>2, <2>3, <3>1 DEF NodeBytesAt, IsText
        <3>5. Tells("str", s, v.text)
            BY <3>1, StringTells
        <3>6. Layout(u, zero[1]) = <<"u8", "str">>
            BY DEF Layout
        <3>7. MadeOf(u, <<0, v.text>>) = SerText(v.text)
            BY DEF MadeOf
        <3>8. Tells("u8", zero, 0)
            BY <2>4
        <3> HIDE DEF u, zero, s
        <3>9. Tells(u, zero \o s, MadeOf(u, <<0, v.text>>))
            BY <2>4, <3>5, <3>6, <3>8, TwoTell
        <3> QED BY <3>3, <3>4, <3>7, <3>9 DEF NodeTold, u, n
    <2>6. CASE ~ IsText(v)
        <3>1. v.tag \in String /\ v.tag # TextTag /\ v.text = ""
            BY <2>6, TreesFit, TreeAssumption DEF IsText
        <3>2. n = SerEl(v.tag, v.attrs, kids)
            BY <2>2, <2>3, <3>1 DEF SerEl
        <3>3. Sendable(v.attrs)
            BY TreesFit, TreeAssumption DEF Sendable
        <3>4. PICK pairs : Tells("attrs", AttrsBytes(v.attrs), pairs) /\ AttrsOf(pairs) = v.attrs
            BY <3>3, AttrsTell
        <3> DEFINE a == AttrsBytes(v.attrs)
                   d == NodesBytes(kids)
        <3>5. Tells("nodes", d, kids)
            <4>1. /\ Len(kids) = Len(v.kids) /\ IsList(kids)
                  /\ \A i \in 1 .. Len(kids) : kids[i] = FromVNode[v.kids[i]]
                BY <2>3, SnapshotsAre, TreeFacts, ListOf
            <4>2. Len(kids) \in Number
                <5>1. 2 * Len(v.kids) \in Number /\ Len(v.kids) \in Nat
                    BY TreesFit, TreeFacts
                <5>2. MaxNumber \in Nat
                    BY NumbersFit
                <5> DEFINE l == Len(v.kids)
                <5> HIDE DEF l
                <5>3. l \in Number
                    BY <5>1, <5>2 DEF Number, l
                <5> QED BY <4>1, <5>3 DEF l
            <4>3. \A i \in 1 .. Len(kids) : Tells("node", NodeBytes[kids[i]], kids[i])
                BY <2>1, <4>1, TreeFacts DEF NodeTold
            <4> HIDE DEF kids
            <4> QED BY <4>1, <4>2, <4>3, NodesTell
        <3>6. NodeBytes[n] = one \o t \o a \o d
            BY <2>2, <2>3, <3>1 DEF NodeBytesAt, IsText, NodesBytes
        <3>7. Tells("str", t, v.tag)
            BY <3>1, StringTells
        <3>8. Layout(u, one[1]) = <<"u8", "str", "attrs", "nodes">>
            BY DEF Layout
        <3>9. MadeOf(u, <<1, v.tag, pairs, kids>>) = SerEl(v.tag, v.attrs, kids)
            BY <3>4 DEF MadeOf
        <3>10. Tells("u8", one, 1) /\ Tells("attrs", a, pairs)
            BY <2>4, <3>4
        <3> HIDE DEF u, one, t, a, d, kids
        <3>11. Tells(u, one \o t \o a \o d, MadeOf(u, <<1, v.tag, pairs, kids>>))
            BY <2>4, <3>5, <3>7, <3>8, <3>10, FourTell
        <3> QED BY <3>2, <3>6, <3>9, <3>11 DEF NodeTold, u, n
    <2> QED BY <2>5, <2>6
<1>2. \A h \in Nat : h \in S
    <2> HIDE DEF S
    <2> QED BY <1>1, StrongSetInduction
<1> QED BY <1>2, TreeFacts

-----------------------------------------------------------------------------
(* What a patch has besides its kind and its path.                          *)
LEMMA TheRestIs ==
    ASSUME NEW T, NEW x \in Seq(T), NEW rest \in Seq(T)
    PROVE  /\ x \o rest \in Seq(T) /\ Len(x \o rest) = Len(x) + Len(rest)
           /\ SubSeq(x \o rest, Len(x) + 1, Len(x \o rest)) = rest
OBVIOUS

(* What comes behind the tag and the path of a patch.                       *)
LEMMA BehindTwo ==
    ASSUME NEW a, NEW b, NEW rest, IsList(rest), NEW v, IsList(v), Len(v) = 2 + Len(rest),
           v[1] = a, v[2] = b, \A i \in 1 .. Len(rest) : v[2 + i] = rest[i]
    PROVE  <<a, b>> \o rest = v /\ SubSeq(v, 3, Len(v)) = rest
<1> DEFINE ab == <<a, b>>
           n == Len(rest)
           u == ab \o rest
           T == {a, b} \cup {rest[i] : i \in DOMAIN rest}
<1>1. ab \in Seq(T) /\ Len(ab) = 2 /\ ab[1] = a /\ ab[2] = b
    OBVIOUS
<1>2. n \in Nat /\ rest \in Seq(T)
    <2> DEFINE S == {rest[i] : i \in DOMAIN rest}
    <2>1. rest \in Seq(S)
        BY DEF IsList
    <2> HIDE DEF S
    <2>2. rest \in Seq({a, b} \cup S)
        BY <2>1
    <2> QED BY <2>1, <2>2 DEF S
<1> HIDE DEF ab, T
<1>3. /\ IsList(u) /\ Len(u) = 2 + n
      /\ \A i \in 1 .. 2 : u[i] = ab[i]
      /\ \A i \in 1 .. n : u[2 + i] = rest[i]
    <2>1. IsList(ab)
        BY <1>1, ListOf
    <2>2. /\ IsList(u) /\ Len(u) = Len(ab) + Len(rest)
          /\ \A i \in 1 .. Len(ab) : u[i] = ab[i]
          /\ \A i \in 1 .. Len(rest) : u[Len(ab) + i] = rest[i]
        BY <2>1, ListJoin
    <2> HIDE DEF u
    <2> QED BY <1>1, <2>2
<1>4. u = v
    <2> HIDE DEF u, n
    <2>1. ASSUME NEW i \in 1 .. Len(v) PROVE u[i] = v[i]
        <3>1. CASE i = 1
            BY <1>1, <1>3, <3>1
        <3>2. CASE i = 2
            BY <1>1, <1>3, <3>2
        <3>3. CASE i > 2
            <4> DEFINE k == i - 2
            <4>1. k \in 1 .. n /\ 2 + k = i
                BY <1>2, <3>3 DEF n
            <4> HIDE DEF k
            <4>2. u[2 + k] = rest[k] /\ v[2 + k] = rest[k]
                BY <1>3, <4>1 DEF n
            <4> QED BY <4>1, <4>2
        <3>4. i \in Nat /\ i >= 1
            BY <1>2 DEF n
        <3> QED BY <3>1, <3>2, <3>3, <3>4
    <2>2. Len(u) = Len(v)
        BY <1>3 DEF n
    <2> QED BY <1>3, <2>1, <2>2, SameList
<1>5. SubSeq(u, 3, Len(u)) = rest
    <2>1. SubSeq(u, Len(ab) + 1, Len(u)) = rest
        BY <1>1, <1>2, TheRestIs
    <2>2. Len(ab) + 1 = 3
        BY <1>1
    <2> HIDE DEF u
    <2> QED BY <2>1, <2>2
<1> HIDE DEF u
<1> QED BY <1>4, <1>5 DEF ab, u

(* The same for one thing and for two.                                      *)
LEMMA BehindThese ==
    \A a, b, c, d :
       /\ <<a, b>> \o <<c>> = <<a, b, c>> /\ <<a, b>> \o <<c, d>> = <<a, b, c, d>>
       /\ SubSeq(<<a, b, c>>, 3, Len(<<a, b, c>>)) = <<c>>
       /\ SubSeq(<<a, b, c, d>>, 3, Len(<<a, b, c, d>>)) = <<c, d>>
<1> TAKE a, b, c, d
<1> DEFINE T == {a, b, c, d}
           three == <<a, b, c>>
           four == <<a, b, c, d>>
           one == <<c>>
           two == <<c, d>>
<1>1. three \in Seq(T) /\ four \in Seq(T) /\ one \in Seq(T) /\ two \in Seq(T)
    OBVIOUS
<1>2. /\ Len(three) = 3 /\ Len(four) = 4 /\ Len(one) = 1 /\ Len(two) = 2
      /\ three[1] = a /\ three[2] = b /\ three[3] = c
      /\ four[1] = a /\ four[2] = b /\ four[3] = c /\ four[4] = d
      /\ one[1] = c /\ two[1] = c /\ two[2] = d
    OBVIOUS
<1> HIDE DEF T, three, four, one, two
<1>3. IsList(three) /\ IsList(four) /\ IsList(one) /\ IsList(two)
    BY <1>1, ListOf
<1>4. <<a, b>> \o one = three /\ SubSeq(three, 3, Len(three)) = one
    <2>1. Len(three) = 2 + Len(one) /\ \A i \in 1 .. Len(one) : three[2 + i] = one[i]
        BY <1>2
    <2>2. three[1] = a /\ three[2] = b /\ IsList(three) /\ IsList(one)
        BY <1>2, <1>3
    <2> QED BY <2>1, <2>2, BehindTwo
<1>5. <<a, b>> \o two = four /\ SubSeq(four, 3, Len(four)) = two
    <2>1. Len(four) = 2 + Len(two)
        BY <1>2
    <2>2. \A i \in 1 .. Len(two) : four[2 + i] = two[i]
        <3>1. \A i \in 1 .. 2 : i = 1 \/ i = 2
            OBVIOUS
        <3>2. four[2 + 1] = two[1] /\ four[2 + 2] = two[2]
            BY <1>2
        <3> QED BY <1>2, <3>1, <3>2
    <2>3. four[1] = a /\ four[2] = b /\ IsList(four) /\ IsList(two)
        BY <1>2, <1>3
    <2> QED BY <2>1, <2>2, <2>3, BehindTwo
<1> QED BY <1>4, <1>5 DEF three, four, one, two

(* A patch of one field more than its path, and of two.                     *)
LEMMA OneFieldTells ==
    ASSUME NEW tag \in Nat, NEW path \in EventPath, NEW r, NEW c, NEW x, Tells(r, c, x),
           PatchLayout(tag) = <<"u8", "path", r>>
    PROVE  Tells("patch", <<tag>> \o PathBytes(path) \o c, PatchOf(tag, path, <<x>>))
<1> DEFINE what == "patch"
           a == <<tag>>
           b == PathBytes(path)
           z == Zeroed(path)
           made == PatchOf(tag, path, <<x>>)
<1>1. what \in Structures /\ Tells("u8", a, tag) /\ Tells("path", b, z) /\ FromZero(z) = path
    BY StructuresAre, ByteTells, PathTells
<1>2. Layout(what, a[1]) = <<"u8", "path", r>>
    BY Tags DEF Layout
<1>3. MadeOf(what, <<tag, z, x>>) = made
    <2> DEFINE v == <<tag, z, x>>
    <2>1. v[1] = tag /\ v[2] = z /\ SubSeq(v, 3, Len(v)) = <<x>>
        BY BehindThese
    <2> HIDE DEF v
    <2>2. MadeOf(what, v) = PatchOf(v[1], FromZero(v[2]), SubSeq(v, 3, Len(v)))
        BY DEF MadeOf
    <2>3. MadeOf(what, v) = PatchOf(tag, path, <<x>>)
        BY <1>1, <2>1, <2>2
    <2> QED BY <2>3 DEF v
<1> HIDE DEF what, a, b, z, made
<1>4. Tells(what, a \o b \o c, MadeOf(what, <<tag, z, x>>))
    BY <1>1, <1>2, ThreeTell
<1> QED BY <1>3, <1>4 DEF what, a, b, made

(* A patch of two fields arrives (SetAttr, InsertChild, MoveChild).         *)
LEMMA TwoFieldsTell ==
    ASSUME NEW tag \in Nat, NEW path \in EventPath, NEW r, NEW c, NEW x, Tells(r, c, x),
           NEW s, NEW d, NEW y, Tells(s, d, y), PatchLayout(tag) = <<"u8", "path", r, s>>
    PROVE  Tells("patch", <<tag>> \o PathBytes(path) \o c \o d, PatchOf(tag, path, <<x, y>>))
<1> DEFINE what == "patch"
           a == <<tag>>
           b == PathBytes(path)
           z == Zeroed(path)
           made == PatchOf(tag, path, <<x, y>>)
<1>1. what \in Structures /\ Tells("u8", a, tag) /\ Tells("path", b, z) /\ FromZero(z) = path
    BY StructuresAre, ByteTells, PathTells
<1>2. Layout(what, a[1]) = <<"u8", "path", r, s>>
    BY Tags DEF Layout
<1>3. MadeOf(what, <<tag, z, x, y>>) = made
    <2> DEFINE v == <<tag, z, x, y>>
    <2>1. v[1] = tag /\ v[2] = z /\ SubSeq(v, 3, Len(v)) = <<x, y>>
        BY BehindThese
    <2> HIDE DEF v
    <2>2. MadeOf(what, v) = PatchOf(v[1], FromZero(v[2]), SubSeq(v, 3, Len(v)))
        BY DEF MadeOf
    <2>3. MadeOf(what, v) = PatchOf(tag, path, <<x, y>>)
        BY <1>1, <2>1, <2>2
    <2> QED BY <2>3 DEF v
<1> HIDE DEF what, a, b, z, made
<1>4. Tells(what, a \o b \o c \o d, MadeOf(what, <<tag, z, x, y>>))
    BY <1>1, <1>2, FourTell
<1> QED BY <1>3, <1>4 DEF what, a, b, made

-----------------------------------------------------------------------------
(* The patches that can be sent: what they say fits in a message.           *)
Index == {i \in Nat \ {0} : i - 1 \in Number}
SomeNodes == {ns \in Seq(SerNodes) : Len(ns) \in Number}

SentPatches ==
    {Replace(path, n) : path \in EventPath, n \in SerNodes}
    \cup {SetText(path, s) : path \in EventPath, s \in String}
    \cup {SetAttr(path, n, s) : path \in EventPath, n \in String, s \in String}
    \cup {RemoveAttr(path, n) : path \in EventPath, n \in String}
    \cup {AppendChildren(path, ns) : path \in EventPath, ns \in SomeNodes}
    \cup {TruncateChildren(path, n) : path \in EventPath, n \in Number}
    \cup {InsertChild(path, i, n) : path \in EventPath, i \in Index, n \in SerNodes}
    \cup {MoveChild(path, i, j) : path \in EventPath, i \in Index, j \in Index}

(* The fields of each kind.                                                 *)
LEMMA PatchLayouts ==
    /\ PatchLayout(0) = <<"u8", "path", "node">>
    /\ PatchLayout(1) = <<"u8", "path", "str">>
    /\ PatchLayout(2) = <<"u8", "path", "str", "str">>
    /\ PatchLayout(3) = <<"u8", "path", "str">>
    /\ PatchLayout(4) = <<"u8", "path", "nodes">>
    /\ PatchLayout(5) = <<"u8", "path", "vu">>
    /\ PatchLayout(6) = <<"u8", "path", "vu", "node">>
    /\ PatchLayout(7) = <<"u8", "path", "vu", "vu">>
<1>1. /\ PatchLayout(0) = <<"u8", "path">> \o <<"node">>
      /\ PatchLayout(1) = <<"u8", "path">> \o <<"str">>
      /\ PatchLayout(2) = <<"u8", "path">> \o <<"str", "str">>
      /\ PatchLayout(3) = <<"u8", "path">> \o <<"str">>
    BY DEF PatchLayout
<1>2. /\ PatchLayout(4) = <<"u8", "path">> \o <<"nodes">>
      /\ PatchLayout(5) = <<"u8", "path">> \o <<"vu">>
      /\ PatchLayout(6) = <<"u8", "path">> \o <<"vu", "node">>
      /\ PatchLayout(7) = <<"u8", "path">> \o <<"vu", "vu">>
    BY DEF PatchLayout
<1> QED BY <1>1, <1>2, BehindThese

(* A patch arrives as it was sent.                                          *)
LEMMA PatchTells ==
    ASSUME NEW p \in SentPatches
    PROVE  Tells("patch", PatchBytes(p), p)
<1>n. \A n \in SerNodes : Tells("node", NodeBytes[n], n)
    BY NodeTells DEF NodeTold, SerNodes
<1>i. \A i \in Index : i - 1 \in Number /\ Tells("vu", Varint[i - 1], i - 1) /\ (i - 1) + 1 = i
    BY NumberTells DEF Index
<1>1. ASSUME NEW path \in EventPath, NEW n \in SerNodes, p = Replace(path, n)
      PROVE  Tells("patch", PatchBytes(p), p)
    <2> DEFINE c == NodeBytes[n]
    <2>1. PatchBytes(p) = <<0>> \o PathBytes(path) \o c /\ PatchOf(0, path, <<n>>) = p
        <3>1. p.op = "replace" /\ p.path = path /\ p.node = n
            BY <1>1 DEF Replace
        <3>2. PatchBytes(p) = <<0>> \o PathBytes(p.path) \o NodeBytes[p.node]
            BY <3>1 DEF PatchBytes
        <3>3. PatchOf(0, path, <<n>>) = Replace(path, n)
            BY DEF PatchOf
        <3> QED BY <1>1, <3>1, <3>2, <3>3
    <2> HIDE DEF c
    <2>2. Tells("patch", <<0>> \o PathBytes(path) \o c, PatchOf(0, path, <<n>>))
        BY <1>n, PatchLayouts, OneFieldTells DEF c
    <2> QED BY <2>1, <2>2
<1>2. ASSUME NEW path \in EventPath, NEW s \in String, p = SetText(path, s)
      PROVE  Tells("patch", PatchBytes(p), p)
    <2>1. PatchBytes(p) = <<1>> \o PathBytes(path) \o Str(s) /\ PatchOf(1, path, <<s>>) = p
        BY <1>2 DEF PatchBytes, SetText, PatchOf
    <2>2. Tells("patch", <<1>> \o PathBytes(path) \o Str(s), PatchOf(1, path, <<s>>))
        BY StringTells, PatchLayouts, OneFieldTells
    <2> QED BY <2>1, <2>2
<1>3. ASSUME NEW path \in EventPath, NEW n \in String, NEW s \in String, p = SetAttr(path, n, s)
      PROVE  Tells("patch", PatchBytes(p), p)
    <2>1. /\ PatchBytes(p) = <<2>> \o PathBytes(path) \o Str(n) \o Str(s)
          /\ PatchOf(2, path, <<n, s>>) = p
        BY <1>3 DEF PatchBytes, SetAttr, PatchOf
    <2>2. Tells("patch", <<2>> \o PathBytes(path) \o Str(n) \o Str(s), PatchOf(2, path, <<n, s>>))
        BY StringTells, PatchLayouts, TwoFieldsTell
    <2> QED BY <2>1, <2>2
<1>4. ASSUME NEW path \in EventPath, NEW n \in String, p = RemoveAttr(path, n)
      PROVE  Tells("patch", PatchBytes(p), p)
    <2>1. PatchBytes(p) = <<3>> \o PathBytes(path) \o Str(n) /\ PatchOf(3, path, <<n>>) = p
        BY <1>4 DEF PatchBytes, RemoveAttr, PatchOf
    <2>2. Tells("patch", <<3>> \o PathBytes(path) \o Str(n), PatchOf(3, path, <<n>>))
        BY StringTells, PatchLayouts, OneFieldTells
    <2> QED BY <2>1, <2>2
<1>5. ASSUME NEW path \in EventPath, NEW ns \in SomeNodes, p = AppendChildren(path, ns)
      PROVE  Tells("patch", PatchBytes(p), p)
    <2> DEFINE c == NodesBytes(ns)
    <2>1. PatchBytes(p) = <<4>> \o PathBytes(path) \o c /\ PatchOf(4, path, <<ns>>) = p
        BY <1>5 DEF PatchBytes, AppendChildren, PatchOf
    <2>2. Tells("nodes", c, ns)
        <3>1. ns \in Seq(SerNodes) /\ Len(ns) \in Number
            BY DEF SomeNodes
        <3>2. \A i \in 1 .. Len(ns) : Tells("node", NodeBytes[ns[i]], ns[i])
            BY <1>n, <3>1
        <3>3. IsList(ns)
            BY <3>1, ListOf
        <3> QED BY <3>1, <3>2, <3>3, NodesTell
    <2> HIDE DEF c
    <2>3. Tells("patch", <<4>> \o PathBytes(path) \o c, PatchOf(4, path, <<ns>>))
        BY <2>2, PatchLayouts, OneFieldTells
    <2> QED BY <2>1, <2>3
<1>6. ASSUME NEW path \in EventPath, NEW n \in Number, p = TruncateChildren(path, n)
      PROVE  Tells("patch", PatchBytes(p), p)
    <2> DEFINE c == Varint[n]
    <2>1. PatchBytes(p) = <<5>> \o PathBytes(path) \o c /\ PatchOf(5, path, <<n>>) = p
        <3>1. p.op = "truncateChildren" /\ p.path = path /\ p.len = n
            BY <1>6 DEF TruncateChildren
        <3>2. PatchBytes(p) = <<5>> \o PathBytes(p.path) \o Varint[p.len]
            BY <3>1 DEF PatchBytes
        <3>3. PatchOf(5, path, <<n>>) = TruncateChildren(path, n)
            BY DEF PatchOf
        <3> QED BY <1>6, <3>1, <3>2, <3>3
    <2>2. Tells("vu", c, n)
        BY NumberTells
    <2> HIDE DEF c
    <2>3. Tells("patch", <<5>> \o PathBytes(path) \o c, PatchOf(5, path, <<n>>))
        BY <2>2, PatchLayouts, OneFieldTells
    <2> QED BY <2>1, <2>3
<1>7. ASSUME NEW path \in EventPath, NEW i \in Index, NEW n \in SerNodes, p = InsertChild(path, i, n)
      PROVE  Tells("patch", PatchBytes(p), p)
    <2> DEFINE c == Varint[i - 1]
               d == NodeBytes[n]
               x == i - 1
    <2>1. /\ PatchBytes(p) = <<6>> \o PathBytes(path) \o c \o d
          /\ PatchOf(6, path, <<x, n>>) = p
        <3>1. p.op = "insertChild" /\ p.path = path /\ p.index = i /\ p.node = n
            BY <1>7 DEF InsertChild
        <3>2. PatchBytes(p)
                = <<6>> \o PathBytes(p.path) \o Varint[p.index - 1] \o NodeBytes[p.node]
            BY <3>1 DEF PatchBytes
        <3>3. PatchOf(6, path, <<x, n>>) = InsertChild(path, x + 1, n)
            BY DEF PatchOf
        <3>4. x + 1 = i
            BY <1>i
        <3> QED BY <1>7, <3>1, <3>2, <3>3, <3>4
    <2>2. Tells("vu", c, x) /\ Tells("node", d, n)
        BY <1>i, <1>n
    <2> HIDE DEF c, d, x
    <2>3. Tells("patch", <<6>> \o PathBytes(path) \o c \o d, PatchOf(6, path, <<x, n>>))
        BY <2>2, PatchLayouts, TwoFieldsTell
    <2> QED BY <2>1, <2>3
<1>8. ASSUME NEW path \in EventPath, NEW i \in Index, NEW j \in Index, p = MoveChild(path, i, j)
      PROVE  Tells("patch", PatchBytes(p), p)
    <2> DEFINE c == Varint[i - 1]
               d == Varint[j - 1]
               x == i - 1
               y == j - 1
    <2>1. /\ PatchBytes(p) = <<7>> \o PathBytes(path) \o c \o d
          /\ PatchOf(7, path, <<x, y>>) = p
        <3>1. p.op = "moveChild" /\ p.path = path /\ p.from = i /\ p.to = j
            BY <1>8 DEF MoveChild
        <3>2. PatchBytes(p)
                = <<7>> \o PathBytes(p.path) \o Varint[p.from - 1] \o Varint[p.to - 1]
            BY <3>1 DEF PatchBytes
        <3>3. PatchOf(7, path, <<x, y>>) = MoveChild(path, x + 1, y + 1)
            BY DEF PatchOf
        <3>4. x + 1 = i /\ y + 1 = j
            BY <1>i
        <3> QED BY <1>8, <3>1, <3>2, <3>3, <3>4
    <2>2. Tells("vu", c, x) /\ Tells("vu", d, y)
        BY <1>i
    <2> HIDE DEF c, d, x, y
    <2>3. Tells("patch", <<7>> \o PathBytes(path) \o c \o d, PatchOf(7, path, <<x, y>>))
        BY <2>2, PatchLayouts, TwoFieldsTell
    <2> QED BY <2>1, <2>3
<1> QED BY <1>1, <1>2, <1>3, <1>4, <1>5, <1>6, <1>7, <1>8 DEF SentPatches

-----------------------------------------------------------------------------
(* A list of items, each with its bytes.                                    *)
Itemised(what, xs, items) ==
    /\ xs = [i \in 1 .. Len(items) |-> xs[i]]
    /\ \A i \in 1 .. Len(items) : Tells(what, xs[i], items[i])

(* Then the list arrives, with its count before it.                         *)
LEMMA ItemsTell ==
    ASSUME NEW many \in DOMAIN Many, NEW items, IsList(items), Len(items) \in Number,
           NEW xs, Itemised(Many[many], xs, items)
    PROVE  Tells(many, Counted(xs), items)
<1> DEFINE k == Len(items)
<1>1. k \in Nat
    BY ListIs
<1>2. Len(xs) = k /\ (Len(xs) = 0 => xs = <<>>)
    <2>1. xs = [i \in 1 .. k |-> xs[i]]
        BY DEF Itemised
    <2> HIDE DEF k
    <2> QED BY <1>1, <2>1, FunctionIsList, ListIs
<1>3. EachSays(Many[many], xs, items)
    BY <1>2 DEF EachSays, Itemised
<1> QED BY <1>2, <1>3, ListTells

-----------------------------------------------------------------------------
(* What the page is to listen to.                                           *)
Heeds == [name : String, preventDefault : BOOLEAN]

(* EventSpec and its reader.                                                *)
LEMMA EventTells ==
    ASSUME NEW e \in Heeds
    PROVE  Tells("event", EventBytes(e), e)
<1> DEFINE what == "event"
           x == IF e.preventDefault THEN 1 ELSE 0
           a == Str(e.name)
           b == <<x>>
<1>1. e.name \in String /\ e.preventDefault \in BOOLEAN
      /\ e = [name |-> e.name, preventDefault |-> e.preventDefault]
    BY DEF Heeds
<1>2. x \in Nat /\ (x = 1) = e.preventDefault
    <2>1. CASE e.preventDefault
        BY <2>1, <1>1
    <2>2. CASE ~ e.preventDefault
        BY <2>2, <1>1
    <2> QED BY <2>1, <2>2
<1>3. EventBytes(e) = a \o b
    BY DEF EventBytes
<1>4. what \in Structures /\ \A tag : Layout(what, tag) = <<"str", "u8">>
    BY StructuresAre DEF Layout
<1>5. MadeOf(what, <<e.name, x>>) = e
    <2> DEFINE v == <<e.name, x>>
    <2>1. v[1] = e.name /\ v[2] = x
        OBVIOUS
    <2> HIDE DEF v, x
    <2>2. MadeOf(what, v) = [name |-> v[1], preventDefault |-> v[2] = 1]
        BY DEF MadeOf, EventSpec
    <2>3. MadeOf(what, v) = [name |-> e.name, preventDefault |-> e.preventDefault]
        BY <1>2, <2>1, <2>2
    <2> QED BY <1>1, <2>3 DEF v
<1> HIDE DEF x
<1>6. Tells("u8", b, x)
    BY <1>2, ByteTells
<1>7. Tells("str", a, e.name)
    BY <1>1, StringTells
<1> HIDE DEF what, a, b
<1>8. Layout(what, a[1]) = <<"str", "u8">>
    BY <1>4
<1>9. Tells(what, a \o b, MadeOf(what, <<e.name, x>>))
    BY <1>4, <1>6, <1>7, <1>8, TwoTell
<1> QED BY <1>3, <1>5, <1>9 DEF what

-----------------------------------------------------------------------------
(* Commands.  First what is asked for: a number or a string, or two.        *)
LEMMA SpecTells ==
    ASSUME NEW what \in {"cmdSpec", "subSpec"}, NEW tag \in Nat,
           NEW p, NEW b, NEW v, Tells(p, b, v), Layout(what, tag) = <<"u8", p>>
    PROVE  Tells(what, <<tag>> \o b, MadeOf(what, <<tag, v>>))
<1> DEFINE a == <<tag>>
<1>1. what \in Structures
    BY StructuresAre
<1>2. Tells("u8", a, tag) /\ a[1] = tag
    BY ByteTells, Tags
<1> HIDE DEF a
<1>3. Layout(what, a[1]) = <<"u8", p>>
    BY <1>2
<1>4. Tells(what, a \o b, MadeOf(what, <<tag, v>>))
    BY <1>1, <1>2, <1>3, TwoTell
<1> QED BY <1>4 DEF a

(* A command of two strings (Publish, HttpPost).                            *)
LEMMA TwofoldTells ==
    ASSUME NEW tag \in {2, 3}, NEW s \in String, NEW t \in String
    PROVE  Tells("cmdSpec", <<tag>> \o Str(s) \o Str(t), MadeOf("cmdSpec", <<tag, s, t>>))
<1> DEFINE what == "cmdSpec"
           a == <<tag>>
           b == Str(s)
           c == Str(t)
<1>1. what \in Structures
    BY StructuresAre
<1>2. Tells("u8", a, tag) /\ a[1] = tag
    BY ByteTells, Tags
<1>3. Layout(what, tag) = <<"u8", "str", "str">>
    BY DEF Layout, SpecLayout
<1>4. Tells("str", b, s) /\ Tells("str", c, t)
    BY StringTells
<1> HIDE DEF what, a, b, c
<1>5. Layout(what, a[1]) = <<"u8", "str", "str">>
    BY <1>2, <1>3
<1>6. Tells(what, a \o b \o c, MadeOf(what, <<tag, s, t>>))
    BY <1>1, <1>2, <1>4, <1>5, ThreeTell
<1> QED BY <1>6 DEF what, a, b, c

(* What is requested, without its id.                                       *)
CmdSpecBytes(spec) ==
    CASE spec.kind = "delay" -> <<0>> \o Varint[spec.ms]
      [] spec.kind = "httpGet" -> <<1>> \o Str(spec.url)
      [] spec.kind = "publish" -> <<2>> \o Str(spec.topic) \o Str(spec.message)
      [] spec.kind = "httpPost" -> <<3>> \o Str(spec.url) \o Str(spec.body)

(* CmdSpec and its reader, for every kind of command.                       *)
LEMMA CmdSpecTells ==
    ASSUME NEW spec \in CmdSpec
    PROVE  Tells("cmdSpec", CmdSpecBytes(spec), spec)
<1>1. ASSUME NEW n \in Number, spec = Delay(n)
      PROVE  Tells("cmdSpec", CmdSpecBytes(spec), spec)
    <2>1. spec.kind = "delay" /\ spec.ms = n
        BY <1>1 DEF Delay
    <2>2. CmdSpecBytes(spec) = <<0>> \o Varint[n]
        BY <2>1 DEF CmdSpecBytes
    <2>3. Layout("cmdSpec", 0) = <<"u8", "vu">>
        BY DEF Layout, SpecLayout
    <2>4. MadeOf("cmdSpec", <<0, n>>) = Delay(n)
        BY DEF MadeOf, CmdSpecOf
    <2> DEFINE b == Varint[n]
    <2>5. Tells("vu", b, n)
        BY NumberTells
    <2> HIDE DEF b
    <2>6. Tells("cmdSpec", <<0>> \o b, MadeOf("cmdSpec", <<0, n>>))
        BY <2>3, <2>5, SpecTells
    <2> QED BY <1>1, <2>2, <2>4, <2>6 DEF b
<1>2. ASSUME NEW s \in String, spec = HttpGet(s)
      PROVE  Tells("cmdSpec", CmdSpecBytes(spec), spec)
    <2>1. spec.kind = "httpGet" /\ spec.url = s
        BY <1>2 DEF HttpGet
    <2>2. CmdSpecBytes(spec) = <<1>> \o Str(s)
        BY <2>1 DEF CmdSpecBytes
    <2>3. Layout("cmdSpec", 1) = <<"u8", "str">>
        BY DEF Layout, SpecLayout
    <2>4. MadeOf("cmdSpec", <<1, s>>) = HttpGet(s)
        BY DEF MadeOf, CmdSpecOf
    <2> DEFINE b == Str(s)
    <2>5. Tells("str", b, s)
        BY StringTells
    <2> HIDE DEF b
    <2>6. Tells("cmdSpec", <<1>> \o b, MadeOf("cmdSpec", <<1, s>>))
        BY <2>3, <2>5, SpecTells
    <2> QED BY <1>2, <2>2, <2>4, <2>6 DEF b
<1>3. ASSUME NEW s \in String, NEW t \in String, spec = Publish(s, t)
      PROVE  Tells("cmdSpec", CmdSpecBytes(spec), spec)
    <2>1. spec.kind = "publish" /\ spec.topic = s /\ spec.message = t
        BY <1>3 DEF Publish
    <2>2. CmdSpecBytes(spec) = <<2>> \o Str(s) \o Str(t)
        BY <2>1 DEF CmdSpecBytes
    <2>3. MadeOf("cmdSpec", <<2, s, t>>) = Publish(s, t)
        BY DEF MadeOf, CmdSpecOf
    <2> QED BY <1>3, <2>2, <2>3, TwofoldTells
<1>4. ASSUME NEW s \in String, NEW t \in String, spec = HttpPost(s, t)
      PROVE  Tells("cmdSpec", CmdSpecBytes(spec), spec)
    <2>1. spec.kind = "httpPost" /\ spec.url = s /\ spec.body = t
        BY <1>4 DEF HttpPost
    <2>2. CmdSpecBytes(spec) = <<3>> \o Str(s) \o Str(t)
        BY <2>1 DEF CmdSpecBytes
    <2>3. MadeOf("cmdSpec", <<3, s, t>>) = HttpPost(s, t)
        BY DEF MadeOf, CmdSpecOf
    <2> QED BY <1>4, <2>2, <2>3, TwofoldTells
<1>5. \/ \E n \in Number : spec = Delay(n)
      \/ \E s \in String : spec = HttpGet(s)
      \/ \E s, t \in String : spec = Publish(s, t)
      \/ \E s, t \in String : spec = HttpPost(s, t)
    <2>1. CASE spec \in [kind : {"delay"}, ms : Number]
        BY <2>1 DEF Delay
    <2>2. CASE spec \in [kind : {"httpGet"}, url : String]
        BY <2>2 DEF HttpGet
    <2>3. CASE spec \in [kind : {"publish"}, topic : String, message : String]
        BY <2>3 DEF Publish
    <2>4. CASE spec \in [kind : {"httpPost"}, url : String, body : String]
        BY <2>4 DEF HttpPost
    <2> QED BY <2>1, <2>2, <2>3, <2>4 DEF CmdSpec
<1> QED BY <1>1, <1>2, <1>3, <1>4, <1>5

(* Ids are numbers that can be sent.                                        *)
LEMMA IdsFit ==
    ASSUME MaxU32 \in Number
    PROVE  Id \subseteq Number
<1> DEFINE m == MaxU32
           k == MaxNumber
<1>1. k \in Nat /\ m \in 0 .. k
    BY NumbersFit DEF Number
<1> HIDE DEF m, k
<1>2. 0 .. m \subseteq 0 .. k
    BY <1>1
<1> QED BY <1>2 DEF Id, Number, m, k

(* A command arrives with its id.                                           *)
LEMMA CmdTells ==
    ASSUME NEW c \in Cmd(Id), MaxU32 \in Number
    PROVE  Tells("cmd", CmdBytes(c), c)
<1> DEFINE what == "cmd"
           id == c.id
           spec == c.spec
           a == Varint[id]
           b == CmdSpecBytes(spec)
<1>1. id \in Id /\ spec \in CmdSpec /\ c = [id |-> id, spec |-> spec]
    BY DEF Cmd
<1>2. id \in Number
    BY <1>1, IdsFit
<1>3. CmdBytes(c) = a \o b
    BY DEF CmdBytes, CmdSpecBytes
<1>4. what \in Structures /\ \A tag : Layout(what, tag) = <<"vu", "cmdSpec">>
    BY StructuresAre DEF Layout
<1>5. MadeOf(what, <<id, spec>>) = c
    <2>1. MadeOf(what, <<id, spec>>) = CmdOut(id, spec)
        BY DEF MadeOf
    <2> QED BY <1>1, <2>1 DEF CmdOut
<1>6. Tells("vu", a, id) /\ Tells("cmdSpec", b, spec)
    BY <1>1, <1>2, NumberTells, CmdSpecTells
<1> HIDE DEF what, a, b, id, spec
<1>7. Layout(what, a[1]) = <<"vu", "cmdSpec">>
    BY <1>4
<1>8. Tells(what, a \o b, MadeOf(what, <<id, spec>>))
    BY <1>4, <1>6, <1>7, TwoTell
<1> QED BY <1>3, <1>5, <1>8 DEF what

-----------------------------------------------------------------------------
(* Subscriptions that begin and that end.                                   *)
SubSpecBytes(spec) ==
    IF spec.kind = "every" THEN <<0>> \o Varint[spec.ms] ELSE <<1>> \o Str(spec.name)

(* SubSpec and its reader, for both kinds of subscription.                  *)
LEMMA SubSpecTells ==
    ASSUME NEW spec \in SubSpec
    PROVE  Tells("subSpec", SubSpecBytes(spec), spec)
<1>1. ASSUME NEW n \in Number, spec = Every(n)
      PROVE  Tells("subSpec", SubSpecBytes(spec), spec)
    <2>1. spec.kind = "every" /\ spec.ms = n
        BY <1>1 DEF Every
    <2>2. SubSpecBytes(spec) = <<0>> \o Varint[n]
        BY <2>1 DEF SubSpecBytes
    <2>3. Layout("subSpec", 0) = <<"u8", "vu">>
        BY DEF Layout, SpecLayout
    <2>4. MadeOf("subSpec", <<0, n>>) = Every(n)
        BY DEF MadeOf
    <2> DEFINE b == Varint[n]
    <2>5. Tells("vu", b, n)
        BY NumberTells
    <2> HIDE DEF b
    <2>6. Tells("subSpec", <<0>> \o b, MadeOf("subSpec", <<0, n>>))
        BY <2>3, <2>5, SpecTells
    <2> QED BY <1>1, <2>2, <2>4, <2>6 DEF b
<1>2. ASSUME NEW s \in String, spec = Topic(s)
      PROVE  Tells("subSpec", SubSpecBytes(spec), spec)
    <2>1. spec.kind # "every" /\ spec.name = s
        BY <1>2 DEF Topic
    <2>2. SubSpecBytes(spec) = <<1>> \o Str(s)
        BY <2>1 DEF SubSpecBytes
    <2>3. Layout("subSpec", 1) = <<"u8", "str">>
        BY DEF Layout, SpecLayout
    <2>4. MadeOf("subSpec", <<1, s>>) = Topic(s)
        BY DEF MadeOf
    <2> DEFINE b == Str(s)
    <2>5. Tells("str", b, s)
        BY StringTells
    <2> HIDE DEF b
    <2>6. Tells("subSpec", <<1>> \o b, MadeOf("subSpec", <<1, s>>))
        BY <2>3, <2>5, SpecTells
    <2> QED BY <1>2, <2>2, <2>4, <2>6 DEF b
<1>3. (\E n \in Number : spec = Every(n)) \/ (\E s \in String : spec = Topic(s))
    <2>1. CASE spec \in [kind : {"every"}, ms : Number]
        BY <2>1 DEF Every
    <2>2. CASE spec \in [kind : {"topic"}, name : String]
        BY <2>2 DEF Topic
    <2> QED BY <2>1, <2>2 DEF SubSpec
<1> QED BY <1>1, <1>2, <1>3

(* SubDelta and its reader.                                                 *)
LEMMA SubTells ==
    ASSUME NEW d \in SubDelta(Id), MaxU32 \in Number
    PROVE  Tells("sub", SubBytes(d), d)
<1> DEFINE what == "sub"
           zero == <<0>>
           one == <<1>>
           id == d.id
           a == Varint[id]
<1>1. what \in Structures /\ Tells("u8", zero, 0) /\ Tells("u8", one, 1)
    BY StructuresAre, ByteTells
<1>2. Layout(what, zero[1]) = <<"u8", "vu", "subSpec">> /\ Layout(what, one[1]) = <<"u8", "vu">>
    BY DEF Layout
<1>3. id \in Number /\ Tells("vu", a, id)
    <2>1. id \in Id
        BY DEF SubDelta
    <2> QED BY <2>1, IdsFit, NumberTells
<1>4. CASE d \in [op : {"start"}, id : Id, spec : SubSpec]
    <2> DEFINE spec == d.spec
               b == SubSpecBytes(spec)
    <2>1. d = Start(id, spec) /\ d.op = "start" /\ spec \in SubSpec
        BY <1>4 DEF Start
    <2>2. SubBytes(d) = zero \o a \o b
        BY <2>1 DEF SubBytes, SubSpecBytes
    <2>3. MadeOf(what, <<0, id, spec>>) = Start(id, spec)
        BY DEF MadeOf
    <2>4. Tells("subSpec", b, spec)
        BY <2>1, SubSpecTells
    <2> HIDE DEF what, zero, a, b, id, spec
    <2>5. Tells(what, zero \o a \o b, MadeOf(what, <<0, id, spec>>))
        BY <1>1, <1>2, <1>3, <2>4, ThreeTell
    <2> QED BY <2>1, <2>2, <2>3, <2>5 DEF what
<1>5. CASE d \in [op : {"stop"}, id : Id]
    <2>1. d = Stop(id) /\ d.op = "stop"
        BY <1>5 DEF Stop
    <2>2. SubBytes(d) = one \o a
        BY <2>1 DEF SubBytes
    <2>3. MadeOf(what, <<1, id>>) = Stop(id)
        BY DEF MadeOf
    <2> HIDE DEF what, one, a, id
    <2>5. Tells(what, one \o a, MadeOf(what, <<1, id>>))
        BY <1>1, <1>2, <1>3, TwoTell
    <2> QED BY <2>1, <2>2, <2>3, <2>5 DEF what
<1> QED BY <1>4, <1>5 DEF SubDelta

-----------------------------------------------------------------------------
(* What every message ends with.                                            *)
SentTail(t) ==
    /\ t = [events |-> t.events, cmds |-> t.cmds, subs |-> t.subs]
    /\ t.events \in Seq(Heeds) /\ t.cmds \in Seq(Cmd(Id)) /\ t.subs \in Seq(SubDelta(Id))
    /\ Len(t.events) \in Number /\ Len(t.cmds) \in Number /\ Len(t.subs) \in Number

(* Its three lists arrive, each by itself.                                  *)
LEMMA TailParts ==
    ASSUME NEW t, SentTail(t), MaxU32 \in Number
    PROVE  /\ Tells("events", Counted([i \in DOMAIN t.events |-> EventBytes(t.events[i])]), t.events)
           /\ Tells("cmds", Counted([i \in DOMAIN t.cmds |-> CmdBytes(t.cmds[i])]), t.cmds)
           /\ Tells("subs", Counted([i \in DOMAIN t.subs |-> SubBytes(t.subs[i])]), t.subs)
<1> DEFINE events == t.events
           cmds == t.cmds
           subs == t.subs
           xs == [i \in DOMAIN events |-> EventBytes(events[i])]
           ys == [i \in DOMAIN cmds |-> CmdBytes(cmds[i])]
           zs == [i \in DOMAIN subs |-> SubBytes(subs[i])]
           a == Counted(xs)
           b == Counted(ys)
           c == Counted(zs)
<1>1. /\ events \in Seq(Heeds) /\ cmds \in Seq(Cmd(Id)) /\ subs \in Seq(SubDelta(Id))
      /\ Len(events) \in Number /\ Len(cmds) \in Number /\ Len(subs) \in Number
    BY DEF SentTail
<1> HIDE DEF events, cmds, subs
<1>5. Tells("events", a, events)
    <2> DEFINE many == "events"
    <2>1. many \in DOMAIN Many /\ Many[many] = "event" /\ IsList(events)
        BY <1>1, ListOf DEF Many
    <2>2. Itemised("event", xs, events)
        <3>1. \A i \in 1 .. Len(events) : events[i] \in Heeds /\ DOMAIN events = 1 .. Len(events)
            BY <1>1
        <3>2. DOMAIN events = 1 .. Len(events)
            BY <1>1
        <3>3. \A i \in 1 .. Len(events) : Tells("event", xs[i], events[i])
            BY <3>1, <3>2, EventTells
        <3> QED BY <3>2, <3>3 DEF Itemised
    <2> HIDE DEF many, xs
    <2>3. Tells(many, Counted(xs), events)
        BY <1>1, <2>1, <2>2, ItemsTell
    <2> QED BY <2>3 DEF many
<1>6. Tells("cmds", b, cmds)
    <2> DEFINE many == "cmds"
    <2>1. many \in DOMAIN Many /\ Many[many] = "cmd" /\ IsList(cmds)
        BY <1>1, ListOf DEF Many
    <2>2. Itemised("cmd", ys, cmds)
        <3>1. DOMAIN cmds = 1 .. Len(cmds) /\ \A i \in 1 .. Len(cmds) : cmds[i] \in Cmd(Id)
            BY <1>1
        <3>2. \A i \in 1 .. Len(cmds) : Tells("cmd", ys[i], cmds[i])
            BY <3>1, CmdTells
        <3> QED BY <3>1, <3>2 DEF Itemised
    <2> HIDE DEF many, ys
    <2>3. Tells(many, Counted(ys), cmds)
        BY <1>1, <2>1, <2>2, ItemsTell
    <2> QED BY <2>3 DEF many
<1>7. Tells("subs", c, subs)
    <2> DEFINE many == "subs"
    <2>1. many \in DOMAIN Many /\ Many[many] = "sub" /\ IsList(subs)
        BY <1>1, ListOf DEF Many
    <2>2. Itemised("sub", zs, subs)
        <3>1. DOMAIN subs = 1 .. Len(subs) /\ \A i \in 1 .. Len(subs) : subs[i] \in SubDelta(Id)
            BY <1>1
        <3>2. \A i \in 1 .. Len(subs) : Tells("sub", zs[i], subs[i])
            BY <3>1, SubTells
        <3> QED BY <3>1, <3>2 DEF Itemised
    <2> HIDE DEF many, zs
    <2>3. Tells(many, Counted(zs), subs)
        BY <1>1, <2>1, <2>2, ItemsTell
    <2> QED BY <2>3 DEF many
<1> QED BY <1>5, <1>6, <1>7 DEF a, b, c, xs, ys, zs, events, cmds, subs

(* The tail of a message.                                                   *)
LEMMA TailTells ==
    ASSUME NEW t, SentTail(t), MaxU32 \in Number
    PROVE  Tells("tail", TailBytes(t), t)
<1> DEFINE what == "tail"
           events == t.events
           cmds == t.cmds
           subs == t.subs
           a == Counted([i \in DOMAIN events |-> EventBytes(events[i])])
           b == Counted([i \in DOMAIN cmds |-> CmdBytes(cmds[i])])
           c == Counted([i \in DOMAIN subs |-> SubBytes(subs[i])])
<1>2. TailBytes(t) = a \o b \o c
    BY DEF TailBytes
<1>3. what \in Structures /\ \A tag : Layout(what, tag) = <<"events", "cmds", "subs">>
    BY StructuresAre DEF Layout
<1>4. MadeOf(what, <<events, cmds, subs>>) = t
    <2>1. MadeOf(what, <<events, cmds, subs>>) = [events |-> events, cmds |-> cmds, subs |-> subs]
        BY DEF MadeOf
    <2>2. t = [events |-> events, cmds |-> cmds, subs |-> subs]
        BY DEF SentTail
    <2> QED BY <2>1, <2>2
<1>5. Tells("events", a, events) /\ Tells("cmds", b, cmds) /\ Tells("subs", c, subs)
    BY TailParts
<1> HIDE DEF events, cmds, subs
<1> HIDE DEF what, a, b, c
<1>8. Layout(what, a[1]) = <<"events", "cmds", "subs">>
    BY <1>3
<1>9. Tells(what, a \o b \o c, MadeOf(what, <<events, cmds, subs>>))
    BY <1>3, <1>5, <1>8, ThreeTell
<1> QED BY <1>2, <1>4, <1>9 DEF what

-----------------------------------------------------------------------------
(* What is told from a message of its bytes is the message.                 *)
LEMMA DecodedIs ==
    ASSUME NEW what, NEW x, NEW v, Tells(what, x, v), x[1] = WireVersion
    PROVE  Decoded(what, x) = <<v>>
<1> DEFINE n == Len(x)
           none == <<>>
           value == <<v>>
           r == Read[n][<<what, x>>]
<1>1. n \in Nat /\ n >= n /\ none \in Seq(Nat) /\ x \in Seq(Nat) /\ x \o none = x
    BY DEF Tells
<1>2. r = At(none, value)
    <2>1. \A rest \in Seq(Nat) : Read[n][<<what, x \o rest>>] = At(rest, value)
        BY <1>1 DEF Tells
    <2> HIDE DEF n, none, value
    <2>2. Read[n][<<what, x \o none>>] = At(none, value)
        BY <1>1, <2>1
    <2> QED BY <1>1, <2>2
<1> HIDE DEF r, none, value
<1>3. r.ok = TRUE /\ r.out = value
    BY <1>2 DEF At, Yes
<1>4. Decoded(what, x) = r.out
    BY <1>3 DEF Decoded, r, n
<1> QED BY <1>3, <1>4 DEF value

(* The first byte of a message is the first of its first part.              *)
LEMMA BeginsWith ==
    ASSUME NEW u \in Seq(Nat), Len(u) = 1, NEW v \in Seq(Nat), NEW w \in Seq(Nat)
    PROVE  (u \o v \o w)[1] = u[1]
<1> DEFINE y == u \o v
<1>0. Len(v) \in Nat /\ 1 \in 1 .. Len(u)
    OBVIOUS
<1>1. y \in Seq(Nat) /\ Len(y) = 1 + Len(v) /\ y[1] = u[1]
    <2>1. y \in Seq(Nat) /\ Len(y) = Len(u) + Len(v) /\ \A i \in 1 .. Len(u) : y[i] = u[i]
        BY RestIs
    <2> HIDE DEF y
    <2> QED BY <1>0, <2>1
<1> HIDE DEF y
<1>2. 1 \in 1 .. Len(y) /\ \A i \in 1 .. Len(y) : (y \o w)[i] = y[i]
    BY <1>0, <1>1, RestIs
<1> QED BY <1>1, <1>2 DEF y

(* decodeInit makes of the bytes of the first message the tree and the tail *)
(* they were written from.                                                  *)
THEOREM RenderDecodes ==
    ASSUME NEW v \in VNodes, NEW tail0, SentTail(tail0), MaxU32 \in Number
    PROVE  Decoded("init", InitBytes(FromVNode[v], tail0)) = <<[root |-> FromVNode[v], tail |-> tail0]>>
<1> DEFINE what == "init"
           one == <<1>>
           root == FromVNode[v]
           a == NodeBytes[root]
           b == TailBytes(tail0)
           made == [root |-> root, tail |-> tail0]
<1>1. what \in Structures /\ Tells("u8", one, 1) /\ Tells("node", a, root) /\ Tells("tail", b, tail0)
    BY StructuresAre, ByteTells, NodeTells, TailTells DEF NodeTold
<1>2. Layout(what, one[1]) = <<"u8", "node", "tail">>
    BY DEF Layout
<1>3. MadeOf(what, <<1, root, tail0>>) = made
    BY DEF MadeOf
<1>4. InitBytes(root, tail0) = one \o a \o b /\ one[1] = WireVersion
    BY DEF InitBytes, WireVersion
<1> DEFINE x == one \o a \o b
<1>5. x[1] = one[1]
    <2>1. one \in Seq(Nat) /\ a \in Seq(Nat) /\ b \in Seq(Nat) /\ Len(one) = 1
        BY <1>1 DEF Tells
    <2> HIDE DEF one, a, b
    <2> QED BY <2>1, BeginsWith
<1> HIDE DEF what, one, root, a, b, made
<1>6. Tells(what, x, MadeOf(what, <<1, root, tail0>>))
    BY <1>1, <1>2, ThreeTell
<1> HIDE DEF x
<1>7. Tells(what, x, made) /\ x[1] = WireVersion
    BY <1>3, <1>4, <1>5, <1>6
<1>8. Decoded(what, x) = <<made>>
    BY <1>7, DecodedIs
<1> QED BY <1>4, <1>8 DEF what, made, root, x

(* decodeUpdate makes of the bytes of an update the patches and the tail    *)
(* they were written from.                                                  *)
THEOREM UpdateDecodes ==
    ASSUME NEW ps \in Seq(SentPatches), Len(ps) \in Number,
           NEW tail0, SentTail(tail0), MaxU32 \in Number
    PROVE  Decoded("update", UpdateBytes(ps, tail0)) = <<[patches |-> ps, tail |-> tail0]>>
<1> DEFINE what == "update"
           one == <<1>>
           xs == [i \in DOMAIN ps |-> PatchBytes(ps[i])]
           a == Counted(xs)
           b == TailBytes(tail0)
           made == [patches |-> ps, tail |-> tail0]
<1>l. IsList(ps) /\ \A i \in 1 .. Len(ps) : ps[i] \in SentPatches
    <2> DEFINE S == SentPatches
    <2>1. ps \in Seq(S)
        OBVIOUS
    <2> HIDE DEF S
    <2>2. IsList(ps) /\ \A i \in 1 .. Len(ps) : ps[i] \in S
        BY <2>1, ListOf
    <2> QED BY <2>2 DEF S
<1>0. Tells("patches", a, ps)
    <2> DEFINE many == "patches"
    <2>1. many \in DOMAIN Many /\ Many[many] = "patch"
        BY DEF Many
    <2>2. Itemised("patch", xs, ps)
        <3>1. DOMAIN ps = 1 .. Len(ps)
            BY <1>l, ListIs
        <3>2. \A i \in 1 .. Len(ps) : Tells("patch", xs[i], ps[i])
            BY <1>l, <3>1, PatchTells
        <3> QED BY <3>1, <3>2 DEF Itemised
    <2> HIDE DEF many, xs
    <2>3. Tells(many, Counted(xs), ps)
        BY <1>l, <2>1, <2>2, ItemsTell
    <2> QED BY <2>3 DEF many
<1>1. what \in Structures /\ Tells("u8", one, 1) /\ Tells("tail", b, tail0)
    BY StructuresAre, ByteTells, TailTells
<1>2. Layout(what, one[1]) = <<"u8", "patches", "tail">>
    BY DEF Layout
<1>3. MadeOf(what, <<1, ps, tail0>>) = made
    BY DEF MadeOf
<1>4. UpdateBytes(ps, tail0) = one \o a \o b /\ one[1] = WireVersion
    BY DEF UpdateBytes, WireVersion
<1> DEFINE x == one \o a \o b
<1> HIDE DEF a
<1>5. x[1] = one[1]
    <2>1. one \in Seq(Nat) /\ a \in Seq(Nat) /\ b \in Seq(Nat) /\ Len(one) = 1
        BY <1>0, <1>1 DEF Tells
    <2> HIDE DEF one, a, b
    <2> QED BY <2>1, BeginsWith
<1> HIDE DEF what, one, b, made
<1>6. Tells(what, x, MadeOf(what, <<1, ps, tail0>>))
    BY <1>0, <1>1, <1>2, ThreeTell
<1> HIDE DEF x
<1>7. Tells(what, x, made) /\ x[1] = WireVersion
    BY <1>3, <1>4, <1>5, <1>6
<1>8. Decoded(what, x) = <<made>>
    BY <1>7, DecodedIs
<1> QED BY <1>4, <1>8 DEF what, made, x

-----------------------------------------------------------------------------
(* Every path in a tree can be sent.                                        *)
OnWay(path, b) == path \in EventPath /\ Len(path) + Height[b] <= MaxNumber

(* A tree has no more children and levels than a number can say.            *)
LEMMA SizesFit ==
    ASSUME NEW v \in VNodes
    PROVE  /\ MaxNumber \in Nat /\ Len(v.kids) \in Nat /\ 2 * Len(v.kids) <= MaxNumber
           /\ Height[v] \in Nat /\ Height[v] <= MaxNumber
<1>1. 2 * Len(v.kids) \in Number /\ Height[v] \in Number /\ MaxNumber \in Nat
    BY TreesFit, NumbersFit
<1>2. Len(v.kids) \in Nat /\ Height[v] \in Nat
    BY TreeFacts
<1> QED BY <1>1, <1>2 DEF Number

(* A step further down the path can still be sent.                          *)
LEMMA OneDeeper ==
    ASSUME NEW b \in VNodes, NEW path, OnWay(path, b), NEW j \in 1 .. Len(b.kids)
    PROVE  OnWay(Append(path, j), b.kids[j])
<1> DEFINE q == Append(path, j)
           k == b.kids[j]
           n == Len(path)
           m == MaxNumber
           h == Height[k]
           len == Len(b.kids)
<1>1. /\ path \in Seq(Nat \ {0}) /\ n \in Nat /\ DOMAIN path = 1 .. n
      /\ \A i \in 1 .. n : path[i] - 1 \in Number
      /\ n + Height[b] <= m
    BY DEF OnWay, EventPath
<1>2. m \in Nat /\ len \in Nat /\ 2 * len <= m /\ Height[b] \in Nat /\ j \in Nat \ {0} /\ j <= len
    BY SizesFit
<1>3. h \in Nat /\ h < Height[b]
    BY TreeFacts
<1> HIDE DEF h, k, m, len
<1>4. j - 1 \in 0 .. m
    BY <1>2
<1>5. n + 1 <= m /\ (n + 1) + h <= m
    BY <1>1, <1>2, <1>3
<1>6. /\ q \in Seq(Nat \ {0}) /\ Len(q) = n + 1 /\ DOMAIN q = 1 .. n + 1
      /\ \A i \in 1 .. n : q[i] = path[i]
      /\ q[n + 1] = j
    BY <1>1, <1>2
<1> HIDE DEF q, n
<1>7. ASSUME NEW i \in 1 .. n + 1 PROVE q[i] - 1 \in Number
    <2>1. CASE i = n + 1
        BY <2>1, <1>4, <1>6 DEF Number, m
    <2>2. CASE i # n + 1
        <3>1. i \in 1 .. n
            BY <2>2, <1>1
        <3> QED BY <3>1, <1>1, <1>6
    <2> QED BY <2>1, <2>2
<1>8. n + 1 \in Number
    BY <1>1, <1>2, <1>5 DEF Number, m
<1>9. q \in EventPath
    BY <1>6, <1>7, <1>8 DEF EventPath
<1> QED BY <1>5, <1>6, <1>9 DEF OnWay, q, k, h, m

(* Such a path is a list of numbers.                                        *)
LEMMA PathsAreNumbers ==
    EventPath \subseteq Seq(Nat)
<1> SUFFICES ASSUME NEW path \in EventPath PROVE path \in Seq(Nat)
    OBVIOUS
<1>1. path \in Seq(Nat \ {0})
    BY DEF EventPath
<1>2. \A i \in DOMAIN path : path[i] \in Nat
    BY <1>1
<1> QED BY <1>1, <1>2

(* What diff_attrs emits.                                                   *)
LEMMA AttrsSent ==
    ASSUME NEW path \in EventPath, NEW a, Sendable(a), NEW b, Sendable(b)
    PROVE  DiffAttrs(a, b, path) \in Seq(SentPatches)
<1> DEFINE S == {n \in DOMAIN b : n \notin DOMAIN a \/ a[n] # b[n]}
           R == DOMAIN a \ DOMAIN b
           q == SetToSeq(S)
           r == SetToSeq(R)
           ps == [i \in DOMAIN q |-> SetAttr(path, q[i], b[q[i]])]
           rs == [i \in DOMAIN r |-> RemoveAttr(path, r[i])]
           P == SentPatches
<1>1. IsFiniteSet(S) /\ IsFiniteSet(R)
    <2>1. S \in SUBSET DOMAIN b /\ R \in SUBSET DOMAIN a
        OBVIOUS
    <2>2. IsFiniteSet(DOMAIN a) /\ IsFiniteSet(DOMAIN b)
        BY DEF Sendable
    <2> HIDE DEF S, R
    <2> QED BY <2>1, <2>2, FS_Subset
<1>2. DiffAttrs(a, b, path) = ps \o rs
    BY DEF DiffAttrs
<1>3. q \in Seq(S) /\ r \in Seq(R)
    <2> HIDE DEF S, R
    <2> QED BY <1>1, SetToSeqIs
<1>4. \A n \in S : n \in String /\ b[n] \in String
    BY DEF Sendable
<1>5. \A n \in R : n \in String
    BY DEF Sendable
<1> HIDE DEF S, R, q, r
<1>6. /\ Len(q) \in Nat /\ DOMAIN q = 1 .. Len(q) /\ \A i \in 1 .. Len(q) : q[i] \in S
      /\ Len(r) \in Nat /\ DOMAIN r = 1 .. Len(r) /\ \A i \in 1 .. Len(r) : r[i] \in R
    BY <1>3
<1>7. \A i \in 1 .. Len(q) : SetAttr(path, q[i], b[q[i]]) \in P
    BY <1>4, <1>6 DEF SentPatches
<1>8. \A i \in 1 .. Len(r) : RemoveAttr(path, r[i]) \in P
    BY <1>5, <1>6 DEF SentPatches
<1> HIDE DEF P
<1>9. ps \in Seq(P)
    <2>1. ps \in [1 .. Len(q) -> P]
        BY <1>6, <1>7
    <2> HIDE DEF ps
    <2> QED BY <1>6, <2>1, LenOfFunction
<1>10. rs \in Seq(P)
    <2>1. rs \in [1 .. Len(r) -> P]
        BY <1>6, <1>8
    <2> HIDE DEF rs
    <2> QED BY <1>6, <2>1, LenOfFunction
<1> HIDE DEF ps, rs
<1>11. ps \o rs \in Seq(P)
    BY <1>9, <1>10
<1> QED BY <1>2, <1>11 DEF P, ps, rs

-----------------------------------------------------------------------------
(* What the loop of diff_children_keyed emits: a child is moved from a      *)
(* place among the old ones and those already settled.                      *)
LEMMA RoundSent ==
    ASSUME NEW olds \in Seq(VNodes), NEW news \in Seq(VNodes), NEW path \in EventPath,
           2 * Len(olds) <= MaxNumber, 2 * Len(news) <= MaxNumber,
           NEW p \in 0 .. Len(olds), NEW i \in p + 1 .. Len(news), NEW m,
           Pairing(olds, news, p, m, i - 1), m.out \in Seq(SentPatches)
    PROVE  Matched(olds, news, path, p, m, i).out \in Seq(SentPatches)
<1> DEFINE r == Matched(olds, news, path, p, m, i)
           P == SentPatches
           a == Len(olds)
           b == Len(news)
           max == MaxNumber
           live == Live(m.left, p)
           c == Cardinality(live)
<1>1. a \in Nat /\ b \in Nat /\ max \in Nat /\ p \in Nat /\ i \in Nat \ {0} /\ i <= b
    BY NumbersFit
<1>2. c \in Nat /\ c <= a
    <2>1. m.left \in SUBSET (p + 1 .. a)
        BY DEF Pairing
    <2>2. live \in SUBSET (1 .. a - p)
        BY <1>1, <2>1, LiveFacts
    <2> DEFINE n == a - p
    <2>3. n \in Nat /\ n <= a
        OBVIOUS
    <2> HIDE DEF n, live
    <2>4. IsFiniteSet(1 .. n) /\ Cardinality(1 .. n) = n
        <3>1. n \in Nat
            BY <2>3
        <3>2. IsFiniteSet(1 .. n)
            BY <3>1, FS_Interval
        <3>3. Cardinality(1 .. n) = IF 1 > n THEN 0 ELSE n - 1 + 1
            BY <3>1, FS_Interval
        <3> QED BY <3>1, <3>2, <3>3
    <2>5. live \in SUBSET (1 .. n)
        BY <2>2 DEF n
    <2>6. Cardinality(live) <= Cardinality(1 .. n) /\ IsFiniteSet(live)
        BY <2>4, <2>5, FS_Subset
    <2>7. Cardinality(live) \in Nat
        BY <2>6, FS_CardinalityType
    <2> HIDE DEF c, a
    <2>8. c \in Nat /\ c <= n
        BY <2>4, <2>6, <2>7 DEF c
    <2> QED BY <1>1, <2>3, <2>8
<1>3. i \in Index
    <2> HIDE DEF a, b, max
    <2>0. 2 * b <= max
        BY DEF b, max
    <2>1. i - 1 \in 0 .. max /\ i \in Nat \ {0}
        BY <1>1, <2>0
    <2> QED BY <2>1 DEF Index, Number, max
<1>4. CASE Inserted(olds, news, path, m, i, r)
    <2> DEFINE q == InsertChild(path, i, FromVNode[news[i]])
               out == m.out
    <2>1. r.out = Append(out, q)
        BY <1>4 DEF Inserted
    <2>2. q \in P
        <3>1. news[i] \in VNodes
            OBVIOUS
        <3>2. FromVNode[news[i]] \in SerNodes
            BY <3>1 DEF SerNodes
        <3> QED BY <1>3, <3>2 DEF SentPatches
    <2> HIDE DEF q, P, out
    <2>3. out \in Seq(P)
        BY DEF out, P
    <2>4. Append(out, q) \in Seq(P)
        BY <2>2, <2>3
    <2> QED BY <2>1, <2>4 DEF P
<1>5. ASSUME NEW o \in m.left, Reused(olds, news, path, p, m, i, r, o)
      PROVE  r.out \in Seq(P)
    <2> DEFINE from == i - 1 + Rank(Live(m.left, p), o - p)
               q == MoveChild(path, from, i)
               out == m.out
    <2>1. from \in i .. i - 1 + c
        BY <1>5 DEF Reused
    <2>2. r.out = IF from = i THEN out ELSE Append(out, q)
        BY <1>5 DEF Reused
    <2> HIDE DEF from
    <2>3. from \in Index
        <3> HIDE DEF a, b, c, max
        <3>0. 2 * a <= max /\ 2 * b <= max
            BY DEF a, b, max
        <3>1. from \in Nat \ {0} /\ from - 1 \in 0 .. max
            BY <1>1, <1>2, <2>1, <3>0
        <3> QED BY <3>1 DEF Index, Number, max
    <2>4. q \in P
        BY <1>3, <2>3 DEF SentPatches
    <2> HIDE DEF q, P, out
    <2>5. out \in Seq(P)
        BY DEF out, P
    <2>6. Append(out, q) \in Seq(P)
        BY <2>4, <2>5
    <2> QED BY <2>2, <2>5, <2>6
<1> HIDE DEF r, live, c
<1>6. Inserted(olds, news, path, m, i, r) \/ \E o \in m.left : Reused(olds, news, path, p, m, i, r, o)
    BY RoundCases DEF r
<1> QED BY <1>4, <1>5, <1>6 DEF r

(* What the matching loop inserts and moves can be sent.                    *)
LEMMA MatchingSent ==
    ASSUME NEW olds \in Seq(VNodes), NEW news \in Seq(VNodes), NEW path \in EventPath,
           2 * Len(olds) <= MaxNumber, 2 * Len(news) <= MaxNumber
    PROVE  Matching(olds, news, path).out \in Seq(SentPatches)
<1> DEFINE p == Prefix(olds, news)
           N == Len(news)
<1>1. /\ p \in 0 .. Len(olds) /\ p \in 0 .. N
      /\ \A i \in 1 .. p : Reusable(olds[i], news[i])
    BY PrefixReusable
<1>2. PICK acc : /\ Matching(olds, news, path) = acc[N]
                 /\ acc[p] = Began(olds, p)
                 /\ \A i \in p + 1 .. N : acc[i] = Matched(olds, news, path, p, acc[i - 1], i)
    BY <1>1, MatchingRounds
<1> DEFINE Fine(i) == Pairing(olds, news, p, acc[i], i) /\ acc[i].out \in Seq(SentPatches)
           S == {d \in Nat : p + d <= N => Fine(p + d)}
<1> HIDE DEF p
<1>0. p \in Nat /\ N \in Nat /\ p <= N
    BY <1>1
<1>3. Fine(p)
    <2>1. Pairing(olds, news, p, Began(olds, p), p)
        BY <1>1, StartPairs
    <2>2. Began(olds, p).out \in Seq(SentPatches)
        <3>1. Began(olds, p).out = <<>>
            BY DEF Began
        <3> DEFINE T == SentPatches
        <3>2. <<>> \in Seq(T)
            <4> HIDE DEF T
            <4> QED OBVIOUS
        <3> QED BY <3>1, <3>2
    <2> QED BY <1>2, <2>1, <2>2
<1>4. ASSUME NEW i \in p + 1 .. N, Fine(i - 1) PROVE Fine(i)
    <2> DEFINE b == acc[i - 1]
               r == Matched(olds, news, path, p, b, i)
    <2>1. acc[i] = r /\ p \in 0 .. Len(olds)
        BY <1>1, <1>2
    <2>2. Pairing(olds, news, p, b, i - 1) /\ b.out \in Seq(SentPatches)
        BY <1>4
    <2> HIDE DEF b
    <2>3. Pairing(olds, news, p, r, i)
        BY <2>1, <2>2, PairingKept
    <2>4. r.out \in Seq(SentPatches)
        BY <2>1, <2>2, RoundSent
    <2> HIDE DEF r
    <2> QED BY <2>1, <2>3, <2>4
<1>5. \A d \in Nat : d \in S
    <2>1. 0 \in S
        <3>1. p + 0 = p
            BY <1>0
        <3> HIDE DEF Fine
        <3> QED BY <1>3, <3>1
    <2>2. ASSUME NEW d \in Nat, d \in S PROVE d + 1 \in S
        <3> SUFFICES ASSUME p + (d + 1) <= N PROVE Fine(p + (d + 1))
            OBVIOUS
        <3> DEFINE i == p + (d + 1)
        <3>1. i \in p + 1 .. N /\ i - 1 = p + d /\ p + d <= N
            BY <1>0
        <3> HIDE DEF i, Fine
        <3>2. Fine(i - 1)
            BY <2>2, <3>1
        <3>3. Fine(i)
            BY <1>4, <3>1, <3>2
        <3> QED BY <3>3 DEF i
    <2> HIDE DEF S
    <2> QED BY <2>1, <2>2, NatSetInduction
<1>6. Fine(N)
    <2> DEFINE d == N - p
    <2>1. d \in Nat /\ p + d = N /\ N <= N
        BY <1>0
    <2> HIDE DEF Fine, d
    <2>2. p + d <= N => Fine(p + d)
        BY <1>5, <2>1
    <2> QED BY <2>1, <2>2
<1> QED BY <1>2, <1>6

-----------------------------------------------------------------------------
(* All that diff_node emits can be sent.                                    *)
Sends(a, b) ==
    \A path : OnWay(path, b) => Diff[<<a, b, path>>] \in Seq(SentPatches)

AllSend(olds, news) ==
    \A o \in 1 .. Len(olds), s \in 1 .. Len(news) : Sends(olds[o], news[s])

(* The content of matched children can be sent, if that of each can.        *)
LEMMA PairsSent ==
    ASSUME NEW olds \in Seq(VNodes), NEW b \in VNodes, AllSend(olds, b.kids),
           NEW path, OnWay(path, b), NEW pairs \in Seq(Pairs(olds, b.kids))
    PROVE  DiffPairs(Diff, olds, b.kids, path, pairs) \in Seq(SentPatches)
<1> DEFINE news == b.kids
           N == Len(pairs)
           ss == PairDiffs(olds, news, path, pairs)
<1>0. news \in Seq(VNodes)
    BY TreeFacts
<1>1. N \in Nat /\ DiffPairs(Diff, olds, news, path, pairs) = FlattenSeq(ss)
    BY <1>0, PairDiffsAre
<1>2. Len(ss) = N
    BY <1>0, PairDiffsAre
<1>3. N = 0 => ss = <<>>
    BY <1>0, PairDiffsAre
<1>4. \A n \in 1 .. N : pairs[n][1] \in 1 .. Len(olds) /\ pairs[n][2] \in 1 .. Len(news)
    BY <1>0, PairDiffsAre
<1>5. \A n \in 1 .. N : ss[n] = PairDiff(olds, news, path, pairs, n)
    BY <1>0, PairDiffsAre
<1> HIDE DEF N, ss
<1>6. ASSUME NEW n \in 1 .. N PROVE ss[n] \in Seq(SentPatches)
    <2> DEFINE o == pairs[n][1]
               j == pairs[n][2]
    <2>1. o \in 1 .. Len(olds) /\ j \in 1 .. Len(news)
        BY <1>4
    <2>2. ss[n] = Diff[<<olds[o], news[j], Append(path, j)>>]
        BY <1>5 DEF PairDiff
    <2> HIDE DEF o, j
    <2>3. OnWay(Append(path, j), b.kids[j])
        BY <2>1, OneDeeper
    <2> QED BY <2>1, <2>2, <2>3 DEF AllSend, Sends
<1>7. FlattenSeq(ss) \in Seq(SentPatches)
    <2> DEFINE P == SentPatches
    <2>1. \A n \in 1 .. N : ss[n] \in Seq(P)
        BY <1>6
    <2> HIDE DEF P
    <2>2. FlattenSeq(ss) \in Seq(P)
        BY <1>1, <1>2, <1>3, <2>1, FlattenOf
    <2> QED BY <2>2 DEF P
<1> QED BY <1>1, <1>7

(* No patch, and one.                                                       *)
LEMMA OneSent ==
    ASSUME NEW q \in SentPatches
    PROVE  <<q>> \in Seq(SentPatches) /\ <<>> \in Seq(SentPatches)
<1> DEFINE P == SentPatches
<1>1. q \in P
    OBVIOUS
<1> HIDE DEF P
<1>2. <<q>> \in Seq(P) /\ <<>> \in Seq(P)
    BY <1>1
<1> QED BY <1>2 DEF P

(* Patches after patches.                                                   *)
LEMMA SentJoin ==
    ASSUME NEW ps \in Seq(SentPatches), NEW qs \in Seq(SentPatches)
    PROVE  ps \o qs \in Seq(SentPatches)
<1> DEFINE P == SentPatches
<1>1. ps \in Seq(P) /\ qs \in Seq(P)
    OBVIOUS
<1> HIDE DEF P
<1>2. ps \o qs \in Seq(P)
    BY <1>1
<1> QED BY <1>2 DEF P

(* How many children there are can be sent.                                 *)
LEMMA TruncationSent ==
    ASSUME NEW path \in EventPath, NEW n \in Number
    PROVE  TruncateChildren(path, n) \in SentPatches
BY DEF SentPatches

(* diff_children_positional makes patches that can be sent.                 *)
LEMMA PositionalSent ==
    ASSUME NEW a \in VNodes, NEW b \in VNodes, AllSend(a.kids, b.kids), NEW path, OnWay(path, b)
    PROVE  DiffChildrenPositional(Diff, a.kids, b.kids, path) \in Seq(SentPatches)
<1> DEFINE olds == a.kids
           news == b.kids
           shared == Min({Len(olds), Len(news)})
           pairs == [i \in 1 .. shared |-> <<i, i>>]
           first == DiffPairs(Diff, olds, news, path, pairs)
           tail0 == Snapshots(SubSeq(news, shared + 1, Len(news)))
           add == AppendChildren(path, tail0)
           cut == TruncateChildren(path, shared)
           last == IF Len(news) > shared THEN <<add>>
                   ELSE IF Len(olds) > shared THEN <<cut>> ELSE <<>>
<1>1. DiffChildrenPositional(Diff, olds, news, path) = first \o last
    BY DEF DiffChildrenPositional
<1>0. /\ olds \in Seq(VNodes) /\ news \in Seq(VNodes)
      /\ Len(olds) \in Nat /\ Len(news) \in Nat /\ 2 * Len(news) <= MaxNumber /\ MaxNumber \in Nat
      /\ path \in EventPath
    BY TreeFacts, SizesFit DEF OnWay
<1> HIDE DEF olds, news
<1>s. shared \in Nat /\ shared <= Len(olds) /\ shared <= Len(news)
    <2> DEFINE m == Len(olds)
               n == Len(news)
    <2>1. m \in Nat /\ n \in Nat
        BY <1>0
    <2> HIDE DEF m, n
    <2>2. Min({m, n}) \in Nat /\ Min({m, n}) = IF m <= n THEN m ELSE n
        BY <2>1, MinOfTwo
    <2> QED BY <2>1, <2>2 DEF m, n
<1> HIDE DEF shared
<1>2. pairs \in Seq(Pairs(olds, news))
    <2> DEFINE S == Pairs(olds, news)
    <2>1. \A i \in 1 .. shared : <<i, i>> \in S
        BY <1>0, <1>s DEF Pairs
    <2> HIDE DEF S
    <2>2. pairs \in [1 .. shared -> S]
        BY <2>1
    <2> HIDE DEF pairs
    <2> QED BY <1>s, <2>2, LenOfFunction DEF S
<1>3. shared \in Number /\ Len(news) - shared \in Number
    <2> DEFINE n == Len(news)
               m == MaxNumber
    <2>1. n \in Nat /\ m \in Nat /\ 2 * n <= m /\ shared \in Nat /\ shared <= n
        BY <1>0, <1>s
    <2> HIDE DEF n, m
    <2>2. shared \in 0 .. m /\ n - shared \in 0 .. m
        BY <2>1
    <2> QED BY <2>2 DEF Number, n, m
<1>4. add \in SentPatches
    <2> DEFINE rest == SubSeq(news, shared + 1, Len(news))
    <2>1. rest \in Seq(VNodes) /\ Len(rest) = Len(news) - shared
        BY <1>0, <1>s, RestOf
    <2> HIDE DEF rest
    <2>2. tail0 \in Seq(SerNodes) /\ Len(tail0) = Len(rest)
        <3>1. Snapshots(rest) \in Seq(Snaps) /\ Len(Snapshots(rest)) = Len(rest)
            BY <2>1, SnapshotsAre
        <3> QED BY <3>1 DEF Snaps, SerNodes, rest
    <2> HIDE DEF tail0
    <2>3. tail0 \in SomeNodes
        BY <1>3, <2>1, <2>2 DEF SomeNodes
    <2> QED BY <1>0, <2>3 DEF SentPatches
<1>5. cut \in SentPatches
    BY <1>0, <1>3, TruncationSent
<1> HIDE DEF pairs, add, cut
<1>6. first \in Seq(SentPatches)
    BY <1>0, <1>2, PairsSent DEF olds, news
<1>7. last \in Seq(SentPatches)
    <2>1. <<add>> \in Seq(SentPatches) /\ <<cut>> \in Seq(SentPatches) /\ <<>> \in Seq(SentPatches)
        BY <1>4, <1>5, OneSent
    <2> QED BY <2>1
<1> HIDE DEF first, last
<1>8. first \o last \in Seq(SentPatches)
    BY <1>6, <1>7, SentJoin
<1> QED BY <1>1, <1>8 DEF olds, news, first, last, add, cut, pairs, shared

(* diff_children_keyed makes patches that can be sent.                      *)
LEMMA KeyedSent ==
    ASSUME NEW a \in VNodes, NEW b \in VNodes, AllSend(a.kids, b.kids), NEW path, OnWay(path, b)
    PROVE  DiffChildrenKeyed(Diff, a.kids, b.kids, path) \in Seq(SentPatches)
<1> DEFINE olds == a.kids
           news == b.kids
           m == Matching(olds, news, path)
           p == Prefix(olds, news)
           front == SubSeq(m.pairs, 1, p)
           rest == SubSeq(m.pairs, p + 1, Len(m.pairs))
           first == DiffPairs(Diff, olds, news, path, front)
           end == TruncateChildren(path, Len(news))
           cut == IF m.left # {} THEN <<end>> ELSE <<>>
           last == DiffPairs(Diff, olds, news, path, rest)
           out == m.out
<1>1. DiffChildrenKeyed(Diff, olds, news, path) = first \o out \o cut \o last
    BY DEF DiffChildrenKeyed
<1>0. /\ olds \in Seq(VNodes) /\ news \in Seq(VNodes)
      /\ 2 * Len(olds) <= MaxNumber /\ 2 * Len(news) <= MaxNumber
      /\ path \in EventPath
    BY TreeFacts, SizesFit DEF OnWay
<1>2. Len(news) \in Number
    <2> DEFINE n == Len(news)
               max == MaxNumber
    <2>1. n \in Nat /\ max \in Nat /\ 2 * n <= max
        BY SizesFit
    <2> HIDE DEF n, max
    <2>2. n \in 0 .. max
        BY <2>1
    <2> QED BY <2>2 DEF Number, n, max
<1> HIDE DEF olds, news
<1>3. out \in Seq(SentPatches)
    BY <1>0, MatchingSent
<1>4. front \in Seq(Pairs(olds, news)) /\ rest \in Seq(Pairs(olds, news))
    BY <1>0, KeyedParts
<1>5. end \in SentPatches
    BY <1>0, <1>2, TruncationSent
<1> HIDE DEF front, rest, end
<1>6. first \in Seq(SentPatches) /\ last \in Seq(SentPatches)
    BY <1>0, <1>4, PairsSent DEF olds, news
<1>7. cut \in Seq(SentPatches)
    <2>1. <<end>> \in Seq(SentPatches) /\ <<>> \in Seq(SentPatches)
        BY <1>5, OneSent
    <2> QED BY <2>1
<1> HIDE DEF first, out, cut, last, m
<1>8. first \o out \in Seq(SentPatches)
    BY <1>3, <1>6, SentJoin
<1>9. first \o out \o cut \in Seq(SentPatches)
    BY <1>7, <1>8, SentJoin
<1>10. first \o out \o cut \o last \in Seq(SentPatches)
    BY <1>6, <1>9, SentJoin
<1> QED BY <1>1, <1>10 DEF olds, news, out, m, first, cut, last, end, front, rest

(* The attributes and the text of a tree can be sent.                       *)
LEMMA AttrsSendable ==
    ASSUME NEW v \in VNodes
    PROVE  Sendable(v.attrs) /\ (IsText(v) => v.text \in String)
BY TreesFit, TreeAssumption DEF Sendable

(* diff_node makes patches that can be sent, if the calls further in do.    *)
LEMMA NodeSent ==
    ASSUME NEW a \in VNodes, NEW b \in VNodes, AllSend(a.kids, b.kids)
    PROVE  Sends(a, b)
<1> SUFFICES ASSUME NEW path, OnWay(path, b)
             PROVE  Diff[<<a, b, path>>] \in Seq(SentPatches)
    BY DEF Sends
<1>0. path \in EventPath /\ path \in Seq(Nat)
    BY PathsAreNumbers DEF OnWay
<1>1. Diff[<<a, b, path>>] = DiffNode(Diff, a, b, path)
    BY <1>0, DiffIs
<1>2. CASE a.tag # b.tag
    <2> DEFINE q == Replace(path, FromVNode[b])
    <2>1. DiffNode(Diff, a, b, path) = <<q>>
        BY <1>2 DEF DiffNode
    <2>2. q \in SentPatches
        <3>1. FromVNode[b] \in SerNodes
            BY DEF SerNodes
        <3> QED BY <1>0, <3>1 DEF SentPatches
    <2> HIDE DEF q
    <2> QED BY <1>1, <2>1, <2>2, OneSent
<1>3. ASSUME a.tag = b.tag, IsText(a) PROVE Diff[<<a, b, path>>] \in Seq(SentPatches)
    <2> DEFINE q == SetText(path, b.text)
    <2>1. DiffNode(Diff, a, b, path) = IF a.text = b.text THEN <<>> ELSE <<q>>
        BY <1>3 DEF DiffNode
    <2>2. q \in SentPatches
        <3>1. b.text \in String
            BY <1>3, AttrsSendable DEF IsText
        <3> QED BY <1>0, <3>1 DEF SentPatches
    <2> HIDE DEF q
    <2>3. <<q>> \in Seq(SentPatches) /\ <<>> \in Seq(SentPatches)
        BY <2>2, OneSent
    <2> QED BY <1>1, <2>1, <2>3
<1>4. ASSUME a.tag = b.tag, ~ IsText(a) PROVE Diff[<<a, b, path>>] \in Seq(SentPatches)
    <2> DEFINE attrs == DiffAttrs(a.attrs, b.attrs, path)
               keyed == DiffChildrenKeyed(Diff, a.kids, b.kids, path)
               placed == DiffChildrenPositional(Diff, a.kids, b.kids, path)
               kids == IF HasKeys(a.kids) \/ HasKeys(b.kids) THEN keyed ELSE placed
    <2>1. DiffNode(Diff, a, b, path) = attrs \o kids
        BY <1>4 DEF DiffNode
    <2>2. attrs \in Seq(SentPatches)
        BY <1>0, AttrsSendable, AttrsSent
    <2>3. keyed \in Seq(SentPatches) /\ placed \in Seq(SentPatches)
        BY KeyedSent, PositionalSent
    <2>4. kids \in Seq(SentPatches)
        BY <2>3
    <2> HIDE DEF attrs, kids
    <2>5. attrs \o kids \in Seq(SentPatches)
        BY <2>2, <2>4, SentJoin
    <2> QED BY <1>1, <2>1, <2>5
<1> QED BY <1>2, <1>3, <1>4

(* diff_node makes patches that can be sent, whatever the two trees.        *)
LEMMA AlwaysSends ==
    \A a, b \in VNodes : Sends(a, b)
<1> DEFINE S == {h \in Nat : \A a, b \in VNodes : Height[a] = h => Sends(a, b)}
<1>1. ASSUME NEW h \in Nat, \A m \in Nat : m < h => m \in S PROVE h \in S
    <2> SUFFICES ASSUME NEW a \in VNodes, NEW b \in VNodes, Height[a] = h PROVE Sends(a, b)
        OBVIOUS
    <2>1. AllSend(a.kids, b.kids)
        <3> SUFFICES ASSUME NEW o \in 1 .. Len(a.kids), NEW s \in 1 .. Len(b.kids)
                     PROVE  Sends(a.kids[o], b.kids[s])
            BY DEF AllSend
        <3> DEFINE x == a.kids[o]
                   y == b.kids[s]
        <3>1. x \in VNodes /\ y \in VNodes /\ Height[x] \in Nat /\ Height[x] < h
            BY TreeFacts
        <3> HIDE DEF x, y
        <3>2. Height[x] \in S
            BY <1>1, <3>1
        <3>3. Sends(x, y)
            BY <3>1, <3>2
        <3> QED BY <3>3 DEF x, y
    <2> QED BY <2>1, NodeSent
<1>2. \A h \in Nat : h \in S
    <2> HIDE DEF S
    <2> QED BY <1>1, StrongSetInduction
<1> QED BY <1>2, TreeFacts

(* The patches of an update.                                                *)
LEMMA UpdateSent ==
    ASSUME NEW a \in VNodes, NEW b \in VNodes
    PROVE  Diff[<<a, b, <<>>>>] \in Seq(SentPatches)
<1> DEFINE root == <<>>
<1>1. root \in EventPath /\ Len(root) = 0
    BY NumbersFit DEF EventPath, Number
<1>2. Height[b] \in Nat /\ Height[b] <= MaxNumber
    BY SizesFit
<1> HIDE DEF root
<1>3. OnWay(root, b)
    BY <1>1, <1>2 DEF OnWay
<1>4. Diff[<<a, b, root>>] \in Seq(SentPatches)
    BY <1>3, AlwaysSends DEF Sends
<1> QED BY <1>4 DEF root

-----------------------------------------------------------------------------
(* The first part of some bytes is stepped over.                            *)
Skips(past, x) == x \in Seq(Nat) /\ \A rest \in Seq(Nat) : past[x \o rest] = rest

(* A number at the front of some bytes.                                     *)
LEMMA NumberLeads ==
    ASSUME NEW n \in Nat, NEW rest \in Seq(Nat)
    PROVE  /\ VarintEnd(Varint[n] \o rest) = Len(Varint[n])
           /\ Leading(Varint[n] \o rest) = n
           /\ PastVu(Varint[n] \o rest) = rest
<1> DEFINE x == Varint[n]
           l == Len(x)
           b == x \o rest
           ends == {j \in DOMAIN b : b[j] < Radix}
<1>1. /\ x \in Seq(Nat) /\ l \in Nat \ {0}
      /\ \A i \in 1 .. l : x[i] < Radix <=> i = l
      /\ NumberOf(x) = n
    BY VarintRead
<1> HIDE DEF x
<1>2. /\ b \in Seq(Nat) /\ SubSeq(b, 1, l) = x /\ SubSeq(b, l + 1, Len(b)) = rest
      /\ l <= Len(b) /\ \A i \in 1 .. l : b[i] = x[i]
    BY <1>1, RestIs
<1> HIDE DEF b
<1>3. DOMAIN b = 1 .. Len(b) /\ Len(b) \in Nat
    BY <1>2
<1> HIDE DEF l
<1>4. ends \in SUBSET Nat
    BY <1>3
<1>5. l \in ends
    BY <1>1, <1>2, <1>3
<1>6. \A j \in ends : l <= j
    <2> SUFFICES ASSUME NEW j \in ends, j < l PROVE FALSE
        BY <1>1, <1>4
    <2>1. j \in 1 .. l /\ j # l /\ b[j] < Radix
        BY <1>1, <1>3
    <2> QED BY <1>1, <1>2, <2>1
<1>7. Min(ends) = l
    <2> HIDE DEF ends
    <2> QED BY <1>4, <1>5, <1>6, LeastIs
<1>8. VarintEnd(b) = l
    BY <1>7 DEF VarintEnd
<1>9. Leading(b) = n
    BY <1>1, <1>2, <1>8 DEF Leading
<1>10. PastVu(b) = rest
    BY <1>2, <1>8 DEF PastVu, Past
<1> QED BY <1>8, <1>9, <1>10 DEF l, b, x

(* A string at the front of some bytes: what is behind it, and what it is.  *)
LEMMA StringLeads ==
    ASSUME NEW s \in String, NEW rest \in Seq(Nat)
    PROVE  PastStr[Str(s) \o rest] = rest /\ StringAt(Str(s) \o rest) = s /\ Str(s) \in Seq(Nat)
<1> DEFINE u == Utf8[s]
           k == Len(u)
           x == Varint[k]
           l == Len(x)
           more == u \o rest
           b == x \o more
<1>1. u \in Seq(Nat) /\ k \in Nat
    <2>1. u \in Seq(Byte) /\ Byte \subseteq Nat
        BY CodecAssumption DEF String, Byte
    <2>2. k \in Nat /\ u \in [1 .. k -> Byte]
        BY <2>1
    <2>3. u \in [1 .. k -> Nat]
        BY <2>1, <2>2
    <2> QED BY <2>2, <2>3
<1>2. StringOf(u) = s
    <2>1. \A y \in DOMAIN Utf8 : Utf8[y] = u => y = s
        BY CodecAssumption DEF IsInjective, String
    <2>2. \E y \in DOMAIN Utf8 : Utf8[y] = u
        BY DEF String
    <2>3. StringOf(u) = CHOOSE y \in DOMAIN Utf8 : Utf8[y] = u
        BY <2>2 DEF StringOf
    <2> HIDE DEF u
    <2> QED BY <2>1, <2>2, <2>3
<1>3. x \in Seq(Nat) /\ l \in Nat
    BY <1>1, VarintRead
<1>4. Str(s) = x \o u
    BY DEF Str
<1> HIDE DEF u
<1>5. Len(more) = k + Len(rest) /\ SubSeq(more, 1, k) = u /\ \A i \in 1 .. k : more[i] = u[i]
    BY <1>1, RestIs
<1>m. more \in Seq(Nat)
    BY <1>1
<1>6. VarintEnd(b) = l /\ Leading(b) = k
    <2> HIDE DEF more, k
    <2> QED BY <1>1, <1>m, NumberLeads
<1> HIDE DEF x
<1>7. (x \o u) \o rest = b
    <2>1. IsBytes(x) /\ IsBytes(u) /\ IsBytes(rest)
        BY <1>1, <1>3 DEF IsBytes
    <2>2. Cat(Cat(x, u), rest) = Cat(x, Cat(u, rest))
        BY <2>1, CatAssociates
    <2> QED BY <2>2 DEF Cat
<1>8. PastStr[b] = rest
    <2> DEFINE y == x \o u
    <2>1. y \in Seq(Nat) /\ Len(y) = l + k
        BY <1>1, <1>3
    <2>2. b \in Seq(Nat)
        BY <1>3, <1>m
    <2> HIDE DEF y, b, l, k
    <2>3. SubSeq(y \o rest, Len(y) + 1, Len(y \o rest)) = rest
        BY <2>1, RestIs
    <2>4. SubSeq(b, l + k + 1, Len(b)) = rest
        BY <1>7, <2>1, <2>3 DEF y
    <2>5. PastStr[b] = Past(b, VarintEnd(b) + Leading(b))
        BY <2>2 DEF PastStr
    <2> QED BY <1>6, <2>4, <2>5 DEF Past
<1>9. SubSeq(b, l + 1, l + k) = u
    <2>1. Len(b) = l + Len(more) /\ \A i \in 1 .. Len(more) : b[l + i] = more[i]
        BY <1>3, <1>m
    <2>2. b \in Seq(Nat)
        BY <1>3, <1>m
    <2>3. Len(more) >= k /\ Len(more) \in Nat
        BY <1>1, <1>5
    <2> HIDE DEF b, more, l, k
    <2> DEFINE w == SubSeq(b, l + 1, l + k)
    <2>p. k \in Nat /\ l \in Nat /\ Len(u) = k
        BY <1>1, <1>3 DEF k
    <2>4. w \in Seq(Nat) /\ Len(w) = k /\ \A i \in 1 .. k : w[i] = b[l + i]
        <3> DEFINE p == l + k
               m == l + 1
        <3>1. p \in Nat /\ p <= Len(b) /\ m \in Nat /\ m >= 1 /\ m <= p + 1 /\ p - m + 1 = k
            BY <2>p, <2>1, <2>3
        <3>2. w = [i \in 1 .. k |-> b[l + i]]
            <4>1. \A i \in 1 .. k : m + i - 1 = l + i /\ i + m - 1 = l + i
                BY <2>p
            <4> HIDE DEF p, m
            <4>2. SubSeq(b, m, p) = [i \in 1 .. p - m + 1 |-> b[m + i - 1]]
                BY <2>2, <3>1
            <4>3. SubSeq(b, m, p) = [i \in 1 .. k |-> b[l + i]]
                BY <3>1, <4>1, <4>2
            <4> QED BY <4>3 DEF p, m
        <3>3. \A i \in 1 .. k : l + i \in 1 .. Len(b)
            BY <2>p, <2>1, <2>3
        <3>4. \A i \in 1 .. k : b[l + i] \in Nat
            BY <2>2, <3>3
        <3> HIDE DEF w
        <3>5. \A i \in 1 .. k : w[i] = b[l + i]
            BY <3>2
        <3>6. w \in [1 .. k -> Nat]
            BY <3>2, <3>4
        <3>7. w \in Seq(Nat) /\ Len(w) = k
            BY <2>p, <3>6
        <3> QED BY <3>5, <3>7
    <2>5. \A i \in 1 .. k : w[i] = u[i]
        <3> SUFFICES ASSUME NEW i \in 1 .. k PROVE w[i] = u[i]
            OBVIOUS
        <3>1. i \in 1 .. Len(more)
            BY <2>p, <2>3
        <3>2. w[i] = b[l + i]
            BY <2>4
        <3>3. b[l + i] = more[i]
            BY <2>1, <3>1
        <3> QED BY <1>5, <3>2, <3>3
    <2> HIDE DEF w
    <2>6. w = u
        <3>1. IsList(w) /\ IsList(u) /\ Len(w) = Len(u)
            BY <1>1, <2>p, <2>4, ListOf
        <3> QED BY <2>p, <2>4, <2>5, <3>1, SameList
    <2> QED BY <2>6 DEF w
<1>10. StringAt(b) = s
    BY <1>2, <1>6, <1>9 DEF StringAt
<1>11. x \o u \in Seq(Nat)
    BY <1>1, <1>3
<1> QED BY <1>4, <1>7, <1>8, <1>10, <1>11

(* Two parts and what follows them.                                         *)
Joins(u, x, rest) ==
    /\ (u \o x) \o rest = u \o (x \o rest)
    /\ u \o x \in Seq(Nat) /\ x \o rest \in Seq(Nat)

(* They are the same bytes either way.                                      *)
LEMMA Rejoined ==
    ASSUME NEW u \in Seq(Nat), NEW x \in Seq(Nat), NEW rest \in Seq(Nat)
    PROVE  Joins(u, x, rest)
<1>1. IsBytes(u) /\ IsBytes(x) /\ IsBytes(rest)
    BY DEF IsBytes
<1>2. Cat(Cat(u, x), rest) = Cat(u, Cat(x, rest))
    BY <1>1, CatAssociates
<1> QED BY <1>2 DEF Cat, Joins

(* A walk past the items of a list: it ends behind them, and on the way it  *)
(* has each of them before it.                                              *)
EachSkipped(past, n, xs) == \A i \in 1 .. n : Skips(past, xs[i])

Passes(past, n, xs, b, rest) ==
    /\ PastAll(past, b, n) = rest
    /\ \A k \in 1 .. n : \E more \in Seq(Nat) : PastAll(past, b, k - 1) = xs[k] \o more

(* Skipping one item after another is skipping all, and each is reached.    *)
LEMMA AllPast ==
    ASSUME NEW past, NEW n \in Nat, NEW xs, Len(xs) = n, n = 0 => xs = <<>>,
           EachSkipped(past, n, xs), NEW rest \in Seq(Nat)
    PROVE  /\ FlattenSeq(xs) \in Seq(Nat)
           /\ Passes(past, n, xs, FlattenSeq(xs) \o rest, rest)
<1>1. \A i \in 1 .. n : xs[i] \in Seq(Nat) /\ \A r \in Seq(Nat) : past[xs[i] \o r] = r
    BY DEF EachSkipped, Skips
<1>2. PICK fl : Flattens(fl, xs, n) /\ FlattenSeq(xs) = fl[n]
    <2>1. \A i \in 1 .. n : IsList(xs[i])
        BY <1>1, ListOf
    <2> QED BY <2>1, FlattenIs
<1>3. fl[0] = <<>> /\ \A i \in 1 .. n : fl[i] = fl[i - 1] \o xs[i]
    BY <1>2 DEF Flattens
<1> DEFINE Walks(f, k, b) == Walking(f, past, b, k)
           Fine(k) == fl[k] \in Seq(Nat) /\ \A r \in Seq(Nat) : \A f : Walks(f, k, fl[k] \o r) => f[k] = r
           S == {k \in Nat : k <= n => Fine(k)}
<1>4. \A k \in Nat : k \in S
    <2>1. 0 \in S
        <3> DEFINE u == fl[0]
        <3>1. u \in Seq(Nat) /\ \A r \in Seq(Nat) : u \o r = r
            BY <1>3
        <3> HIDE DEF u
        <3>2. \A f, r : Walks(f, 0, u \o r) => f[0] = u \o r
            BY DEF Walking
        <3>3. Fine(0)
            <4> HIDE DEF Walks
            <4> QED BY <3>1, <3>2 DEF u
        <3> HIDE DEF Fine
        <3> QED BY <3>3
    <2>2. ASSUME NEW k \in Nat, k \in S PROVE k + 1 \in S
        <3> DEFINE j == k + 1
        <3> SUFFICES ASSUME j <= n PROVE Fine(j)
            OBVIOUS
        <3>1. j \in 1 .. n /\ j - 1 = k /\ k <= n /\ j \in Nat
            OBVIOUS
        <3>2. Fine(k)
            BY <2>2, <3>1
        <3> DEFINE u == fl[k]
                   x == xs[j]
        <3>3. u \in Seq(Nat) /\ x \in Seq(Nat) /\ fl[j] = u \o x /\ \A r \in Seq(Nat) : past[x \o r] = r
            BY <1>1, <1>3, <3>1, <3>2
        <3> HIDE DEF j, x
        <3>4. ASSUME NEW r \in Seq(Nat), NEW f, Walks(f, j, fl[j] \o r) PROVE f[j] = r
            <4>1. fl[j] \o r = u \o (x \o r) /\ x \o r \in Seq(Nat)
                <5> HIDE DEF u
                <5>0. u \in Seq(Nat) /\ x \in Seq(Nat)
                    BY <3>3
                <5>1. Joins(u, x, r)
                    BY <5>0, Rejoined
                <5> QED BY <3>3, <5>1 DEF Joins
            <4>2. Walks(f, k, u \o (x \o r)) /\ f[j] = past[f[k]]
                <5>1. f[0] = fl[j] \o r /\ \A i \in 1 .. j : f[i] = past[f[i - 1]]
                    BY <3>4 DEF Walking
                <5>2. \A i \in 1 .. k : i \in 1 .. j
                    BY <3>1
                <5>3. f[j] = past[f[k]]
                    <6>1. j \in 1 .. j
                        BY <3>1
                    <6> QED BY <3>1, <5>1, <6>1
                <5> QED BY <4>1, <5>1, <5>2, <5>3 DEF Walking
            <4>3. f[k] = x \o r
                <5> HIDE DEF Walks
                <5> QED BY <3>2, <4>1, <4>2
            <4> QED BY <3>3, <4>2, <4>3
        <3>5. fl[j] \in Seq(Nat)
            BY <3>3
        <3> HIDE DEF Walks
        <3> QED BY <3>4, <3>5
    <2> HIDE DEF S
    <2> QED BY <2>1, <2>2, NatSetInduction
<1>5. \A k \in 0 .. n : Fine(k)
    <2>1. \A k \in 0 .. n : k \in Nat /\ k <= n /\ k \in S
        BY <1>4
    <2> HIDE DEF Fine
    <2> QED BY <2>1
<1> DEFINE b == fl[n] \o rest
           Before(k) == \E r \in Seq(Nat) : /\ b = fl[k] \o r
                                            /\ k < n => \E more \in Seq(Nat) : r = xs[k + 1] \o more
           T == {k \in Nat : k <= n => Before(n - k)}
<1>6. \A k \in Nat : k \in T
    <2>1. Before(n)
        OBVIOUS
    <2>2. 0 \in T
        <3>1. n - 0 = n
            OBVIOUS
        <3> HIDE DEF Before
        <3> QED BY <2>1, <3>1
    <2>3. ASSUME NEW k \in Nat, k \in T PROVE k + 1 \in T
        <3> DEFINE j == n - k
                   i == n - (k + 1)
        <3> SUFFICES ASSUME k + 1 <= n PROVE Before(i)
            <4>1. k + 1 \in Nat
                OBVIOUS
            <4> HIDE DEF Before
            <4> QED BY <4>1
        <3>1. j \in 1 .. n /\ i \in 0 .. n /\ j - 1 = i /\ i + 1 = j /\ k <= n
            OBVIOUS
        <3>2. Before(j)
            BY <2>3, <3>1
        <3> HIDE DEF j, i, b
        <3>3. PICK r \in Seq(Nat) : b = fl[j] \o r
            BY <3>2
        <3>4. fl[i] \in Seq(Nat) /\ xs[j] \in Seq(Nat) /\ fl[j] = fl[i] \o xs[j]
            BY <1>1, <1>3, <1>5, <3>1
        <3>5. fl[j] \o r = fl[i] \o (xs[j] \o r) /\ xs[j] \o r \in Seq(Nat)
            <4> DEFINE u == fl[i]
                       x == xs[j]
            <4>1. u \in Seq(Nat) /\ x \in Seq(Nat)
                BY <3>4
            <4> HIDE DEF u, x
            <4>2. Joins(u, x, r)
                BY <4>1, Rejoined
            <4> QED BY <3>4, <4>2 DEF u, x, Joins
        <3> DEFINE q == xs[j] \o r
        <3>6. b = fl[i] \o q /\ q \in Seq(Nat)
            BY <3>3, <3>5
        <3>7. \E more \in Seq(Nat) : q = xs[i + 1] \o more
            BY <3>1
        <3> HIDE DEF q
        <3> QED BY <3>6, <3>7
    <2> HIDE DEF T
    <2> QED BY <2>2, <2>3, NatSetInduction
<1>7. \A k \in 0 .. n : Before(k)
    <2> SUFFICES ASSUME NEW k \in 0 .. n PROVE Before(k)
        OBVIOUS
    <2>1. n - k \in Nat /\ n - k <= n /\ n - (n - k) = k
        OBVIOUS
    <2>2. n - k \in T
        BY <1>6, <2>1
    <2> HIDE DEF Before
    <2> QED BY <2>1, <2>2
<1>8. \A k \in 0 .. n : \A r \in Seq(Nat) : b = fl[k] \o r => PastAll(past, b, k) = r
    <2> SUFFICES ASSUME NEW k \in 0 .. n, NEW r \in Seq(Nat), b = fl[k] \o r
                 PROVE  PastAll(past, b, k) = r
        OBVIOUS
    <2>1. k \in Nat /\ Fine(k)
        BY <1>5
    <2>2. PICK f : Walking(f, past, b, k) /\ PastAll(past, b, k) = f[k]
        <3> HIDE DEF b
        <3> QED BY <2>1, PastAllIs
    <2>3. Walks(f, k, fl[k] \o r)
        BY <2>2
    <2> HIDE DEF Walks, b
    <2> QED BY <2>1, <2>2, <2>3
<1>9. PastAll(past, b, n) = rest
    <2>1. n \in 0 .. n
        OBVIOUS
    <2> HIDE DEF b
    <2>2. b = fl[n] \o rest
        BY DEF b
    <2> QED BY <1>8, <2>1, <2>2
<1>10. ASSUME NEW k \in 1 .. n PROVE \E more \in Seq(Nat) : PastAll(past, b, k - 1) = xs[k] \o more
    <2>1. k - 1 \in 0 .. n /\ k - 1 < n /\ (k - 1) + 1 = k
        OBVIOUS
    <2>2. Before(k - 1)
        BY <1>7, <2>1
    <2> HIDE DEF b
    <2>3. PICK r \in Seq(Nat) : b = fl[k - 1] \o r /\ \E more \in Seq(Nat) : r = xs[k] \o more
        BY <2>1, <2>2
    <2> QED BY <1>8, <2>1, <2>3
<1>11. fl[n] \in Seq(Nat)
    <2>1. n \in 0 .. n
        OBVIOUS
    <2> QED BY <1>5, <2>1
<1>12. Passes(past, n, xs, b, rest)
    <2> HIDE DEF b
    <2> QED BY <1>9, <1>10 DEF Passes
<1> QED BY <1>2, <1>11, <1>12

(* A list with its number of items at the front of some bytes.              *)
Walked(past, xs, b, rest) ==
    Leading(b) = Len(xs) /\ Passes(past, Len(xs), xs, PastVu(b), rest)

(* Its count leads, its items are passed, and what follows it is left.      *)
LEMMA CountedLeads ==
    ASSUME NEW past, NEW xs, Len(xs) \in Nat, Len(xs) = 0 => xs = <<>>,
           EachSkipped(past, Len(xs), xs), NEW rest \in Seq(Nat)
    PROVE  /\ Counted(xs) \in Seq(Nat)
           /\ Walked(past, xs, Counted(xs) \o rest, rest)
<1> DEFINE n == Len(xs)
           head == Varint[n]
           flat == FlattenSeq(xs)
           c == flat \o rest
<1>1. head \in Seq(Nat) /\ Counted(xs) = head \o flat
    BY VarintRead DEF Counted
<1>2. flat \in Seq(Nat) /\ Passes(past, n, xs, c, rest)
    <2>1. n \in Nat /\ Len(xs) = n /\ (n = 0 => xs = <<>>) /\ EachSkipped(past, n, xs)
        OBVIOUS
    <2> HIDE DEF n
    <2> QED BY <2>1, AllPast
<1>3. c \in Seq(Nat)
    BY <1>2
<1> DEFINE b == head \o c
<1>4. Leading(b) = n /\ PastVu(b) = c
    <2> HIDE DEF c
    <2> QED BY <1>3, NumberLeads
<1> HIDE DEF head, flat
<1>5. Joins(head, flat, rest)
    BY <1>1, <1>2, Rejoined
<1>6. Counted(xs) \in Seq(Nat) /\ Counted(xs) \o rest = b
    <2>1. (head \o flat) \o rest = b /\ head \o flat \in Seq(Nat)
        BY <1>5 DEF Joins
    <2> HIDE DEF b
    <2> QED BY <1>1, <2>1
<1> HIDE DEF b, c
<1>7. Walked(past, xs, b, rest)
    BY <1>2, <1>4 DEF Walked
<1> QED BY <1>6, <1>7

(* An attribute and an event are stepped over, and an event begins with its *)
(* name.                                                                    *)
LEMMA AttrSkipped ==
    ASSUME NEW n \in String, NEW s \in String
    PROVE  Skips(PastAttr, Str(n) \o Str(s))
<1> DEFINE a == Str(n)
           b == Str(s)
<1>1. /\ a \in Seq(Nat) /\ b \in Seq(Nat)
      /\ \A rest \in Seq(Nat) : PastStr[a \o rest] = rest
      /\ \A rest \in Seq(Nat) : PastStr[b \o rest] = rest
    <2>1. <<>> \in Seq(Nat)
        OBVIOUS
    <2> QED BY <2>1, StringLeads
<1> HIDE DEF a, b
<1>2. ASSUME NEW rest \in Seq(Nat) PROVE PastAttr[(a \o b) \o rest] = rest
    <2>1. Joins(a, b, rest)
        BY <1>1, Rejoined
    <2> DEFINE c == (a \o b) \o rest
    <2>2. c = a \o (b \o rest) /\ c \in Seq(Nat) /\ b \o rest \in Seq(Nat)
        <3>1. c = a \o (b \o rest) /\ a \o b \in Seq(Nat) /\ b \o rest \in Seq(Nat)
            BY <2>1 DEF Joins
        <3> QED BY <3>1
    <2> HIDE DEF c
    <2>3. PastStr[c] = b \o rest
        BY <1>1, <2>2
    <2>4. PastAttr[c] = PastStr[PastStr[c]]
        BY <2>2 DEF PastAttr
    <2> QED BY <1>1, <2>3, <2>4 DEF c
<1>3. a \o b \in Seq(Nat)
    BY <1>1
<1> QED BY <1>2, <1>3 DEF Skips, a, b

(* The walk of peekEventNames past an event, whose name it has read.        *)
LEMMA EventSkipped ==
    ASSUME NEW e \in Heeds
    PROVE  /\ Skips(PastEvent, EventBytes(e))
           /\ \A rest \in Seq(Nat) : StringAt(EventBytes(e) \o rest) = e.name
<1> DEFINE a == Str(e.name)
           b == <<IF e.preventDefault THEN 1 ELSE 0>>
<1>0. e.name \in String /\ EventBytes(e) = a \o b
    BY DEF Heeds, EventBytes
<1>1. /\ a \in Seq(Nat)
      /\ \A rest \in Seq(Nat) : PastStr[a \o rest] = rest /\ StringAt(a \o rest) = e.name
    <2>1. <<>> \in Seq(Nat)
        OBVIOUS
    <2> QED BY <1>0, <2>1, StringLeads
<1>2. b \in Seq(Nat) /\ Len(b) = 1
    <2>1. (IF e.preventDefault THEN 1 ELSE 0) \in Nat
        OBVIOUS
    <2> QED BY <2>1
<1> HIDE DEF a, b
<1>3. ASSUME NEW rest \in Seq(Nat)
      PROVE  PastEvent[(a \o b) \o rest] = rest /\ StringAt((a \o b) \o rest) = e.name
    <2>1. Joins(a, b, rest)
        BY <1>1, <1>2, Rejoined
    <2> DEFINE c == (a \o b) \o rest
               d == b \o rest
    <2>2. c = a \o d /\ c \in Seq(Nat) /\ d \in Seq(Nat)
        <3>1. c = a \o d /\ a \o b \in Seq(Nat) /\ d \in Seq(Nat)
            BY <2>1 DEF Joins
        <3> QED BY <3>1
    <2>5. SubSeq(d, 2, Len(d)) = rest
        <3>1. SubSeq(d, Len(b) + 1, Len(d)) = rest
            BY <1>2, RestIs
        <3> HIDE DEF d
        <3> QED BY <1>2, <3>1
    <2> HIDE DEF c, d
    <2>3. PastStr[c] = d /\ StringAt(c) = e.name
        BY <1>1, <2>2
    <2>4. PastEvent[c] = Past(PastStr[c], 1)
        BY <2>2 DEF PastEvent
    <2>6. Past(d, 1) = rest
        BY <2>5 DEF Past
    <2> QED BY <2>3, <2>4, <2>6 DEF c
<1>4. a \o b \in Seq(Nat)
    BY <1>1, <1>2
<1>5. Skips(PastEvent, a \o b)
    BY <1>3, <1>4 DEF Skips
<1> QED BY <1>0, <1>3, <1>5

-----------------------------------------------------------------------------
(* A node is stepped over by a walk no deeper than its bytes are long.      *)
NodeSkipped(v) ==
    \A n \in Nat : n >= Len(NodeBytes[FromVNode[v]]) => Skips(PastNode[n], NodeBytes[FromVNode[v]])

(* A byte at the front.                                                     *)
Fronts(k, d, b) == b \in Seq(Nat) /\ Past(b, 1) = d /\ b[1] = k

(* It is read, and the rest is left.                                        *)
LEMMA ByteLeads ==
    ASSUME NEW x \in Seq(Nat), Len(x) = 1, NEW d \in Seq(Nat)
    PROVE  Fronts(x[1], d, x \o d)
<1> DEFINE b == x \o d
<1>1. b \in Seq(Nat) /\ SubSeq(b, Len(x) + 1, Len(b)) = d
    BY RestIs
<1>2. b[1] = x[1]
    <2>1. \A i \in 1 .. Len(x) : b[i] = x[i]
        BY RestIs
    <2>2. 1 \in 1 .. Len(x)
        OBVIOUS
    <2> HIDE DEF b
    <2> QED BY <2>1, <2>2
<1> HIDE DEF b
<1>3. Past(b, 1) = d
    BY <1>1 DEF Past
<1> QED BY <1>1, <1>2, <1>3 DEF Fronts, b

(* The walk past a text node.                                               *)
LEMMA TextSkipped ==
    ASSUME NEW s \in String, NEW n \in Nat, n # 0
    PROVE  Skips(PastNode[n], <<0>> \o Str(s))
<1> DEFINE zero == <<0>>
           t == Str(s)
<1>1. zero \in Seq(Nat) /\ Len(zero) = 1 /\ zero[1] = 0
    OBVIOUS
<1>2. t \in Seq(Nat) /\ \A rest \in Seq(Nat) : PastStr[t \o rest] = rest
    <2>1. <<>> \in Seq(Nat)
        OBVIOUS
    <2> QED BY <2>1, StringLeads
<1> HIDE DEF zero, t
<1>3. ASSUME NEW rest \in Seq(Nat) PROVE PastNode[n][(zero \o t) \o rest] = rest
    <2> DEFINE d == t \o rest
               b == zero \o d
    <2>1. Joins(zero, t, rest)
        BY <1>1, <1>2, Rejoined
    <2>2. (zero \o t) \o rest = b /\ d \in Seq(Nat)
        BY <2>1 DEF Joins
    <2> HIDE DEF d
    <2>3. Fronts(zero[1], d, b)
        BY <1>1, <2>2, ByteLeads
    <2> HIDE DEF b
    <2>4. b \in Seq(Nat) /\ Past(b, 1) = d /\ b[1] = 0
        BY <1>1, <2>3 DEF Fronts
    <2>5. PastNode[n][b] = PastStr[d]
        BY <2>4, PastNodeIs
    <2> QED BY <1>2, <2>2, <2>5 DEF d
<1>4. zero \o t \in Seq(Nat)
    BY <1>1, <1>2
<1> QED BY <1>3, <1>4 DEF Skips, zero, t

(* The walk past an element: its tag, its attributes and its children.      *)
LEMMA ElementSkipped ==
    ASSUME NEW s \in String, NEW n \in Nat, n # 0,
           NEW as, Len(as) \in Nat, Len(as) = 0 => as = <<>>, EachSkipped(PastAttr, Len(as), as),
           NEW ds, Len(ds) \in Nat, Len(ds) = 0 => ds = <<>>, EachSkipped(PastNode[n - 1], Len(ds), ds)
    PROVE  Skips(PastNode[n], <<1>> \o Str(s) \o Counted(as) \o Counted(ds))
<1> DEFINE one == <<1>>
           t == Str(s)
           a == Counted(as)
           d == Counted(ds)
           past == PastNode[n - 1]
<1>1. one \in Seq(Nat) /\ Len(one) = 1 /\ one[1] = 1
    OBVIOUS
<1>e. <<>> \in Seq(Nat)
    OBVIOUS
<1>2. t \in Seq(Nat) /\ \A rest \in Seq(Nat) : PastStr[t \o rest] = rest
    BY <1>e, StringLeads
<1>3. a \in Seq(Nat) /\ \A rest \in Seq(Nat) : Walked(PastAttr, as, a \o rest, rest)
    <2>1. \A rest \in Seq(Nat) : a \in Seq(Nat) /\ Walked(PastAttr, as, a \o rest, rest)
        BY CountedLeads
    <2> HIDE DEF a
    <2> QED BY <1>e, <2>1
<1> HIDE DEF past
<1>4. d \in Seq(Nat) /\ \A rest \in Seq(Nat) : Walked(past, ds, d \o rest, rest)
    <2>0. EachSkipped(past, Len(ds), ds)
        BY DEF past
    <2>1. \A rest \in Seq(Nat) : d \in Seq(Nat) /\ Walked(past, ds, d \o rest, rest)
        BY <2>0, CountedLeads
    <2> HIDE DEF d
    <2> QED BY <1>e, <2>1
<1> HIDE DEF one, t, a, d
<1> DEFINE x == ((one \o t) \o a) \o d
<1>5. ASSUME NEW rest \in Seq(Nat) PROVE PastNode[n][x \o rest] = rest
    <2> DEFINE c3 == d \o rest
               c2 == a \o c3
               c1 == t \o c2
               b == one \o c1
    <2>1. IsBytes(one) /\ IsBytes(t) /\ IsBytes(a) /\ IsBytes(d) /\ IsBytes(rest)
        BY <1>1, <1>2, <1>3, <1>4 DEF IsBytes
    <2>2. c3 \in Seq(Nat) /\ c2 \in Seq(Nat) /\ c1 \in Seq(Nat)
        <3>1. c3 \in Seq(Nat)
            BY <1>4
        <3> HIDE DEF c3
        <3>2. c2 \in Seq(Nat)
            BY <1>3, <3>1
        <3> HIDE DEF c2
        <3> QED BY <1>2, <3>1, <3>2
    <2>3. x \o rest = b
        <3>1. Cat(Cat(Cat(Cat(one, t), a), d), rest) = Cat(one, Cat(t, Cat(a, Cat(d, rest))))
            BY <2>1, FiveBytes
        <3> QED BY <3>1 DEF Cat
    <2> HIDE DEF c1, x
    <2>4. Fronts(one[1], c1, b)
        BY <1>1, <2>2, ByteLeads
    <2> HIDE DEF b
    <2>5. b \in Seq(Nat) /\ Past(b, 1) = c1 /\ b[1] # 0
        BY <1>1, <2>4 DEF Fronts
    <2>6. PastNode[n][b] = PastEl(past, c1)
        BY <2>5, PastNodeIs DEF past
    <2> HIDE DEF c2
    <2>7. PastStr[c1] = c2
        BY <1>2, <2>2 DEF c1
    <2> HIDE DEF c3
    <2>8. PastAll(PastAttr, PastVu(c2), Leading(c2)) = c3
        <3>1. Walked(PastAttr, as, c2, c3)
            BY <1>3, <2>2 DEF c2
        <3> QED BY <3>1 DEF Walked, Passes
    <2>9. PastAll(past, PastVu(c3), Leading(c3)) = rest
        <3>1. Walked(past, ds, c3, rest)
            BY <1>4 DEF c3
        <3> QED BY <3>1 DEF Walked, Passes
    <2>10. PastEl(past, c1) = rest
        BY <2>7, <2>8, <2>9 DEF PastEl
    <2> QED BY <2>3, <2>6, <2>10
<1>6. x \in Seq(Nat)
    <2> DEFINE y == one \o t
               z == y \o a
    <2>1. y \in Seq(Nat)
        BY <1>1, <1>2
    <2> HIDE DEF y
    <2>2. z \in Seq(Nat)
        BY <1>3, <2>1
    <2> HIDE DEF z
    <2>3. z \o d \in Seq(Nat)
        BY <1>4, <2>2
    <2> QED BY <2>3 DEF y, z
<1> HIDE DEF x
<1>7. Skips(PastNode[n], x)
    BY <1>5, <1>6 DEF Skips
<1> QED BY <1>7 DEF x, one, t, a, d

(* What is written behind a byte, and between other bytes.                  *)
LEMMA LongerThanItsEnd ==
    ASSUME NEW x \in Seq(Nat), Len(x) = 1, NEW t \in Seq(Nat), NEW a \in Seq(Nat), NEW d \in Seq(Nat)
    PROVE  Len(((x \o t) \o a) \o d) >= 1 + Len(d)
<1> DEFINE y == x \o t
           z == y \o a
<1>0. Len(t) \in Nat /\ Len(a) \in Nat /\ Len(d) \in Nat
    OBVIOUS
<1>1. y \in Seq(Nat) /\ Len(y) = Len(x) + Len(t)
    BY RestIs
<1> HIDE DEF y
<1>2. z \in Seq(Nat) /\ Len(z) = Len(y) + Len(a)
    BY <1>1, RestIs
<1> HIDE DEF z
<1>3. Len(z \o d) = Len(z) + Len(d)
    BY <1>2, RestIs
<1>4. Len(z \o d) >= 1 + Len(d)
    BY <1>0, <1>1, <1>2, <1>3
<1> QED BY <1>4 DEF y, z

(* Every node of a tree that can be sent is stepped over.                   *)
LEMMA NodesSkipped ==
    \A v \in VNodes : NodeSkipped(v)
<1> DEFINE S == {h \in Nat : \A v \in VNodes : Height[v] = h => NodeSkipped(v)}
<1>1. ASSUME NEW h \in Nat, \A m \in Nat : m < h => m \in S PROVE h \in S
    <2> SUFFICES ASSUME NEW v \in VNodes, Height[v] = h PROVE NodeSkipped(v)
        OBVIOUS
    <2>1. ASSUME NEW i \in DOMAIN v.kids PROVE NodeSkipped(v.kids[i])
        <3>1. v.kids[i] \in VNodes /\ Height[v.kids[i]] < h /\ Height[v.kids[i]] \in Nat
            BY TreeFacts
        <3>2. Height[v.kids[i]] \in S
            BY <1>1, <3>1
        <3> QED BY <3>1, <3>2
    <2> DEFINE n == FromVNode[v]
               kids == n.kids
    <2>2. /\ n = [tag |-> v.tag, attrs |-> v.attrs, text |-> v.text, kids |-> Snapshots(v.kids)]
          /\ NodeBytes[n] = NodeBytesAt(NodeBytes, n)
        BY NodeBytesIs, SnapshotIs DEF Dom
    <2>3. n.tag = v.tag /\ n.attrs = v.attrs /\ n.text = v.text /\ kids = Snapshots(v.kids)
        BY <2>2
    <2> HIDE DEF n
    <2> SUFFICES ASSUME NEW m \in Nat, m >= Len(NodeBytes[n])
                 PROVE  Skips(PastNode[m], NodeBytes[n])
        BY DEF NodeSkipped, n
    <2>4. Len(NodeBytes[n]) \in Nat \ {0}
        BY NodeTells DEF NodeTold, Tells, n
    <2>5. m # 0
        BY <2>4
    <2>6. CASE IsText(v)
        <3>1. v.text \in String /\ v.tag = TextTag
            BY <2>6, TreesFit DEF IsText
        <3>2. NodeBytes[n] = <<0>> \o Str(v.text)
            BY <2>2, <2>3, <3>1 DEF NodeBytesAt, IsText
        <3>3. Skips(PastNode[m], <<0>> \o Str(v.text))
            BY <2>5, <3>1, TextSkipped
        <3> QED BY <3>2, <3>3
    <2>7. CASE ~ IsText(v)
        <3>1. v.tag \in String /\ v.tag # TextTag /\ Sendable(v.attrs)
            BY <2>7, TreesFit, TreeAssumption DEF IsText, Sendable
        <3> DEFINE names == SetToSeq(DOMAIN v.attrs)
                   as == [i \in DOMAIN names |-> Str(names[i]) \o Str(v.attrs[names[i]])]
                   ds == [i \in DOMAIN kids |-> NodeBytes[kids[i]]]
                   t == Str(v.tag)
        <3>2. NodeBytes[n] = <<1>> \o t \o Counted(as) \o Counted(ds)
            BY <2>2, <2>3, <3>1 DEF NodeBytesAt, IsText, AttrsBytes
        <3>3. Len(as) \in Nat /\ (Len(as) = 0 => as = <<>>) /\ EachSkipped(PastAttr, Len(as), as)
            <4> DEFINE D == DOMAIN v.attrs
                       l == Len(names)
            <4>0. IsFiniteSet(D)
                BY <3>1 DEF Sendable
            <4>1. l \in Nat /\ DOMAIN names = 1 .. l /\ \A i \in 1 .. l : names[i] \in D
                <5>1. names \in Seq(D)
                    BY <4>0, SetToSeqIs
                <5> HIDE DEF names
                <5> QED BY <5>1
            <4> HIDE DEF names
            <4>2. Len(as) = l /\ (l = 0 => as = <<>>)
                BY <4>1, LenOfFunction
            <4>3. ASSUME NEW i \in 1 .. l PROVE Skips(PastAttr, as[i])
                <5>1. names[i] \in String /\ v.attrs[names[i]] \in String
                    BY <3>1, <4>1 DEF Sendable
                <5>2. as[i] = Str(names[i]) \o Str(v.attrs[names[i]])
                    BY <4>1
                <5>3. Skips(PastAttr, Str(names[i]) \o Str(v.attrs[names[i]]))
                    BY <5>1, AttrSkipped
                <5> HIDE DEF as
                <5> QED BY <5>2, <5>3
            <4> HIDE DEF as, l
            <4> QED BY <4>1, <4>2, <4>3 DEF EachSkipped
        <3>4. /\ Len(kids) = Len(v.kids) /\ IsList(kids) /\ DOMAIN v.kids = 1 .. Len(v.kids)
              /\ Len(v.kids) \in Nat
              /\ \A i \in 1 .. Len(kids) : kids[i] = FromVNode[v.kids[i]]
            BY <2>3, SnapshotsAre, TreeFacts, ListOf
        <3> DEFINE k == Len(kids)
        <3>5. k \in Nat /\ DOMAIN kids = 1 .. k /\ Len(ds) = k /\ (k = 0 => ds = <<>>)
            <4>1. k \in Nat /\ DOMAIN kids = 1 .. k
                BY <3>4, ListIs
            <4> HIDE DEF kids
            <4> QED BY <4>1, LenOfFunction
        <3>6. \A i \in 1 .. k : ds[i] = NodeBytes[FromVNode[v.kids[i]]]
            BY <3>4, <3>5
        <3>7. \A i \in 1 .. k : Len(ds[i]) \in Nat \ {0} /\ ds[i] \in Seq(Nat)
            <4>1. ASSUME NEW i \in 1 .. k PROVE Len(ds[i]) \in Nat \ {0} /\ ds[i] \in Seq(Nat)
                <5>1. v.kids[i] \in VNodes
                    BY <3>4, TreeFacts
                <5>2. NodeTold(v.kids[i])
                    BY <5>1, NodeTells
                <5>3. ds[i] = NodeBytes[FromVNode[v.kids[i]]]
                    BY <3>6
                <5> HIDE DEF ds
                <5> QED BY <5>2, <5>3 DEF NodeTold, Tells
            <4> QED BY <4>1
        <3> HIDE DEF ds, as, k, kids
        <3>8. \A i \in 1 .. k : Len(ds[i]) <= m - 1
            <4>1. Parts(k, ds)
                BY <3>7 DEF Parts
            <4> DEFINE flat == FlattenSeq(ds)
                       head == Varint[k]
                       one == <<1>>
                       a == Counted(as)
            <4>2. flat \in Seq(Nat) /\ Len(flat) \in Nat /\ \A i \in 1 .. k : Len(ds[i]) + (k - 1) <= Len(flat)
                BY <3>5, <4>1, PartsTogether
            <4>3. head \in Seq(Nat) /\ Len(head) \in Nat \ {0} /\ Counted(ds) = head \o flat
                BY <3>5, VarintRead DEF Counted
            <4>4. t \in Seq(Nat) /\ a \in Seq(Nat) /\ one \in Seq(Nat) /\ Len(one) = 1
                <5>1. <<>> \in Seq(Nat)
                    OBVIOUS
                <5>2. t \in Seq(Nat)
                    BY <3>1, <5>1, StringLeads
                <5>3. a \in Seq(Nat)
                    BY <3>3, <5>1, CountedLeads
                <5>4. one \in Seq(Nat) /\ Len(one) = 1
                    OBVIOUS
                <5> HIDE DEF one, a, t
                <5> QED BY <5>2, <5>3, <5>4
            <4> HIDE DEF flat, head, one, a, t
            <4> DEFINE d == head \o flat
            <4>5. d \in Seq(Nat) /\ Len(d) = Len(head) + Len(flat)
                BY <4>2, <4>3
            <4> HIDE DEF d
            <4>6. Len(((one \o t) \o a) \o d) >= 1 + Len(d)
                BY <4>4, <4>5, LongerThanItsEnd
            <4>7. NodeBytes[n] = ((one \o t) \o a) \o d
                BY <3>2, <4>3 DEF one, t, a, d
            <4> SUFFICES ASSUME NEW i \in 1 .. k PROVE Len(ds[i]) <= m - 1
                OBVIOUS
            <4> DEFINE l == Len(ds[i])
                       q == Len(NodeBytes[n])
            <4>8. l + (k - 1) <= Len(flat) /\ l \in Nat /\ q >= 1 + Len(d) /\ m >= q /\ q \in Nat
                BY <2>4, <3>7, <4>2, <4>6, <4>7
            <4>9. Len(d) \in Nat
                BY <4>5
            <4> HIDE DEF l, q
            <4>10. l <= m - 1
                BY <3>5, <4>2, <4>3, <4>5, <4>8, <4>9
            <4> QED BY <4>10 DEF l
        <3>9. EachSkipped(PastNode[m - 1], Len(ds), ds)
            <4> SUFFICES ASSUME NEW i \in 1 .. k PROVE Skips(PastNode[m - 1], ds[i])
                BY <3>5 DEF EachSkipped
            <4>1. NodeSkipped(v.kids[i]) /\ ds[i] = NodeBytes[FromVNode[v.kids[i]]]
                BY <2>1, <3>4, <3>6 DEF k
            <4>2. m - 1 \in Nat /\ m - 1 >= Len(ds[i])
                BY <2>5, <3>7, <3>8
            <4> QED BY <4>1, <4>2 DEF NodeSkipped
        <3>10. Len(ds) \in Nat /\ (Len(ds) = 0 => ds = <<>>)
            BY <3>5
        <3>11. Skips(PastNode[m], <<1>> \o Str(v.tag) \o Counted(as) \o Counted(ds))
            BY <2>5, <3>1, <3>3, <3>9, <3>10, ElementSkipped
        <3> QED BY <3>2, <3>11
    <2> QED BY <2>6, <2>7
<1>2. \A h \in Nat : h \in S
    <2> HIDE DEF S
    <2> QED BY <1>1, StrongSetInduction
<1> QED BY <1>2, TreeFacts

-----------------------------------------------------------------------------
(* The names of the events of a tail, from its bytes.                       *)
LEMMA NamesAre ==
    ASSUME NEW t, SentTail(t), MaxU32 \in Number
    PROVE  /\ NamesAt(PastVu(TailBytes(t)), Leading(TailBytes(t)))
                = [i \in DOMAIN t.events |-> t.events[i].name]
           /\ TailBytes(t) \in Seq(Nat)
<1> DEFINE events == t.events
           n == Len(events)
           xs == [i \in DOMAIN events |-> EventBytes(events[i])]
           a == Counted(xs)
           b == Counted([i \in DOMAIN t.cmds |-> CmdBytes(t.cmds[i])])
           c == Counted([i \in DOMAIN t.subs |-> SubBytes(t.subs[i])])
           rest == b \o c
           d == TailBytes(t)
<1>1. a \in Seq(Nat) /\ b \in Seq(Nat) /\ c \in Seq(Nat)
    BY TailParts DEF Tells
<1>2. d = (a \o b) \o c
    BY DEF TailBytes
<1>3. events \in Seq(Heeds)
    BY DEF SentTail
<1> HIDE DEF b, c
<1>4. d = a \o rest /\ rest \in Seq(Nat) /\ d \in Seq(Nat)
    <2> HIDE DEF a, d
    <2>1. Joins(a, b, c)
        BY <1>1, Rejoined
    <2>2. d = a \o rest /\ rest \in Seq(Nat)
        BY <1>2, <2>1 DEF Joins
    <2> HIDE DEF rest
    <2> QED BY <1>1, <2>2
<1> HIDE DEF events, d
<1>5. n \in Nat /\ DOMAIN events = 1 .. n /\ \A i \in 1 .. n : events[i] \in Heeds
    BY <1>3
<1> HIDE DEF rest, n
<1>6. Len(xs) = n /\ (n = 0 => xs = <<>>) /\ \A i \in 1 .. n : xs[i] = EventBytes(events[i])
    BY <1>5, LenOfFunction
<1> HIDE DEF xs
<1>7. EachSkipped(PastEvent, Len(xs), xs)
    BY <1>5, <1>6, EventSkipped DEF EachSkipped
<1>8. Walked(PastEvent, xs, Counted(xs) \o rest, rest)
    BY <1>4, <1>5, <1>6, <1>7, CountedLeads
<1>9. Walked(PastEvent, xs, d, rest)
    BY <1>4, <1>8 DEF a
<1>10. /\ Leading(d) = n
       /\ \A k \in 1 .. n : \E more \in Seq(Nat) : PastAll(PastEvent, PastVu(d), k - 1) = xs[k] \o more
    BY <1>6, <1>9 DEF Walked, Passes
<1>11. ASSUME NEW k \in 1 .. n PROVE StringAt(PastAll(PastEvent, PastVu(d), k - 1)) = events[k].name
    <2>1. PICK more \in Seq(Nat) : PastAll(PastEvent, PastVu(d), k - 1) = xs[k] \o more
        BY <1>10
    <2>2. xs[k] = EventBytes(events[k]) /\ events[k] \in Heeds
        BY <1>5, <1>6
    <2>3. StringAt(EventBytes(events[k]) \o more) = events[k].name
        BY <2>2, EventSkipped
    <2> QED BY <2>1, <2>2, <2>3
<1>12. NamesAt(PastVu(d), Leading(d)) = [k \in 1 .. n |-> events[k].name]
    BY <1>10, <1>11 DEF NamesAt
<1> QED BY <1>4, <1>5, <1>12 DEF d, events

(* peekEventNames finds the names of the events in the first message.       *)
THEOREM PeekFindsTheNames ==
    ASSUME NEW v \in VNodes, NEW tail0, SentTail(tail0), MaxU32 \in Number
    PROVE  PeekEventNames(InitBytes(FromVNode[v], tail0))
             = [i \in DOMAIN tail0.events |-> tail0.events[i].name]
<1> DEFINE one == <<1>>
           a == NodeBytes[FromVNode[v]]
           c == TailBytes(tail0)
           d == a \o c
           b == one \o d
           n == Len(b)
<1>1. one \in Seq(Nat) /\ Len(one) = 1 /\ one[1] = 1
    OBVIOUS
<1>2. a \in Seq(Nat) /\ Len(a) \in Nat
    BY NodeTells DEF NodeTold, Tells
<1>3. /\ c \in Seq(Nat)
      /\ NamesAt(PastVu(c), Leading(c)) = [i \in DOMAIN tail0.events |-> tail0.events[i].name]
    BY NamesAre
<1>4. InitBytes(FromVNode[v], tail0) = (one \o a) \o c
    BY DEF InitBytes, WireVersion
<1>s. \A m \in Nat : m >= Len(a) => \A rest \in Seq(Nat) : PastNode[m][a \o rest] = rest
    BY NodesSkipped DEF NodeSkipped, Skips
<1> HIDE DEF one, a, c
<1>5. d \in Seq(Nat) /\ Len(d) = Len(a) + Len(c) /\ Len(c) \in Nat
    BY <1>2, <1>3, RestIs
<1>6. (one \o a) \o c = b
    <2>1. Joins(one, a, c)
        BY <1>1, <1>2, <1>3, Rejoined
    <2> QED BY <2>1 DEF Joins
<1> HIDE DEF d
<1>7. Fronts(one[1], d, b) /\ Len(b) = Len(one) + Len(d)
    BY <1>1, <1>5, ByteLeads, RestIs
<1> HIDE DEF b
<1>8. Past(b, 1) = d /\ n \in Nat /\ n >= Len(a)
    BY <1>1, <1>2, <1>5, <1>7 DEF Fronts
<1>9. PastNode[n][d] = c
    <2> HIDE DEF n
    <2> QED BY <1>3, <1>8, <1>s DEF d
<1>10. PeekEventNames(b) = NamesAt(PastVu(c), Leading(c))
    BY <1>8, <1>9 DEF PeekEventNames
<1> QED BY <1>3, <1>4, <1>6, <1>10

-----------------------------------------------------------------------------
(* collect_events, as the recursion it is: it ends because a tree is higher *)
(* than its parts.                                                          *)
LEMMA HeededIs ==
    \A v \in VNodes : Heeded[v] = HeededAt(Heeded, v)
<1> DEFINE env == <<>>
<1>1. \A f, v : Unfolds("Heeded", env, f, v) = HeededAt(f, v)
    BY DEF Unfolds
<1>2. Height \in [VNodes -> Nat]
    BY TreeAssumption
<1>3. Founded("Heeded", env, VNodes, Height)
    <2> SUFFICES ASSUME NEW f, NEW g, NEW v \in VNodes, Below(VNodes, Height, f, g, v)
                 PROVE  HeededAt(f, v) = HeededAt(g, v)
        BY <1>1 DEF Founded
    <2>1. \A i \in DOMAIN v.kids : f[v.kids[i]] = g[v.kids[i]]
        BY TreeFacts DEF Below
    <2>2. {f[v.kids[i]] : i \in DOMAIN v.kids} = {g[v.kids[i]] : i \in DOMAIN v.kids}
        BY <2>1
    <2> QED BY <2>2 DEF HeededAt
<1> HIDE DEF env
<1>4. PICK F : F = [v \in VNodes |-> Unfolds("Heeded", env, F, v)]
    BY <1>2, <1>3, RecursionEnds
<1>5. F = [v \in VNodes |-> HeededAt(F, v)]
    BY <1>1, <1>4
<1> DEFINE f == Heeded
<1>6. f = [v \in VNodes |-> HeededAt(f, v)]
    <2>1. f = CHOOSE g : g = [v \in VNodes |-> HeededAt(g, v)]
        BY DEF Heeded, HeededAt
    <2>2. \E g : g = [v \in VNodes |-> HeededAt(g, v)]
        BY <1>5
    <2> HIDE DEF f
    <2> QED BY <2>1, <2>2
<1> HIDE DEF f
<1>7. \A v \in VNodes : f[v] = HeededAt(f, v)
    BY <1>6
<1> QED BY <1>7 DEF f

(* The names that are collected: finitely many strings.                     *)
Names(v) == {pair[1] : pair \in Heeded[v]}

(* They are those of the node itself and of all its parts.                  *)
LEMMA NamesOf ==
    \A v \in VNodes : Names(v) = DOMAIN v.on \cup UNION {Names(v.kids[i]) : i \in DOMAIN v.kids}
<1> SUFFICES ASSUME NEW v \in VNodes
             PROVE  Names(v) = DOMAIN v.on \cup UNION {Names(v.kids[i]) : i \in DOMAIN v.kids}
    OBVIOUS
<1> DEFINE own == {<<name, v.on[name].prevent>> : name \in DOMAIN v.on}
           others == UNION {Heeded[v.kids[i]] : i \in DOMAIN v.kids}
<1>1. Heeded[v] = own \cup others
    BY HeededIs DEF HeededAt
<1>2. {pair[1] : pair \in own} = DOMAIN v.on
    <2>1. \A pair \in own : pair[1] \in DOMAIN v.on
        OBVIOUS
    <2>2. \A name \in DOMAIN v.on : \E pair \in own : pair[1] = name
        <3> SUFFICES ASSUME NEW name \in DOMAIN v.on PROVE \E pair \in own : pair[1] = name
            OBVIOUS
        <3> DEFINE pair == <<name, v.on[name].prevent>>
        <3>1. pair \in own /\ pair[1] = name
            OBVIOUS
        <3> HIDE DEF pair, own
        <3> QED BY <3>1
    <2> HIDE DEF own
    <2> QED BY <2>1, <2>2
<1>3. {pair[1] : pair \in others} = UNION {Names(v.kids[i]) : i \in DOMAIN v.kids}
    <2>1. \A x : (\E pair \in others : pair[1] = x) <=> \E i \in DOMAIN v.kids : x \in Names(v.kids[i])
        <3>1. \A pair : pair \in others <=> \E i \in DOMAIN v.kids : pair \in Heeded[v.kids[i]]
            OBVIOUS
        <3>2. \A i, x : x \in Names(v.kids[i]) <=> \E pair \in Heeded[v.kids[i]] : pair[1] = x
            BY DEF Names
        <3> HIDE DEF others
        <3> SUFFICES ASSUME NEW x
                     PROVE  (\E pair \in others : pair[1] = x) <=> \E i \in DOMAIN v.kids : x \in Names(v.kids[i])
            OBVIOUS
        <3>3. ASSUME NEW pair \in others, pair[1] = x PROVE \E i \in DOMAIN v.kids : x \in Names(v.kids[i])
            <4>1. PICK i \in DOMAIN v.kids : pair \in Heeded[v.kids[i]]
                BY <3>1
            <4> QED BY <3>2, <3>3, <4>1
        <3>4. ASSUME NEW i \in DOMAIN v.kids, x \in Names(v.kids[i]) PROVE \E pair \in others : pair[1] = x
            <4>1. PICK pair \in Heeded[v.kids[i]] : pair[1] = x
                BY <3>2, <3>4
            <4>2. pair \in others
                BY <3>1
            <4> QED BY <4>1, <4>2
        <3> QED BY <3>3, <3>4
    <2>2. \A x : x \in UNION {Names(v.kids[i]) : i \in DOMAIN v.kids}
                   <=> \E i \in DOMAIN v.kids : x \in Names(v.kids[i])
        OBVIOUS
    <2>3. \A x : x \in {pair[1] : pair \in others} <=> \E pair \in others : pair[1] = x
        OBVIOUS
    <2> HIDE DEF others
    <2> QED BY <2>1, <2>2, <2>3
<1> HIDE DEF own, others
<1>4. {pair[1] : pair \in own \cup others} = {pair[1] : pair \in own} \cup {pair[1] : pair \in others}
    OBVIOUS
<1> QED BY <1>1, <1>2, <1>3, <1>4 DEF Names

(* Whatever the tree, they can be listed and sent.                          *)
LEMMA NamesFinite ==
    \A v \in VNodes : IsFiniteSet(Names(v)) /\ Names(v) \subseteq String
<1> DEFINE Fine(v) == IsFiniteSet(Names(v)) /\ Names(v) \subseteq String
           S == {h \in Nat : \A v \in VNodes : Height[v] = h => Fine(v)}
<1>1. ASSUME NEW h \in Nat, \A m \in Nat : m < h => m \in S PROVE h \in S
    <2> SUFFICES ASSUME NEW v \in VNodes, Height[v] = h PROVE Fine(v)
        OBVIOUS
    <2>1. ASSUME NEW i \in DOMAIN v.kids PROVE Fine(v.kids[i])
        <3>1. v.kids[i] \in VNodes /\ Height[v.kids[i]] < h /\ Height[v.kids[i]] \in Nat
            BY TreeFacts
        <3>2. Height[v.kids[i]] \in S
            BY <1>1, <3>1
        <3> HIDE DEF Fine
        <3> QED BY <3>1, <3>2
    <2> DEFINE sets == {Names(v.kids[i]) : i \in DOMAIN v.kids}
    <2>2. IsFiniteSet(DOMAIN v.on) /\ DOMAIN v.on \subseteq String
        BY TurnsFit
    <2>3. IsFiniteSet(sets)
        <3>1. IsFiniteSet(DOMAIN v.kids)
            BY TreeFacts, FS_Interval
        <3> DEFINE D == DOMAIN v.kids
                   f == [i \in D |-> Names(v.kids[i])]
        <3>2. f \in Surjection(D, sets)
            BY DEF Surjection
        <3> HIDE DEF D, f, sets
        <3>3. IsFiniteSet(D)
            BY <3>1 DEF D
        <3> QED BY <3>2, <3>3, FS_Surjection
    <2>4. \A T \in sets : IsFiniteSet(T) /\ T \subseteq String
        BY <2>1
    <2>5. IsFiniteSet(UNION sets) /\ UNION sets \subseteq String
        <3> HIDE DEF sets
        <3> QED BY <2>3, <2>4, FS_UNION
    <2>6. Names(v) = DOMAIN v.on \cup UNION sets
        BY NamesOf
    <2> HIDE DEF sets
    <2>7. IsFiniteSet(DOMAIN v.on \cup UNION sets)
        BY <2>2, <2>5, FS_Union
    <2> QED BY <2>2, <2>5, <2>6, <2>7
<1>2. \A h \in Nat : h \in S
    <2> HIDE DEF S
    <2> QED BY <1>1, StrongSetInduction
<1> HIDE DEF Fine
<1>3. \A v \in VNodes : Height[v] \in Nat
    BY TreeFacts
<1>4. \A v \in VNodes : Fine(v)
    BY <1>2, <1>3
<1> QED BY <1>4 DEF Fine

-----------------------------------------------------------------------------
(* collect_events names what can be sent.                                   *)
LEMMA EventsCollected ==
    ASSUME NEW v \in VNodes
    PROVE  CollectEvents(v) \in Seq(Heeds)
<1> DEFINE S == Names(v)
           names == SetToSeq(S)
           said0(n) == <<n, TRUE>> \in Heeded[v]
<1>1. IsFiniteSet(S) /\ S \subseteq String
    BY NamesFinite
<1> HIDE DEF S
<1>2. names \in Seq(S)
    BY <1>1, SetToSeqIs
<1> HIDE DEF names
<1> DEFINE n == Len(names)
<1>3. n \in Nat /\ DOMAIN names = 1 .. n /\ \A i \in 1 .. n : names[i] \in String
    BY <1>1, <1>2
<1>4. CollectEvents(v) = [i \in 1 .. n |-> EventSpec(names[i], said0(names[i]))]
    BY <1>3 DEF CollectEvents, names, S, Names
<1>5. \A x : said0(x) \in BOOLEAN
    OBVIOUS
<1> HIDE DEF said0
<1>6. \A x \in String : EventSpec(x, said0(x)) \in Heeds
    BY <1>5 DEF EventSpec, Heeds
<1> DEFINE P == Heeds
<1>7. \A i \in 1 .. n : EventSpec(names[i], said0(names[i])) \in P
    BY <1>3, <1>6
<1> HIDE DEF P, n
<1>8. [i \in 1 .. n |-> EventSpec(names[i], said0(names[i]))] \in Seq(P)
    BY <1>3, <1>7
<1> QED BY <1>4, <1>8 DEF P

(* The tails of the messages of a session, and of none.                     *)
LEMMA TailsSent ==
    /\ SentTail(NoTail)
    /\ \A s \in Sessions : SentTail(TailOf(s[1], Nothing)) /\ SentTail(TailOf(s[2], s[3]))
<1>1. 0 \in Number
    BY NumbersFit DEF Number
<1>2. ASSUME NEW S PROVE <<>> \in Seq(S) /\ Len(<<>>) = 0
    OBVIOUS
<1>3. SentTail(NoTail)
    BY <1>1, <1>2 DEF SentTail, NoTail
<1>4. ASSUME NEW tree \in VNodes, NEW what \in Request, Len(CollectEvents(tree)) \in Number,
             Len(what.cmds) \in Number, Len(what.subs) \in Number
      PROVE  SentTail(TailOf(tree, what))
    <2> DEFINE events == CollectEvents(tree)
    <2>1. events \in Seq(Heeds) /\ Len(events) \in Number
        BY <1>4, EventsCollected
    <2>2. what.cmds \in Seq(Cmd(Id)) /\ what.subs \in Seq(SubDelta(Id))
        BY DEF Request
    <2> HIDE DEF events
    <2>3. TailOf(tree, what) = [events |-> events, cmds |-> what.cmds, subs |-> what.subs]
        BY DEF TailOf, events
    <2> QED BY <1>4, <2>1, <2>2, <2>3 DEF SentTail
<1>5. Nothing \in Request /\ Len(Nothing.cmds) \in Number /\ Len(Nothing.subs) \in Number
    BY <1>1, <1>2 DEF Nothing, Request
<1>6. ASSUME NEW s \in Sessions
      PROVE  SentTail(TailOf(s[1], Nothing)) /\ SentTail(TailOf(s[2], s[3]))
    <2>1. s[1] \in VNodes /\ s[2] \in VNodes /\ s[3] \in Request
        BY TurnsFit
    <2>2. /\ Len(CollectEvents(s[1])) \in Number /\ Len(CollectEvents(s[2])) \in Number
          /\ Len(s[3].cmds) \in Number /\ Len(s[3].subs) \in Number
        BY TurnsFit
    <2> QED BY <1>4, <1>5, <2>1, <2>2
<1> QED BY <1>3, <1>6

-----------------------------------------------------------------------------
(* pathOf: the ways of n steps are those of one step less, and a step.      *)
LEMMA PathsAre ==
    ASSUME NEW d, NEW high \in Nat
    PROVE  \E f : f = [n \in 0 .. high |-> PathsAt(d, f, n)] /\ PathsOf(d, high) = UNION {f[n] : n \in 0 .. high}
<1> DEFINE env == [d |-> d]
           kind == "PathsOf"
<1>1. \A f, n : Unfolds(kind, env, f, n) = PathsAt(d, f, n)
    BY DEF Unfolds
<1>2. Chained(kind, env)
    <2> SUFFICES ASSUME NEW f, NEW g, NEW k \in Nat, k # 0 => f[k - 1] = g[k - 1]
                 PROVE  PathsAt(d, f, k) = PathsAt(d, g, k)
        BY <1>1 DEF Chained
    <2> QED BY DEF PathsAt
<1> HIDE DEF env, kind
<1>3. PICK F : F = [n \in 0 .. high |-> Unfolds(kind, env, F, n)]
    BY <1>2, ChainEnds
<1>4. F = [n \in 0 .. high |-> PathsAt(d, F, n)]
    BY <1>1, <1>3
<1> DEFINE f == CHOOSE g : g = [n \in 0 .. high |-> PathsAt(d, g, n)]
<1>5. f = [n \in 0 .. high |-> PathsAt(d, f, n)]
    BY <1>4
<1>6. PathsOf(d, high) = UNION {f[n] : n \in 0 .. high}
    BY DEF PathsOf, PathsAt
<1> HIDE DEF f
<1> QED BY <1>5, <1>6

(* They lead to a node.                                                     *)
LeadsTo(d, p, n) == p \in Seq(Nat) /\ HasNode(d, p) /\ Len(p) = n

(* No path of pathOf leads nowhere.                                         *)
LEMMA PathsLead ==
    ASSUME NEW d, NEW high \in Nat, NEW p \in PathsOf(d, high),
           \A q \in Seq(Nat) : HasNode(d, q) => DOMAIN NodeAt(d, q).kids \subseteq Nat
    PROVE  \E n \in 0 .. high : LeadsTo(d, p, n)
<1>1. PICK f : f = [n \in 0 .. high |-> PathsAt(d, f, n)] /\ PathsOf(d, high) = UNION {f[n] : n \in 0 .. high}
    BY PathsAre
<1>2. \A n \in 0 .. high : f[n] = PathsAt(d, f, n)
    BY <1>1
<1> DEFINE S == {n \in Nat : n <= high => \A q \in f[n] : LeadsTo(d, q, n)}
<1>3. 0 \in S
    <2>1. f[0] = {<<>>}
        <3>1. f[0] = PathsAt(d, f, 0)
            <4>1. 0 \in 0 .. high
                OBVIOUS
            <4> DEFINE z == 0
            <4> HIDE DEF z
            <4>2. z \in 0 .. high
                BY <4>1 DEF z
            <4>3. f[z] = PathsAt(d, f, z)
                BY <1>2, <4>2
            <4> QED BY <4>3 DEF z
        <3>2. PathsAt(d, f, 0) = {<<>>}
            BY DEF PathsAt
        <3> QED BY <3>1, <3>2
    <2> DEFINE root == <<>>
    <2>2. root \in Seq(Nat) /\ Len(root) = 0
        OBVIOUS
    <2>3. HasNode(d, root)
        BY <2>2 DEF HasNode
    <2>4. f[0] = {root}
        BY <2>1
    <2> HIDE DEF root
    <2>5. \A q \in f[0] : LeadsTo(d, q, 0)
        BY <2>2, <2>3, <2>4 DEF LeadsTo
    <2> QED BY <2>5
<1>4. ASSUME NEW n \in Nat, n \in S PROVE n + 1 \in S
    <2> SUFFICES ASSUME n + 1 <= high, NEW q \in f[n + 1] PROVE LeadsTo(d, q, n + 1)
        OBVIOUS
    <2> DEFINE m == n + 1
    <2>1. m \in 0 .. high /\ m # 0 /\ m - 1 = n /\ n <= high
        OBVIOUS
    <2>2. f[m] = PathsAt(d, f, m)
        BY <1>2, <2>1
    <2> HIDE DEF m
    <2>3. PICK p0 \in f[n] : \E i \in DOMAIN NodeAt(d, p0).kids : q = Append(p0, i)
        BY <2>1, <2>2 DEF PathsAt, m
    <2>4. PICK i \in DOMAIN NodeAt(d, p0).kids : q = Append(p0, i)
        BY <2>3
    <2>5. LeadsTo(d, p0, n)
        BY <1>4, <2>1, <2>3
    <2>6. p0 \in Seq(Nat) /\ HasNode(d, p0) /\ Len(p0) = n /\ i \in Nat
        BY <2>4, <2>5 DEF LeadsTo
    <2>7. HasNode(d, Append(p0, i))
        BY <2>4, <2>6, WithChild
    <2>8. Append(p0, i) \in Seq(Nat) /\ Len(Append(p0, i)) = n + 1
        BY <2>6
    <2> QED BY <2>4, <2>7, <2>8 DEF LeadsTo
<1>5. \A n \in Nat : n \in S
    <2> HIDE DEF S
    <2> QED BY <1>3, <1>4, NatSetInduction
<1>6. PICK n \in 0 .. high : p \in f[n]
    BY <1>1
<1>7. n \in Nat /\ n <= high
    OBVIOUS
<1> QED BY <1>5, <1>6, <1>7

(* The children of a snapshot are the snapshots of the children.            *)
LEMMA SnapshotKids ==
    ASSUME NEW y \in VNodes
    PROVE  /\ DOMAIN FromVNode[y].kids = DOMAIN y.kids
           /\ \A i \in DOMAIN y.kids : y.kids[i] \in VNodes /\ FromVNode[y].kids[i] = FromVNode[y.kids[i]]
<1> DEFINE n == Len(y.kids)
           kids == [i \in 1 .. n |-> FromVNode[y.kids[i]]]
<1>1. DOMAIN y.kids = 1 .. n /\ \A i \in DOMAIN y.kids : y.kids[i] \in VNodes
    BY TreeFacts
<1>2. FromVNode[y].kids = kids
    <2>1. FromVNode[y] = Snapshot(FromVNode, y)
        BY FromVNodeIs
    <2>2. Snapshot(FromVNode, y).kids = [i \in DOMAIN y.kids |-> FromVNode[y.kids[i]]]
        BY DEF Snapshot
    <2> HIDE DEF n
    <2>3. [i \in DOMAIN y.kids |-> FromVNode[y.kids[i]]] = kids
        BY <1>1
    <2> HIDE DEF kids
    <2> QED BY <2>1, <2>2, <2>3
<1> HIDE DEF n
<1>3. DOMAIN kids = 1 .. n /\ \A i \in 1 .. n : kids[i] = FromVNode[y.kids[i]]
    OBVIOUS
<1> HIDE DEF kids
<1> QED BY <1>1, <1>2, <1>3

(* The way in the tree that was rendered, and in what is on the screen.     *)
LEMMA WaysAgree ==
    ASSUME NEW v \in VNodes, NEW p \in Seq(Nat), HasNode(FromVNode[v], p)
    PROVE  /\ HasNode(v, p)
           /\ \A k \in 0 .. Len(p) : Way(v, p)[k] \in VNodes /\ FromVNode[Way(v, p)[k]] = Way(FromVNode[v], p)[k]
<1> DEFINE d == FromVNode[v]
           w == Way(v, p)
           x == Way(d, p)
           N == Len(p)
           Fine(k) == w[k] \in VNodes /\ FromVNode[w[k]] = x[k]
           S == {k \in Nat : k <= N => Fine(k)}
<1>1. N \in Nat
    OBVIOUS
<1>2. w[0] = v /\ \A k \in 1 .. N : w[k] = w[k - 1].kids[p[k]]
    BY WayIs
<1>3. x[0] = d /\ \A k \in 1 .. N : x[k] = x[k - 1].kids[p[k]]
    BY WayIs
<1>4. \A k \in 1 .. N : p[k] \in DOMAIN x[k - 1].kids
    BY DEF HasNode
<1> HIDE DEF w, x
<1>5. ASSUME NEW y \in VNodes
      PROVE  /\ DOMAIN FromVNode[y].kids = DOMAIN y.kids
             /\ \A i \in DOMAIN y.kids : y.kids[i] \in VNodes /\ FromVNode[y].kids[i] = FromVNode[y.kids[i]]
    BY SnapshotKids
<1> HIDE DEF N
<1>6. 0 \in S
    BY <1>2, <1>3
<1>s. ASSUME NEW k \in 1 .. N, Fine(k - 1) PROVE p[k] \in DOMAIN w[k - 1].kids /\ Fine(k)
    <2>1. w[k - 1] \in VNodes /\ FromVNode[w[k - 1]] = x[k - 1]
        BY <1>s
    <2> DEFINE y == w[k - 1]
    <2>2. p[k] \in DOMAIN y.kids
        BY <1>4, <1>5, <2>1
    <2>3. w[k] = y.kids[p[k]] /\ x[k] = FromVNode[y].kids[p[k]]
        BY <1>2, <1>3, <2>1
    <2>4. y.kids[p[k]] \in VNodes /\ FromVNode[y].kids[p[k]] = FromVNode[y.kids[p[k]]]
        BY <1>5, <2>1, <2>2
    <2> QED BY <2>2, <2>3, <2>4
<1> HIDE DEF Fine
<1>7. ASSUME NEW k \in Nat, k \in S PROVE k + 1 \in S
    <2> SUFFICES ASSUME k + 1 <= N PROVE Fine(k + 1)
        OBVIOUS
    <2> DEFINE m == k + 1
    <2>1. m \in 1 .. N /\ m - 1 = k /\ k <= N
        BY <1>1
    <2>2. Fine(k)
        BY <1>7, <2>1
    <2> HIDE DEF m
    <2>3. Fine(m)
        BY <1>s, <2>1, <2>2
    <2> QED BY <2>3 DEF m
<1>8. \A k \in Nat : k \in S
    <2> HIDE DEF S
    <2> QED BY <1>6, <1>7, NatSetInduction
<1>9. \A k \in 0 .. N : Fine(k)
    BY <1>1, <1>8
<1>10. ASSUME NEW k \in 1 .. N PROVE p[k] \in DOMAIN w[k - 1].kids
    <2>1. k - 1 \in 0 .. N
        BY <1>1
    <2>2. Fine(k - 1)
        BY <1>9, <2>1
    <2> QED BY <1>s, <2>2
<1>11. HasNode(v, p)
    BY <1>10 DEF HasNode, w, N
<1> QED BY <1>9, <1>11 DEF Fine, w, x, N

-----------------------------------------------------------------------------
(* Every way on the screen can be sent, and leads to the node it led to     *)
(* when the tree was rendered.                                              *)
LEMMA PathsAreSent ==
    ASSUME NEW v \in VNodes, NEW p \in PathsOf(FromVNode[v], Height[v])
    PROVE  /\ p \in Seq(Nat) /\ p \in EventPath /\ HasNode(v, p)
           /\ \A i \in DOMAIN p : p[i] - 1 <= MaxU32
<1> DEFINE d == FromVNode[v]
           high == Height[v]
<1>1. high \in Nat /\ high \in Number
    BY TreesFit, TreeFacts
<1>2. ASSUME NEW q \in Seq(Nat), HasNode(d, q) PROVE DOMAIN NodeAt(d, q).kids \subseteq Nat
    <2> DEFINE n == Len(q)
               y == Way(v, q)[n]
    <2>1. n \in 0 .. Len(q)
        OBVIOUS
    <2>2. y \in VNodes /\ FromVNode[y] = Way(d, q)[n]
        BY <1>2, <2>1, WaysAgree
    <2>3. NodeAt(d, q) = FromVNode[y]
        BY <2>2 DEF NodeAt
    <2> HIDE DEF y
    <2>4. DOMAIN FromVNode[y].kids = 1 .. Len(y.kids)
        BY <2>2, SnapshotKids, TreeFacts
    <2> QED BY <2>3, <2>4
<1>3. PICK n \in 0 .. high : LeadsTo(d, p, n)
    <2> HIDE DEF d, high
    <2>1. p \in PathsOf(d, high)
        BY DEF d, high
    <2> QED BY <1>1, <1>2, <2>1, PathsLead
<1>4. p \in Seq(Nat) /\ HasNode(d, p) /\ Len(p) = n
    BY <1>3 DEF LeadsTo
<1>5. HasNode(v, p) /\ \A k \in 0 .. Len(p) : Way(v, p)[k] \in VNodes
    BY <1>4, WaysAgree
<1>6. MaxU32 \in Number /\ MaxNumber \in Nat /\ \A y \in VNodes : Len(y.kids) <= MaxU32
    BY TurnsFit, NumbersFit
<1>7. ASSUME NEW k \in 1 .. n PROVE p[k] \in Nat \ {0} /\ p[k] - 1 \in Number /\ p[k] - 1 <= MaxU32
    <2>1. k - 1 \in 0 .. Len(p) /\ k \in 1 .. Len(p)
        BY <1>4
    <2> DEFINE y == Way(v, p)[k - 1]
    <2>2. p[k] \in DOMAIN y.kids /\ y \in VNodes
        BY <1>5, <2>1 DEF HasNode
    <2> HIDE DEF y
    <2>3. p[k] \in 1 .. Len(y.kids) /\ Len(y.kids) \in Nat /\ Len(y.kids) <= MaxU32
        BY <1>6, <2>2, TreeFacts
    <2> DEFINE x == p[k]
               m == Len(y.kids)
    <2> HIDE DEF x, m
    <2>4. x \in 1 .. m /\ m \in Nat /\ m <= MaxU32 /\ MaxU32 \in Nat /\ MaxU32 <= MaxNumber
        BY <1>6, <2>3 DEF x, m, Number
    <2>5. x \in Nat \ {0} /\ x - 1 \in 0 .. MaxNumber /\ x - 1 <= MaxU32
        BY <1>6, <2>4
    <2> QED BY <2>5 DEF x, Number
<1>8. n \in Nat /\ n \in Number
    <2>1. n \in 0 .. high /\ high \in Nat /\ high <= MaxNumber
        BY <1>1, <1>6 DEF Number
    <2> HIDE DEF high
    <2> QED BY <1>6, <2>1 DEF Number
<1>9. DOMAIN p = 1 .. n
    BY <1>4
<1>10. p \in Seq(Nat \ {0})
    <2> DEFINE P == Nat \ {0}
    <2>1. p = [k \in 1 .. n |-> p[k]]
        BY <1>4
    <2>2. \A k \in 1 .. n : p[k] \in P
        BY <1>7
    <2> HIDE DEF P
    <2>3. [k \in 1 .. n |-> p[k]] \in Seq(P)
        BY <1>8, <2>2
    <2> QED BY <2>1, <2>3 DEF P
<1>11. p \in EventPath
    BY <1>4, <1>7, <1>8, <1>9, <1>10 DEF EventPath
<1> QED BY <1>4, <1>5, <1>7, <1>9, <1>11

(* find_listener, on a way that leads somewhere.                            *)
Finding(f, root, path, event) ==
    \A k \in 0 .. Len(path) :
        f[k] = ListenerAt(Way(root, path)[k], event, IF k = 0 THEN {} ELSE f[k - 1])

(* find_listener looks at each node on the way, the root first.             *)
LEMMA FindIs ==
    ASSUME NEW root, NEW path \in Seq(Nat), HasNode(root, path), NEW event
    PROVE  \E f : Finding(f, root, path, event) /\ FindListener(root, path, event) = f[Len(path)]
<1> DEFINE env == [root |-> root, path |-> path, event |-> event]
           kind == "FindListener"
           N == Len(path)
           Solves(f) == f = [k \in 0 .. N |-> FindAt(root, path, event, f, k)]
           w == CHOOSE f : Solves(f)
<1>1. \A f, k : Unfolds(kind, env, f, k) = FindAt(root, path, event, f, k)
    BY DEF Unfolds
<1>2. FindListener(root, path, event) = w[N]
    BY DEF FindListener, FindAt
<1>3. Chained(kind, env)
    <2> SUFFICES ASSUME NEW f, NEW g, NEW k \in Nat, k # 0 => f[k - 1] = g[k - 1]
                 PROVE  FindAt(root, path, event, f, k) = FindAt(root, path, event, g, k)
        BY <1>1 DEF Chained
    <2> QED BY DEF FindAt
<1> HIDE DEF env, kind
<1>4. Solves(w)
    <2>1. N \in Nat
        OBVIOUS
    <2>2. PICK f : f = [k \in 0 .. N |-> Unfolds(kind, env, f, k)]
        BY <1>3, <2>1, ChainEnds
    <2>3. Solves(f)
        BY <1>1, <2>2
    <2> HIDE DEF Solves
    <2> QED BY <2>3
<1> HIDE DEF w
<1>5. \A k \in 0 .. N : w[k] = FindAt(root, path, event, w, k)
    BY <1>4
<1>6. ASSUME NEW k \in 0 .. N
      PROVE  w[k] = ListenerAt(Way(root, path)[k], event, IF k = 0 THEN {} ELSE w[k - 1])
    <2>1. HasNode(root, SubSeq(path, 1, k)) /\ NodeAt(root, SubSeq(path, 1, k)) = Way(root, path)[k]
        BY OnTheWay
    <2> QED BY <1>5, <2>1 DEF FindAt
<1>7. Finding(w, root, path, event)
    BY <1>6 DEF Finding
<1> HIDE DEF N
<1> QED BY <1>2, <1>7 DEF N

(* It finds the listener furthest down.                                     *)
Deepest(w, event, N) == {n \in 0 .. N : event \in DOMAIN w[n].on}

(* So a listener further down is preferred to one further up, and there is  *)
(* none if nothing on the way listens.                                      *)
LEMMA FindsDeepest ==
    ASSUME NEW root, NEW path \in Seq(Nat), HasNode(root, path), NEW event
    PROVE  LET w == Way(root, path)
               S == Deepest(w, event, Len(path))
           IN  FindListener(root, path, event) = IF S = {} THEN {} ELSE {w[Max(S)].on[event]}
<1> DEFINE w == Way(root, path)
           N == Len(path)
           T(k) == Deepest(w, event, k)
           Found(k) == IF T(k) = {} THEN {} ELSE {w[Max(T(k))].on[event]}
<1>1. PICK f : Finding(f, root, path, event) /\ FindListener(root, path, event) = f[N]
    BY FindIs
<1>2. \A k \in 0 .. N : f[k] = ListenerAt(w[k], event, IF k = 0 THEN {} ELSE f[k - 1])
    BY <1>1 DEF Finding
<1>3. N \in Nat
    OBVIOUS
<1> HIDE DEF w, N
<1>4. ASSUME NEW k \in Nat, event \in DOMAIN w[k].on PROVE Found(k) = {w[k].on[event]}
    <2> DEFINE A == T(k)
    <2>1. k \in A /\ A \in SUBSET (0 .. k) /\ A # {}
        BY <1>4 DEF Deepest
    <2> HIDE DEF A
    <2>2. Max(A) \in A /\ Max(A) >= k
        BY <2>1, MaxIsIn
    <2>3. Max(A) \in 0 .. k
        BY <2>1, <2>2
    <2>4. Max(A) = k
        BY <2>2, <2>3
    <2> QED BY <2>1, <2>4 DEF A
<1>5. ASSUME NEW k \in Nat, k # 0, event \notin DOMAIN w[k].on PROVE T(k) = T(k - 1)
    <2>1. k - 1 \in Nat /\ \A n : n \in 0 .. k <=> n \in 0 .. k - 1 \/ n = k
        BY <1>5
    <2> QED BY <1>5, <2>1 DEF Deepest
<1>6. event \notin DOMAIN w[0].on => T(0) = {}
    <2>1. \A n \in 0 .. 0 : n = 0
        OBVIOUS
    <2> QED BY <2>1 DEF Deepest
<1>7. ASSUME NEW k \in Nat, event \in DOMAIN w[k].on, k <= N PROVE f[k] = Found(k)
    <2>1. k \in 0 .. N
        BY <1>3, <1>7
    <2>2. f[k] = {w[k].on[event]}
        BY <1>2, <1>7, <2>1 DEF ListenerAt
    <2> HIDE DEF Found
    <2> QED BY <1>4, <1>7, <2>2
<1> DEFINE S == {k \in Nat : k <= N => f[k] = Found(k)}
<1>8. 0 \in S
    <2>1. CASE event \in DOMAIN w[0].on
        <3> DEFINE z == 0
        <3>1. z \in Nat /\ z <= N /\ event \in DOMAIN w[z].on
            BY <1>3, <2>1
        <3> HIDE DEF z, Found
        <3>2. f[z] = Found(z)
            BY <1>7, <3>1
        <3> QED BY <3>2 DEF z
    <2>2. CASE event \notin DOMAIN w[0].on
        <3>1. Found(0) = {}
            BY <1>6, <2>2
        <3>2. 0 \in 0 .. N
            BY <1>3
        <3>3. f[0] = {}
            BY <1>2, <2>2, <3>2 DEF ListenerAt
        <3> HIDE DEF Found
        <3> QED BY <3>1, <3>3
    <2> QED BY <2>1, <2>2
<1>9. ASSUME NEW k \in Nat, k \in S PROVE k + 1 \in S
    <2> SUFFICES ASSUME k + 1 <= N PROVE f[k + 1] = Found(k + 1)
        OBVIOUS
    <2> DEFINE m == k + 1
    <2>1. m \in Nat /\ m # 0 /\ m - 1 = k /\ m \in 0 .. N /\ m <= N /\ k <= N
        BY <1>3
    <2>2. f[k] = Found(k)
        BY <1>9, <2>1
    <2> HIDE DEF m
    <2>3. CASE event \in DOMAIN w[m].on
        <3> HIDE DEF Found
        <3>1. f[m] = Found(m)
            BY <1>7, <2>1, <2>3
        <3> QED BY <3>1 DEF m
    <2>4. CASE event \notin DOMAIN w[m].on
        <3>1. T(m) = T(k)
            BY <1>5, <2>1, <2>4
        <3>2. f[m] = f[k]
            BY <1>2, <2>1, <2>4 DEF ListenerAt
        <3>3. Found(m) = Found(k)
            BY <3>1
        <3> HIDE DEF Found
        <3> QED BY <2>2, <3>2, <3>3 DEF m
    <2> QED BY <2>3, <2>4
<1>10. \A k \in Nat : k \in S
    <2> HIDE DEF S
    <2> QED BY <1>8, <1>9, NatSetInduction
<1>11. f[N] = Found(N)
    <2> HIDE DEF Found
    <2>1. N <= N
        BY <1>3
    <2> QED BY <1>3, <1>10, <2>1
<1> DEFINE out == FindListener(root, path, event)
           A == Deepest(w, event, N)
<1>12. out = IF A = {} THEN {} ELSE {w[Max(A)].on[event]}
    <2> HIDE DEF out
    <2>1. Found(N) = IF A = {} THEN {} ELSE {w[Max(A)].on[event]}
        OBVIOUS
    <2> HIDE DEF Found, A
    <2>2. out = Found(N)
        BY <1>1, <1>11 DEF out
    <2> QED BY <2>1, <2>2
<1> HIDE DEF out, A
<1> QED BY <1>12 DEF out, A, w, N

-----------------------------------------------------------------------------
(* What an event brings along can be sent.                                  *)
LEMMA PayloadsAreSent == Payloads \subseteq EventPayload
<1> SUFFICES ASSUME NEW payload \in Payloads PROVE payload \in EventPayload
    OBVIOUS
<1> DEFINE slots == DOMAIN payload
           U == DOMAIN Utf8 \cup BOOLEAN
<1>1. /\ payload = [slot \in slots |-> payload[slot]]
      /\ slots \subseteq {"value", "checked", "key"}
      /\ \A slot \in slots : payload[slot] \in IF slot = "checked" THEN BOOLEAN ELSE String
    BY TurnsFit
<1>2. \A slot \in slots : payload[slot] \in IF slot = "checked" THEN BOOLEAN ELSE DOMAIN Utf8
    BY <1>1 DEF String
<1>3. \A slot \in slots : payload[slot] \in U
    BY <1>2
<1>4. payload \in [slots -> U]
    <2> HIDE DEF slots, U
    <2> QED BY <1>1, <1>3
<1>5. payload \in UNION {[ss -> U] : ss \in SUBSET {"value", "checked", "key"}}
    <2> HIDE DEF slots, U
    <2> QED BY <1>1, <1>4
<1> QED BY <1>2, <1>5 DEF EventPayload

(* What the page listens to are strings.                                    *)
LEMMA EnsuredSent ==
    ASSUME old \in VNodes, new \in VNodes
    PROVE  Ensured \subseteq String
<1>1. Names(old) \subseteq String /\ Names(new) \subseteq String
    BY NamesFinite
<1>2. \A pair \in Heeded[old] : pair[1] \in Names(old)
    BY DEF Names
<1>3. \A pair \in Heeded[new] : pair[1] \in Names(new)
    BY DEF Names
<1> QED BY <1>1, <1>2, <1>3 DEF Ensured

(* The answer to an event: h is the message of the listener that is         *)
(* nearest in v.                                                            *)
Answers(v, path, name, payload, h) ==
    LET Around(n) == NodeAt(v, SubSeq(path, 1, n))
        listening == {n \in 0 .. Len(path) : name \in DOMAIN Around(n).on}
    IN  IF Len(path) > MaxPath THEN h.kind = "closed"
        ELSE h.kind = "dispatch" /\ h.msgs =
                IF listening = {} THEN {}
                ELSE {Msg(Around(Max(listening)).on[name], payload)}

(* The messages of an event in a tree.                                      *)
Told(v, path, name, payload) == {Msg(l, payload) : l \in FindListener(v, path, name)}

(* dispatch, decode and on_message: an event is resolved as the tree that   *)
(* was rendered says, and only one too deep is refused.                     *)
LEMMA EventIsAnswered ==
    ASSUME new \in VNodes, NEW path \in PathsOf(FromVNode[new], Height[new]),
           NEW name \in String, NEW payload \in Payloads,
           NEW frame, frame = DispatchFrame(path, name, payload)
    PROVE  Answers(new, path, name, payload, Heard(Decode(FrameBytes(frame))))
<1>1. path \in EventPath /\ HasNode(new, path) /\ \A i \in DOMAIN path : path[i] - 1 <= MaxU32
    BY PathsAreSent
<1>2. payload \in EventPayload /\ name \in DOMAIN Utf8
    BY PayloadsAreSent DEF String
<1>s. path \in Seq(Nat)
    BY PathsAreSent
<1>3. path \in Seq(Nat) /\ Len(path) \in Nat /\ DOMAIN path = 1 .. Len(path)
      /\ \A i \in DOMAIN path : path[i] \in Nat
    BY <1>s
<1>n. MaxU32 \in Nat
    <2>1. MaxU32 \in Number
        BY TurnsFit
    <2> QED BY <2>1, NumbersFit DEF Number
<1>4. ~ \E i \in DOMAIN path : path[i] - 1 > MaxU32
    BY <1>1, <1>3, <1>n
<1>5. Decode(FrameBytes(frame)) = IF Len(path) > MaxPath THEN Malformed ELSE frame
    <2>1. Decode(FrameBytes(frame))
            = IF Len(path) > MaxPath \/ \E i \in DOMAIN path : path[i] - 1 > MaxU32 THEN Malformed ELSE frame
        BY <1>1, <1>2, FramesArrive
    <2> QED BY <1>4, <2>1
<1>6. frame.path = path /\ frame.name = name /\ frame.payload = payload /\ frame.kind = "dispatch"
    BY DEF DispatchFrame
<1>7. CASE Len(path) > MaxPath
    <2>1. Heard(Malformed).kind = "closed"
        BY DEF Heard, Malformed
    <2>2. Decode(FrameBytes(frame)) = Malformed
        BY <1>5, <1>7
    <2> QED BY <1>7, <2>1, <2>2 DEF Answers
<1>8. CASE ~ (Len(path) > MaxPath)
    <2> DEFINE w == Way(new, path)
               S == Deepest(w, name, Len(path))
               Around(n) == NodeAt(new, SubSeq(path, 1, n))
               listening == {n \in 0 .. Len(path) : name \in DOMAIN Around(n).on}
               found == FindListener(new, path, name)
               msgs == {Msg(l, payload) : l \in found}
    <2>1. \A n \in 0 .. Len(path) : Around(n) = w[n]
        BY <1>1, <1>3, OnTheWay
    <2>2. listening = S
        BY <2>1 DEF Deepest
    <2>3. found = IF S = {} THEN {} ELSE {w[Max(S)].on[name]}
        BY <1>1, <1>3, FindsDeepest
    <2>4. S # {} => Max(S) \in 0 .. Len(path)
        <3> DEFINE N == Len(path)
        <3>1. S \in SUBSET (0 .. N) /\ N \in Nat
            BY <1>3 DEF Deepest
        <3> HIDE DEF S, N
        <3>2. S # {} => Max(S) \in S
            BY <3>1, MaxIsIn
        <3> QED BY <3>1, <3>2 DEF N
    <2>5. S # {} => Around(Max(S)) = w[Max(S)]
        <3> HIDE DEF S, w, Around
        <3> QED BY <2>1, <2>4
    <2>6. msgs = IF S = {} THEN {} ELSE {Msg(Around(Max(S)).on[name], payload)}
        <3> HIDE DEF S, w, Around, found
        <3> QED BY <2>3, <2>5
    <2>7. Decode(FrameBytes(frame)) = frame
        BY <1>5, <1>8
    <2>8. Heard(frame).kind = "dispatch" /\ Heard(frame).msgs = msgs
        <3>1. Heard(frame)
                = [kind |-> "dispatch", msgs |-> Told(new, frame.path, frame.name, frame.payload)]
            BY <1>6 DEF Heard, Told
        <3>2. msgs = Told(new, path, name, payload)
            BY DEF Told
        <3> HIDE DEF msgs
        <3> QED BY <1>6, <3>1, <3>2
    <2>9. Heard(frame).msgs = IF listening = {} THEN {} ELSE {Msg(Around(Max(listening)).on[name], payload)}
        <3> HIDE DEF S, Around, msgs, listening
        <3> QED BY <2>2, <2>6, <2>8
    <2> DEFINE h == Heard(frame)
    <2>10. h.kind = "dispatch" /\ h.msgs = IF listening = {} THEN {} ELSE {Msg(Around(Max(listening)).on[name], payload)}
        BY <2>8, <2>9
    <2> HIDE DEF h
    <2>11. Answers(new, path, name, payload, h)
        BY <1>8, <2>10 DEF Answers
    <2> QED BY <2>7, <2>11 DEF h
<1> QED BY <1>7, <1>8

-----------------------------------------------------------------------------
(* What every step of a live turn leaves true: until the update is there    *)
(* the screen shows the old tree, the patches are those that were made, and *)
(* the messages are those of a session.                                     *)
StageInv ==
    /\ stage \in {"rendered", "mounted", "received", "said"}
    /\ old \in VNodes /\ new \in VNodes
    /\ SentTail(page)
    /\ stage \in {"rendered", "mounted"} =>
          /\ <<old, new, tail>> \in Sessions
          /\ todo = Diff[<<old, new, <<>>>>]
    /\ stage = "rendered" => dom = FromVNode[old] /\ was = [i \in DOMAIN old.kids |-> i]

(* The tails of a session can be sent.                                      *)
LEMMA TailsAre ==
    ASSUME <<old, new, tail>> \in Sessions
    PROVE  SentTail(TailOf(old, Nothing)) /\ SentTail(TailOf(new, tail)) /\ MaxU32 \in Number
<1> DEFINE s == <<old, new, tail>>
<1>1. s[1] = old /\ s[2] = new /\ s[3] = tail /\ s \in Sessions
    OBVIOUS
<1> HIDE DEF s
<1>2. SentTail(TailOf(s[1], Nothing)) /\ SentTail(TailOf(s[2], s[3]))
    BY <1>1, TailsSent
<1>3. MaxU32 \in Number
    BY TurnsFit
<1> QED BY <1>1, <1>2, <1>3

(* decodeInit makes of the first message what the program rendered.         *)
LEMMA MountIsExact ==
    ASSUME StageInv, stage = "rendered"
    PROVE  Message(Decoded("init", SentRender)) = [root |-> FromVNode[old], tail |-> TailOf(old, Nothing)]
<1> DEFINE t == TailOf(old, Nothing)
           out == [root |-> FromVNode[old], tail |-> t]
<1>1. old \in VNodes /\ SentTail(t) /\ MaxU32 \in Number
    BY TailsAre DEF StageInv
<1> HIDE DEF t
<1>2. Decoded("init", InitBytes(FromVNode[old], t)) = <<out>>
    BY <1>1, RenderDecodes
<1>3. SentRender = InitBytes(FromVNode[old], t)
    BY DEF SentRender, t
<1> HIDE DEF out
<1>4. Message(<<out>>) = out
    BY DEF Message
<1>5. Message(Decoded("init", SentRender)) = out
    BY <1>2, <1>3, <1>4
<1> QED BY <1>5 DEF out, t

(* decodeUpdate makes of the second message the patches of the diff.        *)
LEMMA ReceiveIsExact ==
    ASSUME StageInv, stage = "mounted"
    PROVE  Message(Decoded("update", SentUpdate)) = [patches |-> todo, tail |-> TailOf(new, tail)]
<1> DEFINE t == TailOf(new, tail)
           out == [patches |-> todo, tail |-> t]
           s == <<old, new, tail>>
<1>1. s \in Sessions /\ todo = Diff[<<old, new, <<>>>>] /\ old \in VNodes /\ new \in VNodes
    BY DEF StageInv
<1>2. SentTail(t) /\ MaxU32 \in Number
    BY <1>1, TailsAre
<1>3. todo \in Seq(SentPatches)
    BY <1>1, UpdateSent
<1>4. Len(todo) \in Number
    <2>1. s[1] = old /\ s[2] = new
        OBVIOUS
    <2> HIDE DEF s
    <2>2. Len(Diff[<<s[1], s[2], <<>>>>]) \in Number
        BY <1>1, TurnsFit
    <2> QED BY <1>1, <2>1, <2>2
<1> HIDE DEF t
<1>5. Decoded("update", UpdateBytes(todo, t)) = <<out>>
    BY <1>2, <1>3, <1>4, UpdateDecodes
<1>6. SentUpdate = UpdateBytes(todo, t)
    BY DEF SentUpdate, t
<1> HIDE DEF out
<1>7. Message(<<out>>) = out
    BY DEF Message
<1>8. Message(Decoded("update", SentUpdate)) = out
    BY <1>5, <1>6, <1>7
<1> QED BY <1>8 DEF out, t

(* Mounting leaves the screen as it is, which shows the tree already.       *)
LEMMA MountStutters ==
    ASSUME StageInv, Mount
    PROVE  /\ UNCHANGED diffVars
           /\ dom' = FromVNode[old] /\ page' = TailOf(old, Nothing) /\ stage = "rendered" /\ stage' = "mounted"
           /\ tail' = tail
<1> DEFINE message == Message(Decoded("init", SentRender))
<1>1. stage = "rendered" /\ Mounted(message)
    BY DEF Mount
<1>2. message.root = FromVNode[old] /\ message.tail = TailOf(old, Nothing)
    BY <1>1, MountIsExact
<1> HIDE DEF message
<1>3. /\ dom' = FromVNode[old] /\ page' = TailOf(old, Nothing) /\ stage' = "mounted" /\ tail' = tail
      /\ was' = [i \in DOMAIN FromVNode[old].kids |-> i]
      /\ UNCHANGED <<old, new, todo>>
    BY <1>1, <1>2 DEF Mounted
<1>4. dom = FromVNode[old] /\ was = [i \in DOMAIN old.kids |-> i] /\ old \in VNodes
    BY <1>1 DEF StageInv
<1>5. DOMAIN FromVNode[old].kids = DOMAIN old.kids
    BY <1>4, SnapshotKids
<1>6. was' = was
    BY <1>3, <1>4, <1>5
<1> QED BY <1>1, <1>3, <1>4, <1>6 DEF diffVars

(* Receiving the update leaves the trees and the patches as they are.       *)
LEMMA ReceiveStutters ==
    ASSUME StageInv, Receive
    PROVE  /\ UNCHANGED diffVars
           /\ page' = TailOf(new, tail) /\ stage = "mounted" /\ stage' = "received" /\ tail' = tail
<1> DEFINE message == Message(Decoded("update", SentUpdate))
<1>1. stage = "mounted" /\ Received(message)
    BY DEF Receive
<1>2. message.patches = todo /\ message.tail = TailOf(new, tail)
    BY <1>1, ReceiveIsExact
<1> HIDE DEF message
<1>3. /\ todo' = todo /\ page' = TailOf(new, tail) /\ stage' = "received" /\ tail' = tail
      /\ UNCHANGED <<old, new, dom, was>>
    BY <1>1, <1>2 DEF Received
<1> QED BY <1>1, <1>3 DEF diffVars

(* What the page says changes neither the trees nor what it knows.          *)
LEMMA SayStutters ==
    ASSUME NEW frame, Say(frame)
    PROVE  /\ UNCHANGED diffVars /\ UNCHANGED <<tail, page>>
           /\ stage = "received" /\ todo = <<>> /\ stage' = "said"
           /\ said' = frame /\ heard' = Heard(Decode(FrameBytes(frame)))
BY DEF Say, diffVars

(* An event, a completion and a tick each send one frame.                   *)
LEMMA SaysFrame ==
    ASSUME Fire \/ Complete \/ Tick
    PROVE  \E frame : Say(frame)
BY DEF Fire, Complete, Tick

(* Every step of a live turn keeps that, and is a step of a turn or none.   *)
LEMMA StageInvHolds == LiveTurnSpec => []StageInv /\ AnyTurnSpec
<1>1. LiveTurnInit => StageInv /\ AnyTurnInit
    <2>1. ASSUME LiveTurnInit PROVE StageInv /\ AnyTurnInit
        <3>1. SentTail(page)
            BY <2>1, TailsSent DEF LiveTurnInit
        <3>2. CASE TreeDiffInit /\ tail = Nothing /\ stage = "received"
            <4>1. PICK turn \in Turns : Begin(turn[1], turn[2])
                BY <3>2 DEF TreeDiffInit
            <4>2. turn[1] \in VNodes /\ turn[2] \in VNodes
                BY TreeAssumption
            <4>3. old = turn[1] /\ new = turn[2]
                BY <4>1 DEF Begin
            <4>4. StageInv
                BY <3>1, <3>2, <4>2, <4>3 DEF StageInv
            <4> QED BY <4>1, <4>2, <4>4 DEF AnyTurnInit
        <3>3. ASSUME NEW s \in Sessions, Begin(s[1], s[2]), tail = s[3], stage = "rendered"
              PROVE  StageInv /\ AnyTurnInit
            <4>1. s[1] \in VNodes /\ s[2] \in VNodes /\ s = <<s[1], s[2], s[3]>>
                <5> DEFINE R == Request
                <5>1. s \in VNodes \X VNodes \X R
                    BY TurnsFit
                <5> HIDE DEF R
                <5> QED BY <5>1
            <4>2. /\ old = s[1] /\ new = s[2] /\ dom = FromVNode[old] /\ was = [i \in DOMAIN old.kids |-> i]
                  /\ todo = Diff[<<old, new, <<>>>>]
                BY <3>3 DEF Begin
            <4>3. <<old, new, tail>> \in Sessions
                BY <3>3, <4>1, <4>2
            <4>4. StageInv
                BY <3>1, <3>3, <4>1, <4>2, <4>3 DEF StageInv
            <4> QED BY <3>3, <4>1, <4>4 DEF AnyTurnInit
        <3> QED BY <2>1, <3>2, <3>3 DEF LiveTurnInit
    <2> QED BY <2>1
<1>2. StageInv /\ [LiveTurnNext]_turnVars => StageInv' /\ [Apply]_diffVars
    <2> SUFFICES ASSUME StageInv, [LiveTurnNext]_turnVars PROVE StageInv' /\ [Apply]_diffVars
        OBVIOUS
    <2>1. CASE Mount
        <3>1. /\ UNCHANGED diffVars /\ page' = TailOf(old, Nothing) /\ stage = "rendered" /\ stage' = "mounted"
              /\ tail' = tail
            BY <2>1, MountStutters
        <3>2. /\ old \in VNodes /\ new \in VNodes /\ <<old, new, tail>> \in Sessions
              /\ todo = Diff[<<old, new, <<>>>>]
            BY <3>1 DEF StageInv
        <3>3. old' = old /\ new' = new /\ todo' = todo
            BY <3>1 DEF diffVars
        <3>4. SentTail(page')
            BY <3>1, <3>2, TailsAre
        <3> QED BY <3>1, <3>2, <3>3, <3>4 DEF StageInv
    <2>2. CASE Receive
        <3>1. /\ UNCHANGED diffVars /\ page' = TailOf(new, tail) /\ stage = "mounted" /\ stage' = "received"
            BY <2>2, ReceiveStutters
        <3>2. old \in VNodes /\ new \in VNodes /\ <<old, new, tail>> \in Sessions
            BY <3>1 DEF StageInv
        <3>3. old' = old /\ new' = new
            BY <3>1 DEF diffVars
        <3>4. SentTail(page')
            BY <3>1, <3>2, TailsAre
        <3> QED BY <3>1, <3>2, <3>3, <3>4 DEF StageInv
    <2>3. CASE ApplyNext
        BY <2>3 DEF ApplyNext, Apply, StageInv
    <2>4. CASE Fire \/ Complete \/ Tick
        <3>1. PICK frame : Say(frame)
            BY <2>4, SaysFrame
        <3>2. UNCHANGED diffVars /\ UNCHANGED <<tail, page>> /\ stage' = "said"
            BY <3>1, SayStutters
        <3> QED BY <3>2 DEF StageInv, diffVars
    <2>5. CASE UNCHANGED turnVars
        BY <2>5 DEF turnVars, diffVars, StageInv
    <2> QED BY <2>1, <2>2, <2>3, <2>4, <2>5 DEF LiveTurnNext
<1> QED BY <1>1, <1>2, PTL DEF LiveTurnSpec, AnyTurnSpec

(* A live turn implements the turn of diff and apply: between the program   *)
(* and the screen, the socket adds no step, drops none and changes none.    *)
THEOREM LiveTurnIsATurn == LiveTurnSpec => AnyTurnSpec
BY StageInvHolds, PTL

-----------------------------------------------------------------------------
(* A completion and a tick are heard as they were said.                     *)
LEMMA CompletionIsHeard ==
    ASSUME NEW id \in Id, NEW ok \in BOOLEAN, NEW status \in 0 .. MaxU16, NEW body \in String,
           NEW frame, frame = ResolveFrame(id, ok, status, body)
    PROVE  frame.kind = "resolve" /\ Heard(Decode(FrameBytes(frame))) = frame
<1>1. MaxU32 \in Number /\ MaxU16 \in Number
    BY TurnsFit
<1>2. /\ MaxNumber \in Nat /\ MaxU32 \in Nat /\ MaxU16 \in Nat
      /\ MaxU32 <= MaxNumber /\ MaxU16 <= MaxNumber
    BY <1>1, NumbersFit DEF Number
<1>3. id \in Number /\ id <= MaxU32 /\ status \in Number /\ status <= MaxU16 /\ body \in DOMAIN Utf8
    BY <1>2 DEF Id, Number, String
<1>4. Decode(FrameBytes(frame)) = frame
    BY <1>3, FramesArrive
<1>5. frame.kind = "resolve"
    BY DEF ResolveFrame
<1>6. Heard(frame) = frame
    BY <1>5 DEF Heard
<1> QED BY <1>4, <1>5, <1>6

(* A tick is heard with the id of its subscription, and the time.           *)
LEMMA TickIsHeard ==
    ASSUME NEW id \in Id, NEW frame, frame = NotifyFrame(id, Now)
    PROVE  frame.kind = "notify" /\ Heard(Decode(FrameBytes(frame))) = frame
<1>1. MaxU32 \in Number /\ Now \in Number
    BY TurnsFit
<1>2. MaxNumber \in Nat /\ MaxU32 \in Nat /\ MaxU32 <= MaxNumber
    BY <1>1, NumbersFit DEF Number
<1>3. id \in Number /\ id <= MaxU32
    BY <1>2 DEF Id, Number
<1>4. Decode(FrameBytes(frame)) = frame
    BY <1>1, <1>3, FramesArrive
<1>5. frame.kind = "notify"
    BY DEF NotifyFrame
<1>6. Heard(frame) = frame
    BY <1>5 DEF Heard
<1> QED BY <1>4, <1>5, <1>6

(* What the page knows of its commands and subscriptions are their ids.     *)
LEMMA PageIds ==
    ASSUME StageInv
    PROVE  /\ \A i \in DOMAIN page.cmds : page.cmds[i].id \in Id
           /\ \A i \in DOMAIN page.subs : page.subs[i].id \in Id
<1>1. page.cmds \in Seq(Cmd(Id)) /\ page.subs \in Seq(SubDelta(Id))
    BY DEF StageInv, SentTail
<1>2. \A c \in Cmd(Id) : c.id \in Id
    BY DEF Cmd
<1>3. \A c \in SubDelta(Id) : c.id \in Id
    BY DEF SubDelta
<1> DEFINE C == Cmd(Id)
           D == SubDelta(Id)
<1> HIDE DEF C, D
<1>4. page.cmds \in Seq(C) /\ page.subs \in Seq(D)
    BY <1>1 DEF C, D
<1>5. /\ \A i \in DOMAIN page.cmds : page.cmds[i] \in C
      /\ \A i \in DOMAIN page.subs : page.subs[i] \in D
    BY <1>4
<1> QED BY <1>2, <1>3, <1>5 DEF C, D

(* Whatever command of the page completes, the server hears what was said.  *)
LEMMA CompleteArrives ==
    ASSUME StageInv, Complete
    PROVE  said'.kind # "dispatch" /\ heard' = said'
<1>1. PICK i \in DOMAIN page.cmds : \E s \in Statuses :
          Say(ResolveFrame(page.cmds[i].id, s[1], s[2], IF s[2] = 0 THEN "" ELSE Body))
    BY DEF Complete
<1>2. PICK s \in Statuses :
          Say(ResolveFrame(page.cmds[i].id, s[1], s[2], IF s[2] = 0 THEN "" ELSE Body))
    BY <1>1
<1> DEFINE id == page.cmds[i].id
           ok == s[1]
           status == s[2]
           body == IF s[2] = 0 THEN "" ELSE Body
           frame == ResolveFrame(id, ok, status, body)
<1>3. id \in Id /\ ok \in BOOLEAN /\ status \in 0 .. MaxU16 /\ body \in String
    <2>1. \A x \in Statuses : x[1] \in BOOLEAN /\ x[2] \in 0 .. MaxU16
        BY TurnsFit
    <2>2. "" \in String /\ Body \in String
        BY TurnsFit
    <2>3. id \in Id
        BY <1>1, PageIds
    <2>4. s[1] \in BOOLEAN /\ s[2] \in 0 .. MaxU16
        BY <2>1
    <2> QED BY <2>2, <2>3, <2>4
<1>4. said' = frame /\ heard' = Heard(Decode(FrameBytes(frame)))
    <2>1. Say(frame)
        BY <1>2
    <2> HIDE DEF frame
    <2> QED BY <2>1, SayStutters
<1>5. frame.kind = "resolve" /\ Heard(Decode(FrameBytes(frame))) = frame
    <2> HIDE DEF id, ok, status, body
    <2> QED BY <1>3, CompletionIsHeard
<1> HIDE DEF frame
<1> QED BY <1>4, <1>5

(* Whatever subscription of the page ticks, the server hears what was said. *)
LEMMA TickArrives ==
    ASSUME StageInv, Tick
    PROVE  said'.kind # "dispatch" /\ heard' = said'
<1>1. PICK i \in DOMAIN page.subs : Say(NotifyFrame(page.subs[i].id, Now))
    BY DEF Tick
<1> DEFINE id == page.subs[i].id
           frame == NotifyFrame(id, Now)
<1>2. id \in Id
    BY <1>1, PageIds
<1>3. said' = frame /\ heard' = Heard(Decode(FrameBytes(frame)))
    BY <1>1, SayStutters
<1>4. frame.kind = "notify" /\ Heard(Decode(FrameBytes(frame))) = frame
    <2> HIDE DEF id
    <2> QED BY <1>2, TickIsHeard
<1> HIDE DEF frame
<1> QED BY <1>3, <1>4

(* An event on the screen is answered.                                      *)
LEMMA FireAnswered ==
    ASSUME TurnInv, StageInv, Fire
    PROVE  said'.kind = "dispatch" /\ Answers(new', said'.path, said'.name, said'.payload, heard')
<1>1. PICK name \in Ensured : \E path \in PathsOf(dom, Height[new]), payload \in Payloads :
          Say(DispatchFrame(path, name, payload))
    BY DEF Fire
<1>2. PICK path \in PathsOf(dom, Height[new]), payload \in Payloads :
          Say(DispatchFrame(path, name, payload))
    BY <1>1
<1> DEFINE frame == DispatchFrame(path, name, payload)
<1>3. UNCHANGED diffVars /\ todo = <<>> /\ said' = frame /\ heard' = Heard(Decode(FrameBytes(frame)))
    BY <1>2, SayStutters
<1>4. dom = FromVNode[new] /\ new' = new
    BY <1>3, NothingLeft DEF TurnInv, diffVars
<1>5. old \in VNodes /\ new \in VNodes
    BY DEF TurnInv
<1>6. name \in String
    BY <1>1, <1>5, EnsuredSent
<1>7. /\ frame.path = path /\ frame.name = name /\ frame.payload = payload
      /\ frame.kind = "dispatch"
    BY DEF DispatchFrame
<1>8. path \in PathsOf(FromVNode[new], Height[new])
    BY <1>2, <1>4
<1>9. Answers(new, path, name, payload, Heard(Decode(FrameBytes(frame))))
    BY <1>2, <1>5, <1>6, <1>8, EventIsAnswered
<1> HIDE DEF frame
<1> QED BY <1>3, <1>4, <1>7, <1>9

(* Mounting makes the page and the screen what the program rendered, and    *)
(* the adapter finds the names that were sent.                              *)
LEMMA RenderIsExact ==
    ASSUME StageInv, Mount
    PROVE  RenderArrives
<1> DEFINE t == TailOf(old, Nothing)
<1>1. dom' = FromVNode[old] /\ page' = t /\ stage = "rendered"
    BY MountStutters
<1>2. old \in VNodes /\ SentTail(t) /\ MaxU32 \in Number
    BY <1>1, TailsAre DEF StageInv
<1>3. SentRender = InitBytes(FromVNode[old], t)
    BY DEF SentRender
<1> DEFINE names == [i \in DOMAIN t.events |-> t.events[i].name]
<1>4. PeekEventNames(SentRender) = names
    <2> HIDE DEF t
    <2> QED BY <1>2, <1>3, PeekFindsTheNames
<1>5. [i \in DOMAIN page'.events |-> page'.events[i].name] = names
    <2> HIDE DEF t
    <2> QED BY <1>1
<1> HIDE DEF names
<1> QED BY <1>1, <1>4, <1>5 DEF RenderArrives

-----------------------------------------------------------------------------
(* to_bytes, decodeInit and decodeUpdate, peekEventNames, and frame.rs:     *)
(* whatever the trees, the requests and the codec's parameters, each        *)
(* message of a live turn arrives as what was sent.                         *)
THEOREM WireLosesNothing == LiveTurnSpec => WireIsLossless
<1>1. StageInv /\ TurnInv /\ [LiveTurnNext]_turnVars
        => [/\ stage = "rendered" => RenderArrives
            /\ stage = "mounted" => UpdateArrives
            /\ stage' = "said" /\ said'.kind # "dispatch" => heard' = said']_turnVars
    <2> SUFFICES ASSUME StageInv, TurnInv, LiveTurnNext
                 PROVE  /\ stage = "rendered" => RenderArrives
                        /\ stage = "mounted" => UpdateArrives
                        /\ stage' = "said" /\ said'.kind # "dispatch" => heard' = said'
        OBVIOUS
    <2>1. CASE Mount
        <3>1. stage = "rendered" /\ stage' = "mounted"
            BY <2>1, MountStutters
        <3>2. RenderArrives
            BY <2>1, RenderIsExact
        <3> QED BY <3>1, <3>2
    <2>2. CASE Receive
        <3>1. UNCHANGED diffVars /\ page' = TailOf(new, tail) /\ stage = "mounted" /\ stage' = "received"
            BY <2>2, ReceiveStutters
        <3>2. UpdateArrives
            BY <3>1 DEF UpdateArrives, diffVars
        <3> QED BY <3>1, <3>2
    <2>3. CASE ApplyNext
        BY <2>3 DEF ApplyNext
    <2>4. CASE Fire
        <3>1. PICK frame : Say(frame)
            BY <2>4, SaysFrame
        <3>2. stage = "received"
            BY <3>1, SayStutters
        <3>3. said'.kind = "dispatch"
            BY <2>4, FireAnswered
        <3> QED BY <3>2, <3>3
    <2>5. CASE Complete \/ Tick
        <3>1. PICK frame : Say(frame)
            BY <2>5, SaysFrame
        <3>2. stage = "received"
            BY <3>1, SayStutters
        <3>3. heard' = said'
            BY <2>5, CompleteArrives, TickArrives
        <3> QED BY <3>2, <3>3
    <2> QED BY <2>1, <2>2, <2>3, <2>4, <2>5 DEF LiveTurnNext
<1> QED BY <1>1, StageInvHolds, TurnInvHolds, PTL DEF LiveTurnSpec, WireIsLossless

(* pathOf, collect_events, find_listener and Handler::resolve: whatever the *)
(* trees and the turn, an event on the screen reaches the nearest listener  *)
(* in the tree that was rendered.                                           *)
THEOREM EventsReachListeners == LiveTurnSpec => []EventReachesItsListener
<1>1. LiveTurnInit => EventReachesItsListener
    BY DEF LiveTurnInit, EventReachesItsListener
<1>2. EventReachesItsListener <=>
        (stage = "said" /\ said.kind = "dispatch" => Answers(new, said.path, said.name, said.payload, heard))
    BY DEF EventReachesItsListener, Answers
<1>3. EventReachesItsListener' <=>
        (stage' = "said" /\ said'.kind = "dispatch"
           => Answers(new', said'.path, said'.name, said'.payload, heard'))
    BY DEF EventReachesItsListener, Answers
<1>4. EventReachesItsListener /\ StageInv /\ TurnInv /\ [LiveTurnNext]_turnVars => EventReachesItsListener'
    <2> SUFFICES ASSUME EventReachesItsListener, StageInv, TurnInv, [LiveTurnNext]_turnVars,
                        stage' = "said", said'.kind = "dispatch"
                 PROVE  Answers(new', said'.path, said'.name, said'.payload, heard')
        BY <1>3
    <2>1. CASE Mount
        BY <2>1, MountStutters
    <2>2. CASE Receive
        BY <2>2, ReceiveStutters
    <2>3. CASE ApplyNext
        BY <2>3 DEF ApplyNext
    <2>4. CASE Fire
        BY <2>4, FireAnswered
    <2>5. CASE Complete \/ Tick
        BY <2>5, CompleteArrives, TickArrives
    <2>6. CASE UNCHANGED turnVars
        BY <1>2, <2>6 DEF turnVars
    <2> QED BY <2>1, <2>2, <2>3, <2>4, <2>5, <2>6 DEF LiveTurnNext
<1> QED BY <1>1, <1>4, StageInvHolds, TurnInvHolds, PTL DEF LiveTurnSpec

(* The socket changes nothing of a turn: what holds of diff and apply holds *)
(* of a page that gets its patches as bytes.                                *)
THEOREM LivePatchesFit == LiveTurnSpec => []PatchesFit
BY StageInvHolds, AnyPatchesFit, PTL

(* The screen of a live page shows the tree that was rendered.              *)
THEOREM LiveShowsTree == LiveTurnSpec => []ScreenShowsTree
BY StageInvHolds, AnyShowsTree, PTL

(* A live page keeps the nodes of elements with a key of their own.         *)
THEOREM LiveKeepsKeyedNodes == LiveTurnSpec => []KeyedNodesSurvive
BY StageInvHolds, AnyKeepsKeyedNodes, PTL
=============================================================================
