--------------------------- MODULE ProgramProofs ---------------------------
(* Theorems about the Program, for every application and every host.        *)
EXTENDS Program, TLAPS, FiniteSetTheorems, SequenceTheorems,
        WellFoundedInduction

(* A non-empty set of positions in a list has a greatest member.            *)
LEMMA GreatestPosition ==
    ASSUME NEW n \in Nat, NEW S \in SUBSET (1 .. n), S # {}
    PROVE  \E i \in S : \A j \in S : j <= i
<1> DEFINE T == {n - i : i \in S}
<1>1. T \subseteq Nat
  BY SMT
<1>2. T # {}
  <2>1. PICK i \in S : TRUE
    OBVIOUS
  <2>2. n - i \in T
    OBVIOUS
  <2> QED BY <2>2
<1>3. PICK x \in T : \A y \in T : ~ (<<y, x>> \in OpToRel(<, Nat))
  <2> HIDE DEF T
  <2> QED BY <1>1, <1>2, NatLessThanWellFounded, WFMin
<1>4. \A y \in T : ~ (y < x)
  <2> HIDE DEF T
  <2> SUFFICES ASSUME NEW y \in T, y < x PROVE FALSE
    OBVIOUS
  <2>1. <<y, x>> \in Nat \X Nat
    BY <1>1
  <2>2. <<y, x>> \in OpToRel(<, Nat)
    BY <2>1 DEF OpToRel
  <2> QED BY <1>3, <2>2
<1>5. PICK i \in S : x = n - i
  OBVIOUS
<1>6. \A j \in S : j <= i
  <2> SUFFICES ASSUME NEW j \in S PROVE j <= i
    OBVIOUS
  <2>1. n - j \in T
    OBVIOUS
  <2> QED BY <1>4, <1>5, <2>1
<1> QED BY <1>6

SubLists == Seq([key : Keys, msg : SubMsgs])

(* Counting the fresh entries of a list of subscriptions.                   *)
LEMMA FreshCounts ==
    ASSUME NEW w \in SubLists
    PROVE  /\ Cardinality(FreshAt(w)) \in Nat
           /\ \A i \in FreshAt(w) :
                 /\ Cardinality(FreshBefore(w, i)) \in Nat
                 /\ Cardinality(FreshBefore(w, i)) < Cardinality(FreshAt(w))
           /\ \A i, j \in FreshAt(w) : i < j =>
                 Cardinality(FreshBefore(w, i)) < Cardinality(FreshBefore(w, j))
<1>1. /\ Len(w) \in Nat
      /\ DOMAIN w = 1 .. Len(w)
  BY DEF SubLists
<1>2. FreshAt(w) \in SUBSET (1 .. Len(w))
  BY <1>1 DEF FreshAt
<1>3. IsFiniteSet(FreshAt(w))
  <2>1. IsFiniteSet(1 .. Len(w))
    BY <1>1, FS_Interval
  <2> QED BY <1>2, <2>1, FS_Subset
<1>4. \A i : FreshBefore(w, i) \in SUBSET FreshAt(w)
  BY DEF FreshBefore
<1>5. \A i : IsFiniteSet(FreshBefore(w, i))
  BY <1>3, <1>4, FS_Subset
<1>6. /\ Cardinality(FreshAt(w)) \in Nat
      /\ \A i : Cardinality(FreshBefore(w, i)) \in Nat
  BY <1>3, <1>5, FS_CardinalityType
<1>7. ASSUME NEW i \in FreshAt(w)
      PROVE  Cardinality(FreshBefore(w, i)) < Cardinality(FreshAt(w))
  <2>1. FreshBefore(w, i) # FreshAt(w)
    BY <1>2 DEF FreshBefore
  <2> QED BY <1>3, <1>4, <1>6, <2>1, FS_Subset
<1>8. ASSUME NEW i \in FreshAt(w), NEW j \in FreshAt(w), i < j
      PROVE  Cardinality(FreshBefore(w, i)) < Cardinality(FreshBefore(w, j))
  <2>1. FreshBefore(w, i) \in SUBSET FreshBefore(w, j)
    BY <1>2, <1>8 DEF FreshBefore
  <2>2. i \in FreshBefore(w, j) /\ i \notin FreshBefore(w, i)
    BY <1>2, <1>8 DEF FreshBefore
  <2> QED BY <1>5, <1>6, <2>1, <2>2, FS_Subset
<1> QED BY <1>6, <1>7, <1>8

(* The ids diff_subs files the entries of a list under: a retained entry    *)
(* keeps its own, the fresh ones get different ids from base on.            *)
LEMMA SubIds ==
    ASSUME NEW w \in SubLists, NEW base \in Nat
    PROVE  /\ \A i \in DOMAIN w : Retained(w, i) =>
                 /\ w[i].key \in DOMAIN activeSubs
                 /\ SubId(w, i, base) = activeSubs[w[i].key].id
           /\ \A i \in FreshAt(w) :
                 SubId(w, i, base) \in base .. base + Cardinality(FreshAt(w)) - 1
           /\ \A i, j \in FreshAt(w) :
                 SubId(w, i, base) = SubId(w, j, base) => i = j
<1>1. \A i \in DOMAIN w : Retained(w, i) =>
          /\ w[i].key \in DOMAIN activeSubs
          /\ SubId(w, i, base) = activeSubs[w[i].key].id
  BY DEF SubId, Retained
<1>2. \A i \in FreshAt(w) : SubId(w, i, base) = base + Cardinality(FreshBefore(w, i))
  BY DEF FreshAt, SubId
<1>3. \A i \in FreshAt(w) :
          SubId(w, i, base) \in base .. base + Cardinality(FreshAt(w)) - 1
  BY <1>2, FreshCounts
<1>4. ASSUME NEW i \in FreshAt(w), NEW j \in FreshAt(w),
             SubId(w, i, base) = SubId(w, j, base)
      PROVE  i = j
  <2>1. i \in Int /\ j \in Int
    BY DEF FreshAt, SubLists
  <2>2. ~ (i < j) /\ ~ (j < i)
    BY <1>2, <1>4, FreshCounts
  <2> QED BY <2>1, <2>2
<1> QED BY <1>1, <1>3, <1>4

(* The entry of a key that wins is its last one.                            *)
LEMMA LastWins ==
    ASSUME NEW w \in SubLists, NEW k \in KeysOf(w)
    PROVE  /\ LastAt(w, k) \in DOMAIN w
           /\ w[LastAt(w, k)].key = k
           /\ \A j \in DOMAIN w : w[j].key = k => j <= LastAt(w, k)
<1> DEFINE S == {i \in DOMAIN w : w[i].key = k}
<1>1. Len(w) \in Nat /\ DOMAIN w = 1 .. Len(w)
  BY DEF SubLists
<1>2. S \in SUBSET (1 .. Len(w)) /\ S # {}
  BY <1>1 DEF KeysOf
<1>3. \E i \in S : \A j \in S : j <= i
  <2> HIDE DEF S
  <2> QED BY <1>1, <1>2, GreatestPosition
<1>4. \E i \in DOMAIN w : w[i].key = k /\ \A j \in DOMAIN w : w[j].key = k => j <= i
  BY <1>3
<1> QED BY <1>4 DEF LastAt

-----------------------------------------------------------------------------
(* Every id in the ledgers has been handed out.                             *)
IdsIssued ==
    /\ \A id \in DOMAIN pending : id < nextId
    /\ \A k \in DOMAIN activeSubs : activeSubs[k].id < nextId

(* The tree dispatch looks into is the view of the model as it is now.      *)
TreeIsView == current = View[model]

(* The inductive invariant: the ids must be known to be old for a fresh one *)
(* to be different from all of them.                                        *)
ProgramInv ==
    ProgramTypeOK /\ TreeIsView /\ IdsIssued /\ OneOwnerPerId /\ LedgerFollowsModel

(* What the ledgers look like after Settle, whatever ledger p it starts on. *)
LEMMA SettledPending ==
    ASSUME AppAssumption, ProgramTypeOK,
           NEW p, DOMAIN p \subseteq DOMAIN pending,
           \A id \in DOMAIN p : p[id] = pending[id],
           NEW m \in Models, NEW c \in CmdLists, Settle(p, m, c)
    PROVE  /\ nextId + Len(c) \in Nat
           /\ nextId' \in nextId + Len(c) .. MaxId + 1
           /\ \A id \in DOMAIN pending' :
                 \/ id \in DOMAIN p
                 \/ id \in nextId .. nextId + Len(c) - 1
           /\ \A id \in DOMAIN pending' : pending'[id] \in CmdKinds \ {"publish"}
<1> DEFINE base == nextId + Len(c)
           fresh == Cardinality(FreshAt(Subs[m]))
<1>1. c \in Seq(CmdKinds) /\ MaxId \in Nat /\ Subs[m] \in SubLists
  BY DEF AppAssumption, SubLists
<1>2. nextId \in Nat \ {0} /\ Len(c) \in Nat /\ DOMAIN c = 1 .. Len(c)
  BY <1>1 DEF ProgramTypeOK
<1>3. fresh \in Nat
  BY <1>1, FreshCounts
<1>4. base \in Nat /\ nextId' \in base .. MaxId + 1
  BY <1>1, <1>2, <1>3 DEF Settle
<1>5. \A id \in Tracked(c) :
          /\ id \in nextId .. nextId + Len(c) - 1
          /\ c[id - nextId + 1] \in CmdKinds \ {"publish"}
  <2> SUFFICES ASSUME NEW i \in DOMAIN c, c[i] # "publish"
               PROVE  /\ CmdId(i) \in nextId .. nextId + Len(c) - 1
                      /\ c[CmdId(i) - nextId + 1] \in CmdKinds \ {"publish"}
    BY DEF Tracked
  <2>1. CmdId(i) - nextId + 1 = i
    BY <1>2 DEF CmdId
  <2>2. CmdId(i) \in nextId .. nextId + Len(c) - 1
    BY <1>2 DEF CmdId
  <2>3. c[i] \in CmdKinds
    BY <1>1
  <2> QED BY <2>1, <2>2, <2>3
<1>6. pending' = Registered(p, c)
  BY DEF Settle
<1>7. DOMAIN pending' = DOMAIN p \cup Tracked(c)
  BY <1>6 DEF Registered
<1>8. ASSUME NEW id \in DOMAIN pending'
      PROVE  pending'[id] \in CmdKinds \ {"publish"}
  <2>1. CASE id \in Tracked(c)
    BY <1>5, <1>6, <2>1 DEF Registered
  <2>2. CASE id \notin Tracked(c)
    <3>1. id \in DOMAIN p /\ pending'[id] = p[id]
      BY <1>6, <1>7, <2>2 DEF Registered
    <3> QED BY <3>1 DEF ProgramTypeOK
  <2> QED BY <2>1, <2>2
<1> QED BY <1>4, <1>5, <1>7, <1>8

LEMMA SettledSubs ==
    ASSUME AppAssumption, ProgramTypeOK, IdsIssued, OneOwnerPerId,
           NEW p, NEW m \in Models, NEW c \in CmdLists, Settle(p, m, c)
    PROVE  /\ DOMAIN activeSubs' = KeysOf(Subs[m])
           /\ \A k \in DOMAIN activeSubs' :
                 /\ activeSubs'[k] \in [id : Ids, msg : SubMsgs]
                 /\ \/ k \in DOMAIN activeSubs /\ activeSubs'[k].id = activeSubs[k].id
                    \/ activeSubs'[k].id >= nextId + Len(c)
                 /\ activeSubs'[k].id < nextId'
                 /\ \E i \in DOMAIN Subs[m] :
                       /\ Subs[m][i].key = k
                       /\ activeSubs'[k].msg = Subs[m][i].msg
                       /\ \A j \in DOMAIN Subs[m] : Subs[m][j].key = k => j <= i
           /\ \A k, l \in DOMAIN activeSubs' :
                 activeSubs'[k].id = activeSubs'[l].id => k = l
<1> DEFINE w == Subs[m]
           base == nextId + Len(c)
           id(k) == SubId(w, LastAt(w, k), base)
<1>1. c \in Seq(CmdKinds) /\ MaxId \in Nat /\ w \in SubLists
  BY DEF AppAssumption, SubLists
<1>2. nextId \in Nat \ {0} /\ Len(c) \in Nat /\ base \in Nat
  BY <1>1 DEF ProgramTypeOK
<1>3. Cardinality(FreshAt(w)) \in Nat
  BY <1>1, FreshCounts
<1>4. /\ nextId' = base + Cardinality(FreshAt(w))
      /\ nextId' <= MaxId + 1
      /\ activeSubs' = NextActive(w, base)
  BY DEF Settle
<1>5. /\ DOMAIN activeSubs' = KeysOf(w)
      /\ \A k \in KeysOf(w) : activeSubs'[k] = [id |-> id(k), msg |-> w[LastAt(w, k)].msg]
  BY <1>4 DEF NextActive
<1>6. \A k \in KeysOf(w) :
          /\ LastAt(w, k) \in DOMAIN w
          /\ w[LastAt(w, k)].key = k
          /\ \A j \in DOMAIN w : w[j].key = k => j <= LastAt(w, k)
  BY <1>1, LastWins
<1>7. ASSUME NEW k \in KeysOf(w), Retained(w, LastAt(w, k))
      PROVE  k \in DOMAIN activeSubs /\ id(k) = activeSubs[k].id /\ id(k) \in 1 .. nextId - 1
  <2>1. k \in DOMAIN activeSubs /\ id(k) = activeSubs[k].id
    BY <1>1, <1>2, <1>6, <1>7, SubIds
  <2> QED BY <1>2, <2>1 DEF IdsIssued, ProgramTypeOK, Ids
<1>8. ASSUME NEW k \in KeysOf(w), ~ Retained(w, LastAt(w, k))
      PROVE  LastAt(w, k) \in FreshAt(w) /\ id(k) \in base .. nextId' - 1
  <2>1. LastAt(w, k) \in FreshAt(w)
    BY <1>6, <1>8 DEF FreshAt
  <2>2. id(k) \in base .. base + Cardinality(FreshAt(w)) - 1
    <3> HIDE DEF base, w
    <3> QED BY <1>1, <1>2, <2>1, SubIds
  <2>3. base + Cardinality(FreshAt(w)) - 1 = nextId' - 1
    BY <1>2, <1>3, <1>4
  <2> QED BY <2>1, <2>2, <2>3
<1> HIDE DEF w, base, id
<1>9. ASSUME NEW k \in KeysOf(w)
      PROVE  /\ activeSubs'[k].id = id(k)
             /\ activeSubs'[k].msg = w[LastAt(w, k)].msg
             /\ id(k) \in Ids
             /\ id(k) < nextId'
             /\ w[LastAt(w, k)].msg \in SubMsgs
  <2>1. activeSubs'[k].id = id(k) /\ activeSubs'[k].msg = w[LastAt(w, k)].msg
    BY <1>5
  <2>2. id(k) \in Ids /\ id(k) < nextId'
    <3>1. CASE Retained(w, LastAt(w, k))
      BY <1>1, <1>2, <1>3, <1>4, <1>7, <3>1 DEF Ids, base
    <3>2. CASE ~ Retained(w, LastAt(w, k))
      BY <1>1, <1>2, <1>3, <1>4, <1>8, <3>2 DEF Ids, base
    <3> QED BY <3>1, <3>2
  <2>3. w[LastAt(w, k)].msg \in SubMsgs
    <3>1. LastAt(w, k) \in 1 .. Len(w)
      BY <1>1, <1>6 DEF SubLists
    <3>2. w[LastAt(w, k)] \in [key : Keys, msg : SubMsgs]
      BY <1>1, <3>1, ElementOfSeq DEF SubLists
    <3> QED BY <3>2
  <2> QED BY <2>1, <2>2, <2>3
<1>10. ASSUME NEW k \in KeysOf(w), NEW l \in KeysOf(w), id(k) = id(l)
       PROVE  k = l
  <2>1. CASE Retained(w, LastAt(w, k)) /\ Retained(w, LastAt(w, l))
    BY <1>7, <1>10, <2>1 DEF OneOwnerPerId
  <2>2. CASE ~ Retained(w, LastAt(w, k)) /\ ~ Retained(w, LastAt(w, l))
    <3>1. LastAt(w, k) = LastAt(w, l)
      BY <1>1, <1>2, <1>8, <1>10, <2>2, SubIds DEF id
    <3> QED BY <1>6, <3>1
  <2>3. CASE Retained(w, LastAt(w, k)) /\ ~ Retained(w, LastAt(w, l))
    BY <1>2, <1>4, <1>3, <1>7, <1>8, <1>10, <2>3 DEF base
  <2>4. CASE ~ Retained(w, LastAt(w, k)) /\ Retained(w, LastAt(w, l))
    BY <1>2, <1>4, <1>3, <1>7, <1>8, <1>10, <2>4 DEF base
  <2> QED BY <2>1, <2>2, <2>3, <2>4
<1>11. ASSUME NEW k \in KeysOf(w)
       PROVE  /\ activeSubs'[k] \in [id : Ids, msg : SubMsgs]
              /\ \/ k \in DOMAIN activeSubs /\ activeSubs'[k].id = activeSubs[k].id
                 \/ activeSubs'[k].id >= base
              /\ activeSubs'[k].id < nextId'
              /\ \E i \in DOMAIN w :
                    /\ w[i].key = k
                    /\ activeSubs'[k].msg = w[i].msg
                    /\ \A j \in DOMAIN w : w[j].key = k => j <= i
  <2>1. activeSubs'[k] \in [id : Ids, msg : SubMsgs]
    BY <1>5, <1>9
  <2>2. \/ k \in DOMAIN activeSubs /\ activeSubs'[k].id = activeSubs[k].id
        \/ activeSubs'[k].id >= base
    <3>1. CASE Retained(w, LastAt(w, k))
      BY <1>7, <1>9, <3>1
    <3>2. CASE ~ Retained(w, LastAt(w, k))
      BY <1>2, <1>3, <1>4, <1>8, <1>9, <3>2
    <3> QED BY <3>1, <3>2
  <2>3. /\ LastAt(w, k) \in DOMAIN w
        /\ w[LastAt(w, k)].key = k
        /\ activeSubs'[k].msg = w[LastAt(w, k)].msg
        /\ \A j \in DOMAIN w : w[j].key = k => j <= LastAt(w, k)
    BY <1>6, <1>9
  <2> QED BY <1>9, <2>1, <2>2, <2>3
<1>12. \A k, l \in KeysOf(w) : activeSubs'[k].id = activeSubs'[l].id => k = l
  BY <1>9, <1>10
<1> QED BY <1>5, <1>11, <1>12 DEF w, base

(* A turn keeps the invariant and gives out no id that was ever used.       *)
NoIdReturns ==
    /\ nextId' >= nextId
    /\ \A id \in (DOMAIN pending' \cup ActiveIds') \ (DOMAIN pending \cup ActiveIds) :
          id >= nextId

LEMMA SettleKeepsInv ==
    ASSUME AppAssumption, ProgramInv,
           NEW p, DOMAIN p \subseteq DOMAIN pending,
           \A id \in DOMAIN p : p[id] = pending[id],
           NEW m \in Models, NEW c \in CmdLists, Settle(p, m, c),
           model' = m, current' = View[m], initCmds' \in CmdLists, rendered' \in BOOLEAN
    PROVE  ProgramInv' /\ NoIdReturns
<1>1. /\ ProgramTypeOK
      /\ IdsIssued
      /\ OneOwnerPerId
  BY DEF ProgramInv
<1>2. /\ nextId + Len(c) \in Nat
      /\ nextId' \in nextId + Len(c) .. MaxId + 1
      /\ \A id \in DOMAIN pending' :
            \/ id \in DOMAIN p
            \/ id \in nextId .. nextId + Len(c) - 1
      /\ \A id \in DOMAIN pending' : pending'[id] \in CmdKinds \ {"publish"}
  BY <1>1, SettledPending
<1>3. /\ DOMAIN activeSubs' = KeysOf(Subs[m])
      /\ \A k \in DOMAIN activeSubs' :
            /\ activeSubs'[k] \in [id : Ids, msg : SubMsgs]
            /\ \/ k \in DOMAIN activeSubs /\ activeSubs'[k].id = activeSubs[k].id
               \/ activeSubs'[k].id >= nextId + Len(c)
            /\ activeSubs'[k].id < nextId'
            /\ \E i \in DOMAIN Subs[m] :
                  /\ Subs[m][i].key = k
                  /\ activeSubs'[k].msg = Subs[m][i].msg
                  /\ \A j \in DOMAIN Subs[m] : Subs[m][j].key = k => j <= i
      /\ \A k, l \in DOMAIN activeSubs' :
            activeSubs'[k].id = activeSubs'[l].id => k = l
  BY <1>1, SettledSubs
<1>4. /\ c \in Seq(CmdKinds)
      /\ Len(c) \in Nat
      /\ MaxId \in Nat
      /\ nextId \in Nat \ {0}
      /\ nextId' \in nextId .. MaxId + 1
  <2>1. c \in Seq(CmdKinds) /\ MaxId \in Nat
    BY DEF AppAssumption
  <2>2. Len(c) \in Nat /\ nextId \in Nat \ {0}
    BY <1>1, <2>1 DEF ProgramTypeOK
  <2> QED BY <1>2, <2>1, <2>2
<1>5. \A id \in DOMAIN pending' : id \in Ids /\ id < nextId + Len(c) /\ id < nextId'
  <2> SUFFICES ASSUME NEW id \in DOMAIN pending'
               PROVE  id \in Ids /\ id < nextId + Len(c) /\ id < nextId'
    OBVIOUS
  <2>1. CASE id \in DOMAIN p
    <3>1. id \in Ids /\ id < nextId
      BY <1>1, <2>1 DEF ProgramTypeOK, IdsIssued
    <3> QED BY <1>2, <1>4, <3>1 DEF Ids
  <2>2. CASE id \in nextId .. nextId + Len(c) - 1
    BY <1>2, <1>4, <2>2 DEF Ids
  <2> QED BY <1>2, <2>1, <2>2
<1>6. ProgramTypeOK'
  <2>1. current' \in Views
    BY DEF AppAssumption
  <2>2. KeysOf(Subs[m]) \subseteq Keys
    <3>1. Subs[m] \in Seq([key : Keys, msg : SubMsgs])
      BY DEF AppAssumption
    <3>2. ASSUME NEW i \in DOMAIN Subs[m] PROVE Subs[m][i].key \in Keys
      <4>1. i \in 1 .. Len(Subs[m])
        BY <3>1
      <4>2. Subs[m][i] \in [key : Keys, msg : SubMsgs]
        BY <3>1, <4>1, ElementOfSeq
      <4> QED BY <4>2
    <3> QED BY <3>2 DEF KeysOf
  <2>3. nextId' \in 1 .. MaxId + 1
    BY <1>4
  <2> QED BY <1>2, <1>3, <1>5, <2>1, <2>2, <2>3 DEF ProgramTypeOK
<1>7. IdsIssued'
  BY <1>3, <1>5 DEF IdsIssued
<1>8. OneOwnerPerId'
  <2>1. ASSUME NEW k \in DOMAIN activeSubs' PROVE activeSubs'[k].id \notin DOMAIN pending'
    <3>1. CASE k \in DOMAIN activeSubs /\ activeSubs'[k].id = activeSubs[k].id
      <4>1. activeSubs[k].id < nextId /\ activeSubs[k].id \notin DOMAIN pending
        BY <1>1, <3>1 DEF IdsIssued, OneOwnerPerId, ActiveIds
      <4>2. activeSubs[k].id \in Nat
        BY <1>1, <3>1 DEF ProgramTypeOK, Ids
      <4> QED BY <1>2, <1>4, <3>1, <4>1, <4>2
    <3>2. CASE activeSubs'[k].id >= nextId + Len(c)
      <4>1. activeSubs'[k].id \in Nat
        BY <1>3 DEF Ids
      <4>2. \A id \in DOMAIN pending' : id \in Nat
        BY <1>5 DEF Ids
      <4> QED BY <1>2, <1>5, <3>2, <4>1, <4>2
    <3> QED BY <1>3, <3>1, <3>2
  <2> QED BY <1>3, <2>1 DEF OneOwnerPerId, ActiveIds
<1>9. LedgerFollowsModel'
  BY <1>3 DEF LedgerFollowsModel
<1>11. TreeIsView'
  BY DEF TreeIsView
<1>10. NoIdReturns
  <2>1. nextId' >= nextId
    BY <1>4
  <2>2. ASSUME NEW id \in DOMAIN pending', id \notin DOMAIN pending PROVE id >= nextId
    BY <1>2, <1>4, <2>2
  <2>3. ASSUME NEW k \in DOMAIN activeSubs', activeSubs'[k].id \notin ActiveIds
        PROVE  activeSubs'[k].id >= nextId
    <3>1. activeSubs'[k].id >= nextId + Len(c)
      BY <1>3, <2>3 DEF ActiveIds
    <3>2. activeSubs'[k].id \in Nat
      BY <1>3 DEF Ids
    <3> QED BY <1>2, <1>4, <3>1, <3>2
  <2> QED BY <2>1, <2>2, <2>3 DEF NoIdReturns, ActiveIds
<1> QED BY <1>6, <1>7, <1>8, <1>9, <1>10, <1>11 DEF ProgramInv

-----------------------------------------------------------------------------
LEMMA InitEstablishesInv == AppAssumption /\ ProgramInit => ProgramInv
<1> SUFFICES ASSUME AppAssumption, ProgramInit PROVE ProgramInv
  OBVIOUS
<1>1. MaxId \in Nat /\ current \in Views
  BY DEF AppAssumption, ProgramInit
<1>2. DOMAIN pending = {} /\ DOMAIN activeSubs = {}
  BY DEF ProgramInit, EmptyFn
<1>3. /\ model \in Models /\ initCmds \in CmdLists
      /\ nextId \in 1 .. MaxId + 1
      /\ rendered \in BOOLEAN
  <2>1. model \in Models /\ initCmds \in CmdLists /\ nextId = 1 /\ rendered = FALSE
    BY DEF ProgramInit
  <2>2. nextId \in 1 .. MaxId + 1
    BY <1>1, <2>1
  <2>3. rendered \in BOOLEAN
    BY <2>1, Zenon
  <2> QED BY <2>1, <2>2, <2>3
<1>4. ProgramTypeOK
  BY <1>1, <1>2, <1>3 DEF ProgramTypeOK
<1> QED
  BY <1>2, <1>4 DEF ProgramInv, TreeIsView, IdsIssued, OneOwnerPerId, ActiveIds, LedgerFollowsModel,
                    ProgramInit

LEMMA NextKeepsInv ==
    ASSUME AppAssumption, ProgramInv, [ProgramNext]_progVars
    PROVE  ProgramInv' /\ (NoIdReturns \/ UNCHANGED progVars)
<1>1. \A c \in CmdLists : c \in Seq(CmdKinds)
  BY DEF AppAssumption
<1>2. /\ model \in Models
      /\ initCmds \in CmdLists
      /\ <<>> \in CmdLists
      /\ rendered \in BOOLEAN
      /\ current = View[model]
  BY DEF AppAssumption, ProgramInv, ProgramTypeOK, TreeIsView
<1>3. CASE InitialRender
  BY <1>2, <1>3, SettleKeepsInv DEF InitialRender
<1>4. ASSUME NEW m \in Models, NEW c \in CmdLists, NEW e \in EventNames, Dispatch(e, m, c)
      PROVE  ProgramInv' /\ NoIdReturns
  BY <1>2, <1>4, SettleKeepsInv DEF Dispatch, Step
<1>5. ASSUME NEW m \in Models, NEW c \in CmdLists, NEW id \in Ids, Resolve(id, m, c)
      PROVE  ProgramInv' /\ NoIdReturns
  <2>1. /\ DOMAIN Without(pending, id) \subseteq DOMAIN pending
        /\ \A i \in DOMAIN Without(pending, id) : Without(pending, id)[i] = pending[i]
    BY DEF Without
  <2> QED BY <1>2, <1>5, <2>1, SettleKeepsInv DEF Resolve, Step
<1>6. ASSUME NEW m \in Models, NEW c \in CmdLists, NEW id \in Ids, Notify(id, m, c)
      PROVE  ProgramInv' /\ NoIdReturns
  BY <1>2, <1>6, SettleKeepsInv DEF Notify, Step
<1>7. CASE UNCHANGED progVars
  BY <1>7 DEF progVars, ProgramInv, ProgramTypeOK, TreeIsView, IdsIssued, OneOwnerPerId,
              ActiveIds, LedgerFollowsModel
<1>8. CASE ProgramNext
  BY <1>3, <1>4, <1>5, <1>6, <1>7, <1>8
     DEF ProgramNext, DispatchMiss, ResolveUnknown, NotifyUnknown
<1> QED BY <1>7, <1>8

-----------------------------------------------------------------------------
(* The invariant holds in every reachable state.                            *)
LEMMA InvHolds == ProgramSpec => []ProgramInv
<1>1. ProgramInit => ProgramInv
  BY AppAssumption, InitEstablishesInv
<1>2. ProgramInv /\ [ProgramNext]_progVars => ProgramInv'
  BY AppAssumption, NextKeepsInv
<1> QED BY <1>1, <1>2, PTL DEF ProgramSpec

(* Whatever the application and the host do, the Program's state has its    *)
(* type (lib.rs 172-355).                                                   *)
THEOREM ProgramTypeCorrect == ProgramSpec => []ProgramTypeOK
<1>1. ProgramInv => ProgramTypeOK
  BY DEF ProgramInv
<1> QED BY <1>1, InvHolds, PTL

(* A resolve or a notify can only reach the effect its id was issued for    *)
(* (lib.rs 249-279): the two ledgers never share an id, nor do two          *)
(* subscriptions.                                                           *)
THEOREM IdsHaveOneOwner == ProgramSpec => []OneOwnerPerId
<1>1. ProgramInv => OneOwnerPerId
  BY DEF ProgramInv
<1> QED BY <1>1, InvHolds, PTL

(* After every turn the subscription ledger is what the model asks for,     *)
(* each key with the callback of its last occurrence (lib.rs 314-349).      *)
THEOREM LedgerIsTheModels == ProgramSpec => []LedgerFollowsModel
<1>1. ProgramInv => LedgerFollowsModel
  BY DEF ProgramInv
<1> QED BY <1>1, InvHolds, PTL

(* An id that has left the ledgers never comes back (lib.rs 300-355), so a  *)
(* late completion or tick stays the no-op lib.rs 247-248 and 267-268 call  *)
(* it.                                                                      *)
THEOREM IdsNeverReturn == ProgramSpec => RetiredIdsStayRetired
<1>1. ProgramInv /\ [ProgramNext]_progVars
        => [/\ nextId' >= nextId
            /\ \A id \in (DOMAIN pending' \cup ActiveIds')
                            \ (DOMAIN pending \cup ActiveIds) : id >= nextId]_progVars
  BY AppAssumption, NextKeepsInv DEF NoIdReturns
<1> QED BY <1>1, InvHolds, PTL DEF ProgramSpec, RetiredIdsStayRetired
=============================================================================
