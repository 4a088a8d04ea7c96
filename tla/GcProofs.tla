------------------------------ MODULE GcProofs ------------------------------
(* Theorems about the effects of an emitted module, for every program, and  *)
(* about the tree on its page and the events there, for every template.     *)
EXTENDS GcPage, PatchProofs

(* Arithmetic of the ids.                                                   *)
LEMMA Remainder ==
    ASSUME NEW x \in Nat, NEW d \in Nat \ {0}
    PROVE  x % d \in 0 .. d - 1
  BY SMT

LEMMA ProductIsNat ==
    ASSUME NEW n \in Nat, NEW d \in Nat
    PROVE  n * d \in Nat
  BY SMT

LEMMA SumIsNat ==
    ASSUME NEW x \in Nat, NEW y \in Nat
    PROVE  x + y \in Nat
  BY SMT

(* The n ids after the first b, each from its distance h - a.               *)
LEMMA Offset ==
    ASSUME NEW a \in Nat, NEW n \in Nat, NEW h \in a + 1 .. a + n
    PROVE  h - a \in 1 .. n
  BY SMT

LEMMA OffsetUnique ==
    ASSUME NEW a \in Nat, NEW n \in Nat, NEW b \in Nat,
           NEW h \in a + 1 .. a + n, NEW i \in a + 1 .. a + n,
           b + (h - a) - 1 = b + (i - a) - 1
    PROVE  h = i
  BY SMT

LEMMA NthInRange ==
    ASSUME NEW b \in Nat, NEW n \in Nat, NEW k \in 1 .. n
    PROVE  b + k - 1 \in Nat /\ b <= b + k - 1 /\ (b + k - 1) + 1 <= b + n
  BY SMT

LEMMA NextAbove ==
    ASSUME NEW x \in Nat, NEW y \in Nat, x < y
    PROVE  x + 1 \in Nat /\ x + 1 <= y
  BY SMT

LEMMA SmallRemainder ==
    ASSUME NEW d \in Nat \ {0}, NEW x \in 0 .. d - 1
    PROVE  x % d = x
  BY SMT

LEMMA SiteRecovered ==
    ASSUME NEW d \in Nat \ {0}, NEW n \in Nat, NEW s \in 0 .. d - 1
    PROVE  (n * d + s) % d = s
  BY SMT

-----------------------------------------------------------------------------
(* What is in flight when a turn begins: all there was, less what resolved. *)
PartOf(f) ==
    /\ DOMAIN f \subseteq DOMAIN inflight
    /\ \A h \in DOMAIN f : f[h] = inflight[h]
    /\ \A h, i \in DOMAIN inflight \ DOMAIN f : h = i

LEMMA StagedIds ==
    ASSUME GcAssumption, NEW n \in Nat, NEW site \in CmdSites
    PROVE  /\ StagedId(n, site) \in 0 .. Wrap - 1
           /\ SiteOf(StagedId(n, site)) \in CmdSites
<1>1. NSites \in Nat \ {0} /\ site \in 0 .. NSites - 1 /\ Wrap \in Nat \ {0}
  BY DEF GcAssumption, CmdSites
<1>2. n * NSites + site \in Nat
  <2>1. n * NSites \in Nat
    BY <1>1, ProductIsNat
  <2>2. site \in Nat
    BY <1>1
  <2> QED BY <2>1, <2>2, SumIsNat
<1>3. StagedId(n, site) \in 0 .. Wrap - 1
  BY <1>1, <1>2, Remainder DEF StagedId
<1>4. StagedId(n, site) \in Nat
  BY <1>1, <1>3
<1> QED BY <1>1, <1>3, <1>4, Remainder DEF SiteOf, CmdSites

(* The commands of one update in flight.                                    *)
LEMMA ExecutingTyped ==
    ASSUME GcAssumption, GcTypeOK, NEW f, PartOf(f), NEW s \in Seq(CmdSites)
    PROVE  /\ DOMAIN Executing(f, s) \subseteq 1 .. handles + Len(s)
           /\ \A h \in DOMAIN Executing(f, s) :
                 Executing(f, s)[h] \in [id : 0 .. Wrap - 1, site : CmdSites,
                                         phase : {"timeout", "fetch", "text", "lost"}]
<1>1. handles \in Nat /\ nextId \in Nat /\ Len(s) \in Nat /\ DOMAIN s = 1 .. Len(s)
  BY DEF GcAssumption, GcTypeOK
<1>2. DOMAIN Executing(f, s) = DOMAIN f \cup (handles + 1 .. handles + Len(s))
  BY DEF Executing
<1>3. DOMAIN f \subseteq 1 .. handles
  BY DEF PartOf, GcTypeOK
<1>4. ASSUME NEW h \in DOMAIN Executing(f, s), h \notin DOMAIN f
      PROVE  Executing(f, s)[h] \in [id : 0 .. Wrap - 1, site : CmdSites,
                                     phase : {"timeout", "fetch", "text", "lost"}]
  <2> DEFINE i == h - handles
             id == StagedId(nextId + i - 1, s[i])
  <2>1. i \in 1 .. Len(s) /\ s[i] \in CmdSites /\ nextId + i - 1 \in Nat
    <3>1. h \in handles + 1 .. handles + Len(s)
      BY <1>2, <1>4
    <3>2. i \in 1 .. Len(s)
      BY <1>1, <3>1, Offset
    <3>3. s[i] \in CmdSites
      BY <3>2
    <3> HIDE DEF i
    <3>4. nextId + i - 1 \in Nat
      BY <1>1, <3>2, NthInRange
    <3> QED BY <3>2, <3>3, <3>4
  <2>2. id \in 0 .. Wrap - 1 /\ SiteOf(id) \in CmdSites
    BY <2>1, StagedIds
  <2>3. SiteKind[SiteOf(id)] \in {"timeout", "fetch"}
    BY <2>2 DEF GcAssumption
  <2>4. Executing(f, s)[h] = [id |-> id, site |-> s[i], phase |-> SiteKind[SiteOf(id)]]
    BY <1>2, <1>4 DEF Executing
  <2> HIDE DEF i, id
  <2> QED BY <2>1, <2>2, <2>3, <2>4
<1>5. ASSUME NEW h \in DOMAIN f
      PROVE  Executing(f, s)[h] = inflight[h] /\ h \in DOMAIN inflight
  BY <1>2, <1>5 DEF Executing, PartOf
<1>6. ASSUME NEW h \in DOMAIN Executing(f, s)
      PROVE  Executing(f, s)[h] \in [id : 0 .. Wrap - 1, site : CmdSites,
                                     phase : {"timeout", "fetch", "text", "lost"}]
  BY <1>4, <1>5, <1>6 DEF GcTypeOK
<1>7. DOMAIN Executing(f, s) \subseteq 1 .. handles + Len(s)
  BY <1>1, <1>2, <1>3
<1> QED BY <1>6, <1>7

(* The intervals of one update, in terms of sets.                           *)
LEMMA TimersTyped ==
    ASSUME GcAssumption, GcTypeOK, NEW m \in GcModels, NEW base \in Nat, handles <= base
    PROVE  /\ Starts(m) \subseteq SubSites
           /\ DOMAIN Timers(m, base) \subseteq
                 1 .. base + IF Starts(m) = {} THEN 0 ELSE NSubs
           /\ \A h \in DOMAIN Timers(m, base) : Timers(m, base)[h] \in SubSites
           /\ DOMAIN SubHandles(m, base) \subseteq SubSites
<1>1. handles \in Nat /\ NSubs \in Nat /\ SubSites = 0 .. NSubs - 1
  BY DEF GcAssumption, GcTypeOK, SubSites
<1>2. Starts(m) \subseteq SubSites
  BY DEF GcAssumption, Starts
<1>3. \A s \in Starts(m) : /\ HandleFor(s, base) \in base + 1 .. base + NSubs
                           /\ HandleFor(s, base) - base - 1 = s
  BY <1>1, <1>2 DEF HandleFor
<1>4. DOMAIN SubHandles(m, base) \subseteq SubSites
  BY <1>2 DEF SubHandles, GcTypeOK
<1> DEFINE new == {HandleFor(s, base) : s \in Starts(m)}
<1>5. /\ DOMAIN Timers(m, base) = (DOMAIN timers \ Cleared(m)) \cup new
      /\ \A h \in DOMAIN Timers(m, base) :
            Timers(m, base)[h] = IF h \in new THEN h - base - 1 ELSE timers[h]
  BY DEF Timers
<1>6. \A h \in DOMAIN timers : h \in 1 .. handles /\ timers[h] \in SubSites
  BY DEF GcTypeOK
<1>7. \A h \in new : h \in base + 1 .. base + NSubs /\ h - base - 1 \in SubSites
  BY <1>2, <1>3
<1>8. Starts(m) = {} => new = {}
  OBVIOUS
<1> HIDE DEF new
<1>9. \A h \in DOMAIN Timers(m, base) : Timers(m, base)[h] \in SubSites
  BY <1>5, <1>6, <1>7
<1>10. CASE Starts(m) = {}
  BY <1>1, <1>2, <1>4, <1>5, <1>6, <1>8, <1>9, <1>10
<1>11. CASE Starts(m) # {}
  <2>1. \A h \in DOMAIN Timers(m, base) : h \in 1 .. base + NSubs
    BY <1>1, <1>5, <1>6, <1>7
  <2> QED BY <1>2, <1>4, <1>9, <1>11, <2>1
<1> QED BY <1>10, <1>11

LEMMA CarryOutKeepsType ==
    ASSUME GcAssumption, GcTypeOK, NEW f, PartOf(f), NEW s \in Seq(CmdSites),
           NEW m \in GcModels, CarryOut(f, s, m), model' \in GcModels, shown' \in BOOLEAN
    PROVE  GcTypeOK'
<1> DEFINE base == handles + Len(s)
<1>1. /\ handles \in Nat /\ nextId \in Nat /\ Len(s) \in Nat /\ MaxHandles \in Nat
      /\ NSubs \in Nat /\ Wrap \in Nat \ {0}
  BY DEF GcAssumption, GcTypeOK
<1>2. base \in Nat /\ handles <= base
  BY <1>1
<1>3. nextId' \in 0 .. Wrap - 1
  <2>1. nextId + Len(s) \in Nat
    BY <1>1
  <2>2. nextId' = (nextId + Len(s)) % Wrap
    BY DEF CarryOut
  <2> HIDE DEF base
  <2> QED BY <1>1, <2>1, <2>2, Remainder
<1>4. active' \in SUBSET SubSites
  <2>1. Starts(m) \subseteq SubSites
    BY DEF GcAssumption, Starts
  <2> QED BY <2>1 DEF CarryOut, GcTypeOK
<1>5. /\ handles' = base + IF Starts(m) = {} THEN 0 ELSE NSubs
      /\ handles' <= MaxHandles
  BY DEF CarryOut
<1>6. handles' \in 0 .. MaxHandles /\ base <= handles'
  BY <1>1, <1>2, <1>5
<1>7. /\ DOMAIN inflight' \subseteq 1 .. handles'
      /\ \A h \in DOMAIN inflight' :
            inflight'[h] \in [id : 0 .. Wrap - 1, site : CmdSites,
                              phase : {"timeout", "fetch", "text", "lost"}]
  <2>1. inflight' = Executing(f, s)
    BY DEF CarryOut
  <2>2. 1 .. base \subseteq 1 .. handles'
    BY <1>2, <1>6
  <2> QED BY <2>1, <2>2, ExecutingTyped
<1>8. /\ DOMAIN timers' \subseteq 1 .. handles'
      /\ \A h \in DOMAIN timers' : timers'[h] \in SubSites
      /\ DOMAIN subHandles' \subseteq SubSites
  <2>1. timers' = Timers(m, base) /\ subHandles' = SubHandles(m, base)
    BY DEF CarryOut
  <2> HIDE DEF base
  <2> QED BY <1>2, <1>5, <2>1, TimersTyped
<1> QED BY <1>3, <1>4, <1>6, <1>7, <1>8 DEF GcTypeOK
(* A step is a turn, or moves a command along.                              *)
TurnOf(f, s, m) ==
    /\ PartOf(f)
    /\ s \in Seq(CmdSites)
    /\ m \in GcModels
    /\ CarryOut(f, s, m)
    /\ model' = m
    /\ shown' = TRUE

Advance(h, phase) ==
    /\ h \in DOMAIN inflight
    /\ phase \in {"text", "lost"}
    /\ inflight' = [inflight EXCEPT ![h].phase = phase]
    /\ UNCHANGED <<moduleVars, shown, timers, subHandles, handles>>

LEMMA Turns ==
    ASSUME GcAssumption, GcTypeOK, NEW f, PartOf(f), NEW msg \in Msgs, Turn(f, msg)
    PROVE  TurnOf(f, ArmSites[msg], model')
<1>1. ArmSites[msg] \in Seq(CmdSites)
  BY DEF GcAssumption
<1> QED BY <1>1 DEF Turn, TurnOf

LEMMA Steps ==
    ASSUME GcAssumption, GcTypeOK, GcNext
    PROVE  \/ \E f, s, m : TurnOf(f, s, m)
           \/ \E h, phase : Advance(h, phase)
<1>1. PartOf(inflight)
  BY DEF PartOf
<1>2. CASE Show
  <2>1. model \in GcModels /\ InitSites \in Seq(CmdSites)
    BY DEF GcAssumption, GcTypeOK
  <2>2. TurnOf(inflight, InitSites, model)
    BY <1>1, <1>2, <2>1 DEF Show, TurnOf
  <2> QED BY <2>2
<1>3. ASSUME NEW msg \in Msgs, Dispatch(msg)
      PROVE  \E f, s, m : TurnOf(f, s, m)
  BY <1>1, <1>3, Turns DEF Dispatch
<1>4. ASSUME NEW h \in 1 .. MaxHandles, Resolve(h)
      PROVE  \E f, s, m : TurnOf(f, s, m)
  <2> DEFINE f == Settling(inflight, h)
             msg == SiteMsg[SiteOf(inflight[h].id)]
  <2>1. PartOf(f)
    BY DEF PartOf, Settling
  <2>2. inflight[h] \in [id : 0 .. Wrap - 1, site : CmdSites,
                         phase : {"timeout", "fetch", "text", "lost"}]
    BY <1>4 DEF Resolve, Settled, GcTypeOK
  <2>3. inflight[h].id \in 0 .. Wrap - 1 /\ inflight[h].site \in CmdSites
    BY <2>2
  <2>4. SiteOf(inflight[h].id) \in CmdSites
    <3> HIDE DEF f, msg
    <3>1. NSites \in Nat /\ Wrap \in Nat
      BY DEF GcAssumption
    <3>2. inflight[h].id \in Nat /\ NSites \in Nat \ {0}
      BY <2>3, <3>1 DEF CmdSites
    <3> QED BY <3>2, Remainder DEF SiteOf, CmdSites
  <2>5. msg \in Msgs
    BY <2>4 DEF GcAssumption
  <2>6. Turn(f, msg)
    BY <1>4 DEF Resolve
  <2> HIDE DEF f, msg
  <2> QED BY <2>1, <2>5, <2>6, Turns
<1>5. ASSUME NEW h \in 1 .. MaxHandles, Notify(h)
      PROVE  \E f, s, m : TurnOf(f, s, m)
  <2>1. SubMsg[timers[h]] \in Msgs
    BY <1>5 DEF Notify, GcTypeOK, GcAssumption
  <2> QED BY <1>1, <1>5, <2>1, Turns DEF Notify
<1>6. ASSUME NEW h \in 1 .. MaxHandles, FetchResponds(h) \/ BodyFails(h)
      PROVE  \E phase : Advance(h, phase)
  BY <1>6 DEF FetchResponds, BodyFails, Moves, Advance
<1> QED BY <1>2, <1>3, <1>4, <1>5, <1>6 DEF GcNext

LEMMA NextKeepsType ==
    ASSUME GcAssumption, GcTypeOK, [GcNext]_gcVars
    PROVE  GcTypeOK'
<1>1. ASSUME NEW f, NEW s, NEW m, TurnOf(f, s, m)
      PROVE  GcTypeOK'
  BY <1>1, CarryOutKeepsType DEF TurnOf
<1>2. ASSUME NEW h, NEW phase, Advance(h, phase)
      PROVE  GcTypeOK'
  BY <1>2 DEF Advance, GcTypeOK, moduleVars
<1>3. CASE UNCHANGED gcVars
  BY <1>3 DEF gcVars, moduleVars, pageVars, GcTypeOK
<1> QED BY <1>1, <1>2, <1>3, Steps

LEMMA InitHasType == GcAssumption /\ GcInit => GcTypeOK
<1> SUFFICES ASSUME GcAssumption, GcInit PROVE GcTypeOK
  OBVIOUS
<1>1. DOMAIN EmptyMap = {}
  BY DEF EmptyMap
<1>2. DOMAIN inflight = {} /\ DOMAIN timers = {} /\ DOMAIN subHandles = {}
  BY <1>1 DEF GcInit
<1>3. nextId \in 0 .. Wrap - 1 /\ handles \in 0 .. MaxHandles
  BY DEF GcInit, GcAssumption
<1> QED BY <1>2, <1>3 DEF GcInit, GcTypeOK

(* Whatever the program, the module and the page keep their types.          *)
THEOREM GcTypeCorrect == GcSpec => []GcTypeOK
<1>1. GcInit => GcTypeOK
  BY GcAssumption, InitHasType
<1>2. GcTypeOK /\ [GcNext]_gcVars => GcTypeOK'
  BY GcAssumption, NextKeepsType
<1> QED BY <1>1, <1>2, PTL DEF GcSpec

-----------------------------------------------------------------------------
(* Bits, map and intervals are those of the sites a.                        *)
Consistent(a) ==
    /\ active = a
    /\ DOMAIN subHandles = a
    /\ \A s \in a : subHandles[s] \in DOMAIN timers /\ timers[subHandles[s]] = s
    /\ \A h \in DOMAIN timers : timers[h] \in a /\ subHandles[timers[h]] = h

Asked == IF shown THEN Wanted[model] ELSE {}

(* An effect is a command or an interval.                                   *)
NothingShared == \A h \in DOMAIN timers : h \notin DOMAIN inflight

GcInv == GcTypeOK /\ Consistent(Asked) /\ NothingShared

(* The intervals after a turn: what was wanted before and is still, with    *)
(* the handles it had, and what is new, with handles above base.            *)
KeptOrNew(a, w, base) ==
    /\ active' = w
    /\ DOMAIN subHandles' = w
    /\ \A s \in w \cap a : subHandles'[s] = subHandles[s]
    /\ \A s \in w \ a : subHandles'[s] = HandleFor(s, base)
    /\ \A h : h \in DOMAIN timers' <=> \/ h \in DOMAIN timers /\ timers[h] \in w
                                       \/ \E s \in w \ a : h = HandleFor(s, base)
    /\ \A h \in DOMAIN timers : timers[h] \in w => timers'[h] = timers[h]
    /\ \A s \in w \ a : timers'[HandleFor(s, base)] = s

LEMMA CarriedOut ==
    ASSUME GcAssumption, GcTypeOK, NEW a, Consistent(a), NEW f, NEW s \in Seq(CmdSites),
           NEW m \in GcModels, CarryOut(f, s, m)
    PROVE  KeptOrNew(a, Wanted[m], handles + Len(s))
<1> DEFINE w == Wanted[m]
           base == handles + Len(s)
           new == {HandleFor(t, base) : t \in w \ a}
<1>1. handles \in Nat /\ Len(s) \in Nat /\ base \in Nat /\ handles <= base
  BY DEF GcTypeOK, GcAssumption
<1>2. w \subseteq SubSites /\ SubSites \subseteq Nat
  BY DEF GcAssumption, SubSites
<1>3. active = a /\ DOMAIN subHandles = a
  BY DEF Consistent
<1>4. Starts(m) = w \ a /\ Stops(m) = a \ w
  BY <1>3 DEF Starts, Stops
<1>5. /\ subHandles' = SubHandles(m, base)
      /\ timers' = Timers(m, base)
      /\ active' = (active \cup Starts(m)) \ Stops(m)
  BY DEF CarryOut
<1> HIDE DEF w, base
<1>6. active' = w
  BY <1>3, <1>4, <1>5
<1>7. /\ DOMAIN subHandles' = w
      /\ \A t \in w \cap a : subHandles'[t] = subHandles[t]
      /\ \A t \in w \ a : subHandles'[t] = HandleFor(t, base)
  <2>1. /\ DOMAIN SubHandles(m, base) = (a \cup (w \ a)) \ (a \ w)
        /\ \A t \in DOMAIN SubHandles(m, base) : SubHandles(m, base)[t] =
              IF t \in w \ a THEN HandleFor(t, base) ELSE subHandles[t]
    BY <1>3, <1>4 DEF SubHandles
  <2>2. DOMAIN SubHandles(m, base) = w
    BY <2>1
  <2> QED BY <1>5, <2>1, <2>2
<1>8. \A h : h \in Cleared(m) <=> h \in DOMAIN timers /\ timers[h] \notin w
  <2>1. \A h : h \in Cleared(m) <=> \E t \in a \ w : h = subHandles[t]
    BY <1>3, <1>4 DEF Cleared
  <2> QED BY <2>1 DEF Consistent
<1>9. /\ DOMAIN timers' = (DOMAIN timers \ Cleared(m)) \cup new
      /\ \A h \in DOMAIN timers' : timers'[h] = IF h \in new THEN h - base - 1 ELSE timers[h]
  BY <1>4, <1>5 DEF Timers
<1>10. \A t \in w \ a : HandleFor(t, base) > base /\ HandleFor(t, base) - base - 1 = t
  BY <1>1, <1>2 DEF HandleFor
<1>11. \A h \in DOMAIN timers : h <= base
  BY <1>1 DEF GcTypeOK
<1>12. \A h : h \in new <=> \E t \in w \ a : h = HandleFor(t, base)
  OBVIOUS
<1> HIDE DEF new
<1>13. \A h \in DOMAIN timers : h \notin new
  BY <1>1, <1>10, <1>11, <1>12 DEF GcTypeOK
<1>14. \A h : h \in DOMAIN timers' <=> \/ h \in DOMAIN timers /\ timers[h] \in w
                                       \/ \E t \in w \ a : h = HandleFor(t, base)
  BY <1>8, <1>9, <1>12
<1>15. \A h \in DOMAIN timers : timers[h] \in w => timers'[h] = timers[h]
  BY <1>9, <1>13, <1>14
<1>16. \A t \in w \ a : timers'[HandleFor(t, base)] = t
  BY <1>9, <1>10, <1>12
<1> QED BY <1>6, <1>7, <1>14, <1>15, <1>16 DEF KeptOrNew, w, base

LEMMA CarryOutIsConsistent ==
    ASSUME GcAssumption, GcTypeOK, NEW a, Consistent(a), NEW f, NEW s \in Seq(CmdSites),
           NEW m \in GcModels, CarryOut(f, s, m)
    PROVE  Consistent(Wanted[m])'
<1>1. KeptOrNew(a, Wanted[m], handles + Len(s))
  BY CarriedOut
<1> DEFINE w == Wanted[m]
           base == handles + Len(s)
<1> HIDE DEF w, base
<1>2. active' = w /\ DOMAIN subHandles' = w
  BY <1>1 DEF KeptOrNew, w, base
<1>3. ASSUME NEW t \in w
      PROVE  subHandles'[t] \in DOMAIN timers' /\ timers'[subHandles'[t]] = t
  <2>1. CASE t \in a
    <3>1. subHandles'[t] = subHandles[t]
      BY <1>1, <1>3, <2>1 DEF KeptOrNew, w, base
    <3>2. subHandles[t] \in DOMAIN timers /\ timers[subHandles[t]] = t
      BY <2>1 DEF Consistent
    <3> QED BY <1>1, <1>3, <3>1, <3>2 DEF KeptOrNew, w, base
  <2>2. CASE t \notin a
    BY <1>1, <1>3, <2>2 DEF KeptOrNew, w, base
  <2> QED BY <2>1, <2>2
<1>4. ASSUME NEW h \in DOMAIN timers'
      PROVE  timers'[h] \in w /\ subHandles'[timers'[h]] = h
  <2>1. CASE h \in DOMAIN timers /\ timers[h] \in w
    <3>1. timers'[h] = timers[h]
      BY <1>1, <2>1 DEF KeptOrNew, w, base
    <3>2. timers[h] \in a /\ subHandles[timers[h]] = h
      BY <2>1 DEF Consistent
    <3> QED BY <1>1, <2>1, <3>1, <3>2 DEF KeptOrNew, w, base
  <2>2. CASE \E t \in w \ a : h = HandleFor(t, base)
    BY <1>1, <2>2 DEF KeptOrNew, w, base
  <2>3. \/ h \in DOMAIN timers /\ timers[h] \in w
        \/ \E t \in w \ a : h = HandleFor(t, base)
    BY <1>1, <1>4 DEF KeptOrNew, w, base
  <2> QED BY <2>1, <2>2, <2>3
<1> QED BY <1>2, <1>3, <1>4 DEF Consistent, w

LEMMA GcInitKeepsInv == GcAssumption /\ GcInit => GcInv
<1> SUFFICES ASSUME GcAssumption, GcInit PROVE GcInv
  OBVIOUS
<1>1. DOMAIN EmptyMap = {}
  BY DEF EmptyMap
<1>2. /\ DOMAIN timers = {} /\ DOMAIN subHandles = {}
      /\ active = {} /\ shown = FALSE
  BY <1>1 DEF GcInit
<1>3. Consistent({})
  BY <1>2 DEF Consistent
<1> QED BY <1>2, <1>3, InitHasType DEF GcInv, Asked, NothingShared

LEMMA CarryOutSharesNothing ==
    ASSUME GcAssumption, GcInv, NEW f, NEW s, NEW m, TurnOf(f, s, m)
    PROVE  /\ NothingShared'
           /\ DOMAIN inflight' = DOMAIN f \cup (handles + 1 .. handles + Len(s))
<1> DEFINE base == handles + Len(s)
<1>1. KeptOrNew(Asked, Wanted[m], base)
  BY CarriedOut DEF TurnOf, GcInv
<1>2. handles \in Nat /\ Len(s) \in Nat /\ base \in Nat /\ handles <= base
  BY DEF GcInv, GcTypeOK, GcAssumption, TurnOf
<1>3. DOMAIN inflight' = DOMAIN f \cup (handles + 1 .. handles + Len(s))
  BY DEF TurnOf, CarryOut, Executing
<1>4. Wanted[m] \subseteq SubSites /\ SubSites \subseteq Nat
  BY DEF GcAssumption, SubSites, TurnOf
<1>5. \A h \in DOMAIN inflight' : h \in Nat /\ h <= base
  BY <1>2, <1>3 DEF GcInv, GcTypeOK, TurnOf, PartOf
<1>6. \A h \in DOMAIN timers : h \in Nat /\ h <= handles /\ h \notin DOMAIN f
  BY <1>2 DEF GcInv, GcTypeOK, NothingShared, TurnOf, PartOf
<1>7. \A t \in Wanted[m] : HandleFor(t, base) > base
  BY <1>2, <1>4 DEF HandleFor
<1>8. \A h \in DOMAIN timers' : \/ h \in DOMAIN timers
                               \/ \E t \in Wanted[m] : h = HandleFor(t, base)
  BY <1>1 DEF KeptOrNew
<1> HIDE DEF base
<1>9. ASSUME NEW h \in DOMAIN timers'
      PROVE  h \notin DOMAIN inflight'
  <2>1. CASE h \in DOMAIN timers
    BY <1>2, <1>3, <1>6, <2>1
  <2>2. CASE \E t \in Wanted[m] : h = HandleFor(t, base)
    BY <1>2, <1>5, <1>7, <2>2
  <2> QED BY <1>8, <2>1, <2>2
<1> QED BY <1>3, <1>9 DEF NothingShared

LEMMA GcNextKeepsInv ==
    ASSUME GcAssumption, GcInv, [GcNext]_gcVars
    PROVE  GcInv'
<1>1. GcTypeOK /\ GcTypeOK'
  BY NextKeepsType DEF GcInv
<1>2. ASSUME NEW f, NEW s, NEW m, TurnOf(f, s, m)
      PROVE  Consistent(Asked)' /\ NothingShared'
  <2>1. Consistent(Wanted[m])'
    BY <1>1, <1>2, CarryOutIsConsistent DEF GcInv, TurnOf
  <2>2. Asked' = Wanted[m]
    BY <1>2 DEF Asked, TurnOf
  <2>3. NothingShared'
    BY <1>2, CarryOutSharesNothing
  <2> QED BY <2>1, <2>2, <2>3
<1>3. ASSUME UNCHANGED <<moduleVars, shown, timers, subHandles>>,
             DOMAIN inflight' = DOMAIN inflight
      PROVE  Consistent(Asked)' /\ NothingShared'
  BY <1>3 DEF GcInv, Consistent, Asked, moduleVars, NothingShared
<1>4. CASE GcNext
  BY <1>1, <1>2, <1>3, <1>4, Steps DEF GcInv, Advance
<1>5. CASE UNCHANGED gcVars
  BY <1>1, <1>3, <1>5 DEF GcInv, gcVars, moduleVars, pageVars
<1> QED BY <1>4, <1>5

LEMMA GcInvHolds == GcSpec => []GcInv
<1>1. GcInit => GcInv
  BY GcAssumption, GcInitKeepsInv
<1>2. GcInv /\ [GcNext]_gcVars => GcInv'
  BY GcAssumption, GcNextKeepsInv
<1> QED BY <1>1, <1>2, PTL DEF GcSpec

(* After every call the intervals that run are those the model asks for,    *)
(* one each, and the bitmask and the shim's map know them.                  *)
THEOREM TimersFollowTheModel == GcSpec => []TimersAreWanted
<1>1. GcInv => TimersAreWanted
  BY DEF GcInv, Consistent, Asked, TimersAreWanted
<1> QED BY <1>1, GcInvHolds, PTL

-----------------------------------------------------------------------------
(* The mapping of EffectsContract.                                          *)
Keys == {SubKey[s] : s \in SubSites}

AskedKeys == IF shown THEN {SubKey[s] : s \in Wanted[model]} ELSE {}

Ticking == {<<SubKey[timers[h]], h>> : h \in DOMAIN timers}

LEMMA TickingPairs ==
    ASSUME NEW a, Consistent(a)
    PROVE  \A q : q \in Ticking <=> \E t \in a : q = <<SubKey[t], subHandles[t]>>
<1>1. ASSUME NEW q \in Ticking
      PROVE  \E t \in a : q = <<SubKey[t], subHandles[t]>>
  <2>1. PICK h \in DOMAIN timers : q = <<SubKey[timers[h]], h>>
    BY DEF Ticking
  <2> QED BY <2>1 DEF Consistent
<1>2. ASSUME NEW t \in a
      PROVE  <<SubKey[t], subHandles[t]>> \in Ticking
  BY <1>2 DEF Consistent, Ticking
<1> QED BY <1>1, <1>2

LEMMA TurnKeepsContract ==
    ASSUME GcAssumption, DistinctKeys, GcInv, GcInv', NEW f, NEW s, NEW m, TurnOf(f, s, m)
    PROVE  Contract!Turn
<1> DEFINE a == Asked
           w == Wanted[m]
           base == handles + Len(s)
           waits == DOMAIN inflight
<1>1. KeptOrNew(a, w, base)
  BY CarriedOut DEF TurnOf, GcInv
<1>2. handles \in Nat /\ Len(s) \in Nat /\ base \in Nat /\ handles <= base
  BY DEF GcInv, GcTypeOK, GcAssumption, TurnOf
<1>3. w \subseteq SubSites /\ a \subseteq SubSites
  BY DEF GcInv, GcTypeOK, GcAssumption, TurnOf, Asked
<1>4. shown' /\ model' = m /\ Asked' = w
  BY DEF TurnOf, Asked
<1>5. /\ \A q : q \in Ticking <=> \E t \in a : q = <<SubKey[t], subHandles[t]>>
      /\ \A q : q \in Ticking' <=> \E t \in w : q = <<SubKey[t], subHandles'[t]>>
  <2>1. Consistent(a)
    BY DEF GcInv
  <2>2. Consistent(w)'
    BY <1>4 DEF GcInv
  <2>3. \A q : q \in Ticking <=> \E t \in a : q = <<SubKey[t], subHandles[t]>>
    BY <2>1, TickingPairs
  <2>4. (\A q : q \in Ticking <=> \E t \in w : q = <<SubKey[t], subHandles[t]>>)'
    <3>1. ASSUME NEW q \in Ticking'
          PROVE  \E t \in w : q = <<SubKey[t], subHandles'[t]>>
      <4>1. PICK h \in DOMAIN timers' : q = <<SubKey[timers'[h]], h>>
        BY DEF Ticking
      <4> QED BY <2>2, <4>1 DEF Consistent
    <3>2. ASSUME NEW t \in w
          PROVE  <<SubKey[t], subHandles'[t]>> \in Ticking'
      BY <2>2, <3>2 DEF Consistent, Ticking
    <3> QED BY <3>1, <3>2
  <2> QED BY <2>3, <2>4
<1>6. \A k : k \in AskedKeys' <=> \E t \in w : k = SubKey[t]
  BY <1>4 DEF AskedKeys
<1>7. \A t, u \in SubSites : SubKey[t] = SubKey[u] => t = u
  BY DEF DistinctKeys
<1>8. base + NSubs = handles' \/ (w \ a = {} /\ base = handles')
  <2>1. Starts(m) = w \ a
    BY DEF GcInv, Consistent, Starts
  <2>2. handles' = base + IF Starts(m) = {} THEN 0 ELSE NSubs
    BY DEF TurnOf, CarryOut
  <2> HIDE DEF a, w, base
  <2>3. NSubs \in Nat
    BY DEF GcAssumption
  <2>4. Starts(m) = {} => base = handles'
    BY <1>2, <2>2
  <2>5. Starts(m) # {} => base + NSubs = handles'
    BY <2>2
  <2> QED BY <2>1, <2>4, <2>5
<1>9. /\ handles' \in Nat /\ base <= handles' /\ handles' <= MaxHandles /\ MaxHandles \in Nat
      /\ NSubs \in Nat
  BY <1>2, <1>8 DEF GcInv, GcTypeOK, GcAssumption
<1>10. /\ waits' = DOMAIN f \cup (handles + 1 .. base)
       /\ NothingShared'
  BY CarryOutSharesNothing
<1> HIDE DEF a, w, base
<1>11. \A t \in w \ a : /\ HandleFor(t, base) \in handles + 1 .. handles'
                        /\ HandleFor(t, base) - base - 1 = t
  BY <1>2, <1>3, <1>8, <1>9 DEF HandleFor, SubSites
<1>12. /\ \A t \in w \cap a : subHandles'[t] = subHandles[t]
       /\ \A t \in w \ a : subHandles'[t] = HandleFor(t, base)
  BY <1>1 DEF KeptOrNew
<1> DEFINE kept == {q \in Ticking : q[1] \in AskedKeys'}
           new  == Ticking' \ kept
           ids  == handles + 1 .. handles'
<1>13. ASSUME NEW q \in kept
       PROVE  q \in Ticking' /\ \E t \in w \cap a : q[1] = SubKey[t]
  <2>1. PICK t \in a : q = <<SubKey[t], subHandles[t]>>
    BY <1>5
  <2>2. t \in w
    BY <1>3, <1>6, <1>7, <2>1
  <2> QED BY <1>5, <1>12, <2>1, <2>2
<1>14. ASSUME NEW q \in new
       PROVE  \E t \in w \ a : q = <<SubKey[t], HandleFor(t, base)>>
  <2>1. PICK t \in w : q = <<SubKey[t], subHandles'[t]>>
    BY <1>5
  <2>2. t \notin a
    <3> SUFFICES ASSUME t \in a PROVE FALSE
      OBVIOUS
    <3>1. q \in Ticking /\ q[1] \in AskedKeys'
      BY <1>5, <1>6, <1>12, <2>1
    <3> QED BY <3>1
  <2> QED BY <1>12, <2>1, <2>2
<1> HIDE DEF kept, new
<1>15. new \subseteq (AskedKeys' \ {q[1] : q \in kept}) \X ids
  <2> SUFFICES ASSUME NEW q \in new
               PROVE  q \in (AskedKeys' \ {r[1] : r \in kept}) \X ids
    OBVIOUS
  <2>1. PICK t \in w \ a : q = <<SubKey[t], HandleFor(t, base)>>
    BY <1>14
  <2>2. SubKey[t] \in AskedKeys' /\ SubKey[t] \notin {r[1] : r \in kept}
    BY <1>3, <1>6, <1>7, <1>13, <2>1
  <2>3. HandleFor(t, base) \in ids
    BY <1>11
  <2> HIDE DEF ids
  <2> QED BY <2>1, <2>2, <2>3
<1>16. {q[1] : q \in Ticking'} = AskedKeys'
  <2> DEFINE t == Ticking'
             keys == {q[1] : q \in t}
  <2>1. \A k : k \in keys <=> \E q \in t : q[1] = k
    OBVIOUS
  <2>2. ASSUME NEW q \in t PROVE q[1] \in AskedKeys'
    BY <1>5, <1>6
  <2>3. ASSUME NEW k \in AskedKeys' PROVE \E q \in t : q[1] = k
    <3>1. PICK u \in w : k = SubKey[u]
      BY <1>6
    <3> DEFINE pair == <<SubKey[u], subHandles'[u]>>
    <3>2. pair \in t /\ pair[1] = k
      BY <1>5, <3>1
    <3> HIDE DEF pair
    <3> QED BY <3>2
  <2> HIDE DEF keys, t
  <2>4. \A k : k \in keys <=> k \in AskedKeys'
    BY <2>1, <2>2, <2>3
  <2>5. keys = AskedKeys'
    BY <2>4
  <2> QED BY <2>5 DEF keys, t
<1>17. ASSUME NEW q \in new, NEW r \in new, q[1] = r[1] \/ q[2] = r[2]
       PROVE  q = r
  <2>1. PICK t \in w \ a : q = <<SubKey[t], HandleFor(t, base)>>
    BY <1>14
  <2>2. PICK u \in w \ a : r = <<SubKey[u], HandleFor(u, base)>>
    BY <1>14
  <2>3. SubKey[t] = SubKey[u] \/ HandleFor(t, base) = HandleFor(u, base)
    BY <1>17, <2>1, <2>2
  <2>4. t = u
    BY <1>3, <1>7, <1>11, <2>3
  <2> QED BY <2>1, <2>2, <2>4
<1>18. AskedKeys' \in SUBSET Keys
  BY <1>3, <1>6 DEF Keys
<1>19. handles' \in handles .. MaxHandles
  BY <1>2, <1>9
<1>20. Ticking' \in SUBSET (Keys \X (1 .. MaxHandles))
  <2>1. \A h \in DOMAIN timers' : timers'[h] \in SubSites /\ h \in 1 .. handles'
    BY DEF GcInv, GcTypeOK
  <2>2. 1 .. handles' \subseteq 1 .. MaxHandles
    BY <1>9
  <2> QED BY <2>1, <2>2 DEF Ticking, Keys
<1>21. waits' \in SUBSET (waits \cup ids)
  <2>1. handles + 1 .. base \subseteq ids
    BY <1>2, <1>9
  <2> HIDE DEF ids
  <2> QED BY <1>10, <2>1 DEF TurnOf, PartOf
<1>22. \A c, d \in waits \ waits' : c = d
  BY <1>10 DEF TurnOf, PartOf
<1>23. {q[1] : q \in {r \in Ticking' : r[2] \in waits'}} = {}
  BY <1>10 DEF NothingShared, Ticking
<1>24. Contract!NewIds = ids
  BY DEF Contract!NewIds
<1>25. \A t : Contract!KeysIn(t) = {q[1] : q \in t}
  BY DEF Contract!KeysIn
<1>26. kept \subseteq Ticking'
  BY <1>13
<1>27. Contract!Retime
  <2>1. /\ new \subseteq (AskedKeys' \ Contract!KeysIn(kept)) \X Contract!NewIds
        /\ Contract!KeysIn(Ticking') = AskedKeys'
    BY <1>15, <1>16, <1>24, <1>25, Zenon
  <2>2. \A q, r \in new : (q[1] = r[1] \/ q[2] = r[2]) => q = r
    BY <1>17
  <2> QED BY <1>26, <2>1, <2>2, Zenon DEF Contract!Retime, AskedKeys, Ticking, kept, new
<1>28. waits' \in SUBSET (waits \cup Contract!NewIds)
  BY <1>21, <1>24, Zenon
<1>29. Contract!KeysIn({r \in Ticking' : r[2] \in waits'}) = {}
  BY <1>23, <1>25, Zenon
<1> QED
  BY <1>18, <1>19, <1>20, <1>22, <1>27, <1>28, <1>29, Zenon
     DEF Contract!Turn, AskedKeys, Ticking, Keys

(* The emitted module keeps, without ledgers, the promise the runtime       *)
(* keeps: it implements EffectsContract, for every program whose intervals  *)
(* differ.                                                                  *)
THEOREM ModuleKeepsContract ==
    ASSUME DistinctKeys
    PROVE  GcSpec => GcKeepsContract
<1>1. GcInit => Contract!Init
  <2> SUFFICES ASSUME GcInit PROVE Contract!Init
    OBVIOUS
  <2>1. DOMAIN EmptyMap = {}
    BY DEF EmptyMap
  <2>2. /\ DOMAIN timers = {} /\ DOMAIN inflight = {}
        /\ handles = 0 /\ shown = FALSE
    BY <2>1 DEF GcInit
  <2> QED BY <2>2 DEF Contract!Init
<1>2. GcInv /\ GcInv' /\ [GcNext]_gcVars => [Contract!Turn]_(Contract!contractVars)
  <2> SUFFICES ASSUME GcInv, GcInv', [GcNext]_gcVars
               PROVE  [Contract!Turn]_(Contract!contractVars)
    OBVIOUS
  <2>1. ASSUME NEW f, NEW s, NEW m, TurnOf(f, s, m)
        PROVE  Contract!Turn
    BY <2>1, GcAssumption, TurnKeepsContract
  <2>2. ASSUME NEW h, NEW phase, Advance(h, phase)
        PROVE  UNCHANGED Contract!contractVars
    BY <2>2 DEF Advance, moduleVars, Contract!contractVars
  <2>3. CASE UNCHANGED gcVars
    BY <2>3 DEF gcVars, moduleVars, pageVars, Contract!contractVars
  <2> QED BY <2>1, <2>2, <2>3, GcAssumption, Steps DEF GcInv
<1> QED BY <1>1, <1>2, GcInvHolds, PTL DEF GcSpec, GcKeepsContract, Contract!Spec

-----------------------------------------------------------------------------
(* The ids, as long as the counter does not wrap.                           *)
LEMMA ProductGrows ==
    ASSUME NEW n \in Nat, NEW k \in Nat, NEW d \in Nat, n <= k
    PROVE  n * d <= k * d
  BY SMT

LEMMA ProductCovers ==
    ASSUME NEW n \in Nat, NEW d \in Nat \ {0}
    PROVE  n <= n * d
  BY SMT

LEMMA IdRange ==
    ASSUME NEW n \in Nat, NEW d \in Nat \ {0}, NEW s \in 0 .. d - 1
    PROVE  n * d + s \in Nat /\ n * d <= n * d + s /\ n * d + s < (n + 1) * d
  BY SMT

(* The ids issued so far lie below that of the next command.                *)
IssuedBelow ==
    /\ nextId <= handles
    /\ \A h \in DOMAIN inflight : inflight[h].id < nextId * NSites

IdInv == GcTypeOK /\ IssuedBelow /\ ContinuationRecovered /\ OneCommandPerId

(* The id a command gets.                                                   *)
LEMMA StagedWithoutWrap ==
    ASSUME GcAssumption, NoWrap, NEW n \in Nat, n <= MaxHandles, NEW site \in CmdSites
    PROVE  /\ StagedId(n, site) \in Nat
           /\ SiteOf(StagedId(n, site)) = site
           /\ n * NSites <= StagedId(n, site)
           /\ StagedId(n, site) < (n + 1) * NSites
<1>1. /\ NSites \in Nat \ {0} /\ site \in 0 .. NSites - 1
      /\ Wrap \in Nat \ {0} /\ MaxHandles \in Nat
  BY DEF GcAssumption, CmdSites
<1> DEFINE id == n * NSites + site
           limit == (n + 1) * NSites
           last == (MaxHandles + 1) * NSites
<1>2. id \in Nat /\ n * NSites <= id /\ id < limit
  BY <1>1, IdRange
<1>3. limit <= last /\ limit \in Nat /\ last \in Nat
  <2>1. n + 1 \in Nat /\ MaxHandles + 1 \in Nat /\ n + 1 <= MaxHandles + 1
    BY <1>1
  <2> QED BY <1>1, <2>1, ProductGrows, ProductIsNat
<1>4. last <= Wrap
  BY DEF NoWrap
<1>5. id % NSites = site
  BY <1>1, SiteRecovered
<1>6. StagedId(n, site) = id % Wrap
  BY DEF StagedId
<1> HIDE DEF id, limit, last
<1>7. id \in 0 .. Wrap - 1
  BY <1>1, <1>2, <1>3, <1>4
<1>8. StagedId(n, site) = id
  BY <1>1, <1>6, <1>7, SmallRemainder
<1> QED BY <1>2, <1>5, <1>8 DEF SiteOf, limit

(* The counter after a turn.                                                *)
LEMMA CounterAdvances ==
    ASSUME GcAssumption, NoWrap, IdInv, NEW f, NEW s, NEW m, TurnOf(f, s, m)
    PROVE  /\ nextId \in Nat /\ Len(s) \in Nat /\ handles \in Nat /\ handles' \in Nat
           /\ nextId + Len(s) <= handles' /\ handles' <= MaxHandles
           /\ nextId' = nextId + Len(s)
<1>1. /\ nextId \in Nat /\ handles \in Nat /\ Len(s) \in Nat /\ NSubs \in Nat
      /\ Wrap \in Nat \ {0} /\ MaxHandles \in Nat /\ NSites \in Nat
      /\ nextId < Wrap /\ nextId <= handles
  BY DEF IdInv, IssuedBelow, GcTypeOK, GcAssumption, TurnOf
<1>2. /\ nextId' = (nextId + Len(s)) % Wrap
      /\ handles' = handles + Len(s) + IF Starts(m) = {} THEN 0 ELSE NSubs
      /\ handles' <= MaxHandles
  BY DEF TurnOf, CarryOut
<1>3. handles' \in Nat /\ handles + Len(s) <= handles'
  BY <1>1, <1>2
<1>4. nextId + Len(s) \in 0 .. Wrap - 1
  <2>1. CASE Len(s) = 0
    BY <1>1, <2>1
  <2>2. CASE Len(s) # 0
    <3>1. s[1] \in CmdSites
      BY <1>1, <2>2 DEF TurnOf
    <3>2. NSites \in Nat \ {0}
      BY <1>1, <3>1 DEF CmdSites
    <3>3. MaxHandles + 1 <= (MaxHandles + 1) * NSites
      <4>1. MaxHandles + 1 \in Nat
        BY <1>1
      <4> QED BY <3>2, <4>1, ProductCovers
    <3>4. MaxHandles < Wrap
      <4> DEFINE last == (MaxHandles + 1) * NSites
      <4>1. last <= Wrap /\ last \in Nat
        BY <1>1, ProductIsNat DEF NoWrap
      <4>2. MaxHandles + 1 <= last
        BY <3>3
      <4> HIDE DEF last
      <4> QED BY <1>1, <4>1, <4>2
    <3>5. handles' <= MaxHandles
      BY <1>2
    <3> QED BY <1>1, <1>3, <3>4, <3>5
  <2> QED BY <1>1, <2>1, <2>2
<1>5. nextId' = nextId + Len(s)
  BY <1>1, <1>2, <1>4, SmallRemainder
<1> QED BY <1>1, <1>2, <1>3, <1>5

LEMMA TurnKeepsIds ==
    ASSUME GcAssumption, NoWrap, IdInv, GcTypeOK', NEW f, NEW s, NEW m, TurnOf(f, s, m)
    PROVE  IdInv'
<1>1. /\ nextId \in Nat /\ Len(s) \in Nat /\ handles \in Nat /\ handles' \in Nat
      /\ nextId + Len(s) <= handles' /\ handles' <= MaxHandles
      /\ nextId' = nextId + Len(s)
  BY CounterAdvances
<1>t. nextId \in Nat /\ Len(s) \in Nat /\ handles \in Nat
  BY <1>1
<1>u. nextId' = nextId + Len(s) /\ nextId' \in Nat
  BY <1>1
<1>2. NSites \in Nat /\ MaxHandles \in Nat /\ DOMAIN s = 1 .. Len(s)
  BY DEF GcAssumption, TurnOf
<1> DEFINE nth(h) == nextId + (h - handles) - 1
<1>3. \A h \in DOMAIN inflight' :
          \/ h \in DOMAIN f /\ h \in DOMAIN inflight /\ inflight'[h] = inflight[h]
          \/ /\ h \in handles + 1 .. handles + Len(s)
             /\ s[h - handles] \in CmdSites
             /\ inflight'[h].id = StagedId(nth(h), s[h - handles])
             /\ inflight'[h].site = s[h - handles]
  <2> SUFFICES ASSUME NEW h \in DOMAIN inflight'
               PROVE  \/ h \in DOMAIN f /\ h \in DOMAIN inflight /\ inflight'[h] = inflight[h]
                      \/ /\ h \in handles + 1 .. handles + Len(s)
                         /\ s[h - handles] \in CmdSites
                         /\ inflight'[h].id = StagedId(nth(h), s[h - handles])
                         /\ inflight'[h].site = s[h - handles]
    OBVIOUS
  <2>1. inflight' = Executing(f, s)
    BY DEF TurnOf, CarryOut
  <2>2. CASE h \in DOMAIN f
    BY <2>1, <2>2 DEF Executing, TurnOf, PartOf
  <2>3. CASE h \notin DOMAIN f
    <3>1. h \in handles + 1 .. handles + Len(s)
      BY <2>1, <2>3 DEF Executing
    <3>2. h - handles \in DOMAIN s
      BY <1>1, <1>2, <3>1
    <3>3. nextId + (h - handles) - 1 = nth(h)
      OBVIOUS
    <3>4. /\ inflight'[h].id = StagedId(nth(h), s[h - handles])
          /\ inflight'[h].site = s[h - handles]
      BY <2>1, <2>3, <3>1 DEF Executing
    <3> QED BY <3>1, <3>2, <3>4 DEF TurnOf
  <2> QED BY <2>2, <2>3
<1> DEFINE old(h) == h \in DOMAIN inflight /\ inflight'[h] = inflight[h]
           fresh(h) ==
              /\ h \in handles + 1 .. handles + Len(s)
              /\ nth(h) \in Nat /\ nextId <= nth(h) /\ nth(h) + 1 <= nextId'
              /\ inflight'[h].id \in Nat
              /\ SiteOf(inflight'[h].id) = inflight'[h].site
              /\ nth(h) * NSites <= inflight'[h].id
              /\ inflight'[h].id < (nth(h) + 1) * NSites
<1>4. ASSUME NEW h \in DOMAIN inflight'
      PROVE  old(h) \/ fresh(h)
  <2> SUFFICES ASSUME h \in handles + 1 .. handles + Len(s),
                      s[h - handles] \in CmdSites,
                      inflight'[h].id = StagedId(nth(h), s[h - handles]),
                      inflight'[h].site = s[h - handles]
               PROVE  fresh(h)
    BY <1>3
  <2> HIDE DEF old, fresh
  <2> DEFINE k == h - handles
             site == s[k]
  <2>1. nth(h) \in Nat /\ nextId <= nth(h) /\ nth(h) + 1 <= nextId'
    <3>1. k \in 1 .. Len(s)
      BY <1>t, Offset
    <3>2. nth(h) = nextId + k - 1
      BY DEF nth
    <3> HIDE DEF k, nth
    <3>3. nextId + k - 1 \in Nat /\ nextId <= nextId + k - 1
          /\ (nextId + k - 1) + 1 <= nextId + Len(s)
      BY <1>t, <3>1, NthInRange
    <3> QED BY <1>u, <3>2, <3>3
  <2> HIDE DEF nth
  <2>2. nth(h) <= MaxHandles
    BY <1>1, <1>2, <2>1
  <2>4. /\ site \in CmdSites
        /\ inflight'[h].id = StagedId(nth(h), site)
        /\ inflight'[h].site = site
    OBVIOUS
  <2> HIDE DEF site
  <2>3. /\ inflight'[h].id \in Nat
        /\ SiteOf(inflight'[h].id) = inflight'[h].site
        /\ nth(h) * NSites <= inflight'[h].id
        /\ inflight'[h].id < (nth(h) + 1) * NSites
    BY <2>1, <2>2, <2>4, StagedWithoutWrap
  <2> QED BY <2>1, <2>3 DEF fresh
<1>5. \A h \in DOMAIN inflight : /\ inflight[h].id \in Nat
                                 /\ inflight[h].id < nextId * NSites
  BY DEF IdInv, IssuedBelow, GcTypeOK
<1>6. nextId * NSites \in Nat /\ nextId' * NSites \in Nat /\ nextId * NSites <= nextId' * NSites
  <2>1. nextId' \in Nat /\ nextId <= nextId'
    BY <1>1
  <2> QED BY <1>1, <1>2, <2>1, ProductIsNat, ProductGrows
<1> HIDE DEF nth
<1>7. ASSUME NEW h \in DOMAIN inflight', fresh(h)
      PROVE  /\ nextId * NSites <= inflight'[h].id
             /\ inflight'[h].id < nextId' * NSites
  <2> DEFINE x == nth(h) * NSites
             y == (nth(h) + 1) * NSites
             lo == nextId * NSites
             hi == nextId' * NSites
  <2>1. nth(h) \in Nat /\ nth(h) + 1 \in Nat /\ nextId' \in Nat
    <3>1. nth(h) \in Nat
      BY <1>7
    <3>2. nth(h) + 1 \in Nat
      BY <3>1
    <3> QED BY <1>u, <3>1, <3>2
  <2>2. x \in Nat /\ y \in Nat /\ lo <= x /\ y <= hi
    BY <1>1, <1>2, <1>7, <2>1, ProductIsNat, ProductGrows
  <2>3. inflight'[h].id \in Nat /\ x <= inflight'[h].id /\ inflight'[h].id < y
    BY <1>7
  <2>4. lo \in Nat /\ hi \in Nat
    BY <1>6
  <2> HIDE DEF x, y, lo, hi
  <2>5. lo <= inflight'[h].id /\ inflight'[h].id < hi
    BY <2>2, <2>3, <2>4
  <2> QED BY <2>5 DEF lo, hi
<1>8. ASSUME NEW h \in DOMAIN inflight', NEW i \in DOMAIN inflight', fresh(h), fresh(i),
             nth(h) < nth(i)
      PROVE  inflight'[h].id # inflight'[i].id
  <2> DEFINE x == (nth(h) + 1) * NSites
             y == nth(i) * NSites
  <2>1. nth(h) + 1 \in Nat /\ nth(i) \in Nat /\ nth(h) + 1 <= nth(i)
    <3>1. nth(h) \in Nat /\ nth(i) \in Nat
      BY <1>8
    <3> QED BY <1>8, <3>1, NextAbove
  <2>2. x \in Nat /\ y \in Nat /\ x <= y
    BY <1>2, <2>1, ProductIsNat, ProductGrows
  <2>3. /\ inflight'[h].id \in Nat /\ inflight'[h].id < x
        /\ inflight'[i].id \in Nat /\ y <= inflight'[i].id
    BY <1>8
  <2> HIDE DEF x, y
  <2> QED BY <2>2, <2>3
<1>9. IssuedBelow'
  <2>1. nextId' <= handles'
    BY <1>1
  <2>2. ASSUME NEW h \in DOMAIN inflight'
        PROVE  inflight'[h].id < nextId' * NSites
    <3>1. CASE old(h)
      <4> DEFINE lo == nextId * NSites
                 hi == nextId' * NSites
      <4>1. inflight'[h].id \in Nat /\ inflight'[h].id < lo
        BY <1>5, <3>1
      <4>2. lo \in Nat /\ hi \in Nat /\ lo <= hi
        BY <1>6
      <4> HIDE DEF lo, hi
      <4>3. inflight'[h].id < hi
        BY <4>1, <4>2
      <4> QED BY <4>3 DEF hi
    <3> QED BY <1>4, <1>7, <3>1
  <2> QED BY <2>1, <2>2 DEF IssuedBelow
<1>10. ContinuationRecovered'
  <2>1. ASSUME NEW h \in DOMAIN inflight'
        PROVE  SiteOf(inflight'[h].id) = inflight'[h].site
    <3>1. CASE old(h)
      BY <3>1 DEF IdInv, ContinuationRecovered
    <3> QED BY <1>4, <3>1
  <2> QED BY <2>1 DEF ContinuationRecovered, SiteOf
<1>11. OneCommandPerId'
  <2> SUFFICES ASSUME NEW h \in DOMAIN inflight', NEW i \in DOMAIN inflight',
                      inflight'[h].id = inflight'[i].id
               PROVE  h = i
    BY DEF OneCommandPerId
  <2>1. CASE old(h) /\ old(i)
    BY <2>1 DEF IdInv, OneCommandPerId
  <2>2. ASSUME NEW j \in DOMAIN inflight', NEW k \in DOMAIN inflight', old(j), fresh(k)
        PROVE  inflight'[j].id # inflight'[k].id
    <3> DEFINE lo == nextId * NSites
    <3>1. inflight'[j].id \in Nat /\ inflight'[j].id < lo
      BY <1>5, <2>2
    <3>2. lo <= inflight'[k].id /\ lo \in Nat /\ inflight'[k].id \in Nat
      BY <1>6, <1>7, <2>2
    <3> HIDE DEF lo
    <3> QED BY <3>1, <3>2
  <2>3. CASE fresh(h) /\ fresh(i)
    <3>1. nth(h) \in Nat /\ nth(i) \in Nat
      BY <2>3
    <3>2. ~ (nth(h) < nth(i)) /\ ~ (nth(i) < nth(h))
      BY <1>8, <2>3
    <3>3. nth(h) = nth(i)
      BY <3>1, <3>2
    <3>4. h \in handles + 1 .. handles + Len(s) /\ i \in handles + 1 .. handles + Len(s)
      BY <2>3
    <3> QED BY <1>t, <3>3, <3>4, OffsetUnique DEF nth
  <2> HIDE DEF old, fresh
  <2> QED BY <1>4, <2>1, <2>2, <2>3
<1> QED BY <1>9, <1>10, <1>11 DEF IdInv

LEMMA IdInvHolds ==
    ASSUME NoWrap
    PROVE  GcSpec => []IdInv
<1>1. GcInit => IdInv
  <2> SUFFICES ASSUME GcInit PROVE IdInv
    OBVIOUS
  <2>1. DOMAIN EmptyMap = {}
    BY DEF EmptyMap
  <2>2. DOMAIN inflight = {} /\ nextId <= handles
    BY <2>1 DEF GcInit
  <2> QED BY <2>2, GcAssumption, InitHasType
          DEF IdInv, IssuedBelow, ContinuationRecovered, OneCommandPerId
<1>2. IdInv /\ GcTypeOK' /\ [GcNext]_gcVars => IdInv'
  <2> SUFFICES ASSUME IdInv, GcTypeOK', [GcNext]_gcVars PROVE IdInv'
    OBVIOUS
  <2>1. ASSUME NEW f, NEW s, NEW m, TurnOf(f, s, m)
        PROVE  IdInv'
    BY <2>1, GcAssumption, TurnKeepsIds
  <2>2. ASSUME NEW h, NEW phase, Advance(h, phase)
        PROVE  IdInv'
    <3>1. /\ DOMAIN inflight' = DOMAIN inflight
          /\ \A i \in DOMAIN inflight : /\ inflight'[i].id = inflight[i].id
                                        /\ inflight'[i].site = inflight[i].site
      BY <2>2 DEF Advance, IdInv, GcTypeOK
    <3>2. nextId' = nextId /\ handles' = handles
      BY <2>2 DEF Advance, moduleVars
    <3> QED BY <3>1, <3>2
            DEF IdInv, IssuedBelow, ContinuationRecovered, OneCommandPerId, SiteOf
  <2>3. CASE UNCHANGED gcVars
    BY <2>3 DEF gcVars, moduleVars, pageVars, IdInv, IssuedBelow, ContinuationRecovered,
                OneCommandPerId, SiteOf
  <2> QED BY <2>1, <2>2, <2>3, GcAssumption, Steps DEF IdInv
<1> QED BY <1>1, <1>2, GcTypeCorrect, PTL DEF GcSpec

(* "Issued ids encode their callsite ..., so resolve recovers the           *)
(* continuation with id % n_sites" (lib.rs 214-216): as long as the counter *)
(* does not wrap.                                                           *)
THEOREM ContinuationsAreRecovered ==
    ASSUME NoWrap
    PROVE  GcSpec => []ContinuationRecovered
<1>1. IdInv => ContinuationRecovered
  BY DEF IdInv
<1> QED BY <1>1, IdInvHolds, PTL

(* ... and no two outstanding commands share an id.                         *)
THEOREM CommandIdsAreUnique ==
    ASSUME NoWrap
    PROVE  GcSpec => []OneCommandPerId
<1>1. IdInv => OneCommandPerId
  BY DEF IdInv
<1> QED BY <1>1, IdInvHolds, PTL

-----------------------------------------------------------------------------
(* What ViewAssumption says of one template.                                *)
LEMMA TemplateFacts ==
    ASSUME NEW t \in Parts
    PROVE  /\ t.kids \in Seq(Parts) /\ DOMAIN t.kids = 1 .. Len(t.kids) /\ Len(t.kids) \in Nat
           /\ Height[t] \in Nat
           /\ \A i \in DOMAIN t.kids :
                 t.kids[i] \in Parts /\ Height[t.kids[i]] \in Nat /\ Height[t.kids[i]] < Height[t]
<1>1. t.kids \in Seq(Parts) /\ Height \in [Parts -> Nat]
      /\ \A i \in DOMAIN t.kids : Height[t.kids[i]] < Height[t]
    BY ViewAssumption
<1>2. DOMAIN t.kids = 1 .. Len(t.kids) /\ Len(t.kids) \in Nat
      /\ \A i \in DOMAIN t.kids : t.kids[i] \in Parts
    BY <1>1
<1> QED BY <1>1, <1>2

(* The recursions, by what they compute.                                    *)
Body(kind, f, c, m) ==
    CASE kind = "tree"      -> TreeOf(f, c, m)
      [] kind = "view"      -> ViewOf(f, c, m)
      [] kind = "sites"     -> SitesOf(f, c[1], c[2], c[3])
      [] kind = "collected" -> CollectedOf(f, c)
      [] kind = "handlers"  -> HandlersOf(f, c)

(* Its calls go down, H telling how far.                                    *)
Descends(kind, C, m, H) ==
    /\ \A c \in C : H[c] \in Nat
    /\ \A f, g : \A c \in C :
          (\A b \in C : H[b] < H[c] => f[b] = g[b]) => Body(kind, f, c, m) = Body(kind, g, c, m)

Solvable(kind, C, m) == \E f : f = [c \in C |-> Body(kind, f, c, m)]

(* Such a recursion has a solution.                                        *)
LEMMA Recursion ==
    ASSUME NEW kind, NEW C, NEW m, NEW H, Descends(kind, C, m, H)
    PROVE  Solvable(kind, C, m)
<1> DEFINE B(f, c) == Body(kind, f, c, m)
           V(n) == {c \in C : H[c] < n}
           Solves(f, n) == f = [c \in V(n) |-> B(f, c)]
           S == {n \in Nat : \E f : Solves(f, n)}
<1>b. \A f, g : \A c \in C : (\A b \in C : H[b] < H[c] => f[b] = g[b]) => B(f, c) = B(g, c)
    BY DEF Descends
<1>n. \A c \in C : H[c] \in Nat
    BY DEF Descends
<1> HIDE DEF B
<1>1. \A n \in Nat : n \in S
    <2>1. 0 \in S
        <3> DEFINE f == [c \in V(0) |-> 0]
        <3>1. V(0) = {}
            BY <1>n
        <3>2. Solves(f, 0)
            BY <3>1
        <3> HIDE DEF f, Solves
        <3> QED BY <3>2
    <2>2. ASSUME NEW n \in Nat, n \in S PROVE n + 1 \in S
        <3>1. PICK f : Solves(f, n)
            BY <2>2
        <3> DEFINE g == [c \in V(n + 1) |-> B(f, c)]
        <3>2. \A c \in V(n) : g[c] = f[c]
            <4>1. \A c \in V(n) : c \in V(n + 1)
                BY <1>n
            <4> QED BY <3>1, <4>1
        <3>3. \A c \in V(n + 1) : \A b \in C : H[b] < H[c] => b \in V(n)
            BY <1>n
        <3>4. \A c \in V(n + 1) : B(f, c) = B(g, c)
            <4>1. \A c \in V(n + 1) : c \in C
                OBVIOUS
            <4> HIDE DEF g, V
            <4> QED BY <1>b, <3>2, <3>3, <4>1
        <3>5. g = [c \in V(n + 1) |-> B(f, c)]
            OBVIOUS
        <3>6. Solves(g, n + 1)
            <4> HIDE DEF g, V
            <4> QED BY <3>4, <3>5
        <3> HIDE DEF g, Solves
        <3> QED BY <3>6
    <2> HIDE DEF S
    <2> QED BY <2>1, <2>2, NatSetInduction
<1> DEFINE G == [n \in Nat |-> CHOOSE f : Solves(f, n)]
<1>2. \A n \in Nat : Solves(G[n], n)
    <2> SUFFICES ASSUME NEW n \in Nat PROVE Solves(G[n], n)
        OBVIOUS
    <2>1. \E f : Solves(f, n)
        BY <1>1
    <2>2. G[n] = CHOOSE f : Solves(f, n)
        OBVIOUS
    <2> HIDE DEF Solves, G
    <2> QED BY <2>1, <2>2
<1>3. \A n \in Nat : \A c \in C : H[c] < n => G[n][c] = B(G[n], c)
    <2> SUFFICES ASSUME NEW n \in Nat, NEW c \in C, H[c] < n
                 PROVE  G[n][c] = B(G[n], c)
        OBVIOUS
    <2> DEFINE g == G[n]
    <2>1. g = [b \in V(n) |-> B(g, b)] /\ c \in V(n)
        BY <1>2
    <2> HIDE DEF g, V
    <2>2. g[c] = B(g, c)
        BY <2>1
    <2> QED BY <2>2 DEF g
<1> HIDE DEF G, S, Solves
<1> DEFINE Same(c) == \A n, k \in Nat : H[c] < n /\ H[c] < k => G[n][c] = G[k][c]
           R == {h \in Nat : \A c \in C : H[c] = h => Same(c)}
<1>4. \A h \in Nat : h \in R
    <2>1. ASSUME NEW h \in Nat, \A k \in Nat : k < h => k \in R PROVE h \in R
        <3> SUFFICES ASSUME NEW c \in C, H[c] = h, NEW n \in Nat, NEW k \in Nat, h < n, h < k
                     PROVE  G[n][c] = G[k][c]
            OBVIOUS
        <3>1. \A b \in C : H[b] < h => G[n][b] = G[k][b]
            <4> SUFFICES ASSUME NEW b \in C, H[b] < h PROVE G[n][b] = G[k][b]
                OBVIOUS
            <4>1. H[b] \in R /\ H[b] \in Nat
                BY <1>n, <2>1
            <4>2. Same(b)
                BY <4>1
            <4> QED BY <4>1, <4>2
        <3>2. B(G[n], c) = B(G[k], c)
            BY <1>b, <3>1
        <3> QED BY <1>3, <3>2
    <2> HIDE DEF R
    <2> QED BY <2>1, StrongSetInduction
<1> DEFINE F == [c \in C |-> G[H[c] + 1][c]]
<1>5. \A c \in C : F[c] = B(F, c)
    <2> SUFFICES ASSUME NEW c \in C PROVE F[c] = B(F, c)
        OBVIOUS
    <2> DEFINE g == G[H[c] + 1]
    <2>1. F[c] = g[c] /\ H[c] + 1 \in Nat /\ H[c] < H[c] + 1
        BY <1>n
    <2>2. g[c] = B(g, c)
        BY <1>3, <2>1
    <2>3. \A b \in C : H[b] < H[c] => F[b] = g[b]
        <3> SUFFICES ASSUME NEW b \in C, H[b] < H[c] PROVE F[b] = g[b]
            OBVIOUS
        <3>1. H[b] \in Nat /\ H[c] \in Nat /\ H[b] \in R
            BY <1>n, <1>4
        <3>2. Same(b)
            BY <3>1
        <3>3. H[b] < H[b] + 1 /\ H[b] < H[c] + 1 /\ H[b] + 1 \in Nat
            BY <3>1
        <3>4. G[H[b] + 1][b] = G[H[c] + 1][b]
            BY <2>1, <3>2, <3>3
        <3> QED BY <3>4
    <2>4. B(F, c) = B(g, c)
        <3> HIDE DEF F, g
        <3> QED BY <1>b, <2>3
    <2> QED BY <2>1, <2>2, <2>4
<1>6. F = [c \in C |-> B(F, c)]
    <2>1. F = [c \in C |-> F[c]]
        OBVIOUS
    <2> HIDE DEF F
    <2> QED BY <1>5, <2>1
<1> HIDE DEF F
<1>7. \E f : f = [c \in C |-> B(f, c)]
    BY <1>6
<1> QED BY <1>7 DEF B, Solvable

(* The lists of the model m hold what they may hold.                        *)
ListsTyped(m) == \A t \in Parts : IsRegion(t) => m[t.each] \in Seq(Items)

(* The calls for the children are calls, and go down.                       *)
LEMMA CopiesAre ==
    ASSUME NEW m, ListsTyped(m), NEW c \in Calls
    PROVE  /\ Copies(c, m) \in Seq(Calls) /\ DOMAIN Copies(c, m) = 1 .. Len(Copies(c, m))
           /\ Len(Copies(c, m)) \in Nat
           /\ \A i \in DOMAIN Copies(c, m) :
                 Copies(c, m)[i] \in Calls /\ Height[Copies(c, m)[i][1]] < Height[c[1]]
<1> DEFINE t == c[1]
<1>1. t \in Parts /\ c[2] \in Items \cup {NoItem} /\ c = <<t, c[2]>>
    BY DEF Calls
<1>2. t.kids \in Seq(Parts) /\ DOMAIN t.kids = 1 .. Len(t.kids) /\ Len(t.kids) \in Nat
      /\ \A i \in DOMAIN t.kids : t.kids[i] \in Parts /\ Height[t.kids[i]] < Height[t]
    BY <1>1, TemplateFacts
<1> DEFINE q == Copies(c, m)
<1>3. \E n \in Nat : /\ q = [i \in 1 .. n |-> q[i]]
                     /\ \A i \in 1 .. n : q[i] \in Calls /\ Height[q[i][1]] < Height[t]
    <2>1. CASE IsRegion(t)
        <3> DEFINE s == m[t.each]
                   n == Len(s)
        <3>1. s \in Seq(Items)
            BY <1>1, <2>1 DEF ListsTyped
        <3>2. n \in Nat /\ DOMAIN s = 1 .. n /\ \A k \in 1 .. n : s[k] \in Items
            BY <3>1
        <3>3. Len(t.kids) = 1
            BY <1>1, <2>1, ViewAssumption
        <3>4. t.kids[1] \in Parts /\ Height[t.kids[1]] < Height[t]
            BY <1>2, <3>3
        <3>5. q = [k \in DOMAIN s |-> <<t.kids[1], s[k]>>]
            BY <2>1 DEF Copies
        <3> HIDE DEF q, s, n
        <3>6. q = [k \in 1 .. n |-> q[k]] /\ \A k \in 1 .. n : q[k] = <<t.kids[1], s[k]>>
            BY <3>2, <3>5
        <3>7. \A k \in 1 .. n : q[k] \in Calls /\ Height[q[k][1]] < Height[t]
            BY <3>2, <3>4, <3>6 DEF Calls
        <3> QED BY <3>2, <3>6, <3>7
    <2>2. CASE ~ IsRegion(t)
        <3> DEFINE n == Len(t.kids)
        <3>1. q = [i \in 1 .. n |-> <<t.kids[i], c[2]>>]
            BY <1>2, <2>2 DEF Copies
        <3> HIDE DEF q
        <3>2. q = [i \in 1 .. n |-> q[i]] /\ \A i \in 1 .. n : q[i] = <<t.kids[i], c[2]>>
            BY <3>1
        <3>3. ASSUME NEW i \in 1 .. n PROVE q[i] \in Calls /\ Height[q[i][1]] < Height[t]
            <4>1. q[i] = <<t.kids[i], c[2]>> /\ t.kids[i] \in Parts
                BY <1>2, <3>2
            <4>2. q[i] \in Calls /\ q[i][1] = t.kids[i]
                BY <1>1, <4>1 DEF Calls
            <4> QED BY <1>2, <4>2
        <3> QED BY <1>2, <3>2, <3>3
    <2> QED BY <2>1, <2>2
<1> HIDE DEF q, t
<1>4. PICK n \in Nat : /\ q = [i \in 1 .. n |-> q[i]]
                       /\ \A i \in 1 .. n : q[i] \in Calls /\ Height[q[i][1]] < Height[t]
    BY <1>3
<1>5. q \in [1 .. n -> Calls]
    BY <1>4
<1>6. Len(q) = n /\ q \in Seq(Calls) /\ DOMAIN q = 1 .. n
    BY <1>5, LenOfFunction
<1> QED BY <1>4, <1>6 DEF q, t

(* The equations of the tree init writes and of the tree the runtime        *)
(* renders.                                                                 *)
LEMMA TreesAre ==
    ASSUME NEW m, ListsTyped(m)
    PROVE  \A c \in Calls : Trees(m)[c] = TreeOf(Trees(m), c, m) /\ Views(m)[c] = ViewOf(Views(m), c, m)
<1> DEFINE H == [c \in Calls |-> Height[c[1]]]
<1>1. \A c \in Calls : H[c] \in Nat
    <2>1. \A c \in Calls : c[1] \in Parts
        BY DEF Calls
    <2> QED BY <2>1, TemplateFacts
<1>2. \A c \in Calls : \A i \in DOMAIN Copies(c, m) :
         Copies(c, m)[i] \in Calls /\ H[Copies(c, m)[i]] < H[c]
    BY CopiesAre
<1> HIDE DEF H
<1>3. ASSUME NEW f, NEW g, NEW c \in Calls, \A b \in Calls : H[b] < H[c] => f[b] = g[b]
      PROVE  TreeOf(f, c, m) = TreeOf(g, c, m) /\ ViewOf(f, c, m) = ViewOf(g, c, m)
    <2> DEFINE q == Copies(c, m)
    <2>1. \A i \in DOMAIN q : f[q[i]] = g[q[i]]
        BY <1>2, <1>3
    <2> HIDE DEF q
    <2>2. [i \in DOMAIN q |-> f[q[i]]] = [i \in DOMAIN q |-> g[q[i]]]
        BY <2>1
    <2> QED BY <2>2 DEF TreeOf, ViewOf, q
<1>4. \E f : f = [c \in Calls |-> TreeOf(f, c, m)]
    <2>1. Descends("tree", Calls, m, H)
        BY <1>1, <1>3 DEF Descends, Body
    <2>2. Solvable("tree", Calls, m)
        BY <2>1, Recursion
    <2> QED BY <2>2 DEF Solvable, Body
<1>5. \E f : f = [c \in Calls |-> ViewOf(f, c, m)]
    <2>1. Descends("view", Calls, m, H)
        BY <1>1, <1>3 DEF Descends, Body
    <2>2. Solvable("view", Calls, m)
        BY <2>1, Recursion
    <2> QED BY <2>2 DEF Solvable, Body
<1> DEFINE tree == Trees(m)
           view == Views(m)
<1>6. tree = CHOOSE f : f = [c \in Calls |-> TreeOf(f, c, m)]
    BY DEF Trees
<1>7. view = CHOOSE f : f = [c \in Calls |-> ViewOf(f, c, m)]
    BY DEF Views
<1> HIDE DEF tree, view
<1>8. tree = [c \in Calls |-> TreeOf(tree, c, m)]
    BY <1>4, <1>6
<1>9. view = [c \in Calls |-> ViewOf(view, c, m)]
    BY <1>5, <1>7
<1>10. \A c \in Calls : tree[c] = TreeOf(tree, c, m)
    BY <1>8
<1>11. \A c \in Calls : view[c] = ViewOf(view, c, m)
    BY <1>9
<1> QED BY <1>10, <1>11 DEF tree, view

(* The equation of what walk notes down.                                    *)
LEMMA SitesAre ==
    \A w \in Walks : Sites[w] = SitesOf(Sites, w[1], w[2], w[3])
<1> DEFINE H == [w \in Walks |-> Height[w[2]]]
<1>1. \A w \in Walks : H[w] \in Nat
    <2>1. \A w \in Walks : w[2] \in Parts
        BY DEF Walks
    <2> QED BY <2>1, TemplateFacts
<1>2. ASSUME NEW w \in Walks
      PROVE  \A i \in DOMAIN w[2].kids :
                /\ <<w[1], w[2].kids[i], Append(w[3], i)>> \in Walks
                /\ H[<<w[1], w[2].kids[i], Append(w[3], i)>>] < H[w]
    <2> SUFFICES ASSUME NEW i \in DOMAIN w[2].kids
                 PROVE  /\ <<w[1], w[2].kids[i], Append(w[3], i)>> \in Walks
                        /\ H[<<w[1], w[2].kids[i], Append(w[3], i)>>] < H[w]
        OBVIOUS
    <2> DEFINE t == w[2]
               u == t.kids[i]
               p == Append(w[3], i)
    <2>1. w[1] \in {"texts", "attrs", "regions"} /\ t \in Parts /\ w[3] \in Seq(Nat)
        BY DEF Walks
    <2>2. u \in Parts /\ Height[u] < Height[t] /\ i \in Nat
        BY <2>1, TemplateFacts
    <2>3. p \in Seq(Nat)
        BY <2>1, <2>2
    <2> HIDE DEF u, p
    <2>4. <<w[1], u, p>> \in Walks
        BY <2>1, <2>2, <2>3 DEF Walks
    <2>5. H[<<w[1], u, p>>] = Height[u] /\ H[w] = Height[t]
        BY <2>4
    <2> QED BY <2>2, <2>4, <2>5 DEF u, p
<1> HIDE DEF H
<1>3. ASSUME NEW f, NEW g, NEW w \in Walks, \A b \in Walks : H[b] < H[w] => f[b] = g[b]
      PROVE  SitesOf(f, w[1], w[2], w[3]) = SitesOf(g, w[1], w[2], w[3])
    <2> DEFINE k == w[2].kids
               sub(i) == <<w[1], k[i], Append(w[3], i)>>
    <2>1. \A i \in DOMAIN k : f[sub(i)] = g[sub(i)]
        BY <1>2, <1>3
    <2> HIDE DEF k, sub
    <2>2. [i \in DOMAIN k |-> f[sub(i)]] = [i \in DOMAIN k |-> g[sub(i)]]
        BY <2>1
    <2> QED BY <2>2 DEF SitesOf, k, sub
<1>4. \E f : f = [w \in Walks |-> SitesOf(f, w[1], w[2], w[3])]
    <2>1. Descends("sites", Walks, 0, H)
        BY <1>1, <1>3 DEF Descends, Body
    <2>2. Solvable("sites", Walks, 0)
        BY <2>1, Recursion
    <2> QED BY <2>2 DEF Solvable, Body
<1> DEFINE s == Sites
<1>5. s = CHOOSE f : f = [w \in Walks |-> SitesOf(f, w[1], w[2], w[3])]
    BY DEF Sites
<1> HIDE DEF s
<1>6. s = [w \in Walks |-> SitesOf(s, w[1], w[2], w[3])]
    BY <1>4, <1>5
<1>7. \A w \in Walks : s[w] = SitesOf(s, w[1], w[2], w[3])
    BY <1>6
<1> QED BY <1>7 DEF s

-----------------------------------------------------------------------------
(* patches(), one list of the plan at a time.                               *)
PatchOf(list, s, m) ==
    CASE list = "texts"   -> SetText(s.path, Value(s.expr, m, NoItem))
      [] list = "attrs"   -> SetAttr(s.path, s.name, Value(s.expr, m, NoItem))
      [] list = "regions" -> Replace(s.path, Tree(s.node, m))

Written(list, sites, m) == [i \in DOMAIN sites |-> PatchOf(list, sites[i], m)]

LEMMA WrittenIs ==
    \A sites, m : /\ TextPatches(sites, m) = Written("texts", sites, m)
                  /\ AttrPatches(sites, m) = Written("attrs", sites, m)
                  /\ RegionPatches(sites, m) = Written("regions", sites, m)
BY DEF TextPatches, AttrPatches, RegionPatches, Written, PatchOf

LEMMA WrittenList ==
    ASSUME NEW list, NEW m, NEW a, IsList(a)
    PROVE  /\ IsList(Written(list, a, m)) /\ Len(Written(list, a, m)) = Len(a)
           /\ \A i \in 1 .. Len(a) : Written(list, a, m)[i] = PatchOf(list, a[i], m)
<1> DEFINE n == Len(a)
           f == Written(list, a, m)
<1>1. n \in Nat /\ f = [i \in 1 .. n |-> PatchOf(list, a[i], m)]
    BY ListIs DEF Written
<1> HIDE DEF n, f
<1>2. f = [i \in 1 .. n |-> f[i]] /\ \A i \in 1 .. n : f[i] = PatchOf(list, a[i], m)
    BY <1>1
<1>3. IsList(f)
    BY <1>1, <1>2, FunctionIsList
<1>4. Len(f) = n
    <2>1. Len(f) \in Nat /\ DOMAIN f = 1 .. Len(f) /\ DOMAIN f = 1 .. n
        BY <1>2, <1>3, ListIs
    <2> QED BY <1>1, <2>1
<1> QED BY <1>2, <1>3, <1>4 DEF n, f

LEMMA WrittenJoin ==
    ASSUME NEW list, NEW m, NEW a, NEW b, IsList(a), IsList(b)
    PROVE  Written(list, a \o b, m) = Written(list, a, m) \o Written(list, b, m)
<1> DEFINE x == Written(list, a, m)
           y == Written(list, b, m)
           ab == a \o b
           z == Written(list, ab, m)
           p == Len(a)
           q == Len(b)
<1>1. /\ IsList(x) /\ Len(x) = p /\ \A i \in 1 .. p : x[i] = PatchOf(list, a[i], m)
      /\ IsList(y) /\ Len(y) = q /\ \A i \in 1 .. q : y[i] = PatchOf(list, b[i], m)
    BY WrittenList
<1>2. /\ IsList(ab) /\ p \in Nat /\ q \in Nat /\ Len(ab) = p + q
      /\ \A i \in 1 .. p : ab[i] = a[i]
      /\ \A i \in 1 .. q : ab[p + i] = b[i]
    BY ListJoin
<1> HIDE DEF ab
<1>3. /\ IsList(z) /\ Len(z) = p + q
      /\ \A i \in 1 .. p + q : z[i] = PatchOf(list, ab[i], m)
    BY <1>2, WrittenList
<1> HIDE DEF x, y, z
<1>4. /\ IsList(x \o y) /\ Len(x \o y) = p + q
      /\ \A i \in 1 .. p : (x \o y)[i] = x[i]
      /\ \A i \in 1 .. q : (x \o y)[p + i] = y[i]
    BY <1>1, ListJoin
<1> HIDE DEF p, q
<1>5. ASSUME NEW i \in 1 .. p + q PROVE z[i] = (x \o y)[i]
    <2>1. CASE i <= p
        <3>1. i \in 1 .. p
            BY <1>2, <2>1
        <3> QED BY <1>1, <1>2, <1>3, <1>4, <3>1
    <2>2. CASE ~ (i <= p)
        <3> DEFINE k == i - p
        <3>1. k \in 1 .. q /\ i = p + k
            BY <1>2, <2>2
        <3> HIDE DEF k
        <3>2. (x \o y)[i] = y[k] /\ ab[i] = b[k]
            BY <1>2, <1>4, <3>1
        <3>3. z[i] = PatchOf(list, b[k], m)
            BY <1>3, <3>2
        <3> QED BY <1>1, <3>1, <3>2, <3>3
    <2> QED BY <2>1, <2>2
<1> DEFINE xy == x \o y
<1>6. IsList(xy) /\ IsList(z) /\ Len(z) = Len(xy) /\ \A i \in 1 .. Len(z) : z[i] = xy[i]
    BY <1>3, <1>4, <1>5
<1> HIDE DEF xy
<1>7. z = xy
    BY <1>6, SameList
<1> QED BY <1>7 DEF xy, x, y, z, ab

(* Carrying out the patches for these sites turns d into e.                 *)
SitesLead(list, m, d, sites, e) == IsList(sites) /\ Leads(d, Written(list, sites, m), e)

LEMMA SitesLeadNone ==
    ASSUME NEW list, NEW m, NEW d
    PROVE  SitesLead(list, m, d, <<>>, d)
<1>1. IsList(Written(list, <<>>, m)) /\ Len(Written(list, <<>>, m)) = Len(<<>>)
    BY EmptyList, WrittenList
<1> DEFINE w == Written(list, <<>>, m)
<1>2. IsList(w) /\ Len(w) = Len(<<>>) /\ Len(<<>>) = 0
    BY <1>1, EmptyList
<1> HIDE DEF w
<1>3. w = <<>>
    BY <1>2, EmptyList, SameList
<1> QED BY <1>3, EmptyList, LeadsNone DEF SitesLead, w

LEMMA SitesLeadOn ==
    ASSUME NEW list, NEW m, NEW d, NEW a, NEW e, NEW b, NEW f,
           SitesLead(list, m, d, a, e), SitesLead(list, m, e, b, f)
    PROVE  SitesLead(list, m, d, a \o b, f)
<1>1. IsList(a) /\ IsList(b) /\ Leads(d, Written(list, a, m), e) /\ Leads(e, Written(list, b, m), f)
    BY DEF SitesLead
<1> DEFINE ab == a \o b
           w == Written(list, ab, m)
<1>2. IsList(ab)
    BY <1>1, ListJoin
<1>3. Leads(d, Written(list, a, m) \o Written(list, b, m), f)
    BY <1>1, LeadsOn
<1>4. w = Written(list, a, m) \o Written(list, b, m)
    BY <1>1, WrittenJoin
<1> HIDE DEF w, ab
<1>5. Leads(d, w, f)
    BY <1>3, <1>4
<1> QED BY <1>2, <1>5 DEF SitesLead, w, ab

LEMMA SitesLeadThrough ==
    ASSUME NEW list, NEW m, NEW n \in Nat, NEW ss, Len(ss) = n, n = 0 => ss = <<>>,
           NEW h, \A i \in 1 .. n : SitesLead(list, m, h[i - 1], ss[i], h[i])
    PROVE  SitesLead(list, m, h[0], FlattenSeq(ss), h[n])
<1>1. \A i \in 1 .. n : IsList(ss[i])
    BY DEF SitesLead
<1>2. PICK fl : Flattens(fl, ss, n) /\ FlattenSeq(ss) = fl[n]
    BY <1>1, FlattenIs
<1> DEFINE S == {i \in Nat : i <= n => SitesLead(list, m, h[0], fl[i], h[i])}
<1>3. \A i \in Nat : i \in S
    <2>1. 0 \in S
        BY <1>2, SitesLeadNone DEF Flattens
    <2>2. ASSUME NEW i \in Nat, i \in S PROVE i + 1 \in S
        <3> SUFFICES ASSUME i + 1 <= n PROVE SitesLead(list, m, h[0], fl[i + 1], h[i + 1])
            OBVIOUS
        <3> DEFINE k == i + 1
        <3>1. k \in 1 .. n /\ k - 1 = i /\ SitesLead(list, m, h[0], fl[i], h[i])
            BY <2>2
        <3> HIDE DEF k
        <3>2. fl[k] = fl[i] \o ss[k] /\ SitesLead(list, m, h[i], ss[k], h[k])
            BY <1>2, <3>1 DEF Flattens
        <3>3. SitesLead(list, m, h[0], fl[k], h[k])
            BY <3>1, <3>2, SitesLeadOn
        <3> QED BY <3>3 DEF k
    <2> HIDE DEF S
    <2> QED BY <2>1, <2>2, NatSetInduction
<1> QED BY <1>2, <1>3

(* The sites of t in one list, wherever t is in the page, turn x into y.    *)
Brings(list, m, t, x, y) ==
    \A path \in Seq(Nat) : \A d : HasNode(d, path) =>
       SitesLead(list, m, With(d, path, x), Sites[<<list, t, path>>], With(d, path, y))

KidSites(list, t, path) == [i \in DOMAIN t.kids |-> Sites[<<list, t.kids[i], Append(path, i)>>]]

LEMMA KidsLead ==
    ASSUME NEW list, NEW m, NEW t \in Parts, NEW K, NEW L,
           K = [i \in DOMAIN t.kids |-> K[i]], L = [i \in DOMAIN t.kids |-> L[i]],
           \A i \in DOMAIN t.kids : Brings(list, m, t.kids[i], K[i], L[i]),
           NEW d, NEW path \in Seq(Nat), HasNode(d, path), NEW tag, NEW at, NEW x
    PROVE  SitesLead(list, m, With(d, path, Dom(tag, at, x, K)), FlattenSeq(KidSites(list, t, path)),
                     With(d, path, Dom(tag, at, x, L)))
<1> DEFINE N == Len(t.kids)
           ss == KidSites(list, t, path)
           Mixed(n) == [i \in 1 .. N |-> IF i <= n THEN L[i] ELSE K[i]]
           h == [n \in 0 .. N |-> With(d, path, Dom(tag, at, x, Mixed(n)))]
<1>1. N \in Nat /\ DOMAIN t.kids = 1 .. N
    BY TemplateFacts
<1>2. ss = [i \in 1 .. N |-> Sites[<<list, t.kids[i], Append(path, i)>>]]
    BY <1>1 DEF KidSites
<1>3. \A n \in 0 .. N : h[n] = With(d, path, Dom(tag, at, x, Mixed(n)))
    OBVIOUS
<1> HIDE DEF ss, N, h
<1>4. \A i \in 1 .. N : ss[i] = Sites[<<list, t.kids[i], Append(path, i)>>]
    BY <1>2
<1>5. Len(ss) = N /\ (N = 0 => ss = <<>>)
    <2>1. ss = [n \in 1 .. N |-> ss[n]]
        BY <1>2
    <2>2. IsList(ss)
        BY <1>1, <2>1, FunctionIsList
    <2>3. Len(ss) = N
        <3>1. Len(ss) \in Nat /\ DOMAIN ss = 1 .. Len(ss) /\ DOMAIN ss = 1 .. N
            BY <2>1, <2>2, ListIs
        <3> QED BY <1>1, <3>1
    <2>4. ASSUME N = 0 PROVE ss = <<>>
        <3>1. Len(ss) = Len(<<>>) /\ Len(ss) = 0
            BY <2>3, <2>4, EmptyList
        <3> QED BY <2>2, <3>1, EmptyList, SameList
    <2> QED BY <2>3, <2>4
<1>6. Mixed(0) = K /\ Mixed(N) = L
    <2>1. \A i \in 1 .. N : ~ (i <= 0) /\ i <= N
        BY <1>1
    <2>2. Mixed(0) = [i \in 1 .. N |-> K[i]] /\ Mixed(N) = [i \in 1 .. N |-> L[i]]
        BY <2>1
    <2> HIDE DEF Mixed
    <2> QED BY <1>1, <2>2
<1>7. ASSUME NEW n \in 1 .. N PROVE SitesLead(list, m, h[n - 1], ss[n], h[n])
    <2> DEFINE F == Mixed(n - 1)
               H == Mixed(n)
               q == Append(path, n)
               D == Dom(tag, at, x, F)
               e == With(d, path, D)
    <2>1. n \in Nat /\ n - 1 \in 0 .. N /\ n \in 0 .. N
        BY <1>1
    <2>2. n \in DOMAIN F /\ Swapped(F, n, K[n]) = F /\ Swapped(F, n, L[n]) = H
        <3>1. F = [i \in 1 .. N |-> IF i <= n - 1 THEN L[i] ELSE K[i]]
            OBVIOUS
        <3>2. H = [i \in 1 .. N |-> IF i <= n THEN L[i] ELSE K[i]]
            OBVIOUS
        <3>3. F[n] = K[n] /\ DOMAIN F = 1 .. N /\ F = [i \in 1 .. N |-> F[i]]
            <4>1. ~ (n <= n - 1)
                BY <2>1
            <4> QED BY <3>1, <4>1
        <3>4. \A i \in 1 .. N : (IF i = n THEN L[n] ELSE IF i <= n - 1 THEN L[i] ELSE K[i])
                                   = (IF i <= n THEN L[i] ELSE K[i])
            <4>1. \A i \in 1 .. N : i # n => (i <= n - 1 <=> i <= n)
                BY <1>1
            <4> QED BY <2>1, <4>1
        <3> HIDE DEF F, H
        <3>5. [F EXCEPT ![n] = K[n]] = F
            BY <3>3
        <3>6. [F EXCEPT ![n] = L[n]] = [i \in 1 .. N |-> IF i = n THEN L[n] ELSE F[i]]
            BY <3>3
        <3>7. [F EXCEPT ![n] = L[n]] = H
            BY <3>1, <3>2, <3>4, <3>6
        <3> QED BY <3>3, <3>5, <3>7 DEF Swapped
    <2>3. h[n - 1] = e /\ h[n] = With(d, path, Dom(tag, at, x, H))
        BY <1>3, <2>1
    <2>4. Brings(list, m, t.kids[n], K[n], L[n])
        BY <1>1
    <2>5. q \in Seq(Nat)
        BY <2>1
    <2>6. D.kids = F /\ \A y : Put(D, n, y) = Dom(tag, at, x, Swapped(F, n, y))
        BY DomParts, PutDom
    <2> HIDE DEF F, H, D
    <2>7. HasNode(e, q) /\ \A y : With(e, q, y) = With(d, path, Put(D, n, y))
        BY <2>1, <2>2, <2>6, ChildOfWith
    <2>8. With(e, q, K[n]) = e
        <3>1. With(e, q, K[n]) = With(d, path, Dom(tag, at, x, Swapped(F, n, K[n])))
            BY <2>6, <2>7
        <3> QED BY <2>2, <3>1 DEF D
    <2>9. With(e, q, L[n]) = With(d, path, Dom(tag, at, x, H))
        BY <2>2, <2>6, <2>7
    <2>10. ss[n] = Sites[<<list, t.kids[n], q>>]
        BY <1>4
    <2> HIDE DEF q, e
    <2>11. SitesLead(list, m, With(e, q, K[n]), Sites[<<list, t.kids[n], q>>], With(e, q, L[n]))
        BY <2>4, <2>5, <2>7 DEF Brings
    <2> QED BY <2>3, <2>8, <2>9, <2>10, <2>11
<1>8. 0 \in 0 .. N /\ N \in 0 .. N
    BY <1>1
<1> HIDE DEF Mixed
<1>9. h[0] = With(d, path, Dom(tag, at, x, K)) /\ h[N] = With(d, path, Dom(tag, at, x, L))
    BY <1>3, <1>6, <1>8
<1>10. SitesLead(list, m, h[0], FlattenSeq(ss), h[N])
    BY <1>1, <1>5, <1>7, SitesLeadThrough
<1> QED BY <1>9, <1>10 DEF ss

-----------------------------------------------------------------------------
(* The three lists, one after the other, turn the tree for the model m into *)
(* the tree for n.                                                          *)
Between(t, m, n, x, y) ==
    /\ Brings("texts", n, t, Tree(t, m), x)
    /\ Brings("attrs", n, t, x, y)
    /\ Brings("regions", n, t, y, Tree(t, n))

Repaints(t, m, n) == \E x, y : Between(t, m, n, x, y)

Top(t) == <<t, NoItem>>

(* What walk notes down for one template.                                   *)
LEMMA SitesFor ==
    ASSUME NEW list \in {"texts", "attrs", "regions"}, NEW t \in Parts, NEW path \in Seq(Nat)
    PROVE  Sites[<<list, t, path>>] =
              Own(list, t, path) \o (IF IsRegion(t) THEN <<>> ELSE FlattenSeq(KidSites(list, t, path)))
<1> DEFINE w == <<list, t, path>>
<1>1. w \in Walks /\ w[1] = list /\ w[2] = t /\ w[3] = path
    BY DEF Walks
<1>2. Sites[w] = SitesOf(Sites, w[1], w[2], w[3])
    BY <1>1, SitesAre
<1> QED BY <1>1, <1>2 DEF SitesOf, KidSites

LEMMA FlattenNone == FlattenSeq(<<>>) = <<>>
BY EmptyList DEF FlattenSeq

(* A text or a region has no others than its own.                           *)
LEMMA OwnOnly ==
    ASSUME NEW list \in {"texts", "attrs", "regions"}, NEW t \in Parts, IsText(t) \/ IsRegion(t),
           NEW path \in Seq(Nat), IsList(Own(list, t, path))
    PROVE  Sites[<<list, t, path>>] = Own(list, t, path)
<1> DEFINE own == Own(list, t, path)
<1>1. (IF IsRegion(t) THEN <<>> ELSE FlattenSeq(KidSites(list, t, path))) = <<>>
    <2>1. CASE IsRegion(t)
        BY <2>1
    <2>2. CASE ~ IsRegion(t)
        <3>1. IsText(t)
            BY <2>2
        <3>2. t.kids = <<>>
            <4>1. t = TextNode(t.text)
                BY <3>1, ViewAssumption
            <4> QED BY <4>1 DEF TextNode
        <3>3. KidSites(list, t, path) = <<>>
            <4>1. DOMAIN t.kids = {}
                BY <3>2
            <4> QED BY <4>1 DEF KidSites
        <3> QED BY <2>2, <3>3, FlattenNone
    <2> QED BY <2>1, <2>2
<1>2. Sites[<<list, t, path>>] = own \o <<>>
    BY <1>1, SitesFor
<1> HIDE DEF own
<1>3. own \o <<>> = own
    <2> DEFINE T == {own[n] : n \in DOMAIN own}
    <2>1. own \in Seq(T)
        BY DEF own, IsList
    <2> HIDE DEF T
    <2> QED BY <2>1
<1> QED BY <1>2, <1>3 DEF own

LEMMA OneSiteLeads ==
    ASSUME NEW list, NEW m, NEW d, NEW path \in Seq(Nat), HasNode(d, path), NEW x, NEW s,
           PatchOf(list, s, m).path = path, Suits(x, PatchOf(list, s, m))
    PROVE  SitesLead(list, m, With(d, path, x), <<s>>, With(d, path, Patched(x, PatchOf(list, s, m))))
<1> DEFINE a == <<s>>
           p == PatchOf(list, s, m)
           w == Written(list, a, m)
           b == <<p>>
<1>1. IsList(a) /\ Len(a) = 1 /\ a[1] = s
    <2>1. a \in Seq({s})
        OBVIOUS
    <2>2. IsList(a)
        <3> HIDE DEF a
        <3> QED BY <2>1, ListOf
    <2> QED BY <2>2
<1>2. IsList(b) /\ Len(b) = 1 /\ b[1] = p
    <2> HIDE DEF p
    <2>1. b \in Seq({p})
        OBVIOUS
    <2>2. IsList(b)
        <3> HIDE DEF b
        <3> QED BY <2>1, ListOf
    <2> QED BY <2>2
<1>3. p.path = path /\ Suits(x, p)
    OBVIOUS
<1> HIDE DEF a
<1>4. IsList(w) /\ Len(w) = Len(a) /\ \A i \in 1 .. Len(a) : w[i] = PatchOf(list, a[i], m)
    BY <1>1, WrittenList
<1>5. \A i \in 1 .. 1 : w[i] = b[i]
    BY <1>1, <1>2, <1>4
<1> HIDE DEF b, w
<1>6. w = b
    BY <1>1, <1>2, <1>4, <1>5, SameList
<1> HIDE DEF p
<1>7. Leads(With(d, path, x), <<p>>, With(d, path, Patched(x, p)))
    BY <1>3, OneLeads
<1>8. Leads(With(d, path, x), w, With(d, path, Patched(x, p)))
    BY <1>6, <1>7 DEF b
<1> QED BY <1>1, <1>8 DEF SitesLead, p, w, a

LEMMA SingleList == \A s : IsList(<<s>>)
<1> SUFFICES ASSUME NEW s PROVE IsList(<<s>>)
    OBVIOUS
<1> DEFINE a == <<s>>
<1>1. a \in Seq({s})
    OBVIOUS
<1> HIDE DEF a
<1>2. IsList(a)
    BY <1>1, ListOf
<1> QED BY <1>2 DEF a

LEMMA NothingNoted ==
    ASSUME NEW list \in {"texts", "attrs", "regions"}, NEW m, NEW t \in Parts,
           IsText(t) \/ IsRegion(t), NEW x, \A path \in Seq(Nat) : Own(list, t, path) = <<>>
    PROVE  Brings(list, m, t, x, x)
<1>1. \A path \in Seq(Nat) : Sites[<<list, t, path>>] = <<>>
    BY EmptyList, OwnOnly
<1> QED BY <1>1, SitesLeadNone DEF Brings

(* The tree for a template at the top.                                      *)
LEMMA TreeIs ==
    ASSUME NEW m, ListsTyped(m), NEW t \in Parts
    PROVE  Tree(t, m) = TreeOf(Trees(m), Top(t), m)
<1>1. Top(t) \in Calls
    BY DEF Top, Calls
<1> QED BY <1>1, TreesAre DEF Tree, Top

LEMMA TextRepaints ==
    ASSUME NEW m, ListsTyped(m), NEW n, ListsTyped(n), NEW t \in Parts, IsText(t)
    PROVE  Repaints(t, m, n)
<1> DEFINE a == Value(t.text, m, NoItem)
           b == Value(t.text, n, NoItem)
           none == [x \in {} |-> x]
<1>1. t = TextNode(t.text) /\ ~ IsRegion(t)
    <2>1. t = TextNode(t.text)
        BY ViewAssumption
    <2> QED BY <2>1 DEF TextNode, IsRegion
<1>2. t.tag = TextTag /\ DOMAIN t.attrs = {} /\ DOMAIN t.kids = {}
    BY <1>1 DEF TextNode
<1>3. ASSUME NEW k, ListsTyped(k)
      PROVE  Tree(t, k) = Dom(TextTag, none, Value(t.text, k, NoItem), none)
    <2> DEFINE c == Top(t)
    <2>1. c[1] = t /\ c[2] = NoItem
        BY DEF Top
    <2>2. DOMAIN Copies(c, k) = {}
        BY <1>1, <1>2, <2>1 DEF Copies
    <2>3. AttrValues(c, k) = none
        BY <1>2, <2>1 DEF AttrValues
    <2> HIDE DEF c
    <2>4. TreeOf(Trees(k), c, k) = Dom(TextTag, none, Value(t.text, k, NoItem), none)
        BY <1>2, <2>1, <2>2, <2>3 DEF TreeOf, Dom
    <2> QED BY <1>3, <2>4, TreeIs DEF c
<1>4. Tree(t, m) = Dom(TextTag, none, a, none) /\ Tree(t, n) = Dom(TextTag, none, b, none)
    BY <1>3
<1>5. Brings("texts", n, t, Tree(t, m), Tree(t, n))
    <2>1. CASE Dynamic(t.text)
        <3> SUFFICES ASSUME NEW path \in Seq(Nat), NEW d, HasNode(d, path)
                     PROVE  SitesLead("texts", n, With(d, path, Tree(t, m)), Sites[<<"texts", t, path>>],
                                      With(d, path, Tree(t, n)))
            BY DEF Brings
        <3> DEFINE s == DynText(path, t.text)
                   p == PatchOf("texts", s, n)
                   x == Tree(t, m)
        <3>1. Own("texts", t, path) = <<s>>
            BY <2>1 DEF Own
        <3>2. Sites[<<"texts", t, path>>] = <<s>>
            BY <3>1, SingleList, OwnOnly
        <3>3. p = SetText(path, b)
            BY DEF PatchOf, DynText
        <3>4. x = Dom(TextTag, none, a, none)
            BY <1>4
        <3> HIDE DEF a, b, none, x, p, s
        <3>5. p.path = path /\ Suits(x, p) /\ Patched(x, p) = Dom(TextTag, none, b, none)
            BY <3>3, <3>4 DEF SetText, Suits, Patched, IsText, Dom
        <3>6. SitesLead("texts", n, With(d, path, x), <<s>>, With(d, path, Patched(x, p)))
            BY <3>5, OneSiteLeads DEF p
        <3> QED BY <1>4, <3>2, <3>5, <3>6 DEF x
    <2>2. CASE ~ Dynamic(t.text)
        <3>1. a = b
            BY <2>2 DEF Dynamic, Value
        <3>2. \A path \in Seq(Nat) : Own("texts", t, path) = <<>>
            BY <2>2 DEF Own
        <3>3. Tree(t, m) = Tree(t, n)
            BY <1>4, <3>1
        <3> QED BY <3>2, <3>3, NothingNoted
    <2> QED BY <2>1, <2>2
<1>6. Brings("attrs", n, t, Tree(t, n), Tree(t, n)) /\ Brings("regions", n, t, Tree(t, n), Tree(t, n))
    <2>1. \A path \in Seq(Nat) : Own("attrs", t, path) = <<>> /\ Own("regions", t, path) = <<>>
        BY <1>1 DEF Own
    <2> QED BY <2>1, NothingNoted
<1> QED BY <1>5, <1>6 DEF Repaints, Between

LEMMA RegionRepaints ==
    ASSUME NEW m, NEW n, NEW t \in Parts, IsRegion(t)
    PROVE  Repaints(t, m, n)
<1>1. ~ IsText(t)
    <2>1. IsText(t) => t = TextNode(t.text)
        BY ViewAssumption
    <2> QED BY <2>1 DEF TextNode, IsRegion
<1>2. \A path \in Seq(Nat) : Own("texts", t, path) = <<>> /\ Own("attrs", t, path) = <<>>
    BY <1>1 DEF Own
<1>3. Brings("texts", n, t, Tree(t, m), Tree(t, m)) /\ Brings("attrs", n, t, Tree(t, m), Tree(t, m))
    BY <1>2, NothingNoted
<1>4. Brings("regions", n, t, Tree(t, m), Tree(t, n))
    <2> SUFFICES ASSUME NEW path \in Seq(Nat), NEW d, HasNode(d, path)
                 PROVE  SitesLead("regions", n, With(d, path, Tree(t, m)), Sites[<<"regions", t, path>>],
                                  With(d, path, Tree(t, n)))
        BY DEF Brings
    <2> DEFINE s == RegionAt(path, t)
               p == PatchOf("regions", s, n)
               x == Tree(t, m)
    <2>1. Own("regions", t, path) = <<s>>
        BY DEF Own
    <2>2. Sites[<<"regions", t, path>>] = <<s>>
        BY <2>1, SingleList, OwnOnly
    <2>3. p = Replace(path, Tree(t, n))
        BY DEF PatchOf, RegionAt
    <2> HIDE DEF x, p, s
    <2>4. p.path = path /\ Suits(x, p) /\ Patched(x, p) = Tree(t, n)
        BY <2>3 DEF Replace, Suits, Patched
    <2>5. SitesLead("regions", n, With(d, path, x), <<s>>, With(d, path, Patched(x, p)))
        BY <2>4, OneSiteLeads DEF p
    <2> QED BY <2>2, <2>4, <2>5 DEF x
<1> QED BY <1>3, <1>4 DEF Repaints, Between

(* An element that is no region: its attributes in place, then its children.*)
Attrs(t, m) == AttrValues(Top(t), m)
Kids(t, m) == [i \in DOMAIN t.kids |-> Tree(t.kids[i], m)]

LEMMA ElementTree ==
    ASSUME NEW m, ListsTyped(m), NEW t \in Parts, ~ IsText(t), ~ IsRegion(t)
    PROVE  Tree(t, m) = Dom(t.tag, Attrs(t, m), "", Kids(t, m))
<1> DEFINE c == Top(t)
           q == Copies(c, m)
<1>1. c[1] = t /\ c[2] = NoItem
    BY DEF Top
<1>2. q = [i \in DOMAIN t.kids |-> Top(t.kids[i])]
    BY <1>1 DEF Copies, Top
<1>3. Value(t.text, m, NoItem) = ""
    <2>1. t.text = Const("")
        BY ViewAssumption
    <2>2. Const("").of = "const" /\ Const("").is = ""
        BY DEF Const
    <2>3. t.text.of = "const" /\ t.text.is = ""
        BY <2>1, <2>2
    <2> QED BY <2>3 DEF Value
<1>4. [i \in DOMAIN q |-> Trees(m)[q[i]]] = Kids(t, m)
    BY <1>2 DEF Kids, Tree, Top
<1> HIDE DEF c, q
<1>5. TreeOf(Trees(m), c, m) = Dom(t.tag, AttrValues(c, m), "", [i \in DOMAIN q |-> Trees(m)[q[i]]])
    BY <1>1, <1>3 DEF TreeOf, Dom, q
<1> QED BY <1>4, <1>5, TreeIs DEF c, Attrs

LEMMA AttrsTurn ==
    ASSUME NEW m, NEW n, NEW t \in Parts, ~ IsText(t), ~ IsRegion(t),
           NEW d, NEW path \in Seq(Nat), HasNode(d, path), NEW x, NEW ks
    PROVE  SitesLead("attrs", n, With(d, path, Dom(t.tag, Attrs(t, m), x, ks)), Own("attrs", t, path),
                     With(d, path, Dom(t.tag, Attrs(t, n), x, ks)))
<1> DEFINE S == {y \in DOMAIN t.attrs : Dynamic(t.attrs[y])}
           q == SetToSeq(S)
           a == Attrs(t, m)
           b == Attrs(t, n)
           s == Own("attrs", t, path)
           N == Len(q)
<1>1. IsFiniteSet(DOMAIN t.attrs)
    BY ViewAssumption
<1>2. q \in Seq(S) /\ \A y \in S : \E i \in 1 .. N : q[i] = y
    <2>1. IsFiniteSet(S)
        BY <1>1, FS_Subset
    <2> HIDE DEF S
    <2> QED BY <2>1, SetToSeqIs
<1>3. /\ a = [y \in DOMAIN t.attrs |-> Value(t.attrs[y], m, NoItem)]
      /\ b = [y \in DOMAIN t.attrs |-> Value(t.attrs[y], n, NoItem)]
    BY DEF Attrs, AttrValues, Top
<1>4. s = [i \in DOMAIN q |-> DynAttr(path, q[i], t.attrs[q[i]])]
    BY DEF Own, AttrSites
<1> HIDE DEF q, a, b, s
<1>5. N \in Nat /\ DOMAIN q = 1 .. N /\ \A i \in 1 .. N : q[i] \in S
    BY <1>2
<1>6. a = [y \in DOMAIN a |-> a[y]]
    BY <1>3
<1>7. Overlaid(a, b, S) = b
    <2>1. \A y \in DOMAIN t.attrs : y \notin S => a[y] = b[y]
        BY <1>3 DEF Dynamic, Value
    <2>2. DOMAIN a = DOMAIN t.attrs /\ DOMAIN b = DOMAIN t.attrs /\ b = [y \in DOMAIN t.attrs |-> b[y]]
        BY <1>3
    <2>3. DOMAIN a \cup S = DOMAIN t.attrs
        BY <2>2
    <2> HIDE DEF S
    <2>4. Overlaid(a, b, S) = [y \in DOMAIN t.attrs |-> IF y \in S THEN b[y] ELSE a[y]]
        BY <2>3 DEF Overlaid
    <2>5. \A y \in DOMAIN t.attrs : (IF y \in S THEN b[y] ELSE a[y]) = b[y]
        BY <2>1
    <2>6. Overlaid(a, b, S) = [y \in DOMAIN t.attrs |-> b[y]]
        BY <2>4, <2>5
    <2> QED BY <2>2, <2>6
<1>8. IsList(s) /\ Written("attrs", s, n) = SetEach(path, q, b)
    <2>1. s = [i \in 1 .. N |-> DynAttr(path, q[i], t.attrs[q[i]])]
        BY <1>4, <1>5
    <2>2. s = [i \in 1 .. N |-> s[i]]
        BY <2>1
    <2>3. IsList(s)
        BY <1>5, <2>2, FunctionIsList
    <2>4. \A i \in 1 .. N : PatchOf("attrs", s[i], n) = SetAttr(path, q[i], b[q[i]])
        BY <1>3, <1>5, <2>1 DEF PatchOf, DynAttr
    <2>5. DOMAIN s = 1 .. N
        BY <2>1
    <2>6. Written("attrs", s, n) = [i \in 1 .. N |-> SetAttr(path, q[i], b[q[i]])]
        BY <2>4, <2>5 DEF Written
    <2> QED BY <1>5, <2>3, <2>6 DEF SetEach
<1>9. t.tag # TextTag
    BY DEF IsText
<1> HIDE DEF S, N
<1>10. Leads(With(d, path, Dom(t.tag, a, x, ks)), SetEach(path, q, b),
             With(d, path, Dom(t.tag, Overlaid(a, b, S), x, ks)))
    BY <1>2, <1>6, <1>9, SetsLead DEF N
<1>11. Leads(With(d, path, Dom(t.tag, a, x, ks)), Written("attrs", s, n),
             With(d, path, Dom(t.tag, b, x, ks)))
    BY <1>7, <1>8, <1>10
<1> QED BY <1>8, <1>11 DEF SitesLead, a, b, s

LEMMA JustFlatten ==
    ASSUME NEW list, NEW m, NEW d, NEW e, NEW s, SitesLead(list, m, d, s, e)
    PROVE  SitesLead(list, m, d, <<>> \o s, e)
BY SitesLeadNone, SitesLeadOn

LEMMA ElementRepaints ==
    ASSUME NEW m, ListsTyped(m), NEW n, ListsTyped(n), NEW t \in Parts, ~ IsText(t), ~ IsRegion(t),
           \A i \in DOMAIN t.kids : Repaints(t.kids[i], m, n)
    PROVE  Repaints(t, m, n)
<1> DEFINE kid(i) == t.kids[i]
           P(i, z) == Between(kid(i), m, n, z[1], z[2])
           pick == [i \in DOMAIN t.kids |-> CHOOSE z : P(i, z)]
<1>1. \A i \in DOMAIN t.kids : P(i, pick[i])
    <2> SUFFICES ASSUME NEW i \in DOMAIN t.kids PROVE P(i, pick[i])
        OBVIOUS
    <2>1. PICK x, y : Between(kid(i), m, n, x, y)
        BY DEF Repaints
    <2>2. P(i, <<x, y>>)
        BY <2>1
    <2>3. pick[i] = CHOOSE z : P(i, z)
        OBVIOUS
    <2> HIDE DEF P, pick
    <2> QED BY <2>2, <2>3
<1> DEFINE A == Kids(t, m)
           B == [i \in DOMAIN t.kids |-> pick[i][1]]
           C == [i \in DOMAIN t.kids |-> pick[i][2]]
           D == Kids(t, n)
<1> HIDE DEF pick
<1>2. \A i \in DOMAIN t.kids :
         /\ Brings("texts", n, kid(i), A[i], B[i])
         /\ Brings("attrs", n, kid(i), B[i], C[i])
         /\ Brings("regions", n, kid(i), C[i], D[i])
    BY <1>1 DEF Between, Kids
<1>3. /\ A = [i \in DOMAIN t.kids |-> A[i]] /\ B = [i \in DOMAIN t.kids |-> B[i]]
      /\ C = [i \in DOMAIN t.kids |-> C[i]] /\ D = [i \in DOMAIN t.kids |-> D[i]]
    BY DEF Kids
<1> HIDE DEF A, B, C, D, P
<1> DEFINE x == Dom(t.tag, Attrs(t, m), "", B)
           y == Dom(t.tag, Attrs(t, n), "", C)
<1>4. /\ Tree(t, m) = Dom(t.tag, Attrs(t, m), "", A)
      /\ Tree(t, n) = Dom(t.tag, Attrs(t, n), "", D)
    BY ElementTree DEF A, D
<1>5. \A list \in {"texts", "attrs", "regions"} : \A path \in Seq(Nat) :
         Sites[<<list, t, path>>] = Own(list, t, path) \o FlattenSeq(KidSites(list, t, path))
    BY SitesFor
<1>6. Brings("texts", n, t, Tree(t, m), x)
    <2> SUFFICES ASSUME NEW path \in Seq(Nat), NEW d, HasNode(d, path)
                 PROVE  SitesLead("texts", n, With(d, path, Tree(t, m)), Sites[<<"texts", t, path>>],
                                  With(d, path, x))
        BY DEF Brings
    <2>1. SitesLead("texts", n, With(d, path, Dom(t.tag, Attrs(t, m), "", A)),
                    FlattenSeq(KidSites("texts", t, path)),
                    With(d, path, Dom(t.tag, Attrs(t, m), "", B)))
        BY <1>2, <1>3, KidsLead
    <2>2. Own("texts", t, path) = <<>>
        BY DEF Own
    <2>3. Sites[<<"texts", t, path>>] = <<>> \o FlattenSeq(KidSites("texts", t, path))
        BY <1>5, <2>2
    <2> QED BY <1>4, <2>1, <2>3, JustFlatten
<1>7. Brings("attrs", n, t, x, y)
    <2> SUFFICES ASSUME NEW path \in Seq(Nat), NEW d, HasNode(d, path)
                 PROVE  SitesLead("attrs", n, With(d, path, x), Sites[<<"attrs", t, path>>],
                                  With(d, path, y))
        BY DEF Brings
    <2>1. SitesLead("attrs", n, With(d, path, Dom(t.tag, Attrs(t, n), "", B)),
                    FlattenSeq(KidSites("attrs", t, path)),
                    With(d, path, Dom(t.tag, Attrs(t, n), "", C)))
        BY <1>2, <1>3, KidsLead
    <2>2. SitesLead("attrs", n, With(d, path, Dom(t.tag, Attrs(t, m), "", B)), Own("attrs", t, path),
                    With(d, path, Dom(t.tag, Attrs(t, n), "", B)))
        BY AttrsTurn
    <2>3. SitesLead("attrs", n, With(d, path, x),
                    Own("attrs", t, path) \o FlattenSeq(KidSites("attrs", t, path)), With(d, path, y))
        BY <2>1, <2>2, SitesLeadOn
    <2> QED BY <1>5, <2>3
<1>8. Brings("regions", n, t, y, Tree(t, n))
    <2> SUFFICES ASSUME NEW path \in Seq(Nat), NEW d, HasNode(d, path)
                 PROVE  SitesLead("regions", n, With(d, path, y), Sites[<<"regions", t, path>>],
                                  With(d, path, Tree(t, n)))
        BY DEF Brings
    <2>1. SitesLead("regions", n, With(d, path, Dom(t.tag, Attrs(t, n), "", C)),
                    FlattenSeq(KidSites("regions", t, path)),
                    With(d, path, Dom(t.tag, Attrs(t, n), "", D)))
        BY <1>2, <1>3, KidsLead
    <2>2. Own("regions", t, path) = <<>>
        BY DEF Own
    <2>3. Sites[<<"regions", t, path>>] = <<>> \o FlattenSeq(KidSites("regions", t, path))
        BY <1>5, <2>2
    <2> QED BY <1>4, <2>1, <2>3, JustFlatten
<1> HIDE DEF x, y
<1> QED BY <1>6, <1>7, <1>8 DEF Repaints, Between

LEMMA AlwaysRepaints ==
    ASSUME NEW m, ListsTyped(m), NEW n, ListsTyped(n)
    PROVE  \A t \in Parts : Repaints(t, m, n)
<1> DEFINE S == {h \in Nat : \A t \in Parts : Height[t] = h => Repaints(t, m, n)}
<1>1. ASSUME NEW h \in Nat, \A k \in Nat : k < h => k \in S PROVE h \in S
    <2> SUFFICES ASSUME NEW t \in Parts, Height[t] = h PROVE Repaints(t, m, n)
        OBVIOUS
    <2>1. \A i \in DOMAIN t.kids : Repaints(t.kids[i], m, n)
        <3> SUFFICES ASSUME NEW i \in DOMAIN t.kids PROVE Repaints(t.kids[i], m, n)
            OBVIOUS
        <3>1. t.kids[i] \in Parts /\ Height[t.kids[i]] \in S
            BY <1>1, TemplateFacts
        <3> QED BY <3>1
    <2> HIDE DEF S
    <2> QED BY <2>1, TextRepaints, RegionRepaints, ElementRepaints
<1> HIDE DEF S
<1>2. \A h \in Nat : h \in S
    BY <1>1, StrongSetInduction
<1> QED BY <1>2, TemplateFacts DEF S

-----------------------------------------------------------------------------
(* apply, carried out to the end.                                           *)
LEMMA AppliedIs ==
    ASSUME NEW d, NEW ps, NEW e, Leads(d, ps, e)
    PROVE  Applied(d, ps) = e
<1> DEFINE N == Len(ps)
           Eq(f) == f = [n \in 0 .. N |-> IF n = 0 THEN d ELSE Changed(f[n - 1], ps[n])]
           after == CHOOSE f : Eq(f)
<1>1. N \in Nat
    BY ListIs DEF Leads
<1>2. PICK g : LeadsBy(g, d, ps, e)
    BY DEF Leads
<1>3. g[0] = d /\ g[N] = e /\ \A n \in 1 .. N : g[n] = Changed(g[n - 1], ps[n])
    BY <1>2 DEF LeadsBy
<1>4. Applied(d, ps) = after[N]
    BY DEF Applied
<1> HIDE DEF N
<1>5. Eq(after)
    <2> DEFINE f == [n \in 0 .. N |-> g[n]]
    <2>1. \A n \in 0 .. N : g[n] = IF n = 0 THEN d ELSE Changed(f[n - 1], ps[n])
        <3> SUFFICES ASSUME NEW n \in 0 .. N, n # 0 PROVE g[n] = Changed(f[n - 1], ps[n])
            BY <1>3
        <3>1. n \in 1 .. N /\ n - 1 \in 0 .. N
            BY <1>1
        <3>2. f[n - 1] = g[n - 1]
            BY <3>1
        <3> HIDE DEF f
        <3> QED BY <1>3, <3>1, <3>2
    <2> DEFINE body(x) == [n \in 0 .. N |-> IF n = 0 THEN d ELSE Changed(x[n - 1], ps[n])]
    <2>2. f = body(f)
        <3> DEFINE h == body(f)
        <3>1. h = [n \in 0 .. N |-> IF n = 0 THEN d ELSE Changed(f[n - 1], ps[n])]
            OBVIOUS
        <3>2. f = [n \in 0 .. N |-> g[n]]
            OBVIOUS
        <3> HIDE DEF f, h
        <3>3. f = h
            BY <2>1, <3>1, <3>2
        <3> QED BY <3>3 DEF h
    <2>3. Eq(f)
        BY <2>2
    <2> HIDE DEF f, Eq
    <2> QED BY <2>3
<1> HIDE DEF after
<1> DEFINE S == {n \in Nat : n <= N => after[n] = g[n]}
<1>6. \A n \in Nat : n \in S
    <2>1. 0 \in S
        BY <1>1, <1>3, <1>5
    <2>2. ASSUME NEW n \in Nat, n \in S PROVE n + 1 \in S
        <3> SUFFICES ASSUME n + 1 <= N PROVE after[n + 1] = g[n + 1]
            OBVIOUS
        <3> DEFINE k == n + 1
        <3>1. k \in 1 .. N /\ k \in 0 .. N /\ k # 0 /\ k - 1 = n /\ after[n] = g[n]
            BY <1>1, <2>2
        <3> HIDE DEF k
        <3>2. after[k] = Changed(after[n], ps[k])
            BY <1>5, <3>1
        <3>3. g[k] = Changed(g[n], ps[k])
            BY <1>3, <3>1
        <3>4. after[k] = g[k]
            BY <3>1, <3>2, <3>3
        <3> QED BY <3>4 DEF k
    <2> HIDE DEF S
    <2> QED BY <2>1, <2>2, NatSetInduction
<1> QED BY <1>1, <1>3, <1>4, <1>6

LEMMA AtTheRoot ==
    ASSUME NEW d
    PROVE  HasNode(d, <<>>) /\ \A n : With(d, <<>>, n) = n
<1> DEFINE root == <<>>
<1>1. root \in Seq(Nat) /\ Len(root) = 0
    OBVIOUS
<1> HIDE DEF root
<1>2. HasNode(d, root)
    BY <1>1 DEF HasNode
<1>3. \A n : With(d, root, n) = n
    <2> SUFFICES ASSUME NEW n PROVE With(d, root, n) = n
        OBVIOUS
    <2>1. PICK up : Ups(d, root, n, up) /\ With(d, root, n) = up[Len(root)]
        BY <1>1, WithUps
    <2> QED BY <1>1, <2>1 DEF Ups
<1> QED BY <1>2, <1>3 DEF root

(* Whatever the screen showed, patches() brings it to the tree init would   *)
(* write for the new model.                                                 *)
THEOREM PlanCarriesOver ==
    ASSUME NEW m, ListsTyped(m), NEW n, ListsTyped(n), NEW t \in Parts
    PROVE  Applied(Tree(t, m), Patches(Plan(t), n)) = Tree(t, n)
<1> DEFINE root == <<>>
           d == Tree(t, m)
           texts == Sites[<<"texts", t, root>>]
           attrs == Sites[<<"attrs", t, root>>]
           regions == Sites[<<"regions", t, root>>]
<1>1. PICK x, y : Between(t, m, n, x, y)
    BY AlwaysRepaints DEF Repaints
<1>2. root \in Seq(Nat)
    OBVIOUS
<1>3. HasNode(d, root) /\ \A z : With(d, root, z) = z
    BY AtTheRoot
<1> HIDE DEF root
<1>4. /\ SitesLead("texts", n, With(d, root, d), texts, With(d, root, x))
      /\ SitesLead("attrs", n, With(d, root, x), attrs, With(d, root, y))
      /\ SitesLead("regions", n, With(d, root, y), regions, With(d, root, Tree(t, n)))
    <2> HIDE DEF d
    <2>1. /\ Brings("texts", n, t, d, x) /\ Brings("attrs", n, t, x, y)
          /\ Brings("regions", n, t, y, Tree(t, n))
        BY <1>1 DEF Between, d
    <2> QED BY <1>2, <1>3, <2>1 DEF Brings
<1> HIDE DEF d, texts, attrs, regions
<1> DEFINE a == TextPatches(texts, n)
           b == AttrPatches(attrs, n)
           c == RegionPatches(regions, n)
<1>5. Leads(d, a, x) /\ Leads(x, b, y) /\ Leads(y, c, Tree(t, n))
    BY <1>3, <1>4, WrittenIs DEF SitesLead
<1> HIDE DEF a, b, c
<1>6. Leads(d, a \o b, y)
    BY <1>5, LeadsOn
<1>7. Leads(d, (a \o b) \o c, Tree(t, n))
    BY <1>5, <1>6, LeadsOn
<1>8. Patches(Plan(t), n) = (a \o b) \o c
    BY DEF Patches, Plan, a, b, c, texts, attrs, regions, root
<1> QED BY <1>7, <1>8, AppliedIs DEF d

-----------------------------------------------------------------------------
(* The tree on the page and the tree the runtime renders, node by node.     *)
LEMMA NodeBelow ==
    ASSUME NEW d, NEW path \in Seq(Nat), NEW i \in Nat
    PROVE  NodeAt(d, Append(path, i)) = NodeAt(d, path).kids[i]
<1> DEFINE q == Append(path, i)
           N == Len(path)
           w == Way(d, path)
           v == Way(d, q)
<1>1. N \in Nat /\ q \in Seq(Nat) /\ Len(q) = N + 1 /\ q[N + 1] = i
      /\ \A k \in 1 .. N : q[k] = path[k]
    OBVIOUS
<1>n. N \in Nat
    BY <1>1
<1>q. q \in Seq(Nat)
    BY <1>1
<1> HIDE DEF q
<1>2. w[0] = d /\ \A k \in 1 .. N : w[k] = w[k - 1].kids[path[k]]
    BY WayIs
<1>3. v[0] = d /\ \A k \in 1 .. Len(q) : v[k] = v[k - 1].kids[q[k]]
    BY <1>q, WayIs
<1> HIDE DEF v, w, N
<1> DEFINE S == {k \in Nat : k <= N => v[k] = w[k]}
<1>4. \A k \in Nat : k \in S
    <2>1. 0 \in S
        BY <1>2, <1>3
    <2>2. ASSUME NEW n \in Nat, n \in S PROVE n + 1 \in S
        <3> SUFFICES ASSUME n + 1 <= N PROVE v[n + 1] = w[n + 1]
            OBVIOUS
        <3> DEFINE k == n + 1
        <3>1. k \in 1 .. N /\ k \in 1 .. N + 1 /\ k - 1 = n /\ v[n] = w[n]
            <4>1. v[n] = w[n]
                BY <1>n, <2>2
            <4>2. k \in 1 .. N /\ k \in 1 .. N + 1 /\ k - 1 = n
                BY <1>n
            <4> QED BY <4>1, <4>2
        <3> HIDE DEF k
        <3>2. v[k] = v[n].kids[q[k]] /\ w[k] = w[n].kids[path[k]] /\ q[k] = path[k]
            BY <1>1, <1>2, <1>3, <3>1
        <3>3. v[k] = w[k]
            BY <3>1, <3>2
        <3> QED BY <3>3 DEF k
    <2> HIDE DEF S
    <2> QED BY <2>1, <2>2, NatSetInduction
<1>5. v[N] = w[N]
    BY <1>n, <1>4
<1>6. N + 1 \in 1 .. Len(q) /\ (N + 1) - 1 = N
    BY <1>1
<1>7. v[N + 1] = v[N].kids[i]
    BY <1>1, <1>3, <1>6
<1> QED BY <1>1, <1>5, <1>7 DEF NodeAt, v, w, q, N

Seen(m, d, v, path) ==
    /\ path \in Seq(Nat)
    /\ HasNode(v, path)
    /\ \E c \in Calls : NodeAt(d, path) = Trees(m)[c] /\ NodeAt(v, path) = Views(m)[c]

LEMMA SeenTop ==
    ASSUME NEW m, NEW t \in Parts
    PROVE  Seen(m, Tree(t, m), View(t, m), <<>>)
<1> DEFINE root == <<>>
           c == <<t, NoItem>>
<1>1. root \in Seq(Nat) /\ Len(root) = 0 /\ c \in Calls
    BY DEF Calls
<1>2. HasNode(View(t, m), root)
    BY AtTheRoot
<1> HIDE DEF root
<1>3. \A d : NodeAt(d, root) = d
    BY <1>1, WayIs DEF NodeAt
<1>4. Seen(m, Tree(t, m), View(t, m), root)
    BY <1>1, <1>2, <1>3 DEF Seen, Tree, View
<1> QED BY <1>4 DEF root

LEMMA SameNode ==
    ASSUME NEW m, ListsTyped(m), NEW c \in Calls
    PROVE  LET a == Trees(m)[c]
               b == Views(m)[c]
               n == Len(Copies(c, m))
           IN  /\ <<a.tag, a.text, a.attrs>> = <<b.tag, b.text, b.attrs>>
               /\ n \in Nat /\ DOMAIN a.kids = 1 .. n /\ DOMAIN b.kids = 1 .. n
               /\ Len(a.kids) = n /\ Len(b.kids) = n
               /\ \A i \in 1 .. n : /\ Copies(c, m)[i] \in Calls
                                    /\ a.kids[i] = Trees(m)[Copies(c, m)[i]]
                                    /\ b.kids[i] = Views(m)[Copies(c, m)[i]]
<1> DEFINE q == Copies(c, m)
           n == Len(q)
           tree == Trees(m)
           view == Views(m)
           a == tree[c]
           b == view[c]
<1>1. DOMAIN q = 1 .. n /\ n \in Nat /\ \A i \in 1 .. n : q[i] \in Calls
    BY CopiesAre
<1>2. a = TreeOf(tree, c, m) /\ b = ViewOf(view, c, m)
    BY TreesAre
<1>3. /\ TreeOf(tree, c, m).kids = [i \in DOMAIN q |-> tree[q[i]]]
      /\ ViewOf(view, c, m).kids = [i \in DOMAIN q |-> view[q[i]]]
      /\ TreeOf(tree, c, m).tag = ViewOf(view, c, m).tag
      /\ TreeOf(tree, c, m).text = ViewOf(view, c, m).text
      /\ TreeOf(tree, c, m).attrs = ViewOf(view, c, m).attrs
    BY DEF TreeOf, ViewOf
<1> HIDE DEF q, n, tree, view, a, b
<1>4. a.kids = [i \in 1 .. n |-> tree[q[i]]] /\ b.kids = [i \in 1 .. n |-> view[q[i]]]
    BY <1>1, <1>2, <1>3
<1>5. a.tag = b.tag /\ a.text = b.text /\ a.attrs = b.attrs
    BY <1>2, <1>3
<1>6. Len(a.kids) = n /\ Len(b.kids) = n
    BY <1>1, <1>4
<1>7. DOMAIN a.kids = 1 .. n /\ DOMAIN b.kids = 1 .. n
      /\ \A i \in 1 .. n : a.kids[i] = tree[q[i]] /\ b.kids[i] = view[q[i]]
    BY <1>4
<1> QED BY <1>1, <1>5, <1>6, <1>7 DEF q, n, tree, view, a, b

LEMMA SeenBelow ==
    ASSUME NEW m, ListsTyped(m), NEW d, NEW v, NEW path, Seen(m, d, v, path),
           NEW i \in DOMAIN NodeAt(d, path).kids
    PROVE  Seen(m, d, v, Append(path, i))
<1>1. path \in Seq(Nat) /\ HasNode(v, path)
    BY DEF Seen
<1>2. PICK c \in Calls : NodeAt(d, path) = Trees(m)[c] /\ NodeAt(v, path) = Views(m)[c]
    BY DEF Seen
<1> DEFINE q == Copies(c, m)
           n == Len(q)
           a == NodeAt(d, path)
           b == NodeAt(v, path)
<1>3. /\ n \in Nat /\ DOMAIN a.kids = 1 .. n /\ DOMAIN b.kids = 1 .. n
      /\ \A k \in 1 .. n : q[k] \in Calls /\ a.kids[k] = Trees(m)[q[k]] /\ b.kids[k] = Views(m)[q[k]]
    BY <1>2, SameNode
<1> HIDE DEF q, n
<1>4. i \in Nat /\ i \in 1 .. n /\ i \in DOMAIN b.kids
    BY <1>3
<1>5. HasNode(v, Append(path, i))
    BY <1>1, <1>4, WithChild
<1>6. NodeAt(d, Append(path, i)) = a.kids[i] /\ NodeAt(v, Append(path, i)) = b.kids[i]
    BY <1>1, <1>4, NodeBelow
<1>7. Append(path, i) \in Seq(Nat)
    BY <1>1, <1>4
<1>8. NodeAt(d, Append(path, i)) = Trees(m)[q[i]] /\ NodeAt(v, Append(path, i)) = Views(m)[q[i]]
      /\ q[i] \in Calls
    BY <1>3, <1>4, <1>6
<1> QED BY <1>5, <1>7, <1>8 DEF Seen

(* pathOf: every path to a node of the page.                                *)
LEMMA PathsSeen ==
    ASSUME NEW m, ListsTyped(m), NEW d, NEW v, Seen(m, d, v, <<>>), NEW depth \in Nat
    PROVE  \A path \in Paths(d, depth) : Seen(m, d, v, path)
<1> DEFINE Start == {<<>>}
           Next0(s) == UNION {{Append(p, i) : i \in DOMAIN NodeAt(d, p).kids} : p \in s}
           Solves(f, n) == f = [k \in 0 .. n |-> IF k = 0 THEN Start ELSE Next0(f[k - 1])]
           S == {n \in Nat : \E f : Solves(f, n)}
           level == CHOOSE f : Solves(f, depth)
<1>s. \A s : \A p \in Next0(s) : \E r \in s : \E i \in DOMAIN NodeAt(d, r).kids : p = Append(r, i)
    OBVIOUS
<1>p. Paths(d, depth) = UNION {level[n] : n \in 0 .. depth}
    BY DEF Paths
<1>t. \A p \in Start : p = <<>>
    OBVIOUS
<1> HIDE DEF Next0, Start
<1>1. \A n \in Nat : n \in S
    <2>1. 0 \in S
        <3>1. Solves([k \in 0 .. 0 |-> Start], 0)
            OBVIOUS
        <3> QED BY <3>1
    <2>2. ASSUME NEW n \in Nat, n \in S PROVE n + 1 \in S
        <3>1. PICK f : Solves(f, n)
            BY <2>2
        <3> DEFINE body(x) == [k \in 0 .. n + 1 |-> IF k = 0 THEN Start ELSE Next0(x[k - 1])]
                   g == body(f)
        <3>2. \A k \in 0 .. n : g[k] = f[k]
            BY <3>1
        <3>3. body(f) = body(g)
            <4> HIDE DEF g
            <4>1. ASSUME NEW k \in 0 .. n + 1
                  PROVE  (IF k = 0 THEN Start ELSE Next0(f[k - 1]))
                           = (IF k = 0 THEN Start ELSE Next0(g[k - 1]))
                <5>1. CASE k = 0
                    BY <5>1
                <5>2. CASE k # 0
                    <6>1. k - 1 \in 0 .. n
                        BY <5>2
                    <6>2. f[k - 1] = g[k - 1]
                        BY <6>1, <3>2
                    <6> QED BY <6>2
                <5> QED BY <5>1, <5>2
            <4> QED BY <4>1
        <3>4. Solves(g, n + 1)
            BY <3>3
        <3> HIDE DEF g, Solves
        <3> QED BY <3>4
    <2> HIDE DEF S
    <2> QED BY <2>1, <2>2, NatSetInduction
<1>2. Solves(level, depth)
    <2>1. \E f : Solves(f, depth)
        BY <1>1
    <2> HIDE DEF Solves
    <2> QED BY <2>1
<1> HIDE DEF level, S
<1>3. level[0] = Start /\ \A k \in 1 .. depth : level[k] = Next0(level[k - 1])
    BY <1>2
<1> HIDE DEF Solves
<1> DEFINE R == {n \in Nat : n <= depth => \A p \in level[n] : Seen(m, d, v, p)}
<1>4. \A n \in Nat : n \in R
    <2>1. 0 \in R
        BY <1>t, <1>3
    <2>2. ASSUME NEW n \in Nat, n \in R PROVE n + 1 \in R
        <3> SUFFICES ASSUME n + 1 <= depth PROVE \A p \in level[n + 1] : Seen(m, d, v, p)
            OBVIOUS
        <3> DEFINE k == n + 1
        <3>1. k \in 1 .. depth /\ k - 1 = n /\ \A p \in level[n] : Seen(m, d, v, p)
            BY <2>2
        <3> HIDE DEF k
        <3>2. level[k] = Next0(level[n])
            BY <1>3, <3>1
        <3>3. ASSUME NEW p \in level[k] PROVE Seen(m, d, v, p)
            <4>1. PICK r \in level[n] : \E i \in DOMAIN NodeAt(d, r).kids : p = Append(r, i)
                BY <1>s, <3>2
            <4>2. PICK i \in DOMAIN NodeAt(d, r).kids : p = Append(r, i)
                BY <4>1
            <4>3. Seen(m, d, v, r)
                BY <3>1
            <4>4. Seen(m, d, v, Append(r, i))
                BY <4>3, SeenBelow
            <4> QED BY <4>2, <4>4
        <3> QED BY <3>3 DEF k
    <2> HIDE DEF R
    <2> QED BY <2>1, <2>2, NatSetInduction
<1>5. \A n \in 0 .. depth : \A p \in level[n] : Seen(m, d, v, p)
    BY <1>4
<1> HIDE DEF R
<1> QED BY <1>p, <1>5

-----------------------------------------------------------------------------
(* Every step of the page is one of its effects, or none.                   *)
THEOREM PageRefinesEffects == PageSpec => GcSpec
<1>1. PageInit => GcInit
    BY DEF PageInit
<1>2. [PageNext]_pageAllVars => [GcNext]_gcVars
    <2> SUFFICES ASSUME [PageNext]_pageAllVars PROVE [GcNext]_gcVars
        OBVIOUS
    <2>1. CASE PageShow
        BY <2>1 DEF PageShow, GcNext
    <2>2. ASSUME NEW path \in TargetPaths, NEW event \in EventNames,
                 PageEvent(path, event) \/ PageEventMiss(path, event)
          PROVE  [GcNext]_gcVars
        <3>1. CASE PageEvent(path, event)
            <4>1. \E x : Dispatch(x)
                BY <3>1 DEF PageEvent
            <4>2. \E msg \in Msgs : Dispatch(msg)
                BY <4>1, GcAssumption DEF Dispatch
            <4> QED BY <4>2 DEF GcNext
        <3>2. CASE PageEventMiss(path, event)
            BY <3>2 DEF PageEventMiss, pageAllVars
        <3> QED BY <2>2, <3>1, <3>2
    <2>3. ASSUME NEW h \in 1 .. MaxHandles, PageResolve(h) \/ PageNotify(h) \/ PageWaits(h)
          PROVE  [GcNext]_gcVars
        BY <2>3 DEF PageResolve, PageNotify, PageWaits, GcNext
    <2>4. CASE UNCHANGED pageAllVars
        BY <2>4 DEF pageAllVars
    <2> QED BY <2>1, <2>2, <2>3, <2>4 DEF PageNext
<1> QED BY <1>1, <1>2, PTL DEF PageSpec, GcSpec

(* The inductive invariant: the page shows the tree init would write.       *)
PageInv ==
    /\ model \in GcModels
    /\ shown \in BOOLEAN
    /\ shown => dom = Tree(Template, model)

LEMMA ModelsTyped == \A m \in GcModels : ListsTyped(m)
BY PageAssumption DEF ListsTyped

LEMMA RepaintShows ==
    ASSUME PageInv, shown, model' \in GcModels, shown' = shown, Repaint
    PROVE  PageInv'
<1>1. dom = Tree(Template, model) /\ model \in GcModels /\ Template \in Parts
    BY PageAssumption DEF PageInv
<1>2. dom' = Applied(dom, Patches(Plan(Template), model'))
    BY DEF Repaint, PatchPlan
<1>3. ListsTyped(model) /\ ListsTyped(model')
    BY <1>1, ModelsTyped
<1> DEFINE n == model'
<1>4. Applied(Tree(Template, model), Patches(Plan(Template), n)) = Tree(Template, n)
    <2> HIDE DEF n
    <2>1. ListsTyped(n)
        BY <1>3 DEF n
    <2> QED BY <1>1, <1>3, <2>1, PlanCarriesOver
<1>5. dom' = Tree(Template, n)
    BY <1>1, <1>2, <1>4
<1> QED BY <1>5 DEF PageInv

LEMMA PageInvHolds == PageSpec => []PageInv
<1>1. PageInit => PageInv
    BY DEF PageInit, GcInit, PageInv
<1>2. PageInv /\ [PageNext]_pageAllVars => PageInv'
    <2> SUFFICES ASSUME PageInv, [PageNext]_pageAllVars PROVE PageInv'
        OBVIOUS
    <2>1. CASE PageShow
        BY <2>1 DEF PageShow, Show, PageInv
    <2>2. ASSUME NEW path \in TargetPaths, NEW event \in EventNames,
                 PageEvent(path, event) \/ PageEventMiss(path, event)
          PROVE  PageInv'
        <3>1. CASE PageEvent(path, event)
            <4>1. Repaint /\ shown /\ model' \in GcModels /\ shown' = shown
                BY <3>1 DEF PageEvent, Dispatch, Turn
            <4> QED BY <4>1, RepaintShows
        <3>2. CASE PageEventMiss(path, event)
            BY <3>2 DEF PageEventMiss, pageAllVars, gcVars, moduleVars, pageVars, PageInv
        <3> QED BY <2>2, <3>1, <3>2
    <2>3. ASSUME NEW h \in 1 .. MaxHandles, PageResolve(h) \/ PageNotify(h) \/ PageWaits(h)
          PROVE  PageInv'
        <3>1. CASE PageResolve(h) \/ PageNotify(h)
            <4>1. Repaint /\ shown /\ model' \in GcModels /\ shown' = shown
                BY <3>1 DEF PageResolve, PageNotify, Resolve, Notify, Turn
            <4> QED BY <4>1, RepaintShows
        <3>2. CASE PageWaits(h)
            BY <3>2 DEF PageWaits, FetchResponds, BodyFails, Moves, moduleVars, PageInv
        <3> QED BY <2>3, <3>1, <3>2
    <2>4. CASE UNCHANGED pageAllVars
        BY <2>4 DEF pageAllVars, gcVars, moduleVars, pageVars, PageInv
    <2> QED BY <2>1, <2>2, <2>3, <2>4 DEF PageNext
<1> QED BY <1>1, <1>2, PTL DEF PageSpec

(* patches() of the emitted module and apply: after every call, whatever    *)
(* the template, the models and the order of the calls, the page is, node   *)
(* by node, the tree the runtime would have rendered.                       *)
THEOREM PageShowsTree == PageSpec => []TreeOnScreen
<1>1. PageInv => TreeOnScreen
    <2> SUFFICES ASSUME PageInv, shown PROVE TreeOnScreen
        BY DEF TreeOnScreen
    <2> DEFINE view == View(Template, model)
               depth == Height[Template]
    <2>1. model \in GcModels /\ dom = Tree(Template, model) /\ Template \in Parts
        BY PageAssumption DEF PageInv
    <2>2. ListsTyped(model) /\ depth \in Nat
        BY <2>1, ModelsTyped, TemplateFacts
    <2>3. Seen(model, dom, view, <<>>)
        BY <2>1, SeenTop
    <2> HIDE DEF view, depth
    <2>4. \A path \in TargetPaths : Seen(model, dom, view, path)
        <3>1. \A path \in Paths(dom, depth) : Seen(model, dom, view, path)
            BY <2>2, <2>3, PathsSeen
        <3> QED BY <3>1 DEF TargetPaths, depth
    <2>5. ASSUME NEW path \in TargetPaths
          PROVE  /\ HasNode(view, path)
                 /\ LET a == NodeAt(dom, path)
                        b == NodeAt(view, path)
                    IN  /\ <<a.tag, a.text, a.attrs>> = <<b.tag, b.text, b.attrs>>
                        /\ Len(a.kids) = Len(b.kids)
        <3>1. Seen(model, dom, view, path)
            BY <2>4
        <3>2. PICK c \in Calls : /\ NodeAt(dom, path) = Trees(model)[c]
                                 /\ NodeAt(view, path) = Views(model)[c]
            BY <3>1 DEF Seen
        <3> DEFINE a == Trees(model)[c]
                   b == Views(model)[c]
        <3>3. /\ <<a.tag, a.text, a.attrs>> = <<b.tag, b.text, b.attrs>>
              /\ Len(a.kids) = Len(b.kids)
            BY <2>2, SameNode
        <3> QED BY <3>1, <3>2, <3>3 DEF Seen
    <2> QED BY <2>5 DEF TreeOnScreen, view
<1> QED BY <1>1, PageInvHolds, PTL

-----------------------------------------------------------------------------
(* The handlers.  The children of a template at a place have places, too.   *)
LEMMA SameBelow ==
    ASSUME NEW c \in Places
    PROVE  \A i \in DOMAIN c[1].kids :
              /\ <<c[1].kids[i], Append(c[2], i)>> \in Places
              /\ Height[c[1].kids[i]] < Height[c[1]]
<1> SUFFICES ASSUME NEW i \in DOMAIN c[1].kids
             PROVE  /\ <<c[1].kids[i], Append(c[2], i)>> \in Places
                    /\ Height[c[1].kids[i]] < Height[c[1]]
    OBVIOUS
<1>1. c[1] \in Parts /\ c[2] \in Seq(Nat)
    BY DEF Places
<1> DEFINE u == c[1].kids[i]
           p == Append(c[2], i)
<1>2. u \in Parts /\ Height[u] < Height[c[1]] /\ i \in Nat
    BY <1>1, TemplateFacts
<1>3. p \in Seq(Nat)
    BY <1>1, <1>2
<1> HIDE DEF u, p
<1>4. <<u, p>> \in Places
    BY <1>2, <1>3 DEF Places
<1> QED BY <1>2, <1>4 DEF u, p

(* The equations of what collect_body_handlers and walk collect.            *)
LEMMA HandlersAre ==
    \A c \in Places : Collected[c] = CollectedOf(Collected, c) /\ Handlers[c] = HandlersOf(Handlers, c)
<1> DEFINE H == [c \in Places |-> Height[c[1]]]
<1>1. \A c \in Places : H[c] \in Nat
    <2>1. \A c \in Places : c[1] \in Parts
        BY DEF Places
    <2> QED BY <2>1, TemplateFacts
<1>2. ASSUME NEW f, NEW g, NEW c \in Places, \A b \in Places : H[b] < H[c] => f[b] = g[b]
      PROVE  Below(f, c) = Below(g, c)
    <2> DEFINE k == c[1].kids
               sub(i) == <<k[i], Append(c[2], i)>>
    <2>1. \A i \in DOMAIN k : f[sub(i)] = g[sub(i)]
        <3> SUFFICES ASSUME NEW i \in DOMAIN k PROVE f[sub(i)] = g[sub(i)]
            OBVIOUS
        <3>1. sub(i) \in Places /\ Height[k[i]] < Height[c[1]]
            BY SameBelow
        <3>2. H[c] = Height[c[1]]
            OBVIOUS
        <3> DEFINE b == sub(i)
        <3>3. b \in Places /\ b[1] = k[i]
            BY <3>1
        <3> HIDE DEF b
        <3>4. H[b] = Height[k[i]]
            BY <3>3
        <3>5. H[b] < H[c]
            BY <3>1, <3>2, <3>4
        <3> HIDE DEF H
        <3>6. f[b] = g[b]
            BY <1>2, <3>3, <3>5
        <3> QED BY <3>6 DEF b
    <2> HIDE DEF k, sub
    <2>2. [i \in DOMAIN k |-> f[sub(i)]] = [i \in DOMAIN k |-> g[sub(i)]]
        BY <2>1
    <2> QED BY <2>2 DEF Below, k, sub
<1> HIDE DEF H
<1>3. \E f : f = [c \in Places |-> CollectedOf(f, c)]
    <2>1. Descends("collected", Places, 0, H)
        <3>1. \A f, c : Body("collected", f, c, 0) = CollectedOf(f, c)
            BY DEF Body
        <3>2. ASSUME NEW f, NEW g, NEW c \in Places, \A b \in Places : H[b] < H[c] => f[b] = g[b]
              PROVE  Body("collected", f, c, 0) = Body("collected", g, c, 0)
            <4>1. Below(f, c) = Below(g, c)
                BY <1>2, <3>2
            <4> QED BY <3>1, <4>1 DEF CollectedOf
        <3> QED BY <1>1, <3>2 DEF Descends
    <2>2. Solvable("collected", Places, 0)
        BY <2>1, Recursion
    <2> QED BY <2>2 DEF Solvable, Body
<1>4. \E f : f = [c \in Places |-> HandlersOf(f, c)]
    <2>1. Descends("handlers", Places, 0, H)
        <3>1. \A f, c : Body("handlers", f, c, 0) = HandlersOf(f, c)
            BY DEF Body
        <3>2. ASSUME NEW f, NEW g, NEW c \in Places, \A b \in Places : H[b] < H[c] => f[b] = g[b]
              PROVE  Body("handlers", f, c, 0) = Body("handlers", g, c, 0)
            <4>1. Below(f, c) = Below(g, c)
                BY <1>2, <3>2
            <4> QED BY <3>1, <4>1 DEF HandlersOf
        <3> QED BY <1>1, <3>2 DEF Descends
    <2>2. Solvable("handlers", Places, 0)
        BY <2>1, Recursion
    <2> QED BY <2>2 DEF Solvable, Body
<1> DEFINE x == Collected
           y == Handlers
<1>5. x = CHOOSE f : f = [c \in Places |-> CollectedOf(f, c)]
    BY DEF Collected
<1>6. y = CHOOSE f : f = [c \in Places |-> HandlersOf(f, c)]
    BY DEF Handlers
<1> HIDE DEF x, y
<1>7. x = [c \in Places |-> CollectedOf(x, c)]
    BY <1>3, <1>5
<1>8. y = [c \in Places |-> HandlersOf(y, c)]
    BY <1>4, <1>6
<1>9. \A c \in Places : x[c] = CollectedOf(x, c)
    BY <1>7
<1>10. \A c \in Places : y[c] = HandlersOf(y, c)
    BY <1>8
<1> QED BY <1>9, <1>10 DEF x, y

-----------------------------------------------------------------------------
(* Among the entries of a list.                                             *)
Occurs(x, s) == \E i \in 1 .. Len(s) : s[i] = x

(* What occurs in lists put one after the other.                            *)
LEMMA OccursJoin ==
    ASSUME NEW a, NEW b, IsList(a), IsList(b), NEW x
    PROVE  Occurs(x, a \o b) <=> (Occurs(x, a) \/ Occurs(x, b))
<1> DEFINE n == Len(a)
           k == Len(b)
           s == a \o b
<1>1. /\ n \in Nat /\ k \in Nat /\ Len(s) = n + k
      /\ \A i \in 1 .. n : s[i] = a[i]
      /\ \A i \in 1 .. k : s[n + i] = b[i]
    BY ListJoin
<1> HIDE DEF n, k, s
<1>2. ASSUME NEW i \in 1 .. n, a[i] = x PROVE \E j \in 1 .. Len(s) : s[j] = x
    BY <1>1, <1>2
<1>3. ASSUME NEW i \in 1 .. k, b[i] = x PROVE \E j \in 1 .. Len(s) : s[j] = x
    <2>1. n + i \in 1 .. Len(s) /\ s[n + i] = x
        BY <1>1, <1>3
    <2> QED BY <2>1
<1>4. ASSUME NEW j \in 1 .. Len(s), s[j] = x
      PROVE  (\E i \in 1 .. n : a[i] = x) \/ (\E i \in 1 .. k : b[i] = x)
    <2>1. CASE j <= n
        BY <1>1, <1>4, <2>1
    <2>2. CASE j > n
        <3>1. j - n \in 1 .. k /\ n + (j - n) = j
            BY <1>1, <2>2
        <3>2. b[j - n] = x
            BY <1>1, <1>4, <3>1
        <3> QED BY <3>1, <3>2
    <2> QED BY <1>1, <2>1, <2>2
<1> QED BY <1>2, <1>3, <1>4 DEF Occurs, n, k, s

LEMMA OccursFlatten ==
    ASSUME NEW n \in Nat, NEW ss, Len(ss) = n, n = 0 => ss = <<>>,
           \A i \in 1 .. n : IsList(ss[i])
    PROVE  /\ IsList(FlattenSeq(ss))
           /\ \A x : Occurs(x, FlattenSeq(ss)) <=> \E i \in 1 .. n : Occurs(x, ss[i])
<1>1. PICK fl : Flattens(fl, ss, n) /\ FlattenSeq(ss) = fl[n]
    BY FlattenIs
<1>2. fl[0] = <<>> /\ \A i \in 1 .. n : fl[i] = fl[i - 1] \o ss[i]
    BY <1>1 DEF Flattens
<1> DEFINE Good(k) == /\ IsList(fl[k])
                      /\ \A x : Occurs(x, fl[k]) <=> \E i \in 1 .. k : Occurs(x, ss[i])
           S == {k \in Nat : k <= n => Good(k)}
<1>3. 0 \in S
    <2>1. Good(0)
        <3>1. IsList(<<>>) /\ \A x : ~ Occurs(x, <<>>)
            BY EmptyList DEF Occurs
        <3>2. \A x : ~ \E i \in 1 .. 0 : Occurs(x, ss[i])
            OBVIOUS
        <3> QED BY <1>2, <3>1, <3>2
    <2> HIDE DEF Good
    <2> QED BY <2>1
<1>4. ASSUME NEW k \in Nat, k \in S PROVE k + 1 \in S
    <2> SUFFICES ASSUME k + 1 <= n PROVE Good(k + 1)
        <3> HIDE DEF Good
        <3> QED OBVIOUS
    <2> DEFINE j == k + 1
    <2>1. j \in 1 .. n /\ j - 1 = k /\ k <= n
        OBVIOUS
    <2>2. Good(k)
        <3> HIDE DEF Good, j
        <3> QED BY <1>4, <2>1
    <2>3. fl[j] = fl[k] \o ss[j] /\ IsList(ss[j])
        <3> HIDE DEF j
        <3> QED BY <1>2, <2>1
    <2>4. \A x : Occurs(x, fl[j]) <=> (Occurs(x, fl[k]) \/ Occurs(x, ss[j]))
        BY <2>2, <2>3, OccursJoin
    <2>5. IsList(fl[j])
        BY <2>2, <2>3, ListJoin
    <2>6. \A i : i \in 1 .. j <=> (i \in 1 .. k \/ i = j)
        OBVIOUS
    <2>7. \A x : Occurs(x, fl[j]) <=> \E i \in 1 .. j : Occurs(x, ss[i])
        <3> HIDE DEF j
        <3> QED BY <2>2, <2>4, <2>6
    <2> QED BY <2>5, <2>7
<1> HIDE DEF S
<1>5. n \in S
    BY <1>3, <1>4, NatSetInduction
<1>6. Good(n)
    BY <1>5 DEF S
<1> QED BY <1>1, <1>6

(* What occurs in a list given by its entries.                              *)
LEMMA MadeList ==
    ASSUME NEW n \in Nat, NEW f, f = [i \in 1 .. n |-> f[i]]
    PROVE  IsList(f) /\ Len(f) = n /\ \A x : Occurs(x, f) <=> \E i \in 1 .. n : f[i] = x
<1>1. IsList(f)
    BY FunctionIsList
<1>2. Len(f) \in Nat /\ DOMAIN f = 1 .. Len(f) /\ DOMAIN f = 1 .. n
    BY <1>1, ListIs
<1>3. Len(f) = n
    BY <1>2
<1> QED BY <1>1, <1>3 DEF Occurs

(* What is written on the template of a place.                              *)
Noted(c) == [n \in DOMAIN c[1].on |-> [on |-> c[1].on[n], suffix |-> c[2]]]

(* The handlers written on an element, as collect_body_handlers and walk    *)
(* note them down.                                                          *)
LEMMA OwnHandlers ==
    ASSUME NEW c \in Places
    PROVE  /\ IsList(Noted(c)) /\ IsList(StaticHandlers(c[1], c[2]))
           /\ \A g : Occurs(g, Noted(c)) <=>
                 \E n \in DOMAIN c[1].on : g = [on |-> c[1].on[n], suffix |-> c[2]]
           /\ \A h : Occurs(h, StaticHandlers(c[1], c[2])) <=>
                 \E n \in DOMAIN c[1].on :
                    h = [on |-> c[1].on[n], prefix |-> c[2], list |-> NoList, suffix |-> <<>>]
<1> DEFINE t == c[1]
           k == Len(t.on)
           empty == <<>>
           a == Noted(c)
           b == StaticHandlers(t, c[2])
<1>1. k \in Nat /\ DOMAIN t.on = 1 .. k
    <2>1. t \in Parts
        BY DEF Places
    <2> QED BY <2>1, ViewAssumption
<1>2. /\ a = [n \in 1 .. k |-> [on |-> t.on[n], suffix |-> c[2]]]
      /\ b = [n \in 1 .. k |-> [on |-> t.on[n], prefix |-> c[2], list |-> NoList, suffix |-> empty]]
    BY <1>1 DEF Noted, StaticHandlers
<1> DEFINE A(n) == [on |-> t.on[n], suffix |-> c[2]]
           B(n) == [on |-> t.on[n], prefix |-> c[2], list |-> NoList, suffix |-> empty]
<1> HIDE DEF a, b, k, empty
<1>m. a = [n \in 1 .. k |-> A(n)] /\ b = [n \in 1 .. k |-> B(n)]
    BY <1>2
<1> HIDE DEF A, B
<1>3. /\ a = [n \in 1 .. k |-> a[n]] /\ b = [n \in 1 .. k |-> b[n]]
      /\ \A n \in 1 .. k : a[n] = A(n)
      /\ \A n \in 1 .. k : b[n] = B(n)
    BY <1>m
<1>4. IsList(a) /\ \A x : Occurs(x, a) <=> \E i \in 1 .. k : a[i] = x
    BY <1>1, <1>3, MadeList
<1>5. IsList(b) /\ \A x : Occurs(x, b) <=> \E i \in 1 .. k : b[i] = x
    BY <1>1, <1>3, MadeList
<1>6. \A g : Occurs(g, a) <=> \E n \in 1 .. k : g = A(n)
    BY <1>3, <1>4
<1>7. \A h : Occurs(h, b) <=> \E n \in 1 .. k : h = B(n)
    BY <1>3, <1>5
<1> QED BY <1>1, <1>4, <1>5, <1>6, <1>7 DEF a, b, empty, A, B

(* The call for a child.                                                    *)
Sub(c, i) == <<c[1].kids[i], Append(c[2], i)>>

(* What the calls for the children return.                                  *)
LEMMA BelowOccurs ==
    ASSUME NEW calls, NEW c \in Places, \A i \in DOMAIN c[1].kids : IsList(calls[Sub(c, i)])
    PROVE  /\ IsList(Below(calls, c))
           /\ \A x : Occurs(x, Below(calls, c)) <=>
                 \E i \in DOMAIN c[1].kids : Occurs(x, calls[Sub(c, i)])
<1> DEFINE k == Len(c[1].kids)
           ss == [i \in 1 .. k |-> calls[Sub(c, i)]]
<1>1. k \in Nat /\ DOMAIN c[1].kids = 1 .. k
    <2>1. c[1] \in Parts
        BY DEF Places
    <2> QED BY <2>1, TemplateFacts
<1>2. Below(calls, c) = FlattenSeq(ss)
    BY <1>1 DEF Below, Sub
<1> HIDE DEF k
<1>3. \A i \in 1 .. k : ss[i] = calls[Sub(c, i)]
    OBVIOUS
<1>4. ss = [i \in 1 .. k |-> ss[i]]
    OBVIOUS
<1>5. k = 0 => ss = <<>>
    OBVIOUS
<1> HIDE DEF ss
<1>6. Len(ss) = k
    BY <1>1, <1>4, MadeList
<1>7. \A i \in 1 .. k : IsList(ss[i])
    BY <1>1, <1>3
<1>8. /\ IsList(FlattenSeq(ss))
      /\ \A x : Occurs(x, FlattenSeq(ss)) <=> \E i \in 1 .. k : Occurs(x, ss[i])
    BY <1>1, <1>5, <1>6, <1>7, OccursFlatten
<1> QED BY <1>1, <1>2, <1>3, <1>8

(* A way that goes on from another.                                         *)
GoesOn(s, q) == s \in Seq(Nat) /\ q \in Seq(Nat) /\ Len(s) <= Len(q) /\ \A i \in 1 .. Len(s) : q[i] = s[i]

(* A way that goes on from a child goes on from its parent, by the child.   *)
LEMMA GoesOnFrom ==
    ASSUME NEW s \in Seq(Nat), NEW i \in Nat, NEW q, GoesOn(Append(s, i), q)
    PROVE  GoesOn(s, q) /\ Len(q) >= Len(s) + 1 /\ q[Len(s) + 1] = i
<1> DEFINE n == Len(s)
           r == Append(s, i)
<1>1. n \in Nat /\ Len(r) = n + 1 /\ r[n + 1] = i /\ \A k \in 1 .. n : r[k] = s[k]
    OBVIOUS
<1> HIDE DEF n, r
<1>2. q \in Seq(Nat) /\ Len(r) <= Len(q) /\ \A k \in 1 .. Len(r) : q[k] = r[k]
    BY DEF GoesOn, r
<1>3. Len(q) \in Nat
    BY <1>2
<1>4. n + 1 \in 1 .. Len(r) /\ \A k \in 1 .. n : k \in 1 .. Len(r)
    BY <1>1
<1>5. n <= Len(q) /\ n + 1 <= Len(q)
    BY <1>1, <1>2, <1>3
<1>6. q[n + 1] = i /\ \A k \in 1 .. n : q[k] = s[k]
    BY <1>1, <1>2, <1>4
<1> QED BY <1>2, <1>3, <1>5, <1>6, <1>1 DEF GoesOn, n

LEMMA GoesOnSelf == \A s \in Seq(Nat) : GoesOn(s, s)
BY DEF GoesOn

(* What collect_body_handlers returns for a place.                          *)
LEMMA CollectedFacts ==
    \A c \in Places : /\ IsList(Collected[c])
                      /\ \A g : Occurs(g, Collected[c]) => GoesOn(c[2], g.suffix)
                      /\ \A g : Occurs(g, Collected[c]) <=>
                            \/ \E n \in DOMAIN c[1].on : g = [on |-> c[1].on[n], suffix |-> c[2]]
                            \/ \E i \in DOMAIN c[1].kids : Occurs(g, Collected[Sub(c, i)])
<1> DEFINE Good(c) == /\ IsList(Collected[c])
                      /\ \A g : Occurs(g, Collected[c]) => GoesOn(c[2], g.suffix)
                      /\ \A g : Occurs(g, Collected[c]) <=>
                            \/ \E n \in DOMAIN c[1].on : g = [on |-> c[1].on[n], suffix |-> c[2]]
                            \/ \E i \in DOMAIN c[1].kids : Occurs(g, Collected[Sub(c, i)])
           S == {h \in Nat : \A c \in Places : Height[c[1]] = h => Good(c)}
<1>1. ASSUME NEW h \in Nat, \A k \in Nat : k < h => k \in S PROVE h \in S
    <2> SUFFICES ASSUME NEW c \in Places, Height[c[1]] = h PROVE Good(c)
        <3> HIDE DEF Good
        <3> QED OBVIOUS
    <2>0. c[1] \in Parts /\ c[2] \in Seq(Nat)
        BY DEF Places
    <2>1. ASSUME NEW i \in DOMAIN c[1].kids PROVE Good(Sub(c, i)) /\ i \in Nat
        <3>1. Sub(c, i) \in Places /\ Height[c[1].kids[i]] < h
            BY SameBelow DEF Sub
        <3>2. Sub(c, i)[1] = c[1].kids[i]
            BY DEF Sub
        <3>3. Height[c[1].kids[i]] \in Nat /\ i \in Nat
            BY <2>0, TemplateFacts
        <3>4. Height[c[1].kids[i]] \in S
            BY <1>1, <3>1, <3>3
        <3> DEFINE b == Sub(c, i)
        <3> HIDE DEF b, Good
        <3>5. Good(b)
            BY <3>1, <3>2, <3>4 DEF b
        <3> QED BY <3>3, <3>5 DEF b
    <2>2. \A i \in DOMAIN c[1].kids : IsList(Collected[Sub(c, i)])
        BY <2>1
    <2>3. Collected[c] = Noted(c) \o Below(Collected, c)
        BY HandlersAre DEF CollectedOf, Noted
    <2>4. IsList(Noted(c)) /\ \A g : Occurs(g, Noted(c)) <=>
                 \E n \in DOMAIN c[1].on : g = [on |-> c[1].on[n], suffix |-> c[2]]
        BY OwnHandlers
    <2>5. /\ IsList(Below(Collected, c))
          /\ \A x : Occurs(x, Below(Collected, c)) <=>
                 \E i \in DOMAIN c[1].kids : Occurs(x, Collected[Sub(c, i)])
        BY <2>2, BelowOccurs
    <2>6. IsList(Collected[c])
        BY <2>3, <2>4, <2>5, ListJoin
    <2>7. \A g : Occurs(g, Collected[c]) <=> (Occurs(g, Noted(c)) \/ Occurs(g, Below(Collected, c)))
        BY <2>3, <2>4, <2>5, OccursJoin
    <2>8. \A g : Occurs(g, Collected[c]) <=>
                            \/ \E n \in DOMAIN c[1].on : g = [on |-> c[1].on[n], suffix |-> c[2]]
                            \/ \E i \in DOMAIN c[1].kids : Occurs(g, Collected[Sub(c, i)])
        BY <2>4, <2>5, <2>7
    <2>9. ASSUME NEW g, Occurs(g, Collected[c]) PROVE GoesOn(c[2], g.suffix)
        <3>1. CASE \E n \in DOMAIN c[1].on : g = [on |-> c[1].on[n], suffix |-> c[2]]
            <4>1. g.suffix = c[2]
                BY <3>1
            <4> QED BY <2>0, <4>1, GoesOnSelf
        <3>2. CASE \E i \in DOMAIN c[1].kids : Occurs(g, Collected[Sub(c, i)])
            <4>1. PICK i \in DOMAIN c[1].kids : Occurs(g, Collected[Sub(c, i)])
                BY <3>2
            <4>2. GoesOn(Sub(c, i)[2], g.suffix) /\ i \in Nat
                BY <2>1, <4>1
            <4>3. Sub(c, i)[2] = Append(c[2], i)
                BY DEF Sub
            <4> QED BY <2>0, <4>2, <4>3, GoesOnFrom
        <3> QED BY <2>8, <2>9, <3>1, <3>2
    <2> QED BY <2>6, <2>8, <2>9
<1> HIDE DEF S
<1>2. \A h \in Nat : h \in S
    BY <1>1, StrongSetInduction
<1>3. \A c \in Places : Height[c[1]] \in Nat
    <2>1. \A c \in Places : c[1] \in Parts
        BY DEF Places
    <2> QED BY <2>1, TemplateFacts
<1>4. \A c \in Places : Good(c)
    <2> HIDE DEF Good
    <2> QED BY <1>2, <1>3 DEF S
<1> QED BY <1>4

(* What walk registers for a handler of a region's body.                    *)
ForItem(c, g) == [on |-> g.on, prefix |-> c[2], list |-> c[1].each, suffix |-> g.suffix]
Inside(c) == <<c[1].kids[1], <<>>>>

(* The handlers of a region: those found in its body, for its list.         *)
LEMMA BodyOccurs ==
    ASSUME NEW c \in Places, IsRegion(c[1])
    PROVE  LET hs == BodyHandlers(c[1].kids[1], c[2], c[1].each)
           IN  /\ Inside(c) \in Places
               /\ IsList(hs)
               /\ \A h : Occurs(h, hs) <=> \E g : Occurs(g, Collected[Inside(c)]) /\ h = ForItem(c, g)
<1> DEFINE s == Collected[Inside(c)]
           k == Len(s)
           hs == BodyHandlers(c[1].kids[1], c[2], c[1].each)
<1>1. Inside(c) \in Places
    <2> DEFINE empty == <<>>
               u == c[1].kids[1]
    <2>1. c[1] \in Parts
        BY DEF Places
    <2>2. Len(c[1].kids) = 1
        BY <2>1, ViewAssumption
    <2>3. u \in Parts
        BY <2>1, <2>2, TemplateFacts
    <2>4. empty \in Seq(Nat)
        OBVIOUS
    <2> HIDE DEF empty, u
    <2>5. <<u, empty>> \in Places
        BY <2>3, <2>4 DEF Places
    <2> QED BY <2>5 DEF empty, u, Inside
<1>2. IsList(s)
    BY <1>1, CollectedFacts
<1>3. k \in Nat /\ DOMAIN s = 1 .. k
    BY <1>2, ListIs
<1>4. hs = [n \in 1 .. k |-> ForItem(c, s[n])]
    BY <1>3 DEF BodyHandlers, Inside, ForItem
<1> HIDE DEF s, hs, k
<1>5. hs = [n \in 1 .. k |-> hs[n]] /\ \A n \in 1 .. k : hs[n] = ForItem(c, s[n])
    BY <1>4
<1>6. IsList(hs) /\ \A h : Occurs(h, hs) <=> \E n \in 1 .. k : hs[n] = h
    BY <1>3, <1>5, MadeList
<1>7. \A g : Occurs(g, s) <=> \E n \in 1 .. k : s[n] = g
    BY DEF Occurs, k
<1>8. \A h : Occurs(h, hs) <=> \E g : Occurs(g, s) /\ h = ForItem(c, g)
    BY <1>5, <1>6, <1>7
<1> QED BY <1>1, <1>6, <1>8 DEF s, hs

(* What walk collects for a place.                                          *)
LEMMA HandlersFacts ==
    \A c \in Places :
       /\ IsList(Handlers[c])
       /\ \A h : Occurs(h, Handlers[c]) => GoesOn(c[2], h.prefix) /\ h.suffix \in Seq(Nat)
       /\ \A h : Occurs(h, Handlers[c]) <=>
             \/ \E n \in DOMAIN c[1].on :
                   h = [on |-> c[1].on[n], prefix |-> c[2], list |-> NoList, suffix |-> <<>>]
             \/ IsRegion(c[1]) /\ \E g : Occurs(g, Collected[Inside(c)]) /\ h = ForItem(c, g)
             \/ ~ IsRegion(c[1]) /\ \E i \in DOMAIN c[1].kids : Occurs(h, Handlers[Sub(c, i)])
<1> DEFINE Own1(c, h) == \E n \in DOMAIN c[1].on :
                   h = [on |-> c[1].on[n], prefix |-> c[2], list |-> NoList, suffix |-> <<>>]
           Body1(c, h) == \E g : Occurs(g, Collected[Inside(c)]) /\ h = ForItem(c, g)
           Kid1(c, h) == \E i \in DOMAIN c[1].kids : Occurs(h, Handlers[Sub(c, i)])
           Good(c) == /\ IsList(Handlers[c])
                      /\ \A h : Occurs(h, Handlers[c]) => GoesOn(c[2], h.prefix) /\ h.suffix \in Seq(Nat)
                      /\ \A h : Occurs(h, Handlers[c]) <=>
                            \/ Own1(c, h)
                            \/ IsRegion(c[1]) /\ Body1(c, h)
                            \/ ~ IsRegion(c[1]) /\ Kid1(c, h)
           S == {h \in Nat : \A c \in Places : Height[c[1]] = h => Good(c)}
<1>1. ASSUME NEW n \in Nat, \A k \in Nat : k < n => k \in S PROVE n \in S
    <2> SUFFICES ASSUME NEW c \in Places, Height[c[1]] = n PROVE Good(c)
        <3> HIDE DEF Good
        <3> QED OBVIOUS
    <2>0. c[1] \in Parts /\ c[2] \in Seq(Nat)
        BY DEF Places
    <2>1. ASSUME NEW i \in DOMAIN c[1].kids PROVE Good(Sub(c, i)) /\ i \in Nat
        <3>1. Sub(c, i) \in Places /\ Height[c[1].kids[i]] < n
            BY SameBelow DEF Sub
        <3>2. Sub(c, i)[1] = c[1].kids[i]
            BY DEF Sub
        <3>3. Height[c[1].kids[i]] \in Nat /\ i \in Nat
            BY <2>0, TemplateFacts
        <3>4. Height[c[1].kids[i]] \in S
            BY <1>1, <3>1, <3>3
        <3> DEFINE b == Sub(c, i)
        <3> HIDE DEF b, Good
        <3>5. Good(b)
            BY <3>1, <3>2, <3>4 DEF b
        <3> QED BY <3>3, <3>5 DEF b
    <2> DEFINE a == StaticHandlers(c[1], c[2])
               b == IF IsRegion(c[1]) THEN BodyHandlers(c[1].kids[1], c[2], c[1].each)
                    ELSE Below(Handlers, c)
    <2>2. Handlers[c] = a \o b
        BY HandlersAre DEF HandlersOf
    <2>3. IsList(a) /\ \A h : Occurs(h, a) <=> Own1(c, h)
        BY OwnHandlers
    <2>4. IsList(b) /\ \A h : Occurs(h, b) <=> \/ IsRegion(c[1]) /\ Body1(c, h)
                                               \/ ~ IsRegion(c[1]) /\ Kid1(c, h)
        <3> HIDE DEF Own1
        <3>1. CASE IsRegion(c[1])
            BY <3>1, BodyOccurs
        <3>2. CASE ~ IsRegion(c[1])
            <4>1. \A i \in DOMAIN c[1].kids : IsList(Handlers[Sub(c, i)])
                BY <2>1
            <4>2. IsList(Below(Handlers, c)) /\ \A h : Occurs(h, Below(Handlers, c)) <=> Kid1(c, h)
                BY <4>1, BelowOccurs
            <4> QED BY <3>2, <4>2
        <3> QED BY <3>1, <3>2
    <2> HIDE DEF a, b
    <2>5. IsList(Handlers[c])
        BY <2>2, <2>3, <2>4, ListJoin
    <2>6. \A h : Occurs(h, Handlers[c]) <=> (Occurs(h, a) \/ Occurs(h, b))
        BY <2>2, <2>3, <2>4, OccursJoin
    <2>7. \A h : Occurs(h, Handlers[c]) <=>
                            \/ Own1(c, h)
                            \/ IsRegion(c[1]) /\ Body1(c, h)
                            \/ ~ IsRegion(c[1]) /\ Kid1(c, h)
        <3> HIDE DEF Own1, Body1, Kid1
        <3> QED BY <2>3, <2>4, <2>6
    <2>8. ASSUME NEW h, Occurs(h, Handlers[c]) PROVE GoesOn(c[2], h.prefix) /\ h.suffix \in Seq(Nat)
        <3>1. CASE Own1(c, h)
            <4>1. h.prefix = c[2] /\ h.suffix = <<>>
                BY <3>1
            <4> QED BY <2>0, <4>1, GoesOnSelf
        <3>2. CASE IsRegion(c[1]) /\ Body1(c, h)
            <4>1. PICK g : Occurs(g, Collected[Inside(c)]) /\ h = ForItem(c, g)
                BY <3>2
            <4>2. GoesOn(Inside(c)[2], g.suffix)
                BY <3>2, <4>1, BodyOccurs, CollectedFacts
            <4>3. h.prefix = c[2] /\ h.suffix = g.suffix
                BY <4>1 DEF ForItem
            <4> QED BY <2>0, <4>2, <4>3, GoesOnSelf DEF GoesOn
        <3>3. CASE Kid1(c, h)
            <4>1. PICK i \in DOMAIN c[1].kids : Occurs(h, Handlers[Sub(c, i)])
                BY <3>3
            <4>2. GoesOn(Sub(c, i)[2], h.prefix) /\ h.suffix \in Seq(Nat) /\ i \in Nat
                <5> HIDE DEF Own1, Body1, Kid1
                <5> QED BY <2>1, <4>1
            <4>3. Sub(c, i)[2] = Append(c[2], i)
                BY DEF Sub
            <4> QED BY <2>0, <4>2, <4>3, GoesOnFrom
        <3> HIDE DEF Own1, Body1, Kid1
        <3> QED BY <2>7, <2>8, <3>1, <3>2, <3>3
    <2> HIDE DEF Own1, Body1, Kid1
    <2> QED BY <2>5, <2>7, <2>8
<1> HIDE DEF S
<1>2. \A h \in Nat : h \in S
    BY <1>1, StrongSetInduction
<1>3. \A c \in Places : Height[c[1]] \in Nat
    <2>1. \A c \in Places : c[1] \in Parts
        BY DEF Places
    <2> QED BY <2>1, TemplateFacts
<1>4. \A c \in Places : Good(c)
    <2> HIDE DEF Good
    <2> QED BY <1>2, <1>3 DEF S
<1> QED BY <1>4

-----------------------------------------------------------------------------
(* A listener of an element for an event, and its message.                  *)
Says(v, event, l) ==
    \E n \in DOMAIN v.on : v.on[n].event = event /\ l = <<v.on[n].msg, v.on[n].arg>>

(* One written on its template.                                             *)
Listens(c, m, event, l) ==
    \E n \in DOMAIN c[1].on :
       c[1].on[n].event = event /\ l = <<c[1].on[n].msg, Value(c[1].on[n].arg, m, c[2])>>

(* A rendered element listens to what is written on its template.           *)
LEMMA ViewSays ==
    ASSUME NEW m, ListsTyped(m), NEW c \in Calls
    PROVE  /\ DOMAIN Views(m)[c].on = DOMAIN c[1].on
           /\ \A n \in DOMAIN c[1].on :
                 /\ Views(m)[c].on[n].event = c[1].on[n].event
                 /\ Views(m)[c].on[n].msg = c[1].on[n].msg
                 /\ Views(m)[c].on[n].arg = Value(c[1].on[n].arg, m, c[2])
           /\ \A event, l : Says(Views(m)[c], event, l) <=> Listens(c, m, event, l)
<1> DEFINE t == c[1]
           x == Views(m)[c].on
           y(n) == Value(t.on[n].arg, m, c[2])
<1>1. t \in Parts
    BY DEF Calls
<1>2. x = [n \in DOMAIN t.on |-> [t.on[n] EXCEPT !.arg = y(n)]]
    <2>1. Views(m)[c] = ViewOf(Views(m), c, m)
        BY TreesAre
    <2> QED BY <2>1 DEF ViewOf
<1>3. \A n \in DOMAIN t.on : t.on[n] = On(t.on[n].event, t.on[n].msg, t.on[n].arg)
    <2>1. t.on = [n \in DOMAIN t.on |-> On(t.on[n].event, t.on[n].msg, t.on[n].arg)]
        BY <1>1, ViewAssumption
    <2> QED BY <2>1
<1>4. \A event, msg, arg, z :
         [On(event, msg, arg) EXCEPT !.arg = z] = On(event, msg, z)
    BY DEF On
<1>5. \A event, msg, arg :
         On(event, msg, arg).event = event /\ On(event, msg, arg).msg = msg
         /\ On(event, msg, arg).arg = arg
    BY DEF On
<1> HIDE DEF x, y, t
<1>6. DOMAIN x = DOMAIN t.on /\ \A n \in DOMAIN t.on : x[n] = [t.on[n] EXCEPT !.arg = y(n)]
    BY <1>2
<1>7. ASSUME NEW n \in DOMAIN t.on
      PROVE  x[n].event = t.on[n].event /\ x[n].msg = t.on[n].msg /\ x[n].arg = y(n)
    <2> DEFINE a == t.on[n].event
               b == t.on[n].msg
               d == t.on[n].arg
    <2>1. t.on[n] = On(a, b, d) /\ x[n] = [t.on[n] EXCEPT !.arg = y(n)]
        BY <1>3, <1>6
    <2> HIDE DEF a, b, d
    <2>2. x[n] = On(a, b, y(n))
        BY <1>4, <2>1
    <2>3. x[n].event = a /\ x[n].msg = b /\ x[n].arg = y(n)
        BY <1>5, <2>2
    <2> QED BY <2>3 DEF a, b
<1>8. \A event, l :
         (\E n \in DOMAIN x : x[n].event = event /\ l = <<x[n].msg, x[n].arg>>) <=>
         (\E n \in DOMAIN t.on : t.on[n].event = event /\ l = <<t.on[n].msg, y(n)>>)
    BY <1>6, <1>7
<1> QED BY <1>6, <1>7, <1>8 DEF Says, Listens, x, y, t

(* A step down the rendered tree is a step down the template, or picks an   *)
(* item.                                                                    *)
LEMMA ViewKid ==
    ASSUME NEW m, ListsTyped(m), NEW c \in Calls, NEW i \in DOMAIN Views(m)[c].kids
    PROVE  /\ i \in Nat
           /\ IsRegion(c[1]) =>
                 /\ i \in DOMAIN m[c[1].each] /\ m[c[1].each][i] \in Items
                 /\ Views(m)[c].kids[i] = Views(m)[<<c[1].kids[1], m[c[1].each][i]>>]
           /\ ~ IsRegion(c[1]) =>
                 /\ i \in DOMAIN c[1].kids
                 /\ Views(m)[c].kids[i] = Views(m)[<<c[1].kids[i], c[2]>>]
<1> DEFINE q == Copies(c, m)
           n == Len(q)
           t == c[1]
<1>0. t \in Parts
    BY DEF Calls
<1>1. n \in Nat /\ DOMAIN q = 1 .. n
    BY CopiesAre
<1>2. i \in 1 .. n /\ Views(m)[c].kids[i] = Views(m)[q[i]]
    BY SameNode
<1>3. CASE IsRegion(t)
    <2> DEFINE s == m[t.each]
    <2>1. q = [k \in DOMAIN s |-> <<t.kids[1], s[k]>>]
        BY <1>3 DEF Copies
    <2>2. s \in Seq(Items)
        BY <1>0, <1>3 DEF ListsTyped
    <2> HIDE DEF q, s
    <2>3. i \in DOMAIN s /\ q[i] = <<t.kids[1], s[i]>>
        BY <1>1, <1>2, <2>1
    <2>4. s[i] \in Items
        BY <2>2, <2>3
    <2> QED BY <1>2, <1>1, <1>3, <2>3, <2>4 DEF s
<1>4. CASE ~ IsRegion(t)
    <2>1. q = [k \in DOMAIN t.kids |-> <<t.kids[k], c[2]>>]
        BY <1>4 DEF Copies
    <2> HIDE DEF q
    <2>2. i \in DOMAIN t.kids /\ q[i] = <<t.kids[i], c[2]>>
        BY <1>1, <1>2, <2>1
    <2> QED BY <1>1, <1>2, <1>4, <2>2
<1> QED BY <1>3, <1>4

(* The part of a path behind its first o steps, and one step more.          *)
LEMMA PathGrows ==
    ASSUME NEW p \in Seq(Nat), NEW o \in Nat, NEW i \in o .. Len(p), i < Len(p)
    PROVE  /\ i + 1 \in 1 .. Len(p) /\ i + 1 \in o .. Len(p) /\ p[i + 1] \in Nat
           /\ Append(SubSeq(p, o + 1, i), p[i + 1]) = SubSeq(p, o + 1, i + 1)
<1> DEFINE a == SubSeq(p, o + 1, i)
           b == SubSeq(p, o + 1, i + 1)
           x == p[i + 1]
           n == i - o
<1>1. i + 1 \in 1 .. Len(p) /\ i + 1 \in o .. Len(p) /\ n \in Nat /\ i + 1 - o = n + 1 /\ o + (n + 1) = i + 1
    OBVIOUS
<1>2. x \in Nat
    BY <1>1
<1>3. a \in Seq(Nat) /\ Len(a) = n /\ \A k \in 1 .. n : a[k] = p[o + k]
    BY PartOfPath
<1>4. b \in Seq(Nat) /\ Len(b) = n + 1 /\ \A k \in 1 .. n + 1 : b[k] = p[o + k]
    <2> DEFINE j == i + 1
    <2> HIDE DEF j
    <2>1. j \in o .. Len(p)
        BY <1>1 DEF j
    <2>2. SubSeq(p, o + 1, j) \in Seq(Nat) /\ Len(SubSeq(p, o + 1, j)) = j - o
           /\ \A k \in 1 .. j - o : SubSeq(p, o + 1, j)[k] = p[o + k]
        BY <2>1, PartOfPath
    <2> QED BY <2>2, <1>1 DEF j
<1> HIDE DEF a, b, n
<1>5. Append(a, x) \in Seq(Nat) /\ Len(Append(a, x)) = n + 1 /\ Append(a, x)[n + 1] = x
      /\ \A k \in 1 .. n : Append(a, x)[k] = a[k]
    <2>1. a \in Seq(Nat) /\ Len(a) = n /\ n \in Nat
        BY <1>1, <1>3
    <2> HIDE DEF x
    <2> QED BY <1>2, <2>1
<1>6. \A k \in 1 .. n + 1 : k \in 1 .. n \/ k = n + 1
    BY <1>1
<1>7. \A k \in 1 .. n + 1 : Append(a, x)[k] = b[k]
    <2>1. b[n + 1] = x
        <3>1. n + 1 \in 1 .. n + 1
            BY <1>1
        <3>2. b[n + 1] = p[o + (n + 1)]
            BY <1>4, <3>1
        <3> QED BY <1>1, <3>2
    <2>2. \A k \in 1 .. n : b[k] = a[k]
        <3>1. \A k \in 1 .. n : k \in 1 .. n + 1
            BY <1>1
        <3> QED BY <1>3, <1>4, <3>1
    <2> DEFINE y == Append(a, x)
    <2>3. y[n + 1] = x /\ \A k \in 1 .. n : y[k] = a[k]
        BY <1>5
    <2> HIDE DEF y, x
    <2>4. \A k \in 1 .. n : y[k] = b[k]
        BY <2>2, <2>3
    <2>5. y[n + 1] = b[n + 1]
        BY <2>1, <2>3
    <2>6. \A k \in 1 .. n + 1 : y[k] = b[k]
        BY <1>6, <2>4, <2>5
    <2> QED BY <2>6 DEF y
<1>8. Append(a, x) = b
    <2> DEFINE y == Append(a, x)
    <2> HIDE DEF y, x
    <2>1. y \in Seq(Nat) /\ b \in Seq(Nat) /\ Len(y) = Len(b) /\ \A k \in 1 .. Len(b) : y[k] = b[k]
        BY <1>4, <1>5, <1>7 DEF y
    <2>2. IsList(y) /\ IsList(b)
        BY <2>1, ListOf
    <2>3. y = b
        BY <2>1, <2>2, SameList
    <2> QED BY <2>3 DEF y
<1> QED BY <1>1, <1>2, <1>8 DEF a, b

-----------------------------------------------------------------------------
(* One handler of a region's body is for the node q below the item, and     *)
(* makes of the event the message l.                                        *)
Tells(c, q, event, m, item, l) ==
    \E g : /\ Occurs(g, Collected[c]) /\ g.suffix = q
           /\ g.on.event = event /\ l = <<g.on.msg, Value(g.on.arg, m, item)>>

(* The path leads through the tree v.                                       *)
Through(w, p) == \A k \in 1 .. Len(p) : p[k] \in DOMAIN w[k - 1].kids /\ w[k] = w[k - 1].kids[p[k]]

(* The handlers that have the node itself for target are what it listens to. *)
LEMMA OwnTells ==
    ASSUME NEW m, ListsTyped(m), NEW item \in Items, NEW c \in Places, NEW event, NEW l
    PROVE  Tells(c, c[2], event, m, item, l) <=> Says(Views(m)[<<c[1], item>>], event, l)
<1> DEFINE t == c[1]
           s == c[2]
           x(n) == [on |-> t.on[n], suffix |-> s]
           W(n) == t.on[n].event = event /\ l = <<t.on[n].msg, Value(t.on[n].arg, m, item)>>
<1>1. t \in Parts /\ s \in Seq(Nat) /\ <<t, item>> \in Calls
    BY DEF Places, Calls
<1>2. Says(Views(m)[<<t, item>>], event, l) <=> \E n \in DOMAIN t.on : W(n)
    <2> DEFINE b == <<t, item>>
    <2>1. b \in Calls /\ b[1] = t /\ b[2] = item
        BY <1>1
    <2> HIDE DEF b
    <2>2. Says(Views(m)[b], event, l) <=> Listens(b, m, event, l)
        BY <2>1, ViewSays
    <2>3. Says(Views(m)[b], event, l) <=> \E n \in DOMAIN t.on : W(n)
        BY <2>1, <2>2 DEF Listens
    <2> QED BY <2>3 DEF b
<1>3. \A n : x(n).on = t.on[n] /\ x(n).suffix = s
    OBVIOUS
<1>4. \A g : Occurs(g, Collected[c]) <=>
                \/ \E n \in DOMAIN t.on : g = x(n)
                \/ \E i \in DOMAIN t.kids : Occurs(g, Collected[Sub(c, i)])
    BY CollectedFacts
<1>5. ASSUME NEW g, NEW i \in DOMAIN t.kids, Occurs(g, Collected[Sub(c, i)]) PROVE g.suffix # s
    <2>1. Sub(c, i) \in Places /\ Sub(c, i)[2] = Append(s, i)
        BY SameBelow DEF Sub
    <2>2. GoesOn(Append(s, i), g.suffix)
        BY <1>5, <2>1, CollectedFacts
    <2>3. i \in Nat
        BY <1>1, TemplateFacts
    <2>4. Len(g.suffix) >= Len(s) + 1
        BY <1>1, <2>2, <2>3, GoesOnFrom
    <2>5. Len(s) \in Nat
        BY <1>1
    <2> HIDE DEF s
    <2> QED BY <2>4, <2>5
<1> HIDE DEF x, t, s
<1>6. \A g : g.suffix = s => (Occurs(g, Collected[c]) <=> \E n \in DOMAIN t.on : g = x(n))
    BY <1>4, <1>5
<1>7. Tells(c, s, event, m, item, l) <=>
         \E g : /\ g.suffix = s /\ \E n \in DOMAIN t.on : g = x(n)
                /\ g.on.event = event /\ l = <<g.on.msg, Value(g.on.arg, m, item)>>
    BY <1>6 DEF Tells
<1>8. Tells(c, s, event, m, item, l) <=>
         \E n \in DOMAIN t.on : /\ x(n).suffix = s
                /\ x(n).on.event = event /\ l = <<x(n).on.msg, Value(x(n).on.arg, m, item)>>
    BY <1>7
<1>9. Tells(c, s, event, m, item, l) <=> \E n \in DOMAIN t.on : W(n)
    BY <1>3, <1>8
<1> QED BY <1>2, <1>9 DEF t, s

(* Those for a node further down come from the child on the way there.      *)
LEMMA FurtherTells ==
    ASSUME NEW c \in Places, NEW q \in Seq(Nat), Len(q) > Len(c[2]), q[Len(c[2]) + 1] \in DOMAIN c[1].kids,
           NEW m, NEW item, NEW event, NEW l
    PROVE  Tells(c, q, event, m, item, l)
             <=> Tells(Sub(c, q[Len(c[2]) + 1]), q, event, m, item, l)
<1> DEFINE t == c[1]
           s == c[2]
           i == q[Len(s) + 1]
           x(n) == [on |-> t.on[n], suffix |-> s]
<1>1. t \in Parts /\ s \in Seq(Nat)
    BY DEF Places
<1>2. \A g : Occurs(g, Collected[c]) <=>
                \/ \E n \in DOMAIN t.on : g = x(n)
                \/ \E k \in DOMAIN t.kids : Occurs(g, Collected[Sub(c, k)])
    BY CollectedFacts
<1>3. \A n : x(n).suffix = s
    OBVIOUS
<1>4. ASSUME NEW g, NEW k \in DOMAIN t.kids, Occurs(g, Collected[Sub(c, k)]), g.suffix = q PROVE k = i
    <2>1. Sub(c, k) \in Places /\ Sub(c, k)[2] = Append(s, k)
        BY SameBelow DEF Sub
    <2>2. GoesOn(Append(s, k), g.suffix)
        BY <1>4, <2>1, CollectedFacts
    <2>3. k \in Nat
        BY <1>1, TemplateFacts
    <2>4. g.suffix[Len(s) + 1] = k
        BY <1>1, <2>2, <2>3, GoesOnFrom
    <2> QED BY <1>4, <2>4
<1>5. q # s
    <2>1. Len(s) \in Nat /\ Len(q) \in Nat /\ Len(q) > Len(s)
        BY <1>1
    <2> HIDE DEF s
    <2> QED BY <2>1
<1>6. i \in DOMAIN t.kids
    OBVIOUS
<1> HIDE DEF x, t, s, i
<1>7. \A g : g.suffix = q => (Occurs(g, Collected[c]) <=> Occurs(g, Collected[Sub(c, i)]))
    BY <1>2, <1>3, <1>4, <1>5, <1>6
<1>8. Tells(c, q, event, m, item, l) <=> Tells(Sub(c, i), q, event, m, item, l)
    BY <1>7 DEF Tells
<1> QED BY <1>8 DEF i, s

(* Below the item a path leads to, collect_body_handlers has what the       *)
(* rendered nodes listen to.                                                *)
LEMMA BodyAgrees ==
    ASSUME NEW m, ListsTyped(m), NEW item \in Items, NEW p \in Seq(Nat), NEW w, Through(w, p),
           NEW o \in Nat, NEW event
    PROVE  \A b \in Bodies : \A i \in o .. Len(p) : w[i] = Views(m)[<<b, item>>] =>
              \A k \in i .. Len(p) : \A l :
                 Tells(<<b, SubSeq(p, o + 1, i)>>, SubSeq(p, o + 1, k), event, m, item, l)
                   <=> Says(w[k], event, l)
<1> DEFINE N == Len(p)
           part(i) == SubSeq(p, o + 1, i)
           Good(b) == \A i \in o .. N : w[i] = Views(m)[<<b, item>>] =>
                         \A k \in i .. N : \A l :
                            Tells(<<b, part(i)>>, part(k), event, m, item, l) <=> Says(w[k], event, l)
           S == {h \in Nat : \A b \in Bodies : Height[b] = h => Good(b)}
<1>n. N \in Nat
    OBVIOUS
<1>p. \A i \in o .. N : part(i) \in Seq(Nat) /\ Len(part(i)) = i - o
                        /\ \A k \in 1 .. i - o : part(i)[k] = p[o + k]
    BY PartOfPath
<1>a. \A i \in o .. N : i < N => /\ i + 1 \in 1 .. N /\ i + 1 \in o .. N /\ p[i + 1] \in Nat
                                 /\ Append(part(i), p[i + 1]) = part(i + 1)
    BY PathGrows
<1>w. \A k \in 1 .. N : p[k] \in DOMAIN w[k - 1].kids /\ w[k] = w[k - 1].kids[p[k]]
    BY DEF Through
<1> HIDE DEF N, part
<1>1. ASSUME NEW h \in Nat, \A k \in Nat : k < h => k \in S PROVE h \in S
    <2> SUFFICES ASSUME NEW b \in Bodies, Height[b] = h PROVE Good(b)
        <3> HIDE DEF Good
        <3> QED OBVIOUS
    <2> SUFFICES ASSUME NEW i \in o .. N, w[i] = Views(m)[<<b, item>>], NEW k \in i .. N, NEW l
                 PROVE  Tells(<<b, part(i)>>, part(k), event, m, item, l) <=> Says(w[k], event, l)
        OBVIOUS
    <2> DEFINE c == <<b, part(i)>>
    <2>1. b \in Parts /\ ~ IsRegion(b) /\ \A j \in DOMAIN b.kids : b.kids[j] \in Bodies
        BY ViewAssumption
    <2>2. c \in Places /\ c[1] = b /\ c[2] = part(i)
        BY <1>p, <2>1 DEF Places
    <2>3. CASE k = i
        <3> HIDE DEF c
        <3>1. Tells(c, part(i), event, m, item, l) <=> Says(Views(m)[<<b, item>>], event, l)
            BY <2>2, OwnTells
        <3> QED BY <2>3, <3>1 DEF c
    <2>4. CASE k # i
        <3> DEFINE j == i + 1
                   x == p[j]
                   u == b.kids[x]
                   call == <<b, item>>
                   q == part(k)
        <3>0. i \in Nat /\ k \in Nat /\ i < k /\ i < N /\ k <= N /\ o <= i /\ j <= k
            BY <1>n, <2>4
        <3>1. j \in 1 .. N /\ j \in o .. N /\ x \in Nat /\ Append(part(i), x) = part(j) /\ j - 1 = i
            <4>1. j - 1 = i
                BY <3>0
            <4> QED BY <1>a, <3>0, <4>1
        <3>2. k \in o .. N /\ k \in j .. N
            BY <1>n, <3>0
        <3>3. q \in Seq(Nat) /\ Len(q) = k - o /\ Len(part(i)) = i - o
              /\ q[(i - o) + 1] = x
            <4>1. (i - o) + 1 \in 1 .. k - o /\ o + ((i - o) + 1) = j
                BY <3>0
            <4> HIDE DEF j
            <4> QED BY <1>p, <3>2, <4>1
        <3>4. call \in Calls /\ call[1] = b /\ call[2] = item
            BY <2>1 DEF Calls
        <3>5. x \in DOMAIN w[i].kids /\ w[j] = w[i].kids[x]
            <4> HIDE DEF j
            <4> QED BY <1>w, <3>1
        <3> HIDE DEF j, x, call, q
        <3>6. x \in DOMAIN Views(m)[call].kids
            BY <3>5 DEF call
        <3>7. x \in DOMAIN b.kids /\ Views(m)[call].kids[x] = Views(m)[<<u, item>>]
            BY <2>1, <3>4, <3>6, ViewKid
        <3>8. w[j] = Views(m)[<<u, item>>]
            BY <3>5, <3>7 DEF call
        <3>9. u \in Bodies /\ u \in Parts /\ Height[u] < h /\ Height[u] \in Nat
            BY <2>1, <3>7, TemplateFacts
        <3>10. Good(u)
            <4>1. Height[u] \in S
                BY <1>1, <3>9
            <4> HIDE DEF u, Good
            <4> QED BY <3>9, <4>1
        <3>11. Tells(<<u, part(j)>>, q, event, m, item, l) <=> Says(w[k], event, l)
            BY <3>1, <3>2, <3>8, <3>10 DEF q
        <3>12. Sub(c, x) = <<u, part(j)>>
            BY <3>1, <2>2 DEF Sub
        <3>13. Len(q) > Len(c[2]) /\ q[Len(c[2]) + 1] = x
            BY <2>2, <3>0, <3>3
        <3> HIDE DEF c
        <3>14. Tells(c, q, event, m, item, l) <=> Tells(Sub(c, x), q, event, m, item, l)
            <4>1. q[Len(c[2]) + 1] \in DOMAIN c[1].kids
                BY <2>2, <3>7, <3>13
            <4>2. Tells(c, q, event, m, item, l) <=> Tells(Sub(c, q[Len(c[2]) + 1]), q, event, m, item, l)
                BY <2>2, <3>3, <3>13, <4>1, FurtherTells
            <4> QED BY <3>13, <4>2
        <3> QED BY <3>11, <3>12, <3>14 DEF c, q
    <2> QED BY <2>3, <2>4
<1> HIDE DEF S
<1>2. \A h \in Nat : h \in S
    BY <1>1, StrongSetInduction
<1>3. \A b \in Bodies : Good(b)
    <2>1. \A b \in Bodies : Height[b] \in Nat
        BY ViewAssumption
    <2> HIDE DEF Good
    <2> QED BY <1>2, <2>1 DEF S
<1> QED BY <1>3 DEF N, part

-----------------------------------------------------------------------------
(* What dispatch makes of an event at p when h is the handler.              *)
ItemFor(h, p, m) == IF h.list = NoList THEN NoItem ELSE m[h.list][p[ItemStep(h)]]
Heard(h, p, m) == <<h.on.msg, Value(h.on.arg, m, ItemFor(h, p, m))>>

(* A handler of the list hs, for the k-th node on the way, does so with l.  *)
Caught(hs, k, p, event, m, l) ==
    \E h : Occurs(h, hs) /\ Specificity(h) = k /\ Matches(h, p, event, m) /\ l = Heard(h, p, m)

(* The path to a node on the way p.                                         *)
LEMMA WayIsPrefix ==
    ASSUME NEW p \in Seq(Nat), NEW j \in 0 .. Len(p)
    PROVE  /\ SubSeq(p, 1, j) \in Seq(Nat) /\ Len(SubSeq(p, 1, j)) = j
           /\ IsPrefix(SubSeq(p, 1, j), p)
           /\ \A q \in Seq(Nat) : IsPrefix(q, p) /\ GoesOn(SubSeq(p, 1, j), q) /\ Len(q) > j =>
                 j + 1 \in 1 .. Len(p) /\ q[j + 1] = p[j + 1]
<1> DEFINE s == SubSeq(p, 1, j)
<1>1. s \in Seq(Nat) /\ Len(s) = j
    <2>1. 0 \in Nat /\ j \in 0 .. Len(p) /\ 0 + 1 = 1 /\ j - 0 = j
        OBVIOUS
    <2>2. SubSeq(p, 0 + 1, j) \in Seq(Nat) /\ Len(SubSeq(p, 0 + 1, j)) = j - 0
        BY <2>1, PartOfPath
    <2> QED BY <2>1, <2>2
<1>2. IsPrefix(s, p)
    <2>1. SubSeq(s, 1, j) = s
        <3>1. s = [k \in 1 .. j |-> s[k]]
            BY <1>1
        <3>2. SubSeq(s, 1, j) = [k \in 1 .. j |-> s[k]]
            BY <1>1
        <3> QED BY <3>1, <3>2
    <2>2. j <= Len(p)
        OBVIOUS
    <2> QED BY <1>1, <2>1, <2>2 DEF IsPrefix
<1>3. ASSUME NEW q \in Seq(Nat), IsPrefix(q, p), Len(q) > j
      PROVE  j + 1 \in 1 .. Len(p) /\ q[j + 1] = p[j + 1]
    <2> DEFINE n == Len(q)
    <2>1. n \in Nat /\ n <= Len(p) /\ SubSeq(q, 1, n) = SubSeq(p, 1, n) /\ Len(p) \in Nat
        BY <1>3 DEF IsPrefix
    <2>2. j + 1 \in 1 .. n /\ j + 1 \in 1 .. Len(p)
        BY <1>3, <2>1
    <2>3. SubSeq(q, 1, n)[j + 1] = q[j + 1]
        BY <2>1, <2>2
    <2>4. SubSeq(p, 1, n)[j + 1] = p[j + 1]
        BY <2>1, <2>2
    <2> QED BY <2>1, <2>2, <2>3, <2>4
<1> QED BY <1>1, <1>2, <1>3

(* A handler written outside of the regions is for the node its path leads  *)
(* to.                                                                      *)
LEMMA StaticMatches ==
    ASSUME NEW p \in Seq(Nat), NEW j \in 0 .. Len(p), NEW event, NEW m,
           NEW h, h.prefix = SubSeq(p, 1, j), h.list = NoList
    PROVE  /\ Specificity(h) = j
           /\ Matches(h, p, event, m) <=> h.on.event = event
           /\ Heard(h, p, m) = <<h.on.msg, Value(h.on.arg, m, NoItem)>>
<1> DEFINE s == SubSeq(p, 1, j)
           x == h.on
<1>1. Len(s) = j /\ IsPrefix(s, p)
    BY WayIsPrefix
<1>2. j <= Len(p)
    OBVIOUS
<1>3. h.prefix = s /\ h.list = NoList
    OBVIOUS
<1> HIDE DEF s
<1>4. Specificity(h) = j
    BY <1>1, <1>3 DEF Specificity
<1>5. Matches(h, p, event, m) <=> x.event = event
    BY <1>1, <1>2, <1>3, <1>4 DEF Matches
<1>6. Heard(h, p, m) = <<x.msg, Value(x.arg, m, NoItem)>>
    BY <1>3 DEF Heard, ItemFor
<1> QED BY <1>4, <1>5, <1>6

(* When a handler of a region's body is for the k-th node on the way.       *)
ForNode(h, j, k, p, event, m) ==
    /\ Specificity(h) = k /\ Matches(h, p, event, m)
         <=> h.suffix = SubSeq(p, (j + 1) + 1, k) /\ h.on.event = event
    /\ Heard(h, p, m) = <<h.on.msg, Value(h.on.arg, m, m[h.list][p[j + 1]])>>

(* One written in a region, once the step behind the region picks an item.  *)
LEMMA ItemMatches ==
    ASSUME NEW p \in Seq(Nat), NEW j \in 0 .. Len(p), j < Len(p), NEW k \in j + 1 .. Len(p),
           NEW h, h.prefix = SubSeq(p, 1, j), h.list # NoList, h.suffix \in Seq(Nat),
           NEW event, NEW m, p[j + 1] \in DOMAIN m[h.list]
    PROVE  ForNode(h, j, k, p, event, m)
<1> DEFINE s == SubSeq(p, 1, j)
           q == SubSeq(p, (j + 1) + 1, k)
           n == Len(h.suffix)
<1>1. Len(s) = j /\ IsPrefix(s, p)
    BY WayIsPrefix
<1>2. q \in Seq(Nat) /\ Len(q) = k - (j + 1)
    <2> DEFINE o == j + 1
    <2>1. o \in Nat /\ k \in o .. Len(p)
        OBVIOUS
    <2> HIDE DEF o
    <2>2. SubSeq(p, o + 1, k) \in Seq(Nat) /\ Len(SubSeq(p, o + 1, k)) = k - o
        BY <2>1, PartOfPath
    <2> QED BY <2>2 DEF o
<1>3. n \in Nat /\ j \in Nat /\ k \in Nat /\ k <= Len(p)
    OBVIOUS
<1>4. Len(h.prefix) = j /\ IsPrefix(h.prefix, p)
    BY <1>1
<1>5. Specificity(h) = j + 1 + n /\ ItemStep(h) = j + 1
    BY <1>4 DEF Specificity, ItemStep
<1> HIDE DEF s, q, n
<1>6. ASSUME Specificity(h) = k, Matches(h, p, event, m) PROVE h.suffix = q /\ h.on.event = event
    BY <1>5, <1>6 DEF Matches, q
<1>7. ASSUME h.suffix = q, h.on.event = event PROVE Specificity(h) = k /\ Matches(h, p, event, m)
    <2>1. n = k - (j + 1)
        BY <1>2, <1>7 DEF n
    <2>2. Specificity(h) = k
        BY <1>3, <1>5, <2>1
    <2> QED BY <1>3, <1>4, <1>5, <1>7, <2>2 DEF Matches, q
<1>8. Heard(h, p, m) = <<h.on.msg, Value(h.on.arg, m, m[h.list][p[j + 1]])>>
    BY <1>5 DEF Heard, ItemFor
<1> QED BY <1>6, <1>7, <1>8 DEF q, ForNode

(* No handler is for a node above its prefix.                               *)
LEMMA SpecificityIs ==
    ASSUME NEW h, h.prefix \in Seq(Nat), h.suffix \in Seq(Nat)
    PROVE  Specificity(h) \in Nat /\ Specificity(h) >= Len(h.prefix)
<1> DEFINE a == Len(h.prefix)
           b == Len(h.suffix)
<1>1. a \in Nat /\ b \in Nat
    OBVIOUS
<1>2. Specificity(h) = IF h.list = NoList THEN a ELSE a + 1 + b
    BY DEF Specificity
<1> HIDE DEF a, b
<1>3. Specificity(h) \in Nat /\ Specificity(h) >= a
    BY <1>1, <1>2
<1> QED BY <1>3 DEF a

(* Who is caught by a list of handlers, from how the list is made.          *)
StaticFor(c, n) == [on |-> c[1].on[n], prefix |-> c[2], list |-> NoList, suffix |-> <<>>]

LEMMA OwnCaught ==
    ASSUME NEW m, ListsTyped(m), NEW p \in Seq(Nat), NEW j \in 0 .. Len(p),
           NEW c \in Places, c[2] = SubSeq(p, 1, j), NEW event, NEW l
    PROVE  Caught(Handlers[c], j, p, event, m, l) <=> Says(Views(m)[<<c[1], NoItem>>], event, l)
<1> DEFINE t == c[1]
           s == c[2]
           W(n) == t.on[n].event = event /\ l = <<t.on[n].msg, Value(t.on[n].arg, m, NoItem)>>
           R(h) == Specificity(h) = j /\ Matches(h, p, event, m) /\ l = Heard(h, p, m)
<1>1. t \in Parts /\ s \in Seq(Nat) /\ <<t, NoItem>> \in Calls
    BY DEF Places, Calls
<1>2. Says(Views(m)[<<t, NoItem>>], event, l) <=> \E n \in DOMAIN t.on : W(n)
    <2> DEFINE b == <<t, NoItem>>
    <2>1. b \in Calls /\ b[1] = t /\ b[2] = NoItem
        BY <1>1
    <2> HIDE DEF b
    <2>2. Says(Views(m)[b], event, l) <=> Listens(b, m, event, l)
        BY <2>1, ViewSays
    <2>3. Says(Views(m)[b], event, l) <=> \E n \in DOMAIN t.on : W(n)
        BY <2>1, <2>2 DEF Listens
    <2> QED BY <2>3 DEF b
<1>3. \A h : Occurs(h, Handlers[c]) <=>
             \/ \E n \in DOMAIN t.on : h = StaticFor(c, n)
             \/ IsRegion(t) /\ \E g : Occurs(g, Collected[Inside(c)]) /\ h = ForItem(c, g)
             \/ ~ IsRegion(t) /\ \E i \in DOMAIN t.kids : Occurs(h, Handlers[Sub(c, i)])
    BY HandlersFacts DEF StaticFor
<1>4. \A n \in DOMAIN t.on : R(StaticFor(c, n)) <=> W(n)
    <2> SUFFICES ASSUME NEW n \in DOMAIN t.on PROVE R(StaticFor(c, n)) <=> W(n)
        OBVIOUS
    <2> DEFINE h == StaticFor(c, n)
               x == t.on[n]
    <2>1. /\ Specificity(h) = j
          /\ Matches(h, p, event, m) <=> x.event = event
          /\ Heard(h, p, m) = <<x.msg, Value(x.arg, m, NoItem)>>
        <3>1. h.prefix = SubSeq(p, 1, j) /\ h.list = NoList /\ h.on = x
            BY DEF StaticFor
        <3> HIDE DEF h, x
        <3> QED BY <3>1, StaticMatches
    <2> HIDE DEF h
    <2> QED BY <2>1 DEF h
<1>5. ASSUME NEW g, Occurs(g, Collected[Inside(c)]), IsRegion(t) PROVE ~ R(ForItem(c, g))
    <2> DEFINE h == ForItem(c, g)
    <2>1. GoesOn(Inside(c)[2], g.suffix)
        BY <1>5, BodyOccurs, CollectedFacts
    <2>2. h.prefix = s /\ h.suffix = g.suffix /\ h.list # NoList
        BY <1>5 DEF ForItem, IsRegion
    <2>3. Len(h.suffix) \in Nat /\ Len(h.prefix) = j
        BY <2>1, <2>2, WayIsPrefix DEF GoesOn
    <2> HIDE DEF h
    <2>4. Specificity(h) = j + 1 + Len(h.suffix)
        BY <2>2, <2>3 DEF Specificity
    <2>5. Specificity(h) # j
        <3> DEFINE b == Len(h.suffix)
        <3>1. j \in Nat /\ b \in Nat /\ Specificity(h) = j + 1 + b
            BY <2>3, <2>4
        <3> HIDE DEF b
        <3> QED BY <3>1
    <2> QED BY <2>5 DEF h
<1>6. ASSUME NEW h, NEW i \in DOMAIN t.kids, Occurs(h, Handlers[Sub(c, i)]) PROVE ~ R(h)
    <2>1. Sub(c, i) \in Places /\ Sub(c, i)[2] = Append(s, i)
        BY SameBelow DEF Sub
    <2>2. GoesOn(Append(s, i), h.prefix) /\ h.suffix \in Seq(Nat)
        BY <1>6, <2>1, HandlersFacts
    <2>3. i \in Nat
        BY <1>1, TemplateFacts
    <2>4. Len(h.prefix) >= Len(s) + 1 /\ h.prefix \in Seq(Nat)
        BY <1>1, <2>2, <2>3, GoesOnFrom DEF GoesOn
    <2>5. Specificity(h) \in Nat /\ Specificity(h) >= Len(h.prefix)
        BY <2>2, <2>4, SpecificityIs
    <2>6. Len(s) = j
        BY WayIsPrefix
    <2>7. Specificity(h) # j
        <3>1. Len(h.prefix) \in Nat
            BY <2>4
        <3> QED BY <2>4, <2>5, <2>6, <3>1
    <2> QED BY <2>7
<1> HIDE DEF t, s, W, R
<1>7. (\E h : Occurs(h, Handlers[c]) /\ R(h)) <=> \E n \in DOMAIN t.on : R(StaticFor(c, n))
    BY <1>3, <1>5, <1>6
<1>8. Caught(Handlers[c], j, p, event, m, l) <=> \E h : Occurs(h, Handlers[c]) /\ R(h)
    BY DEF Caught, R
<1> QED BY <1>2, <1>4, <1>7, <1>8 DEF t

(* Below a region, the handlers of its body.                                *)
LEMMA BodyCaught ==
    ASSUME NEW m, NEW p \in Seq(Nat), NEW j \in 0 .. Len(p), j < Len(p), NEW k \in j + 1 .. Len(p),
           NEW c \in Places, c[2] = SubSeq(p, 1, j), IsRegion(c[1]),
           p[j + 1] \in DOMAIN m[c[1].each], NEW event, NEW l
    PROVE  Caught(Handlers[c], k, p, event, m, l)
             <=> Tells(Inside(c), SubSeq(p, (j + 1) + 1, k), event, m, m[c[1].each][p[j + 1]], l)
<1> DEFINE t == c[1]
           item == m[t.each][p[j + 1]]
           q == SubSeq(p, (j + 1) + 1, k)
           R(h) == Specificity(h) = k /\ Matches(h, p, event, m) /\ l = Heard(h, p, m)
           T(g) == g.suffix = q /\ g.on.event = event /\ l = <<g.on.msg, Value(g.on.arg, m, item)>>
<1>1. \A h : Occurs(h, Handlers[c]) <=>
             \/ \E n \in DOMAIN t.on : h = StaticFor(c, n)
             \/ \E g : Occurs(g, Collected[Inside(c)]) /\ h = ForItem(c, g)
    BY HandlersFacts DEF StaticFor
<1>2. \A n \in DOMAIN t.on : ~ R(StaticFor(c, n))
    <2> SUFFICES ASSUME NEW n \in DOMAIN t.on PROVE ~ R(StaticFor(c, n))
        OBVIOUS
    <2>1. Specificity(StaticFor(c, n)) = j
        <3> DEFINE h == StaticFor(c, n)
        <3>1. h.prefix = SubSeq(p, 1, j) /\ h.list = NoList
            BY DEF StaticFor
        <3> HIDE DEF h
        <3> QED BY <3>1, StaticMatches DEF h
    <2>2. k # j
        OBVIOUS
    <2> QED BY <2>1, <2>2
<1>3. ASSUME NEW g, Occurs(g, Collected[Inside(c)]) PROVE R(ForItem(c, g)) <=> T(g)
    <2> DEFINE h == ForItem(c, g)
    <2>1. GoesOn(Inside(c)[2], g.suffix)
        BY <1>3, BodyOccurs, CollectedFacts
    <2>2. h.prefix = SubSeq(p, 1, j) /\ h.suffix = g.suffix /\ h.list = t.each /\ h.on = g.on
        BY DEF ForItem
    <2>3. h.suffix \in Seq(Nat) /\ h.list # NoList
        BY <2>1, <2>2 DEF GoesOn, IsRegion
    <2> HIDE DEF h, q
    <2>4. p[j + 1] \in DOMAIN m[h.list]
        BY <2>2
    <2>5. /\ Specificity(h) = k /\ Matches(h, p, event, m) <=> h.suffix = q /\ h.on.event = event
          /\ Heard(h, p, m) = <<h.on.msg, Value(h.on.arg, m, m[h.list][p[j + 1]])>>
        <3> HIDE DEF t, item, R, T
        <3>1. h.prefix = SubSeq(p, 1, j)
            BY <2>2
        <3>2. ForNode(h, j, k, p, event, m)
            BY <2>3, <2>4, <3>1, ItemMatches
        <3> QED BY <3>2 DEF q, ForNode
    <2> QED BY <2>2, <2>5 DEF h
<1> HIDE DEF R, T, t
<1>4. (\E h : Occurs(h, Handlers[c]) /\ R(h)) <=> \E g : Occurs(g, Collected[Inside(c)]) /\ T(g)
    BY <1>1, <1>2, <1>3
<1>5. Caught(Handlers[c], k, p, event, m, l) <=> \E h : Occurs(h, Handlers[c]) /\ R(h)
    BY DEF Caught, R
<1>6. Tells(Inside(c), q, event, m, item, l) <=> \E g : Occurs(g, Collected[Inside(c)]) /\ T(g)
    BY DEF Tells, T
<1> QED BY <1>4, <1>5, <1>6 DEF t

(* Below any other element, the handlers of the child on the way.           *)
LEMMA KidCaught ==
    ASSUME NEW m, NEW p \in Seq(Nat), NEW j \in 0 .. Len(p), j < Len(p), NEW k \in j + 1 .. Len(p),
           NEW c \in Places, c[2] = SubSeq(p, 1, j), ~ IsRegion(c[1]),
           p[j + 1] \in DOMAIN c[1].kids, NEW event, NEW l
    PROVE  Caught(Handlers[c], k, p, event, m, l)
             <=> Caught(Handlers[Sub(c, p[j + 1])], k, p, event, m, l)
<1> DEFINE t == c[1]
           s == SubSeq(p, 1, j)
           x == p[j + 1]
           R(h) == Specificity(h) = k /\ Matches(h, p, event, m) /\ l = Heard(h, p, m)
<1>0. t \in Parts /\ s \in Seq(Nat) /\ Len(s) = j
    BY WayIsPrefix DEF Places
<1>1. \A h : Occurs(h, Handlers[c]) <=>
             \/ \E n \in DOMAIN t.on : h = StaticFor(c, n)
             \/ \E i \in DOMAIN t.kids : Occurs(h, Handlers[Sub(c, i)])
    BY HandlersFacts DEF StaticFor
<1>2. \A n \in DOMAIN t.on : ~ R(StaticFor(c, n))
    <2> SUFFICES ASSUME NEW n \in DOMAIN t.on PROVE ~ R(StaticFor(c, n))
        OBVIOUS
    <2>1. Specificity(StaticFor(c, n)) = j
        <3> DEFINE h == StaticFor(c, n)
        <3>1. h.prefix = SubSeq(p, 1, j) /\ h.list = NoList
            BY DEF StaticFor
        <3> HIDE DEF h
        <3> QED BY <3>1, StaticMatches DEF h
    <2>2. k # j
        OBVIOUS
    <2> QED BY <2>1, <2>2
<1>3. ASSUME NEW h, NEW i \in DOMAIN t.kids, Occurs(h, Handlers[Sub(c, i)]), R(h) PROVE i = x
    <2>1. Sub(c, i) \in Places /\ Sub(c, i)[2] = Append(s, i)
        BY SameBelow DEF Sub
    <2>2. GoesOn(Append(s, i), h.prefix) /\ h.prefix \in Seq(Nat)
        <3>1. GoesOn(Append(s, i), h.prefix)
            BY <1>3, <2>1, HandlersFacts
        <3> QED BY <3>1 DEF GoesOn
    <2>3. i \in Nat
        <3>1. DOMAIN t.kids = 1 .. Len(t.kids) /\ Len(t.kids) \in Nat
            BY <1>0, TemplateFacts
        <3> QED BY <1>3, <3>1
    <2>4. GoesOn(s, h.prefix) /\ Len(h.prefix) >= Len(s) + 1 /\ h.prefix[Len(s) + 1] = i
        BY <1>0, <2>2, <2>3, GoesOnFrom
    <2>5. IsPrefix(h.prefix, p)
        BY <1>3 DEF Matches
    <2>6. Len(h.prefix) > j /\ Len(s) + 1 = j + 1
        <3>1. Len(h.prefix) \in Nat
            BY <2>2
        <3> HIDE DEF s
        <3> QED BY <1>0, <2>4, <3>1
    <2>7. h.prefix[j + 1] = p[j + 1]
        BY <2>2, <2>4, <2>5, <2>6, WayIsPrefix
    <2> QED BY <2>4, <2>6, <2>7
<1>4. x \in DOMAIN t.kids
    OBVIOUS
<1> HIDE DEF R, t, s, x
<1>5. (\E h : Occurs(h, Handlers[c]) /\ R(h)) <=> \E h : Occurs(h, Handlers[Sub(c, x)]) /\ R(h)
    BY <1>1, <1>2, <1>3, <1>4
<1>6. Caught(Handlers[c], k, p, event, m, l) <=> \E h : Occurs(h, Handlers[c]) /\ R(h)
    BY DEF Caught, R
<1>7. Caught(Handlers[Sub(c, x)], k, p, event, m, l) <=> \E h : Occurs(h, Handlers[Sub(c, x)]) /\ R(h)
    BY DEF Caught, R
<1> QED BY <1>5, <1>6, <1>7 DEF x

(* Along a path through the rendered tree, the handlers that dispatch       *)
(* compares with it are what the nodes on the way listen to.                *)
LEMMA TemplateAgrees ==
    ASSUME NEW m, ListsTyped(m), NEW p \in Seq(Nat), NEW w, Through(w, p), NEW event
    PROVE  \A t \in Parts : \A j \in 0 .. Len(p) : w[j] = Views(m)[<<t, NoItem>>] =>
              \A k \in j .. Len(p) : \A l :
                 Caught(Handlers[<<t, SubSeq(p, 1, j)>>], k, p, event, m, l) <=> Says(w[k], event, l)
<1> DEFINE N == Len(p)
           part(i) == SubSeq(p, 1, i)
           Good(t) == \A j \in 0 .. N : w[j] = Views(m)[<<t, NoItem>>] =>
                         \A k \in j .. N : \A l :
                            Caught(Handlers[<<t, part(j)>>], k, p, event, m, l) <=> Says(w[k], event, l)
           S == {h \in Nat : \A t \in Parts : Height[t] = h => Good(t)}
<1>n. N \in Nat
    OBVIOUS
<1>p. \A j \in 0 .. N : part(j) \in Seq(Nat)
    BY WayIsPrefix
<1>a. \A j \in 0 .. N : j < N => /\ j + 1 \in 1 .. N /\ j + 1 \in 0 .. N /\ p[j + 1] \in Nat
                                 /\ Append(part(j), p[j + 1]) = part(j + 1)
    <2> SUFFICES ASSUME NEW j \in 0 .. N, j < N
                 PROVE  /\ j + 1 \in 1 .. N /\ j + 1 \in 0 .. N /\ p[j + 1] \in Nat
                        /\ Append(part(j), p[j + 1]) = part(j + 1)
        OBVIOUS
    <2>1. 0 \in Nat /\ 0 + 1 = 1
        OBVIOUS
    <2>2. Append(SubSeq(p, 0 + 1, j), p[j + 1]) = SubSeq(p, 0 + 1, j + 1)
          /\ j + 1 \in 1 .. Len(p) /\ p[j + 1] \in Nat
        BY <2>1, PathGrows
    <2> QED BY <2>1, <2>2, <1>n
<1>w. \A k \in 1 .. N : p[k] \in DOMAIN w[k - 1].kids /\ w[k] = w[k - 1].kids[p[k]]
    BY DEF Through
<1>1. ASSUME NEW h \in Nat, \A k \in Nat : k < h => k \in S PROVE h \in S
    <2> SUFFICES ASSUME NEW t \in Parts, Height[t] = h PROVE Good(t)
        <3> HIDE DEF Good
        <3> QED OBVIOUS
    <2> SUFFICES ASSUME NEW j \in 0 .. N, w[j] = Views(m)[<<t, NoItem>>], NEW k \in j .. N, NEW l
                 PROVE  Caught(Handlers[<<t, part(j)>>], k, p, event, m, l) <=> Says(w[k], event, l)
        OBVIOUS
    <2> DEFINE c == <<t, part(j)>>
               call == <<t, NoItem>>
    <2>2. c \in Places /\ c[1] = t /\ c[2] = part(j)
        BY <1>p DEF Places
    <2>3. call \in Calls /\ call[1] = t /\ call[2] = NoItem
        BY DEF Calls
    <2>4. CASE k = j
        <3> HIDE DEF c
        <3>1. Caught(Handlers[c], j, p, event, m, l) <=> Says(Views(m)[<<t, NoItem>>], event, l)
            BY <2>2, OwnCaught
        <3> QED BY <2>4, <3>1 DEF c
    <2>5. CASE k # j
        <3> DEFINE o == j + 1
                   x == p[j + 1]
        <3>0. j \in Nat /\ k \in Nat /\ j < N /\ k \in o .. N /\ o \in 1 .. N /\ o \in 0 .. N
              /\ o \in Nat /\ o - 1 = j /\ k \in j + 1 .. Len(p) /\ o \in o .. Len(p)
            BY <1>n, <2>5
        <3>1. x \in Nat /\ Append(part(j), x) = part(o)
            BY <1>a, <3>0
        <3>2. x \in DOMAIN w[j].kids /\ w[o] = w[j].kids[x]
            BY <1>w, <3>0
        <3> HIDE DEF x, call, c
        <3>3. x \in DOMAIN Views(m)[call].kids
            BY <3>2 DEF call
        <3>4. CASE IsRegion(t)
            <4> DEFINE item == m[t.each][x]
                       b == t.kids[1]
            <4>1. x \in DOMAIN m[t.each] /\ item \in Items
                  /\ Views(m)[call].kids[x] = Views(m)[<<b, item>>]
                BY <2>3, <3>3, <3>4, ViewKid
            <4>2. w[o] = Views(m)[<<b, item>>]
                BY <3>2, <4>1 DEF call
            <4>3. b \in Bodies
                BY <3>4, ViewAssumption
            <4>4. Caught(Handlers[c], k, p, event, m, l)
                    <=> Tells(Inside(c), SubSeq(p, o + 1, k), event, m, item, l)
                <5>1. p[j + 1] \in DOMAIN m[c[1].each] /\ item = m[c[1].each][p[j + 1]]
                    BY <2>2, <4>1 DEF x
                <5>2. IsRegion(c[1]) /\ c[2] = SubSeq(p, 1, j) /\ j < Len(p)
                    BY <2>2, <3>0, <3>4
                <5> HIDE DEF item
                <5>3. Caught(Handlers[c], k, p, event, m, l)
                        <=> Tells(Inside(c), SubSeq(p, (j + 1) + 1, k), event, m, m[c[1].each][p[j + 1]], l)
                    BY <2>2, <3>0, <5>1, <5>2, BodyCaught
                <5> QED BY <5>1, <5>3
            <4>5. Inside(c) = <<b, SubSeq(p, o + 1, o)>>
                <5>1. SubSeq(p, o + 1, o) = <<>>
                    <6>1. SubSeq(p, o + 1, o) \in Seq(Nat) /\ Len(SubSeq(p, o + 1, o)) = o - o
                        BY <3>0, PartOfPath
                    <6>2. o - o = 0
                        BY <3>0
                    <6> QED BY <6>1, <6>2
                <5> QED BY <2>2, <5>1 DEF Inside
            <4> HIDE DEF item, b, o
            <4>6. Tells(<<b, SubSeq(p, o + 1, o)>>, SubSeq(p, o + 1, k), event, m, item, l)
                    <=> Says(w[k], event, l)
                BY <3>0, <4>1, <4>2, <4>3, BodyAgrees
            <4> QED BY <4>4, <4>5, <4>6 DEF c
        <3>5. CASE ~ IsRegion(t)
            <4> DEFINE u == t.kids[x]
            <4>1. x \in DOMAIN t.kids /\ Views(m)[call].kids[x] = Views(m)[<<u, NoItem>>]
                BY <2>3, <3>3, <3>5, ViewKid
            <4>2. w[o] = Views(m)[<<u, NoItem>>]
                BY <3>2, <4>1 DEF call
            <4>3. u \in Parts /\ Height[u] < h /\ Height[u] \in Nat
                BY <4>1, TemplateFacts
            <4>4. Good(u)
                <5>1. Height[u] \in S
                    BY <1>1, <4>3
                <5> HIDE DEF u, Good
                <5> QED BY <4>3, <5>1
            <4>5. Caught(Handlers[<<u, part(o)>>], k, p, event, m, l) <=> Says(w[k], event, l)
                <5> HIDE DEF u, o, part
                <5> QED BY <3>0, <4>2, <4>4
            <4>6. Sub(c, x) = <<u, part(o)>>
                BY <2>2, <3>1 DEF Sub
            <4>7. Caught(Handlers[c], k, p, event, m, l) <=> Caught(Handlers[Sub(c, x)], k, p, event, m, l)
                <5>1. p[j + 1] \in DOMAIN c[1].kids /\ ~ IsRegion(c[1])
                      /\ c[2] = SubSeq(p, 1, j) /\ j < Len(p)
                    BY <2>2, <3>0, <3>5, <4>1 DEF x
                <5> QED BY <2>2, <3>0, <5>1, KidCaught DEF x
            <4> QED BY <4>5, <4>6, <4>7 DEF c
        <3> QED BY <3>4, <3>5
    <2> QED BY <2>4, <2>5
<1> HIDE DEF S
<1>2. \A h \in Nat : h \in S
    BY <1>1, StrongSetInduction
<1>3. \A t \in Parts : Good(t)
    <2>1. \A t \in Parts : Height[t] \in Nat
        BY ViewAssumption
    <2> HIDE DEF Good
    <2> QED BY <1>2, <2>1 DEF S
<1> QED BY <1>3

-----------------------------------------------------------------------------
(* The sort.  A handler's place is one more than the number of those        *)
(* before it, and no two have one place.                                    *)
Ahead(hs, b) == {a \in DOMAIN hs : Before(hs, a, b)}
Place(hs) == [b \in DOMAIN hs |-> Cardinality(Ahead(hs, b)) + 1]

LEMMA PlacesAre ==
    ASSUME NEW hs, IsList(hs), \A i \in 1 .. Len(hs) : Specificity(hs[i]) \in Nat
    PROVE  /\ Place(hs) \in [1 .. Len(hs) -> 1 .. Len(hs)]
           /\ \A a, b \in 1 .. Len(hs) : Before(hs, a, b) => Place(hs)[a] < Place(hs)[b]
           /\ \A i \in 1 .. Len(hs) : \E b \in 1 .. Len(hs) : Place(hs)[b] = i
<1> DEFINE n == Len(hs)
           D == 1 .. n
           A(b) == Ahead(hs, b)
           f == Place(hs)
<1>1. n \in Nat /\ DOMAIN hs = D
    BY ListIs
<1>2. IsFiniteSet(D) /\ Cardinality(D) = n
    <2>1. n \in Int /\ 1 \in Int
        BY <1>1
    <2> HIDE DEF n
    <2>2. IsFiniteSet(1 .. n) /\ Cardinality(1 .. n) = IF 1 > n THEN 0 ELSE n - 1 + 1
        BY <2>1, FS_Interval
    <2> QED BY <1>1, <2>2
<1>3. \A b \in D : A(b) \subseteq D \ {b}
    BY <1>1 DEF Ahead, Before
<1>4. \A b \in D : A(b) \in SUBSET D /\ IsFiniteSet(A(b)) /\ Cardinality(A(b)) \in Nat
    BY <1>2, <1>3, FS_Subset, FS_CardinalityType
<1>5. f = [b \in D |-> Cardinality(A(b)) + 1]
    BY <1>1 DEF Place
<1>6. \A a, b, d \in D : Before(hs, a, b) /\ Before(hs, b, d) => Before(hs, a, d)
    BY <1>1 DEF Before
<1>7. \A a, b \in D : Before(hs, a, b) \/ Before(hs, b, a) \/ a = b
    BY <1>1 DEF Before
<1>8. \A a, b \in D : Before(hs, a, b) <=> a \in A(b)
    BY <1>1 DEF Ahead
<1> HIDE DEF A, f, D
<1>9. ASSUME NEW a \in D, NEW b \in D, Before(hs, a, b) PROVE f[a] < f[b]
    <2>1. A(a) \subseteq A(b)
        <3> SUFFICES ASSUME NEW d \in A(a) PROVE d \in A(b)
            OBVIOUS
        <3>1. d \in D
            BY <1>4
        <3> QED BY <1>6, <1>8, <1>9, <3>1
    <2>2. a \in A(b) /\ a \notin A(a)
        BY <1>3, <1>8, <1>9
    <2>3. A(a) # A(b) /\ A(a) \in SUBSET A(b)
        BY <2>1, <2>2
    <2>4. Cardinality(A(a)) < Cardinality(A(b))
        BY <1>4, <2>3, FS_Subset
    <2> QED BY <1>4, <1>5, <2>4
<1>10. f \in [D -> D]
    <2> SUFFICES ASSUME NEW b \in D PROVE Cardinality(A(b)) + 1 \in D
        BY <1>5
    <2>1. A(b) \in SUBSET D /\ A(b) # D
        BY <1>3, <1>4
    <2>2. Cardinality(A(b)) < n
        <3>1. Cardinality(A(b)) <= Cardinality(D) /\ (Cardinality(A(b)) = Cardinality(D) => A(b) = D)
            BY <1>2, <2>1, FS_Subset
        <3> QED BY <1>1, <1>2, <1>4, <2>1, <3>1
    <2> QED BY <1>1, <1>4, <2>2 DEF D
<1>11. \A a, b \in D : f[a] = f[b] => a = b
    <2> SUFFICES ASSUME NEW a \in D, NEW b \in D, f[a] = f[b], a # b PROVE FALSE
        OBVIOUS
    <2>1. f[a] \in Int /\ f[b] \in Int
        BY <1>10, <1>1 DEF D
    <2>2. f[a] < f[b] \/ f[b] < f[a]
        BY <1>7, <1>9
    <2> QED BY <2>1, <2>2
<1>12. \A i \in D : \E b \in D : f[b] = i
    <2>1. f \in Injection(D, D)
        BY <1>10, <1>11 DEF Injection, IsInjective
    <2>2. f \in Surjection(D, D)
        BY <1>2, <2>1, FS_Injection
    <2> QED BY <2>2 DEF Surjection
<1> QED BY <1>9, <1>10, <1>12 DEF f, D

(* The sorted table has the handlers collected, the most specific first.    *)
LEMMA SortedIs ==
    ASSUME NEW hs, IsList(hs), \A i \in 1 .. Len(hs) : Specificity(hs[i]) \in Nat
    PROVE  /\ DOMAIN Sorted(hs) = 1 .. Len(hs) /\ Len(hs) \in Nat
           /\ \A i \in DOMAIN Sorted(hs) : Occurs(Sorted(hs)[i], hs)
           /\ \A x : Occurs(x, hs) => \E i \in DOMAIN Sorted(hs) : Sorted(hs)[i] = x
           /\ \A i, j \in DOMAIN Sorted(hs) : i < j =>
                 Specificity(Sorted(hs)[i]) >= Specificity(Sorted(hs)[j])
<1> DEFINE n == Len(hs)
           D == 1 .. n
           f == Place(hs)
           P(i, b) == b \in D /\ f[b] = i
           at == [i \in D |-> CHOOSE b : P(i, b)]
           s == Sorted(hs)
<1>1. n \in Nat /\ DOMAIN hs = D
    BY ListIs
<1>2. /\ f \in [D -> D]
      /\ \A a, b \in D : Before(hs, a, b) => f[a] < f[b]
      /\ \A i \in D : \E b \in D : f[b] = i
    BY PlacesAre
<1>3. s = [i \in D |-> hs[CHOOSE b : P(i, b)]]
    <2>1. \A i : (CHOOSE b \in D : f[b] = i) = CHOOSE b : P(i, b)
        OBVIOUS
    <2>2. s = [i \in D |-> hs[CHOOSE b \in D : f[b] = i]]
        BY <1>1 DEF Sorted, Place, Ahead
    <2> QED BY <2>1, <2>2
<1> HIDE DEF f, s, D
<1>4. \A i \in D : at[i] \in D /\ f[at[i]] = i
    <2> SUFFICES ASSUME NEW i \in D PROVE P(i, at[i])
        OBVIOUS
    <2>1. \E b : P(i, b)
        BY <1>2
    <2>2. at[i] = CHOOSE b : P(i, b)
        OBVIOUS
    <2> HIDE DEF P, at
    <2> QED BY <2>1, <2>2
<1>5. DOMAIN s = D /\ \A i \in D : s[i] = hs[at[i]]
    BY <1>3
<1> HIDE DEF at
<1>6. \A a, b \in D : f[a] = f[b] => a = b
    <2> SUFFICES ASSUME NEW a \in D, NEW b \in D, f[a] = f[b], a # b PROVE FALSE
        OBVIOUS
    <2>1. f[a] \in Int /\ f[b] \in Int
        <3>1. \A i \in D : i \in Int
            BY DEF D
        <3> QED BY <1>2, <3>1
    <2>2. Before(hs, a, b) \/ Before(hs, b, a)
        BY <1>1 DEF Before, D
    <2>3. f[a] < f[b] \/ f[b] < f[a]
        BY <1>2, <2>2
    <2> QED BY <2>1, <2>3
<1>7. \A i \in D : Occurs(s[i], hs)
    BY <1>4, <1>5 DEF Occurs, D
<1>8. ASSUME NEW x, Occurs(x, hs) PROVE \E i \in D : s[i] = x
    <2>1. PICK b \in D : hs[b] = x
        BY <1>8 DEF Occurs, D
    <2> DEFINE i == f[b]
    <2>2. i \in D /\ f[at[i]] = f[b] /\ at[i] \in D
        BY <1>2, <1>4
    <2>3. at[i] = b
        BY <1>6, <2>2
    <2> QED BY <1>5, <2>1, <2>2, <2>3
<1>9. ASSUME NEW i \in D, NEW j \in D, i < j PROVE Specificity(s[i]) >= Specificity(s[j])
    <2> DEFINE a == at[i]
               b == at[j]
    <2>1. a \in D /\ b \in D /\ f[a] = i /\ f[b] = j /\ s[i] = hs[a] /\ s[j] = hs[b]
        BY <1>4, <1>5
    <2> HIDE DEF a, b
    <2>2. ~ Before(hs, b, a)
        <3>1. i \in Int /\ j \in Int
            BY <1>1 DEF D
        <3>2. ~ (f[b] < f[a])
            BY <1>9, <2>1, <3>1
        <3> QED BY <1>2, <2>1, <3>2
    <2>3. Specificity(hs[a]) \in Nat /\ Specificity(hs[b]) \in Nat
        BY <2>1 DEF D
    <2>4. ~ (Specificity(hs[b]) > Specificity(hs[a]))
        BY <2>2 DEF Before
    <2> QED BY <2>1, <2>3, <2>4
<1> QED BY <1>1, <1>5, <1>7, <1>8, <1>9 DEF s, D

(* The first of some numbers.                                               *)
LEMMA MinIs ==
    ASSUME NEW S \in SUBSET Nat, S # {}
    PROVE  Min(S) \in S /\ \A x \in S : Min(S) <= x
<1> DEFINE P(x) == x \in S /\ \A y \in S : x <= y
<1>1. \E x : P(x)
    <2> SUFFICES ASSUME ~ \E x : P(x) PROVE FALSE
        OBVIOUS
    <2> DEFINE T == Nat \ S
    <2>1. ASSUME NEW n \in Nat, \A k \in Nat : k < n => k \in T PROVE n \in T
        <3> SUFFICES ASSUME n \in S PROVE FALSE
            OBVIOUS
        <3>1. P(n)
            BY <2>1
        <3> QED BY <3>1
    <2> HIDE DEF T
    <2>2. \A n \in Nat : n \in T
        BY <2>1, StrongSetInduction
    <2> QED BY <2>2 DEF T
<1>2. Min(S) = CHOOSE x : P(x)
    BY DEF Min
<1> HIDE DEF P
<1>3. P(Min(S))
    BY <1>1, <1>2
<1> QED BY <1>3 DEF P

-----------------------------------------------------------------------------
(* find_listener, along a path through the rendered tree:                   *)
(* Bubbles(best, w, n, event): best[k] is what is heard of the first nodes. *)
Bubbles(best, w, n, event) ==
    /\ best[0] = Listener(w[0], event, NoMessage)
    /\ \A k \in 1 .. n : best[k] = Listener(w[k], event, best[k - 1])

(* What the runtime finds, as the listeners on the way are asked one by one. *)
LEMMA FindListenerIs ==
    ASSUME NEW v, NEW p \in Seq(Nat), HasNode(v, p), NEW event
    PROVE  \E best : Bubbles(best, Way(v, p), Len(p), event) /\ FindListener(v, p, event) = best[Len(p)]
<1> DEFINE N == Len(p)
           w == Way(v, p)
           Step(k, above) ==
               IF HasNode(v, SubSeq(p, 1, k)) THEN Listener(NodeAt(v, SubSeq(p, 1, k)), event, above) ELSE above
           Solves(f, n) == f = [k \in 0 .. n |-> Step(k, IF k = 0 THEN NoMessage ELSE f[k - 1])]
           S == {n \in Nat : \E f : Solves(f, n)}
           best == CHOOSE f : Solves(f, N)
<1>n. N \in Nat
    OBVIOUS
<1>f. FindListener(v, p, event) = best[N]
    BY DEF FindListener
<1>s. \A k \in 0 .. N : \A above : Step(k, above) = Listener(w[k], event, above)
    BY OnTheWay
<1> HIDE DEF Step
<1>1. \A n \in Nat : n \in S
    <2>1. 0 \in S
        <3> DEFINE f == [k \in 0 .. 0 |-> Step(k, NoMessage)]
        <3>1. Solves(f, 0)
            OBVIOUS
        <3> HIDE DEF f, Solves
        <3> QED BY <3>1
    <2>2. ASSUME NEW n \in Nat, n \in S PROVE n + 1 \in S
        <3>1. PICK f : Solves(f, n)
            BY <2>2
        <3> DEFINE body(x) == [k \in 0 .. n + 1 |-> Step(k, IF k = 0 THEN NoMessage ELSE x[k - 1])]
                   g == body(f)
        <3>2. \A k \in 0 .. n : g[k] = f[k]
            BY <3>1
        <3>3. body(f) = body(g)
            <4> HIDE DEF g
            <4>1. ASSUME NEW k \in 0 .. n + 1
                  PROVE  Step(k, IF k = 0 THEN NoMessage ELSE f[k - 1])
                           = Step(k, IF k = 0 THEN NoMessage ELSE g[k - 1])
                <5>1. CASE k = 0
                    BY <5>1
                <5>2. CASE k # 0
                    <6>1. k - 1 \in 0 .. n
                        BY <5>2
                    <6>2. f[k - 1] = g[k - 1]
                        BY <6>1, <3>2
                    <6> QED BY <6>2
                <5> QED BY <5>1, <5>2
            <4> QED BY <4>1
        <3>4. Solves(g, n + 1)
            BY <3>3
        <3> HIDE DEF g, Solves
        <3> QED BY <3>4
    <2> HIDE DEF S
    <2> QED BY <2>1, <2>2, NatSetInduction
<1>2. Solves(best, N)
    <2>1. \E f : Solves(f, N)
        BY <1>1, <1>n
    <2> HIDE DEF Solves
    <2> QED BY <2>1
<1> HIDE DEF best, S
<1>3. \A k \in 0 .. N : best[k] = Step(k, IF k = 0 THEN NoMessage ELSE best[k - 1])
    BY <1>2
<1> HIDE DEF Solves, N, w
<1>4. best[0] = Listener(w[0], event, NoMessage)
    <2>1. 0 \in 0 .. N
        BY <1>n
    <2> QED BY <1>3, <1>s, <2>1
<1>5. \A k \in 1 .. N : best[k] = Listener(w[k], event, best[k - 1])
    <2>1. \A k \in 1 .. N : k \in 0 .. N /\ k # 0
        BY <1>n
    <2> QED BY <1>3, <1>s, <2>1
<1>6. Bubbles(best, w, N, event)
    BY <1>4, <1>5 DEF Bubbles
<1>7. \E f : Bubbles(f, w, N, event) /\ FindListener(v, p, event) = f[N]
    BY <1>6, <1>f
<1> QED BY <1>7 DEF w, N

(* An element that has one listener for an event gives its message, and one *)
(* that has none leaves it to those above.                                  *)
LEMMA ListenerIs ==
    ASSUME OneHandlerPerEvent, NEW m, ListsTyped(m), NEW c \in Calls, NEW event, NEW best
    PROVE  /\ (\A l : ~ Says(Views(m)[c], event, l)) => Listener(Views(m)[c], event, best) = best
           /\ \A l : Says(Views(m)[c], event, l) => Listener(Views(m)[c], event, best) = l
<1> DEFINE v == Views(m)[c]
           mine == {n \in DOMAIN v.on : v.on[n].event = event}
<1>1. c[1] \in Parts
    BY DEF Calls
<1>2. DOMAIN v.on = DOMAIN c[1].on /\ \A n \in DOMAIN c[1].on : v.on[n].event = c[1].on[n].event
    BY ViewSays
<1>3. DOMAIN c[1].on \subseteq Nat
    <2>1. DOMAIN c[1].on = 1 .. Len(c[1].on)
        BY <1>1, ViewAssumption
    <2> QED BY <2>1
<1> HIDE DEF v
<1>4. \A a, b \in mine : a = b /\ a \in Nat
    BY <1>1, <1>2, <1>3 DEF OneHandlerPerEvent
<1>5. ASSUME \A l : ~ Says(v, event, l) PROVE Listener(v, event, best) = best
    <2>1. mine = {}
        <3> SUFFICES ASSUME NEW n \in mine PROVE FALSE
            OBVIOUS
        <3>1. Says(v, event, <<v.on[n].msg, v.on[n].arg>>)
            BY DEF Says
        <3> QED BY <1>5, <3>1
    <2> QED BY <2>1 DEF Listener
<1>6. ASSUME NEW l, Says(v, event, l) PROVE Listener(v, event, best) = l
    <2>1. PICK n \in DOMAIN v.on : v.on[n].event = event /\ l = <<v.on[n].msg, v.on[n].arg>>
        BY <1>6 DEF Says
    <2>2. n \in mine /\ mine # {}
        BY <2>1
    <2>3. Max(mine) = n
        <3> DEFINE P(x) == x \in mine /\ \A y \in mine : x >= y
        <3>1. Max(mine) = CHOOSE x : P(x)
            BY DEF Max
        <3>2. P(n)
            BY <1>4, <2>2
        <3>3. \A x : P(x) => x = n
            BY <1>4, <2>2
        <3> HIDE DEF P, mine
        <3>4. P(Max(mine))
            BY <3>1, <3>2
        <3> QED BY <3>3, <3>4
    <2> HIDE DEF mine
    <2>4. Listener(v, event, best) = <<v.on[Max(mine)].msg, v.on[Max(mine)].arg>>
        BY <2>2 DEF Listener, mine
    <2> QED BY <2>1, <2>3, <2>4
<1> QED BY <1>5, <1>6 DEF v

(* Every node on a way through the rendered tree is a template, rendered.   *)
LEMMA WaySeen ==
    ASSUME NEW m, ListsTyped(m), NEW t \in Parts, NEW p \in Seq(Nat), HasNode(View(t, m), p)
    PROVE  LET w == Way(View(t, m), p)
           IN  /\ w[0] = Views(m)[<<t, NoItem>>]
               /\ Through(w, p)
               /\ \A k \in 0 .. Len(p) : \E c \in Calls : w[k] = Views(m)[c]
<1> DEFINE N == Len(p)
           w == Way(View(t, m), p)
           S == {k \in Nat : k <= N => \E c \in Calls : w[k] = Views(m)[c]}
<1>n. N \in Nat
    OBVIOUS
<1>1. w[0] = Views(m)[<<t, NoItem>>] /\ \A k \in 1 .. N : w[k] = w[k - 1].kids[p[k]]
    BY WayIs DEF View
<1>2. \A k \in 1 .. N : p[k] \in DOMAIN w[k - 1].kids
    BY DEF HasNode
<1> HIDE DEF w, N
<1>3. \A k \in Nat : k \in S
    <2>1. 0 \in S
        <3>1. <<t, NoItem>> \in Calls
            BY DEF Calls
        <3> QED BY <1>1, <3>1
    <2>2. ASSUME NEW n \in Nat, n \in S PROVE n + 1 \in S
        <3> SUFFICES ASSUME n + 1 <= N PROVE \E c \in Calls : w[n + 1] = Views(m)[c]
            OBVIOUS
        <3> DEFINE k == n + 1
        <3>1. k \in 1 .. N /\ k - 1 = n /\ n <= N
            BY <1>n
        <3>2. PICK c \in Calls : w[n] = Views(m)[c]
            BY <2>2, <3>1
        <3> HIDE DEF k
        <3>3. p[k] \in DOMAIN Views(m)[c].kids /\ w[k] = Views(m)[c].kids[p[k]]
            BY <1>1, <1>2, <3>1, <3>2
        <3>4. \E b \in Calls : Views(m)[c].kids[p[k]] = Views(m)[b]
            <4>1. p[k] \in 1 .. Len(Copies(c, m))
                BY <3>3, SameNode
            <4> QED BY <4>1, SameNode
        <3> QED BY <3>3, <3>4 DEF k
    <2> HIDE DEF S
    <2> QED BY <2>1, <2>2, NatSetInduction
<1>4. \A k \in 0 .. N : \E c \in Calls : w[k] = Views(m)[c]
    BY <1>3
<1>5. Through(w, p)
    BY <1>1, <1>2 DEF Through, N
<1> QED BY <1>1, <1>4, <1>5 DEF w, N

(* The handler table of the emitter and find_listener: whatever the         *)
(* template, the model and the path, both find the same message for an      *)
(* event, with the same argument, or both none.                             *)
THEOREM TableFindsListener ==
    ASSUME OneHandlerPerEvent, NEW m, ListsTyped(m), NEW t \in Parts, NEW p \in Seq(Nat),
           HasNode(View(t, m), p), NEW event
    PROVE  Dispatched(Table(t), p, event, m) = FindListener(View(t, m), p, event)
<1> DEFINE N == Len(p)
           v == View(t, m)
           w == Way(v, p)
           root == <<>>
           hs == Handlers[<<t, root>>]
           table == Table(t)
           D == 1 .. Len(hs)
           hits == {i \in DOMAIN table : Matches(table[i], p, event, m)}
<1>n. N \in Nat
    OBVIOUS
<1>1. /\ w[0] = Views(m)[<<t, NoItem>>] /\ Through(w, p)
      /\ \A k \in 0 .. N : \E c \in Calls : w[k] = Views(m)[c]
    BY WaySeen
<1>2. <<t, root>> \in Places /\ SubSeq(p, 1, 0) = root
    <2>1. root \in Seq(Nat)
        OBVIOUS
    <2>2. 0 \in 0 .. Len(p)
        BY <1>n
    <2>3. SubSeq(p, 1, 0) \in Seq(Nat) /\ Len(SubSeq(p, 1, 0)) = 0
        BY <2>2, WayIsPrefix
    <2> HIDE DEF root
    <2>4. <<t, root>> \in Places
        BY <2>1 DEF Places
    <2> QED BY <2>3, <2>4 DEF root
<1> HIDE DEF root, w, v
<1>3. \A k \in 0 .. N : \A l : Caught(hs, k, p, event, m, l) <=> Says(w[k], event, l)
    <2>1. 0 \in 0 .. Len(p)
        BY <1>n
    <2>2. \A k \in 0 .. Len(p) : \A l :
             Caught(Handlers[<<t, SubSeq(p, 1, 0)>>], k, p, event, m, l) <=> Says(w[k], event, l)
        BY <1>1, <2>1, TemplateAgrees
    <2> QED BY <1>2, <2>2
<1>4. IsList(hs) /\ \A h : Occurs(h, hs) => Specificity(h) \in Nat
    <2>1. IsList(hs)
        BY <1>2, HandlersFacts
    <2>2. ASSUME NEW h, Occurs(h, hs) PROVE Specificity(h) \in Nat
        <3> DEFINE c == <<t, root>>
        <3>1. GoesOn(c[2], h.prefix) /\ h.suffix \in Seq(Nat)
            BY <1>2, <2>2, HandlersFacts
        <3>2. h.prefix \in Seq(Nat)
            BY <3>1 DEF GoesOn
        <3> QED BY <3>1, <3>2, SpecificityIs
    <2> QED BY <2>1, <2>2
<1>5. \A i \in D : Specificity(hs[i]) \in Nat
    BY <1>4 DEF Occurs
<1>6. table = Sorted(hs)
    BY DEF Table, root
<1> HIDE DEF hs, table
<1>7. /\ DOMAIN table = D /\ Len(hs) \in Nat
      /\ \A i \in DOMAIN table : Occurs(table[i], hs)
      /\ \A x : Occurs(x, hs) => \E i \in DOMAIN table : table[i] = x
      /\ \A i, j \in DOMAIN table : i < j => Specificity(table[i]) >= Specificity(table[j])
    BY <1>4, <1>5, <1>6, SortedIs
<1>8. \A i \in DOMAIN table : i \in Nat
    BY <1>7
<1>9. ASSUME NEW i \in hits
      PROVE  /\ Specificity(table[i]) \in 0 .. N
             /\ Says(w[Specificity(table[i])], event, Heard(table[i], p, m))
    <2> DEFINE k == Specificity(table[i])
    <2>1. Occurs(table[i], hs) /\ Matches(table[i], p, event, m)
        BY <1>7
    <2>2. k \in Nat /\ k <= N
        BY <1>4, <2>1 DEF Matches
    <2>3. k \in 0 .. N
        BY <1>n, <2>2
    <2>4. Caught(hs, k, p, event, m, Heard(table[i], p, m))
        BY <2>1 DEF Caught
    <2> HIDE DEF k
    <2>5. Says(w[k], event, Heard(table[i], p, m))
        BY <1>3, <2>3, <2>4
    <2> QED BY <2>3, <2>5 DEF k
<1>10. ASSUME NEW k \in 0 .. N, NEW l, Says(w[k], event, l)
       PROVE  \E i \in hits : Specificity(table[i]) = k
    <2>1. PICK h : Occurs(h, hs) /\ Specificity(h) = k /\ Matches(h, p, event, m)
        BY <1>3, <1>10 DEF Caught
    <2> QED BY <1>7, <2>1
<1>11. PICK best : Bubbles(best, w, N, event) /\ FindListener(v, p, event) = best[N]
    BY FindListenerIs DEF w, v
<1>12. \A k \in 0 .. N : \A above :
          /\ (\A l : ~ Says(w[k], event, l)) => Listener(w[k], event, above) = above
          /\ \A l : Says(w[k], event, l) => Listener(w[k], event, above) = l
    <2> SUFFICES ASSUME NEW k \in 0 .. N, NEW above
                 PROVE  /\ (\A l : ~ Says(w[k], event, l)) => Listener(w[k], event, above) = above
                        /\ \A l : Says(w[k], event, l) => Listener(w[k], event, above) = l
        OBVIOUS
    <2>1. PICK c \in Calls : w[k] = Views(m)[c]
        BY <1>1
    <2> QED BY <2>1, ListenerIs
<1>13. /\ best[0] = Listener(w[0], event, NoMessage)
       /\ \A k \in 1 .. N : best[k] = Listener(w[k], event, best[k - 1])
    BY <1>11 DEF Bubbles
<1> HIDE DEF N
<1>14. CASE hits = {}
    <2>1. \A k \in 0 .. N : \A l : ~ Says(w[k], event, l)
        BY <1>10, <1>14
    <2> DEFINE S == {k \in Nat : k <= N => best[k] = NoMessage}
    <2>2. 0 \in S
        <3>1. 0 \in 0 .. N
            BY <1>n
        <3> QED BY <1>12, <1>13, <2>1, <3>1
    <2>3. ASSUME NEW n \in Nat, n \in S PROVE n + 1 \in S
        <3> SUFFICES ASSUME n + 1 <= N PROVE best[n + 1] = NoMessage
            OBVIOUS
        <3> DEFINE k == n + 1
        <3>1. k \in 1 .. N /\ k \in 0 .. N /\ k - 1 = n /\ n <= N
            BY <1>n
        <3>2. best[n] = NoMessage
            BY <2>3, <3>1
        <3> HIDE DEF k
        <3>3. best[k] = Listener(w[k], event, best[n])
            BY <1>13, <3>1
        <3>4. Listener(w[k], event, best[n]) = best[n]
            BY <1>12, <2>1, <3>1
        <3> QED BY <3>2, <3>3, <3>4 DEF k
    <2> HIDE DEF S
    <2>4. N \in S
        BY <1>n, <2>2, <2>3, NatSetInduction
    <2>5. best[N] = NoMessage
        BY <1>n, <2>4 DEF S
    <2>6. Dispatched(table, p, event, m) = NoMessage
        BY <1>14 DEF Dispatched
    <2> QED BY <1>11, <2>5, <2>6 DEF v, table
<1>15. CASE hits # {}
    <2> DEFINE i == Min(hits)
               k0 == Specificity(table[i])
               l0 == Heard(table[i], p, m)
    <2>1. i \in hits /\ \A j \in hits : i <= j
        <3>1. hits \in SUBSET Nat
            BY <1>8
        <3> HIDE DEF hits
        <3> QED BY <1>15, <3>1, MinIs
    <2>2. Dispatched(table, p, event, m) = l0
        BY <1>15 DEF Dispatched, Heard, ItemFor
    <2> HIDE DEF i
    <2>3. k0 \in 0 .. N /\ Says(w[k0], event, l0)
        BY <1>9, <2>1
    <2>4. ASSUME NEW k \in 0 .. N, k > k0, NEW l PROVE ~ Says(w[k], event, l)
        <3> SUFFICES ASSUME Says(w[k], event, l) PROVE FALSE
            OBVIOUS
        <3>1. PICK j \in hits : Specificity(table[j]) = k
            BY <1>10
        <3>2. i <= j /\ i \in Nat /\ j \in Nat /\ i \in DOMAIN table /\ j \in DOMAIN table
            BY <1>8, <2>1
        <3>3. i = j \/ i < j
            BY <3>2
        <3>4. k0 >= k
            <4>1. CASE i = j
                BY <3>1, <4>1
            <4>2. CASE i < j
                BY <1>7, <3>1, <3>2, <4>2
            <4> QED BY <3>3, <4>1, <4>2
        <3> HIDE DEF k0
        <3> QED BY <1>n, <2>3, <2>4, <3>4
    <2> HIDE DEF k0, l0
    <2> DEFINE S == {k \in Nat : k >= k0 /\ k <= N => best[k] = l0}
    <2>5. best[k0] = l0
        <3>1. \A above : Listener(w[k0], event, above) = l0
            BY <1>12, <2>3
        <3>2. k0 = 0 \/ k0 \in 1 .. N
            BY <1>n, <2>3
        <3> QED BY <1>13, <3>1, <3>2
    <2>6. 0 \in S
        <3>1. k0 \in Nat
            BY <2>3
        <3> QED BY <2>5, <3>1
    <2>7. ASSUME NEW n \in Nat, n \in S PROVE n + 1 \in S
        <3> SUFFICES ASSUME n + 1 >= k0, n + 1 <= N PROVE best[n + 1] = l0
            OBVIOUS
        <3> DEFINE k == n + 1
        <3>0. k0 \in Nat /\ k \in 1 .. N /\ k \in 0 .. N /\ k - 1 = n /\ n <= N
              /\ (k = k0 \/ (k > k0 /\ n >= k0))
            BY <1>n, <2>3
        <3>1. CASE k = k0
            BY <2>5, <3>1
        <3>2. CASE k > k0 /\ n >= k0
            <4>1. best[n] = l0
                BY <2>7, <3>0, <3>2
            <4> HIDE DEF k
            <4>2. best[k] = Listener(w[k], event, best[n])
                BY <1>13, <3>0
            <4>3. Listener(w[k], event, best[n]) = best[n]
                BY <1>12, <2>4, <3>0, <3>2
            <4> QED BY <4>1, <4>2, <4>3 DEF k
        <3> QED BY <3>0, <3>1, <3>2
    <2> HIDE DEF S
    <2>8. N \in S
        BY <1>n, <2>6, <2>7, NatSetInduction
    <2>9. best[N] = l0
        BY <1>n, <2>3, <2>8 DEF S
    <2> QED BY <1>11, <2>2, <2>9 DEF v, table
<1> QED BY <1>14, <1>15

(* dispatch of the emitted module: in every state of the page, an event at  *)
(* any of its nodes is for the handler the runtime would have found.        *)
THEOREM EventsFindTheirHandler ==
    ASSUME OneHandlerPerEvent
    PROVE  PageSpec => []HandlersAgree
<1>1. PageInv => HandlersAgree
    <2> SUFFICES ASSUME PageInv, shown, NEW path \in TargetPaths, NEW event \in EventNames
                 PROVE  Dispatched(HandlerTable, path, event, model)
                          = FindListener(View(Template, model), path, event)
        BY DEF HandlersAgree
    <2>1. model \in GcModels /\ dom = Tree(Template, model) /\ Template \in Parts
        BY PageAssumption DEF PageInv
    <2>2. ListsTyped(model)
        BY <2>1, ModelsTyped
    <2>3. Seen(model, dom, View(Template, model), <<>>)
        BY <2>1, SeenTop
    <2>4. Height[Template] \in Nat
        BY <2>1, TemplateFacts
    <2>5. Seen(model, dom, View(Template, model), path)
        BY <2>2, <2>3, <2>4, PathsSeen DEF TargetPaths
    <2>6. path \in Seq(Nat) /\ HasNode(View(Template, model), path)
        BY <2>5 DEF Seen
    <2> QED BY <2>1, <2>2, <2>6, TableFindsListener DEF HandlerTable
<1> QED BY <1>1, PageInvHolds, PTL
=============================================================================
