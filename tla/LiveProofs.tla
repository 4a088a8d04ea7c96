----------------------------- MODULE LiveProofs -----------------------------
(* Theorems about a live session, for every application and every number of *)
(* dropped connections.                                                     *)
EXTENDS Live, ClientProofs

IdMaps(S) == UNION {[D -> S] : D \in SUBSET Ids}

Updates ==
    [events : Views, cmds : IdMaps(CmdKinds), starts : IdMaps(Keys), stops : SUBSET Ids]

Pushes == [from : Models, to : Models, update : Updates]

Frames ==
    [kind : {"dispatch"}, at : Nat, of : Items]
        \cup [kind : {"resolve"}, at : Ids, of : Ids]
        \cup [kind : {"notify"}, at : Ids, of : EveryKeys]

(* The types of both ends and of the wire, and what is on it before a page  *)
(* is mounted.                                                              *)
SessionInv ==
    /\ ProgramInv
    /\ ShimTypeOK
    /\ phase \in {"closed", "opening", "mounted"}
    /\ screen \in Models
    /\ up \in Seq(Frames)
    /\ down \in Seq(Pushes)
    /\ drops \in 0 .. MaxDrops
    /\ rendered = (phase # "closed")
    /\ phase # "mounted" => up = <<>>
    /\ phase = "closed" => down = <<>>
    /\ phase = "opening" => Len(down) = 1

(* The updates in flight lead from tree to tree, the last to the server's.  *)
Chained ==
    /\ \A n \in DOMAIN down : n + 1 \in DOMAIN down => down[n].to = down[n + 1].from
    /\ down # <<>> => down[Len(down)].to = model
    /\ phase = "mounted" => IF down = <<>> THEN screen = model ELSE down[1].from = screen

(* Where a command may be.                                                  *)
CarriedBy(n) == Executable(down[n].update.cmds)
Executing == IF phase = "mounted" THEN DOMAIN inflight ELSE {}
Completes(n, id) == up[n].kind = "resolve" /\ up[n].at = id

CommandsOnce ==
    /\ \A id \in Ids :
          id \in DOMAIN pending <=> \/ \E n \in DOMAIN down : id \in CarriedBy(n)
                                    \/ id \in Executing
                                    \/ \E n \in DOMAIN up : Completes(n, id)
    /\ \A n \in DOMAIN down : \A id \in CarriedBy(n) :
          /\ id \notin Executing
          /\ \A j \in DOMAIN up : ~ Completes(j, id)
          /\ \A j \in DOMAIN down : id \in CarriedBy(j) => j = n
    /\ \A id \in Executing : \A j \in DOMAIN up : ~ Completes(j, id)
    /\ \A i, j \in DOMAIN up : \A id \in Ids : Completes(i, id) /\ Completes(j, id) => i = j

(* No other key than k has the id, now or ever.                             *)
Names(id, k) ==
    id < nextId /\ \A l \in DOMAIN activeSubs : activeSubs[l].id = id => l = k

NamesAgree ==
    /\ phase = "mounted" => \A id \in DOMAIN intervals : Names(id, intervals[id])
    /\ \A n \in DOMAIN down : \A id \in DOMAIN down[n].update.starts :
          Names(id, down[n].update.starts[id])
    /\ \A n \in DOMAIN up : up[n].kind = "notify" => Names(up[n].at, up[n].of)

(* The timers that run on the page or are about to.                         *)
StartedBy(n) == StartedEvery(down[n].update.starts)

Timed(id) ==
    \/ phase = "mounted" /\ id \in DOMAIN intervals
    \/ \E n \in DOMAIN down : id \in StartedBy(n)

Doomed(id) == \E n \in DOMAIN down : id \in down[n].update.stops

(* A Stop never travels ahead of the Start it belongs to.                   *)
TimersComing ==
    /\ \A id \in Ids :
          Timed(id) /\ ~ Doomed(id)
              <=> \E k \in DOMAIN activeSubs \cap EveryKeys : activeSubs[k].id = id
    /\ \A n \in DOMAIN down : \A id \in down[n].update.stops :
          /\ id < nextId
          /\ \A j \in DOMAIN down : id \in DOMAIN down[j].update.starts => j <= n
-----------------------------------------------------------------------------
(* Queues.                                                                  *)
LEMMA TailOf ==
    ASSUME NEW S, NEW s \in Seq(S), s # <<>>
    PROVE  /\ Tail(s) \in Seq(S)
           /\ Len(s) \in Nat \ {0} /\ DOMAIN s = 1 .. Len(s)
           /\ Head(s) = s[1] /\ s[1] \in S
           /\ DOMAIN Tail(s) = 1 .. Len(s) - 1
           /\ Len(Tail(s)) = Len(s) - 1
           /\ \A n \in DOMAIN Tail(s) : Tail(s)[n] = s[n + 1]
           /\ Tail(s) = <<>> <=> Len(s) = 1
<1>1. /\ Tail(s) \in Seq(S)
      /\ Len(s) \in Nat \ {0} /\ DOMAIN s = 1 .. Len(s)
      /\ Head(s) = s[1] /\ s[1] \in S
      /\ Len(Tail(s)) = Len(s) - 1
      /\ \A n \in 1 .. Len(s) - 1 : Tail(s)[n] = s[n + 1]
  BY HeadTailProperties, EmptySeq
<1>2. DOMAIN Tail(s) = 1 .. Len(s) - 1
  BY <1>1, LenProperties
<1>3. Tail(s) = <<>> <=> Len(s) = 1
  <2>1. Len(<<>>) = 0
    BY EmptySeq
  <2>2. Tail(s) # <<>> => Len(Tail(s)) \in Nat \ {0}
    BY <1>1, EmptySeq
  <2>3. CASE Tail(s) = <<>>
    <3>1. Len(Tail(s)) = 0
      BY <2>1, <2>3, Zenon
    <3> QED BY <1>1, <2>3, <3>1
  <2>4. CASE Tail(s) # <<>>
    BY <1>1, <2>2, <2>4
  <2> QED BY <2>3, <2>4
<1> QED BY <1>1, <1>2, <1>3

LEMMA AppendOf ==
    ASSUME NEW S, NEW s \in Seq(S), NEW x \in S
    PROVE  /\ Append(s, x) \in Seq(S)
           /\ Len(s) \in Nat /\ DOMAIN s = 1 .. Len(s)
           /\ Len(Append(s, x)) = Len(s) + 1
           /\ DOMAIN Append(s, x) = 1 .. Len(s) + 1
           /\ \A n \in DOMAIN s : Append(s, x)[n] = s[n]
           /\ Append(s, x)[Len(s) + 1] = x
           /\ Append(s, x) # <<>>
           /\ s = <<>> <=> Len(s) = 0
<1>1. /\ Append(s, x) \in Seq(S)
      /\ Len(s) \in Nat /\ DOMAIN s = 1 .. Len(s)
      /\ Len(Append(s, x)) = Len(s) + 1
      /\ \A n \in 1 .. Len(s) : Append(s, x)[n] = s[n]
      /\ Append(s, x)[Len(s) + 1] = x
      /\ Append(s, x) # <<>>
  BY AppendProperties, LenProperties
<1>2. DOMAIN Append(s, x) = 1 .. Len(s) + 1
  BY <1>1, LenProperties
<1>3. s = <<>> <=> Len(s) = 0
  BY EmptySeq
<1> QED BY <1>1, <1>2, <1>3

-----------------------------------------------------------------------------
(* What a turn of the Program, on the ledger p, says in its update u.       *)
Carries(p, u) ==
    /\ u \in Updates
    /\ nextId <= nextId'
    /\ \A id : id \in DOMAIN pending' <=> id \in DOMAIN p \/ id \in Executable(u.cmds)
    /\ \A id \in Executable(u.cmds) : id >= nextId
    /\ \A id \in DOMAIN u.starts :
          /\ id >= nextId
          /\ id < nextId'
          /\ \A k \in DOMAIN activeSubs' : activeSubs'[k].id = id => k = u.starts[id]
    /\ \A id \in u.stops : \E k \in DOMAIN activeSubs : activeSubs[k].id = id
    /\ \A k \in DOMAIN activeSubs' :
          \/ k \in DOMAIN activeSubs /\ activeSubs'[k].id = activeSubs[k].id
          \/ activeSubs'[k].id >= nextId

(* ... and how the timers of the ledger before and after differ by it.      *)
Retimes(u) ==
    \A id \in Ids :
        (\E k \in DOMAIN activeSubs' \cap EveryKeys : activeSubs'[k].id = id)
          <=> /\ \/ \E k \in DOMAIN activeSubs \cap EveryKeys : activeSubs[k].id = id
                 \/ id \in StartedEvery(u.starts)
              /\ id \notin u.stops

LEMMA UpdateTyped ==
    ASSUME AppAssumption, ProgramInv,
           NEW p, NEW m \in Models, NEW c \in CmdLists, Settle(p, m, c)
    PROVE  UpdateOf(m, c) \in Updates
<1> DEFINE u == UpdateOf(m, c)
           base == nextId + Len(c)
           w == Subs[m]
<1>0. c \in Seq(CmdKinds) /\ MaxId \in Nat /\ w \in SubLists /\ View[m] \in Views
  BY DEF AppAssumption, SubLists
<1>1. /\ c \in Seq(CmdKinds) /\ MaxId \in Nat /\ w \in SubLists /\ View[m] \in Views
      /\ DOMAIN c = 1 .. Len(c) /\ Len(c) \in Nat
      /\ nextId \in Nat \ {0} /\ base \in Nat \ {0}
  BY <1>0 DEF ProgramInv, ProgramTypeOK
<1>2. Cardinality(FreshAt(w)) \in Nat
  BY <1>1, FreshCounts
<1>3. base + Cardinality(FreshAt(w)) <= MaxId + 1
  BY DEF Settle
<1>4. u.cmds \in IdMaps(CmdKinds)
  <2> DEFINE D == {CmdId(i) : i \in DOMAIN c}
  <2>1. u.cmds = [id \in D |-> c[id - nextId + 1]]
    BY DEF UpdateOf
  <2>2. ASSUME NEW i \in DOMAIN c
        PROVE  CmdId(i) \in Ids /\ c[CmdId(i) - nextId + 1] \in CmdKinds
    <3>1. CmdId(i) - nextId + 1 = i /\ CmdId(i) \in Ids
      BY <1>1, <1>2, <1>3 DEF CmdId, Ids
    <3> QED BY <1>1, <3>1
  <2>3. D \in SUBSET Ids /\ u.cmds \in [D -> CmdKinds]
    <3> HIDE DEF u
    <3> QED BY <2>1, <2>2
  <2> HIDE DEF u, D
  <2> QED BY <2>3 DEF IdMaps
<1>5. u.starts \in IdMaps(Keys)
  <2> DEFINE D == {SubId(w, i, base) : i \in FreshAt(w)}
             at(id) == CHOOSE i \in FreshAt(w) : SubId(w, i, base) = id
  <2>1. u.starts = [id \in D |-> w[at(id)].key]
    BY DEF UpdateOf, Started
  <2>2. ASSUME NEW i \in FreshAt(w) PROVE SubId(w, i, base) \in Ids
    <3>1. SubId(w, i, base) \in base .. base + Cardinality(FreshAt(w)) - 1
      <4> HIDE DEF base, w
      <4> QED BY <1>1, SubIds
    <3> HIDE DEF base
    <3> QED BY <1>1, <1>2, <1>3, <3>1 DEF Ids
  <2>3. ASSUME NEW id \in D PROVE w[at(id)].key \in Keys
    <3>1. at(id) \in FreshAt(w)
      OBVIOUS
    <3>2. at(id) \in 1 .. Len(w)
      BY <1>1, <3>1 DEF FreshAt, SubLists
    <3> HIDE DEF at, w
    <3>3. w[at(id)] \in [key : Keys, msg : SubMsgs]
      BY <1>1, <3>2, ElementOfSeq DEF SubLists
    <3> QED BY <3>3
  <2>4. D \in SUBSET Ids
    BY <2>2
  <2> HIDE DEF u, D, at, w
  <2>5. u.starts \in [D -> Keys]
    BY <2>1, <2>3
  <2> QED BY <2>4, <2>5 DEF IdMaps
<1>6. u.stops \in SUBSET Ids
  BY DEF UpdateOf, Stopped, ProgramInv, ProgramTypeOK
<1>7. u.events \in Views
  BY <1>1 DEF UpdateOf
<1>8. u = [events |-> u.events, cmds |-> u.cmds, starts |-> u.starts, stops |-> u.stops]
  BY DEF UpdateOf
<1> HIDE DEF u
<1>9. u \in Updates
  BY <1>4, <1>5, <1>6, <1>7, <1>8 DEF Updates
<1> QED BY <1>9 DEF u

LEMMA TurnCarries ==
    ASSUME AppAssumption, ProgramInv,
           NEW p, DOMAIN p \subseteq DOMAIN pending,
           \A id \in DOMAIN p : p[id] = pending[id],
           NEW m \in Models, NEW c \in CmdLists, Settle(p, m, c)
    PROVE  Carries(p, UpdateOf(m, c))
<1> DEFINE u == UpdateOf(m, c)
           base == nextId + Len(c)
           w == Subs[m]
<1>0. c \in Seq(CmdKinds) /\ MaxId \in Nat /\ w \in SubLists
  BY DEF AppAssumption, SubLists
<1>1. /\ c \in Seq(CmdKinds) /\ MaxId \in Nat /\ w \in SubLists
      /\ DOMAIN c = 1 .. Len(c) /\ Len(c) \in Nat
      /\ nextId \in Nat \ {0} /\ base \in Nat \ {0}
      /\ nextId' = base + Cardinality(FreshAt(w))
      /\ DOMAIN activeSubs' = KeysOf(w)
      /\ \A k \in KeysOf(w) : activeSubs'[k].id = SubId(w, LastAt(w, k), base)
  BY <1>0 DEF ProgramInv, ProgramTypeOK, Settle, NextActive
<1>2. Cardinality(FreshAt(w)) \in Nat
  BY <1>1, FreshCounts
<1>3. \A k \in DOMAIN activeSubs' :
          \/ k \in DOMAIN activeSubs /\ activeSubs'[k].id = activeSubs[k].id
          \/ activeSubs'[k].id >= base /\ activeSubs'[k].id \in Nat
  <2>1. \A k \in DOMAIN activeSubs' :
            /\ activeSubs'[k] \in [id : Ids, msg : SubMsgs]
            /\ \/ k \in DOMAIN activeSubs /\ activeSubs'[k].id = activeSubs[k].id
               \/ activeSubs'[k].id >= base
    BY SettledSubs DEF ProgramInv
  <2> QED BY <2>1 DEF Ids
<1>4. u.cmds = [id \in {CmdId(i) : i \in DOMAIN c} |-> c[id - nextId + 1]]
      /\ u.starts = Started(w, base) /\ u.stops = Stopped(w)
  BY DEF UpdateOf
<1>5. Executable(u.cmds) = Tracked(c)
  BY <1>1, ExecutedCommands
<1>6. \A id : id \in DOMAIN pending' <=> id \in DOMAIN p \/ id \in Executable(u.cmds)
  BY <1>5 DEF Settle, Registered
<1>7. \A id \in Executable(u.cmds) : id >= nextId
  BY <1>1, <1>5 DEF Tracked, CmdId
<1>8. nextId <= base /\ base <= nextId'
  BY <1>1, <1>2
<1>9. ASSUME NEW id \in DOMAIN u.starts
      PROVE  /\ id >= nextId
             /\ id < nextId'
             /\ \A k \in DOMAIN activeSubs' : activeSubs'[k].id = id => k = u.starts[id]
  <2> DEFINE i == CHOOSE l \in FreshAt(w) : SubId(w, l, base) = id
  <2>1. i \in FreshAt(w) /\ SubId(w, i, base) = id /\ u.starts[id] = w[i].key
    BY <1>4 DEF Started
  <2> HIDE DEF i, u, w, base
  <2>2. id \in base .. base + Cardinality(FreshAt(w)) - 1
    BY <1>1, <2>1, SubIds
  <2>3. id >= nextId /\ id < nextId' /\ id \in Nat
    BY <1>1, <1>2, <1>8, <2>2
  <2>4. ASSUME NEW k \in DOMAIN activeSubs', activeSubs'[k].id = id
        PROVE  k = w[i].key
    <3>1. k \in KeysOf(w) /\ SubId(w, LastAt(w, k), base) = id
      BY <1>1, <2>4
    <3>2. LastAt(w, k) \in DOMAIN w /\ w[LastAt(w, k)].key = k
      BY <1>1, <3>1, LastWins
    <3>3. ~ Retained(w, LastAt(w, k))
      <4> SUFFICES ASSUME Retained(w, LastAt(w, k)) PROVE FALSE
        OBVIOUS
      <4>1. k \in DOMAIN activeSubs /\ id = activeSubs[k].id
        BY <1>1, <3>1, <3>2, SubIds
      <4>2. activeSubs[k].id < nextId
        BY <4>1 DEF ProgramInv, IdsIssued
      <4> QED BY <1>1, <2>3, <4>1, <4>2
    <3>4. LastAt(w, k) \in FreshAt(w)
      BY <3>2, <3>3 DEF FreshAt
    <3>5. LastAt(w, k) = i
      BY <1>1, <2>1, <3>1, <3>4, SubIds
    <3> QED BY <3>2, <3>5
  <2> QED BY <2>1, <2>3, <2>4
<1>10. \A id \in u.stops : \E k \in DOMAIN activeSubs : activeSubs[k].id = id
  BY <1>4 DEF Stopped
<1>11. u \in Updates
  BY UpdateTyped
<1> HIDE DEF u
<1>12. nextId <= nextId'
  BY <1>1, <1>2
<1>13. \A k \in DOMAIN activeSubs' :
           \/ k \in DOMAIN activeSubs /\ activeSubs'[k].id = activeSubs[k].id
           \/ activeSubs'[k].id >= nextId
  BY <1>1, <1>3
<1>14. Carries(p, u)
  BY <1>6, <1>7, <1>9, <1>10, <1>11, <1>12, <1>13 DEF Carries
<1> QED BY <1>14 DEF u

LEMMA TurnRetimes ==
    ASSUME AppAssumption, NoDuplicateSubs, ProgramInv, OneOwnerPerId',
           NEW p, NEW m \in Models, NEW c \in CmdLists, Settle(p, m, c)
    PROVE  Retimes(UpdateOf(m, c))
<1> DEFINE w == Subs[m]
           starts == StartsOf(m, c)
<1>1. KeepsOrStarts(m, c)
  BY SettledDistinct
<1>2. DOMAIN activeSubs' = KeysOf(w)
  BY DEF Settle, NextActive
<1>3. UpdateOf(m, c).starts = starts /\ UpdateOf(m, c).stops = Stopped(w)
  BY DEF UpdateOf, StartsOf
<1>4. \A k \in DOMAIN activeSubs : activeSubs[k].id \in Nat /\ activeSubs[k].id < nextId
  BY DEF ProgramInv, ProgramTypeOK, IdsIssued, Ids
<1>5. nextId \in Nat /\ nextId' \in Nat
  <2>1. Len(c) \in Nat /\ nextId \in Nat /\ Cardinality(FreshAt(w)) \in Nat
    <3>1. c \in Seq(CmdKinds) /\ w \in SubLists /\ MaxId \in Nat
      BY DEF AppAssumption, SubLists
    <3> HIDE DEF w
    <3> QED BY <3>1, FreshCounts DEF ProgramInv, ProgramTypeOK
  <2> QED BY <2>1 DEF Settle
<1> HIDE DEF w, starts
<1>6. /\ \A k \in KeysOf(w) \cap DOMAIN activeSubs : activeSubs'[k].id = activeSubs[k].id
      /\ \A k \in KeysOf(w) \ DOMAIN activeSubs :
            /\ activeSubs'[k].id \in nextId .. nextId' - 1
            /\ activeSubs'[k].id \in DOMAIN starts
            /\ starts[activeSubs'[k].id] = k
      /\ \A x \in DOMAIN starts : \E k \in KeysOf(w) \ DOMAIN activeSubs : x = activeSubs'[k].id
  BY <1>1 DEF KeepsOrStarts, w, starts
<1>7. \A x \in StartedEvery(starts) :
          \E k \in KeysOf(w) \ DOMAIN activeSubs : k \in EveryKeys /\ x = activeSubs'[k].id
  BY <1>6 DEF StartedEvery
<1>8. \A x \in Stopped(w) : \E k \in DOMAIN activeSubs \ KeysOf(w) : x = activeSubs[k].id
  BY DEF Stopped
<1>9. ASSUME NEW id \in Ids, NEW k \in KeysOf(w) \cap EveryKeys, activeSubs'[k].id = id
      PROVE  /\ \/ \E l \in DOMAIN activeSubs \cap EveryKeys : activeSubs[l].id = id
                \/ id \in StartedEvery(starts)
             /\ id \notin Stopped(w)
  <2>1. CASE k \in DOMAIN activeSubs
    <3>1. activeSubs[k].id = id
      BY <1>6, <1>9, <2>1
    <3>2. id \notin Stopped(w)
      BY <1>8, <2>1, <3>1 DEF ProgramInv, OneOwnerPerId
    <3> QED BY <2>1, <3>1, <3>2
  <2>2. CASE k \notin DOMAIN activeSubs
    BY <1>4, <1>5, <1>6, <1>8, <1>9, <2>2 DEF StartedEvery
  <2> QED BY <2>1, <2>2
<1>10. ASSUME NEW id \in Ids, id \notin Stopped(w),
              \/ \E k \in DOMAIN activeSubs \cap EveryKeys : activeSubs[k].id = id
              \/ id \in StartedEvery(starts)
       PROVE  \E k \in KeysOf(w) \cap EveryKeys : activeSubs'[k].id = id
  <2>1. CASE id \in StartedEvery(starts)
    BY <1>7, <2>1
  <2>2. ASSUME NEW k \in DOMAIN activeSubs \cap EveryKeys, activeSubs[k].id = id
        PROVE  \E l \in KeysOf(w) \cap EveryKeys : activeSubs'[l].id = id
    BY <1>6, <1>10, <2>2 DEF Stopped
  <2> QED BY <1>10, <2>1, <2>2
<1> QED BY <1>2, <1>3, <1>9, <1>10 DEF Retimes

(* An ignored frame is answered with the empty update.                      *)
LEMMA NoopCarries ==
    ASSUME AppAssumption, ProgramInv, UNCHANGED progVars
    PROVE  Carries(pending, Noop) /\ Retimes(Noop)
<1>1. DOMAIN EmptyFn = {}
  BY DEF EmptyFn
<1>2. EmptyFn \in [{} -> BOOLEAN] /\ EmptyFn \in [{} -> CmdKinds] /\ EmptyFn \in [{} -> Keys]
  BY DEF EmptyFn
<1>3. EmptyFn \in Views /\ EmptyFn \in IdMaps(CmdKinds) /\ EmptyFn \in IdMaps(Keys)
  BY <1>2 DEF Views, IdMaps
<1>4. Noop \in Updates
  BY <1>3 DEF Noop, Updates
<1>5. /\ Executable(Noop.cmds) = {} /\ DOMAIN Noop.starts = {} /\ Noop.stops = {}
      /\ StartedEvery(Noop.starts) = {}
  BY <1>1 DEF Noop, Executable, StartedEvery
<1>6. nextId \in Nat /\ UNCHANGED <<pending, activeSubs, nextId>>
  BY DEF AppAssumption, ProgramInv, ProgramTypeOK, progVars
<1> QED BY <1>4, <1>5, <1>6 DEF Carries, Retimes

-----------------------------------------------------------------------------
LEMMA IdMapTyped ==
    ASSUME NEW S, NEW f \in IdMaps(S)
    PROVE  DOMAIN f \subseteq Ids /\ \A id \in DOMAIN f : f[id] \in S
  BY DEF IdMaps

(* The updates on the wire.                                                 *)
LEMMA DownTyped ==
    ASSUME SessionInv
    PROVE  /\ Len(down) \in Nat /\ DOMAIN down = 1 .. Len(down)
           /\ \A n \in DOMAIN down :
                 /\ down[n].from \in Models /\ down[n].to \in Models
                 /\ down[n].update \in Updates
                 /\ CarriedBy(n) \subseteq Ids
                 /\ StartedBy(n) \subseteq DOMAIN down[n].update.starts
                 /\ DOMAIN down[n].update.starts \subseteq Ids
                 /\ down[n].update.stops \subseteq Ids
<1>1. down \in Seq(Pushes)
  BY DEF SessionInv
<1>2. Len(down) \in Nat /\ DOMAIN down = 1 .. Len(down)
  BY <1>1, LenProperties
<1>3. ASSUME NEW n \in DOMAIN down PROVE down[n] \in Pushes
  BY <1>1, <1>2, ElementOfSeq
<1>4. ASSUME NEW n \in DOMAIN down
      PROVE  /\ down[n].update.cmds \in IdMaps(CmdKinds)
             /\ down[n].update.starts \in IdMaps(Keys)
             /\ down[n].update.stops \subseteq Ids
  BY <1>3 DEF Pushes, Updates
<1>5. ASSUME NEW n \in DOMAIN down
      PROVE  /\ CarriedBy(n) \subseteq Ids
             /\ StartedBy(n) \subseteq DOMAIN down[n].update.starts
             /\ DOMAIN down[n].update.starts \subseteq Ids
  <2>1. DOMAIN down[n].update.cmds \subseteq Ids /\ DOMAIN down[n].update.starts \subseteq Ids
    BY <1>4, IdMapTyped
  <2> QED BY <2>1 DEF CarriedBy, Executable, StartedBy, StartedEvery
<1> QED BY <1>2, <1>3, <1>4, <1>5 DEF Pushes

LEMMA UpTyped ==
    ASSUME SessionInv
    PROVE  /\ Len(up) \in Nat /\ DOMAIN up = 1 .. Len(up)
           /\ \A n \in DOMAIN up : up[n] \in Frames
<1>1. up \in Seq(Frames)
  BY DEF SessionInv
<1>2. Len(up) \in Nat /\ DOMAIN up = 1 .. Len(up)
  BY <1>1, LenProperties
<1> QED BY <1>1, <1>2, ElementOfSeq

LEMMA PushedDown ==
    ASSUME SessionInv, NEW to \in Models, NEW u \in Updates,
           down' = Append(down, Pushed(model, to, u))
    PROVE  /\ down' \in Seq(Pushes)
           /\ Len(down) \in Nat /\ DOMAIN down = 1 .. Len(down)
           /\ DOMAIN down' = 1 .. Len(down) + 1
           /\ Len(down') = Len(down) + 1
           /\ \A n \in DOMAIN down : down'[n] = down[n]
           /\ down'[Len(down) + 1].from = model
           /\ down'[Len(down) + 1].to = to
           /\ down'[Len(down) + 1].update = u
           /\ down' # <<>>
           /\ down = <<>> <=> Len(down) = 0
<1>1. down \in Seq(Pushes) /\ model \in Models
  BY DEF SessionInv, ProgramInv, ProgramTypeOK
<1>2. Pushed(model, to, u) \in Pushes
  BY <1>1 DEF Pushed, Pushes
<1>3. /\ Pushed(model, to, u).from = model
      /\ Pushed(model, to, u).to = to
      /\ Pushed(model, to, u).update = u
  BY DEF Pushed
<1> QED BY <1>1, <1>2, <1>3, AppendOf

(* What an answer does to the queues: u goes down, d frames leave the other *)
(* way.                                                                     *)
Leaves(d) ==
    /\ \A n : n \in DOMAIN up' <=> n \in Nat \ {0} /\ n + d \in DOMAIN up
    /\ \A n \in DOMAIN up' : up'[n] = up[n + d]

LEMMA PushChains ==
    ASSUME SessionInv, Chained, NEW to \in Models, NEW u \in Updates,
           down' = Append(down, Pushed(model, to, u)),
           model' = to, screen' = screen, phase' = "mounted" => phase = "mounted"
    PROVE  Chained'
<1>1. /\ Len(down) \in Nat /\ DOMAIN down = 1 .. Len(down)
      /\ DOMAIN down' = 1 .. Len(down) + 1
      /\ Len(down') = Len(down) + 1
      /\ \A n \in DOMAIN down : down'[n] = down[n]
      /\ down'[Len(down) + 1].from = model
      /\ down'[Len(down) + 1].to = to
      /\ down' # <<>>
      /\ down = <<>> <=> Len(down) = 0
  BY PushedDown
<1>2. ASSUME NEW n \in DOMAIN down', n + 1 \in DOMAIN down'
      PROVE  down'[n].to = down'[n + 1].from
  <2>1. CASE n + 1 \in DOMAIN down
    BY <1>1, <1>2, <2>1 DEF Chained
  <2>2. CASE n + 1 = Len(down) + 1
    <3>1. n = Len(down) /\ n \in DOMAIN down /\ down # <<>>
      BY <1>1, <1>2, <2>2
    <3> QED BY <1>1, <2>2, <3>1 DEF Chained
  <2> QED BY <1>1, <1>2, <2>1, <2>2
<1>3. down'[Len(down')].to = model'
  BY <1>1
<1>4. phase' = "mounted" => down'[1].from = screen'
  <2>1. CASE down = <<>>
    BY <1>1, <2>1 DEF Chained
  <2>2. CASE down # <<>>
    BY <1>1, <2>2 DEF Chained
  <2> QED BY <2>1, <2>2
<1> QED BY <1>1, <1>2, <1>3, <1>4 DEF Chained

(* The ids of the commands under way are all issued.                        *)
LEMMA UnderWayIssued ==
    ASSUME SessionInv, CommandsOnce
    PROVE  /\ nextId \in Nat
           /\ Executing \subseteq Ids
           /\ \A id \in Executing : id < nextId
           /\ \A n \in DOMAIN down : \A id \in CarriedBy(n) : id < nextId
           /\ \A n \in DOMAIN up : \A id \in Ids : Completes(n, id) => id < nextId
<1>1. \A id \in DOMAIN pending : id < nextId
  BY DEF SessionInv, ProgramInv, IdsIssued
<1>2. Executing \subseteq Ids
  BY DEF SessionInv, ShimTypeOK, Executing
<1>3. \A n \in DOMAIN down : CarriedBy(n) \subseteq Ids
  BY DownTyped
<1>4. nextId \in Nat
  BY DEF SessionInv, ProgramInv, ProgramTypeOK
<1> QED BY <1>1, <1>2, <1>3, <1>4, Zenon DEF CommandsOnce

LEMMA PushCommands ==
    ASSUME SessionInv, CommandsOnce, NEW to \in Models, NEW u, NEW p, Carries(p, u),
           down' = Append(down, Pushed(model, to, u)),
           NEW d \in {0, 1}, Leaves(d),
           \A id \in Ids :
               id \in DOMAIN p
                 <=> id \in DOMAIN pending /\ ~ (d = 1 /\ 1 \in DOMAIN up /\ Completes(1, id)),
           Executing' = Executing
    PROVE  CommandsOnce'
<1>1. u \in Updates /\ \A id \in Executable(u.cmds) : id >= nextId
  BY DEF Carries
<1>2. Executable(u.cmds) \subseteq Ids
  <2>1. u.cmds \in IdMaps(CmdKinds)
    BY <1>1 DEF Updates
  <2> QED BY <2>1, IdMapTyped DEF Executable
<1> DEFINE new == Executable(u.cmds)
<1>0. PICK last \in Nat : last = Len(down) + 1
  BY DownTyped
<1>3. /\ Len(down) \in Nat /\ DOMAIN down = 1 .. Len(down)
      /\ DOMAIN down' = 1 .. last
      /\ \A n \in DOMAIN down : down'[n] = down[n]
      /\ down'[last].update = u
  BY <1>0, <1>1, PushedDown
<1>4. /\ DOMAIN down' = DOMAIN down \cup {last} /\ last \notin DOMAIN down
      /\ \A n \in DOMAIN down : CarriedBy(n)' = CarriedBy(n)
      /\ CarriedBy(last)' = new
  BY <1>0, <1>3 DEF CarriedBy
<1>5. /\ Len(up) \in Nat /\ DOMAIN up = 1 .. Len(up)
      /\ \A n \in DOMAIN up' : n \in Nat \ {0} /\ n + d \in DOMAIN up
      /\ \A n \in DOMAIN up : (n = 1 /\ d = 1) \/ n - d \in DOMAIN up'
      /\ \A n \in DOMAIN up', id \in Ids : Completes(n, id)' <=> Completes(n + d, id)
  <2>1. Len(up) \in Nat /\ DOMAIN up = 1 .. Len(up)
    BY UpTyped
  <2>2. ASSUME NEW n \in DOMAIN up PROVE (n = 1 /\ d = 1) \/ n - d \in DOMAIN up'
    <3>1. CASE n - d = 0
      BY <2>1, <3>1
    <3>2. CASE n - d # 0
      <4>1. n - d \in Nat \ {0} /\ (n - d) + d = n
        BY <2>1, <3>2
      <4> QED BY <4>1 DEF Leaves
    <3> QED BY <3>1, <3>2
  <2>3. ASSUME NEW n \in DOMAIN up', NEW id \in Ids
        PROVE  Completes(n, id)' <=> Completes(n + d, id)
    <3>1. up'[n] = up[n + d]
      BY DEF Leaves
    <3> QED BY <3>1 DEF Completes
  <2> QED BY <2>1, <2>2, <2>3 DEF Leaves
<1>6. /\ nextId \in Nat
      /\ Executing \subseteq Ids
      /\ \A id \in Executing : id < nextId
      /\ \A n \in DOMAIN down : CarriedBy(n) \subseteq Ids
      /\ \A n \in DOMAIN down : \A id \in CarriedBy(n) : id < nextId
      /\ \A n \in DOMAIN up : \A id \in Ids : Completes(n, id) => id < nextId
  BY UnderWayIssued, DownTyped
<1>7. \A id \in new : id \in Ids /\ id \in Nat /\ id >= nextId /\ ~ (id < nextId)
  BY <1>1, <1>2, <1>6 DEF Ids
<1> HIDE DEF new
<1>8. ASSUME NEW id \in Ids
      PROVE  id \in DOMAIN pending' <=> \/ \E n \in DOMAIN down' : id \in CarriedBy(n)'
                                        \/ id \in Executing'
                                        \/ \E n \in DOMAIN up' : Completes(n, id)'
  <2>1. id \in DOMAIN pending' <=> id \in DOMAIN p \/ id \in new
    BY DEF Carries, new
  <2>2. (\E n \in DOMAIN down' : id \in CarriedBy(n)')
           <=> (\E n \in DOMAIN down : id \in CarriedBy(n)) \/ id \in new
    BY <1>4
  <2>3. (\E n \in DOMAIN up' : Completes(n, id)')
           <=> \E n \in DOMAIN up : Completes(n, id) /\ ~ (n = 1 /\ d = 1)
    <3>1. ASSUME NEW n \in DOMAIN up', Completes(n, id)'
          PROVE  n + d \in DOMAIN up /\ Completes(n + d, id) /\ ~ (n + d = 1 /\ d = 1)
      BY <1>5, <3>1
    <3>2. ASSUME NEW n \in DOMAIN up, Completes(n, id), ~ (n = 1 /\ d = 1)
          PROVE  n - d \in DOMAIN up' /\ Completes(n - d, id)'
      <4>1. n - d \in DOMAIN up'
        BY <1>5, <3>2
      <4>2. (n - d) + d = n
        BY <1>5
      <4> QED BY <1>5, <3>2, <4>1, <4>2
    <3> QED BY <3>1, <3>2
  <2>4. id \in DOMAIN p <=> \/ \E n \in DOMAIN down : id \in CarriedBy(n)
                            \/ id \in Executing
                            \/ \E n \in DOMAIN up : Completes(n, id) /\ ~ (n = 1 /\ d = 1)
    BY <1>5 DEF CommandsOnce
  <2> QED BY <2>1, <2>2, <2>3, <2>4
<1>9. ASSUME NEW n \in DOMAIN down', NEW id \in CarriedBy(n)'
      PROVE  /\ id \notin Executing'
             /\ \A j \in DOMAIN up' : ~ Completes(j, id)'
             /\ \A j \in DOMAIN down' : id \in CarriedBy(j)' => j = n
  <2>1. CASE n = last
    BY <1>4, <1>5, <1>6, <1>7, <1>9, <2>1
  <2>2. CASE n \in DOMAIN down
    <3>1. id \in CarriedBy(n) /\ id \in Ids /\ id \notin new
      BY <1>4, <1>6, <1>7, <1>9, <2>2
    <3>2. \A j \in DOMAIN up' : ~ Completes(j, id)'
      BY <1>5, <2>2, <3>1 DEF CommandsOnce
    <3>3. \A j \in DOMAIN down' : id \in CarriedBy(j)' => j = n
      BY <1>4, <2>2, <3>1 DEF CommandsOnce
    <3> QED BY <2>2, <3>1, <3>2, <3>3 DEF CommandsOnce
  <2> QED BY <1>4, <2>1, <2>2
<1>10. \A id \in Executing' : \A j \in DOMAIN up' : ~ Completes(j, id)'
  BY <1>5, <1>6 DEF CommandsOnce
<1>11. \A i, j \in DOMAIN up' : \A id \in Ids : Completes(i, id)' /\ Completes(j, id)' => i = j
  <2> SUFFICES ASSUME NEW i \in DOMAIN up', NEW j \in DOMAIN up', NEW id \in Ids,
                      Completes(i, id)', Completes(j, id)'
               PROVE  i = j
    OBVIOUS
  <2>1. i + d = j + d
    BY <1>5 DEF CommandsOnce
  <2> QED BY <1>5, <2>1
<1>12. Ids' = Ids
  BY DEF Ids
<1> QED BY <1>8, <1>9, <1>10, <1>11, <1>12 DEF CommandsOnce

(* A name stays what it was through a turn.                                 *)
LEMMA NamesKept ==
    ASSUME SessionInv, nextId' \in Nat, NEW p, NEW u, Carries(p, u),
           NEW id \in Ids, NEW k, Names(id, k)
    PROVE  Names(id, k)'
<1>1. id \in Nat /\ nextId \in Nat /\ id < nextId /\ nextId <= nextId'
  BY DEF Ids, Names, Carries, SessionInv, ProgramInv, ProgramTypeOK
<1>2. ASSUME NEW l \in DOMAIN activeSubs', activeSubs'[l].id = id
      PROVE  l = k
  <2>1. l \in DOMAIN activeSubs /\ activeSubs[l].id = id
    BY <1>1, <1>2 DEF Carries
  <2> QED BY <2>1 DEF Names
<1>3. id < nextId'
  BY <1>1
<1> QED BY <1>2, <1>3 DEF Names

LEMMA PushNames ==
    ASSUME SessionInv, NamesAgree, nextId' \in Nat,
           NEW to \in Models, NEW u, NEW p, Carries(p, u),
           down' = Append(down, Pushed(model, to, u)),
           NEW d \in {0, 1}, Leaves(d),
           UNCHANGED intervals, phase' = "mounted" => phase = "mounted"
    PROVE  NamesAgree'
<1>1. u \in Updates
  BY DEF Carries
<1>2. PICK last \in Nat : last = Len(down) + 1
  BY DownTyped
<1>3. /\ DOMAIN down = 1 .. Len(down) /\ Len(down) \in Nat
      /\ DOMAIN down' = 1 .. last
      /\ \A n \in DOMAIN down : down'[n] = down[n]
      /\ down'[last].update = u
  BY <1>1, <1>2, PushedDown
<1>4. ASSUME phase' = "mounted", NEW id \in DOMAIN intervals', NEW k, k = intervals'[id]
      PROVE  Names(id, k)'
  <2>1. id \in Ids /\ Names(id, k)
    BY <1>4 DEF NamesAgree, SessionInv, ShimTypeOK
  <2> QED BY <2>1, NamesKept
<1>5. ASSUME NEW n \in DOMAIN down', NEW id \in DOMAIN down'[n].update.starts,
             NEW k, k = down'[n].update.starts[id]
      PROVE  Names(id, k)'
  <2>1. CASE n \in DOMAIN down
    <3>1. id \in Ids /\ Names(id, k)
      BY <1>3, <1>5, <2>1, DownTyped DEF NamesAgree
    <3> QED BY <3>1, NamesKept
  <2>2. CASE n = last
    BY <1>3, <1>5, <2>2 DEF Carries, Names
  <2> QED BY <1>2, <1>3, <2>1, <2>2
<1>6. ASSUME NEW n \in DOMAIN up', up'[n].kind = "notify",
             NEW id, NEW k, id = up'[n].at, k = up'[n].of
      PROVE  Names(id, k)'
  <2>1. n + d \in DOMAIN up /\ up'[n] = up[n + d]
    BY DEF Leaves
  <2>2. up[n + d] \in Frames
    BY <2>1, UpTyped
  <2>3. id \in Ids
    BY <1>6, <2>1, <2>2 DEF Frames
  <2>4. Names(id, k)
    BY <1>6, <2>1 DEF NamesAgree
  <2> QED BY <2>3, <2>4, NamesKept
<1> QED BY <1>4, <1>5, <1>6 DEF NamesAgree, Names

LEMMA PushTimers ==
    ASSUME SessionInv, TimersComing, nextId' \in Nat,
           NEW to \in Models, NEW u, NEW p, Carries(p, u), Retimes(u),
           down' = Append(down, Pushed(model, to, u)),
           UNCHANGED intervals, phase' = "mounted" <=> phase = "mounted"
    PROVE  TimersComing'
<1>1. /\ u \in Updates
      /\ nextId \in Nat /\ nextId <= nextId'
      /\ \A id \in DOMAIN u.starts : id >= nextId
      /\ \A id \in u.stops : id < nextId
  <2>1. \A k \in DOMAIN activeSubs : activeSubs[k].id < nextId
    BY DEF SessionInv, ProgramInv, IdsIssued
  <2>2. nextId \in Nat
    BY DEF SessionInv, ProgramInv, ProgramTypeOK
  <2> QED BY <2>1, <2>2 DEF Carries
<1>2. PICK last \in Nat : last = Len(down) + 1
  BY DownTyped
<1>3. /\ DOMAIN down = 1 .. Len(down) /\ Len(down) \in Nat
      /\ DOMAIN down' = 1 .. last
      /\ \A n \in DOMAIN down : down'[n] = down[n]
      /\ down'[last].update = u
  BY <1>1, <1>2, PushedDown
<1>4. DOMAIN u.starts \subseteq Ids /\ u.stops \subseteq Ids
  <2>1. u.starts \in IdMaps(Keys) /\ u.stops \subseteq Ids
    BY <1>1 DEF Updates
  <2> QED BY <2>1, IdMapTyped
<1>5. \A n \in DOMAIN down :
          DOMAIN down[n].update.starts \subseteq Ids /\ down[n].update.stops \subseteq Ids
  BY DownTyped
<1>6. /\ DOMAIN down' = DOMAIN down \cup {last} /\ last \notin DOMAIN down
      /\ \A n \in DOMAIN down : n < last
  BY <1>2, <1>3
<1>7. ASSUME NEW id \in Ids
      PROVE  Timed(id)' /\ ~ Doomed(id)'
                <=> \E k \in DOMAIN activeSubs' \cap EveryKeys : activeSubs'[k].id = id
  <2>1. Timed(id)' <=> Timed(id) \/ id \in StartedEvery(u.starts)
    BY <1>3, <1>6 DEF Timed, StartedBy
  <2>2. Doomed(id)' <=> Doomed(id) \/ id \in u.stops
    BY <1>3, <1>6 DEF Doomed
  <2>3. id \in StartedEvery(u.starts) => ~ Doomed(id)
    <3> SUFFICES ASSUME id \in StartedEvery(u.starts), NEW n \in DOMAIN down,
                        id \in down[n].update.stops
                 PROVE  FALSE
      BY DEF Doomed
    <3>1. id >= nextId /\ id \in Nat
      BY <1>1 DEF StartedEvery, Ids
    <3>2. id < nextId
      BY DEF TimersComing
    <3> QED BY <1>1, <3>1, <3>2
  <2>4. Timed(id) /\ ~ Doomed(id)
            <=> \E k \in DOMAIN activeSubs \cap EveryKeys : activeSubs[k].id = id
    BY DEF TimersComing
  <2> QED BY <2>1, <2>2, <2>3, <2>4 DEF Retimes
<1>8. ASSUME NEW n \in DOMAIN down', NEW id \in down'[n].update.stops
      PROVE  /\ id < nextId'
             /\ \A j \in DOMAIN down' : id \in DOMAIN down'[j].update.starts => j <= n
  <2>1. id < nextId /\ id \in Nat
    <3>1. CASE n = last
      BY <1>1, <1>3, <1>4, <1>8, <3>1 DEF Ids
    <3>2. CASE n \in DOMAIN down
      BY <1>3, <1>5, <1>8, <3>2 DEF TimersComing, Ids
    <3> QED BY <1>6, <3>1, <3>2
  <2>2. ASSUME NEW j \in DOMAIN down', id \in DOMAIN down'[j].update.starts
        PROVE  j <= n
    <3>1. CASE n = last
      BY <1>2, <1>3, <3>1
    <3>2. CASE n \in DOMAIN down /\ j \in DOMAIN down
      BY <1>3, <1>8, <2>2, <3>2 DEF TimersComing
    <3>3. j # last
      BY <1>1, <1>3, <2>1, <2>2
    <3> QED BY <1>6, <3>1, <3>2, <3>3
  <2> QED BY <1>1, <2>1, <2>2
<1> QED BY <1>7, <1>8 DEF TimersComing, Ids

-----------------------------------------------------------------------------
(* The page carries out the update at the head of the queue, on the         *)
(* commands f and timers t it has.                                          *)
Applies(f, t) ==
    /\ down # <<>>
    /\ down' = Tail(down)
    /\ screen' = Head(down).to
    /\ phase' = "mounted"
    /\ inflight' = Executed(f, Head(down).update.cmds)
    /\ intervals' = Retimed(t, Head(down).update)
    /\ DOMAIN f = Executing
    /\ DOMAIN t = IF phase = "mounted" THEN DOMAIN intervals ELSE {}
    /\ \A id \in DOMAIN f : f[id] = inflight[id]
    /\ \A id \in DOMAIN t : t[id] = intervals[id]
    /\ UNCHANGED <<progVars, up, drops>>

LEMMA AppliedDown ==
    ASSUME SessionInv, NEW f, NEW t, Applies(f, t)
    PROVE  /\ down' \in Seq(Pushes)
           /\ Len(down) \in Nat \ {0} /\ DOMAIN down = 1 .. Len(down)
           /\ DOMAIN down' = 1 .. Len(down) - 1
           /\ Len(down') = Len(down) - 1
           /\ 1 \in DOMAIN down
           /\ \A n \in DOMAIN down' : n + 1 \in DOMAIN down /\ down'[n] = down[n + 1]
           /\ \A n \in DOMAIN down : n # 1 => n - 1 \in DOMAIN down' /\ down'[n - 1] = down[n]
           /\ down' = <<>> <=> Len(down) = 1
           /\ screen' = down[1].to
           /\ inflight' = Executed(f, down[1].update.cmds)
           /\ intervals' = Retimed(t, down[1].update)
<1>1. down \in Seq(Pushes) /\ down # <<>> /\ down' = Tail(down)
  BY DEF SessionInv, Applies
<1>2. /\ down' \in Seq(Pushes)
      /\ Len(down) \in Nat \ {0} /\ DOMAIN down = 1 .. Len(down)
      /\ Head(down) = down[1]
      /\ DOMAIN down' = 1 .. Len(down) - 1
      /\ Len(down') = Len(down) - 1
      /\ \A n \in DOMAIN down' : down'[n] = down[n + 1]
      /\ down' = <<>> <=> Len(down) = 1
  BY <1>1, TailOf
<1>3. ASSUME NEW n \in DOMAIN down, n # 1
      PROVE  n - 1 \in DOMAIN down' /\ down'[n - 1] = down[n]
  <2>1. n - 1 \in DOMAIN down' /\ (n - 1) + 1 = n
    BY <1>2, <1>3
  <2> QED BY <1>2, <2>1
<1>4. 1 \in DOMAIN down /\ \A n \in DOMAIN down' : n + 1 \in DOMAIN down
  BY <1>2
<1> QED BY <1>2, <1>3, <1>4 DEF Applies

LEMMA ApplyChains ==
    ASSUME SessionInv, Chained, NEW f, NEW t, Applies(f, t)
    PROVE  Chained'
<1>1. /\ Len(down) \in Nat \ {0} /\ DOMAIN down = 1 .. Len(down)
      /\ DOMAIN down' = 1 .. Len(down) - 1
      /\ Len(down') = Len(down) - 1
      /\ \A n \in DOMAIN down' : n + 1 \in DOMAIN down /\ down'[n] = down[n + 1]
      /\ down' = <<>> <=> Len(down) = 1
      /\ screen' = down[1].to
      /\ down # <<>> /\ model' = model
  BY AppliedDown DEF Applies, progVars
<1>2. ASSUME NEW n \in DOMAIN down', n + 1 \in DOMAIN down'
      PROVE  down'[n].to = down'[n + 1].from
  BY <1>1, <1>2 DEF Chained
<1>3. down' # <<>> => down'[Len(down')].to = model'
  <2> SUFFICES ASSUME down' # <<>> PROVE down'[Len(down')].to = model'
    OBVIOUS
  <2>1. Len(down') \in DOMAIN down' /\ Len(down') + 1 = Len(down)
    BY <1>1
  <2> QED BY <1>1, <2>1 DEF Chained
<1>4. IF down' = <<>> THEN screen' = model' ELSE down'[1].from = screen'
  <2>1. CASE down' = <<>>
    BY <1>1, <2>1 DEF Chained
  <2>2. CASE down' # <<>>
    <3>1. 1 \in DOMAIN down' /\ 1 \in DOMAIN down /\ 1 + 1 \in DOMAIN down
      BY <1>1, <2>2
    <3>2. down'[1].from = down[1 + 1].from
      BY <1>1, <3>1
    <3> QED BY <1>1, <2>2, <3>1, <3>2 DEF Chained
  <2> QED BY <2>1, <2>2
<1> QED BY <1>2, <1>3, <1>4 DEF Chained

LEMMA ApplyCommands ==
    ASSUME SessionInv, CommandsOnce, NEW f, NEW t, Applies(f, t)
    PROVE  CommandsOnce'
<1>1. /\ 1 \in DOMAIN down
      /\ \A n \in DOMAIN down' : n \in Nat \ {0} /\ n + 1 \in DOMAIN down /\ down'[n] = down[n + 1]
      /\ \A n \in DOMAIN down : n \in Nat \ {0}
      /\ \A n \in DOMAIN down : n # 1 => n - 1 \in DOMAIN down' /\ down'[n - 1] = down[n]
      /\ inflight' = Executed(f, down[1].update.cmds)
  BY AppliedDown
<1>2. \A n \in DOMAIN down' : CarriedBy(n)' = CarriedBy(n + 1) /\ n + 1 # 1
  BY <1>1 DEF CarriedBy
<1>3. Executing' = Executing \cup CarriedBy(1)
  <2>1. Executing' = DOMAIN inflight'
    BY DEF Executing, Applies
  <2>2. DOMAIN inflight' = DOMAIN f \cup Executable(down[1].update.cmds)
    BY <1>1 DEF Executed
  <2> QED BY <2>1, <2>2 DEF Applies, CarriedBy
<1>4. /\ DOMAIN up' = DOMAIN up /\ pending' = pending
      /\ \A n \in DOMAIN up, id \in Ids : Completes(n, id)' <=> Completes(n, id)
  BY DEF Applies, Completes, progVars
<1>5. \A id : (\E n \in DOMAIN down' : id \in CarriedBy(n)')
                 <=> \E n \in DOMAIN down : n # 1 /\ id \in CarriedBy(n)
  <2> TAKE id
  <2>1. ASSUME NEW n \in DOMAIN down, n # 1, id \in CarriedBy(n)
        PROVE  n - 1 \in DOMAIN down' /\ id \in CarriedBy(n - 1)'
    BY <1>1, <2>1 DEF CarriedBy
  <2> QED BY <1>1, <1>2, <2>1
<1>6. /\ \A n \in DOMAIN down : CarriedBy(n) \subseteq Ids
      /\ Executing \subseteq Ids
  BY DownTyped DEF SessionInv, ShimTypeOK, Executing
<1>7. ASSUME NEW id \in Ids
      PROVE  id \in DOMAIN pending' <=> \/ \E n \in DOMAIN down' : id \in CarriedBy(n)'
                                        \/ id \in Executing'
                                        \/ \E n \in DOMAIN up' : Completes(n, id)'
  <2>1. (\E n \in DOMAIN up' : Completes(n, id)') <=> \E n \in DOMAIN up : Completes(n, id)
    BY <1>4
  <2>2. id \in DOMAIN pending <=> \/ \E n \in DOMAIN down : id \in CarriedBy(n)
                                  \/ id \in Executing
                                  \/ \E n \in DOMAIN up : Completes(n, id)
    BY DEF CommandsOnce
  <2> QED BY <1>1, <1>3, <1>4, <1>5, <2>1, <2>2
<1>8. ASSUME NEW n \in DOMAIN down', NEW id \in CarriedBy(n)'
      PROVE  /\ id \notin Executing'
             /\ \A j \in DOMAIN up' : ~ Completes(j, id)'
             /\ \A j \in DOMAIN down' : id \in CarriedBy(j)' => j = n
  <2>1. n + 1 \in DOMAIN down /\ id \in CarriedBy(n + 1) /\ n + 1 # 1 /\ id \in Ids
    BY <1>1, <1>2, <1>6, <1>8
  <2>2. id \notin Executing'
    BY <1>1, <1>3, <2>1 DEF CommandsOnce
  <2>3. \A j \in DOMAIN up' : ~ Completes(j, id)'
    BY <1>4, <2>1 DEF CommandsOnce
  <2>4. ASSUME NEW j \in DOMAIN down', id \in CarriedBy(j)'
        PROVE  j = n
    <3>1. j + 1 \in DOMAIN down /\ id \in CarriedBy(j + 1)
      BY <1>1, <1>2, <2>4
    <3>2. j + 1 = n + 1
      BY <2>1, <3>1 DEF CommandsOnce
    <3> QED BY <1>1, <3>2
  <2> QED BY <2>2, <2>3, <2>4
<1>9. \A id \in Executing' : \A j \in DOMAIN up' : ~ Completes(j, id)'
  BY <1>1, <1>3, <1>4, <1>6 DEF CommandsOnce
<1>10. \A i, j \in DOMAIN up' : \A id \in Ids : Completes(i, id)' /\ Completes(j, id)' => i = j
  BY <1>4 DEF CommandsOnce
<1>11. Ids' = Ids
  BY DEF Ids
<1> QED BY <1>7, <1>8, <1>9, <1>10, <1>11 DEF CommandsOnce

LEMMA ApplyNames ==
    ASSUME SessionInv, NamesAgree, NEW f, NEW t, Applies(f, t)
    PROVE  NamesAgree'
<1>1. /\ 1 \in DOMAIN down
      /\ \A n \in DOMAIN down' : n + 1 \in DOMAIN down /\ down'[n] = down[n + 1]
      /\ intervals' = Retimed(t, down[1].update)
  BY AppliedDown
<1>2. /\ UNCHANGED <<nextId, activeSubs, up>>
      /\ DOMAIN t = IF phase = "mounted" THEN DOMAIN intervals ELSE {}
      /\ \A id \in DOMAIN t : t[id] = intervals[id]
  BY DEF Applies, progVars
<1>3. \A id, k : Names(id, k) => Names(id, k)'
  BY <1>2 DEF Names
<1>4. ASSUME NEW id \in DOMAIN intervals', NEW k, k = intervals'[id]
      PROVE  Names(id, k)
  <2>1. CASE id \in StartedEvery(down[1].update.starts)
    <3>1. id \in DOMAIN down[1].update.starts /\ k = down[1].update.starts[id]
      BY <1>1, <1>4, <2>1 DEF Retimed, StartedEvery
    <3> QED BY <1>1, <3>1 DEF NamesAgree
  <2>2. CASE id \notin StartedEvery(down[1].update.starts)
    <3>1. id \in DOMAIN t /\ k = t[id]
      BY <1>1, <1>4, <2>2 DEF Retimed
    <3> QED BY <1>2, <3>1 DEF NamesAgree
  <2> QED BY <2>1, <2>2
<1>5. ASSUME NEW n \in DOMAIN down', NEW id \in DOMAIN down'[n].update.starts,
             NEW k, k = down'[n].update.starts[id]
      PROVE  Names(id, k)
  BY <1>1, <1>5 DEF NamesAgree
<1>6. ASSUME NEW n \in DOMAIN up', up'[n].kind = "notify",
             NEW id, NEW k, id = up'[n].at, k = up'[n].of
      PROVE  Names(id, k)
  BY <1>2, <1>6 DEF NamesAgree
<1>7. /\ \A id \in DOMAIN intervals' : \A k : k = intervals'[id] => Names(id, k)'
      /\ \A n \in DOMAIN down' : \A id \in DOMAIN down'[n].update.starts :
            \A k : k = down'[n].update.starts[id] => Names(id, k)'
      /\ \A n \in DOMAIN up' : up'[n].kind = "notify" =>
            \A id, k : id = up'[n].at /\ k = up'[n].of => Names(id, k)'
  BY <1>3, <1>4, <1>5, <1>6
<1> QED BY <1>7 DEF NamesAgree, Names

LEMMA ApplyTimers ==
    ASSUME SessionInv, TimersComing, NEW f, NEW t, Applies(f, t)
    PROVE  TimersComing'
<1>1. /\ 1 \in DOMAIN down
      /\ \A n \in DOMAIN down' : n \in Nat \ {0} /\ n + 1 \in DOMAIN down /\ down'[n] = down[n + 1]
      /\ \A n \in DOMAIN down : n \in Nat \ {0}
      /\ \A n \in DOMAIN down : n # 1 => n - 1 \in DOMAIN down' /\ down'[n - 1] = down[n]
      /\ intervals' = Retimed(t, down[1].update)
  BY AppliedDown
<1>2. /\ UNCHANGED <<nextId, activeSubs>> /\ phase' = "mounted"
      /\ DOMAIN t = IF phase = "mounted" THEN DOMAIN intervals ELSE {}
  BY DEF Applies, progVars
<1>3. \A n \in DOMAIN down' : StartedBy(n)' = StartedBy(n + 1) /\ n + 1 # 1
  BY <1>1 DEF StartedBy
<1>4. ASSUME NEW id \in Ids
      PROVE  Timed(id)' /\ ~ Doomed(id)' <=> Timed(id) /\ ~ Doomed(id)
  <2>1. Timed(id)' <=> \/ /\ id \in DOMAIN t \/ id \in StartedBy(1)
                          /\ id \notin down[1].update.stops
                       \/ \E n \in DOMAIN down : n # 1 /\ id \in StartedBy(n)
    <3>1. id \in DOMAIN intervals' <=> /\ id \in DOMAIN t \/ id \in StartedBy(1)
                                       /\ id \notin down[1].update.stops
      BY <1>1 DEF Retimed, StartedBy
    <3>2. (\E n \in DOMAIN down' : id \in StartedBy(n)')
             <=> \E n \in DOMAIN down : n # 1 /\ id \in StartedBy(n)
      <4>1. ASSUME NEW n \in DOMAIN down, n # 1, id \in StartedBy(n)
            PROVE  n - 1 \in DOMAIN down' /\ id \in StartedBy(n - 1)'
        BY <1>1, <4>1 DEF StartedBy
      <4> QED BY <1>1, <1>3, <4>1
    <3> QED BY <1>2, <3>1, <3>2 DEF Timed
  <2>2. Timed(id) <=> \/ id \in DOMAIN t \/ id \in StartedBy(1)
                      \/ \E n \in DOMAIN down : n # 1 /\ id \in StartedBy(n)
    BY <1>1, <1>2 DEF Timed
  <2>3. Doomed(id) <=> id \in down[1].update.stops \/ Doomed(id)'
    <3>1. ASSUME NEW n \in DOMAIN down, n # 1, id \in down[n].update.stops
          PROVE  n - 1 \in DOMAIN down' /\ id \in down'[n - 1].update.stops
      BY <1>1, <3>1
    <3>2. Doomed(id)' => Doomed(id)
      BY <1>1 DEF Doomed
    <3> QED BY <1>1, <3>1, <3>2 DEF Doomed
  <2>4. ASSUME id \in down[1].update.stops, NEW n \in DOMAIN down, n # 1, id \in StartedBy(n)
        PROVE  FALSE
    <3>1. id \in DOMAIN down[n].update.starts
      BY <2>4, DownTyped
    <3>2. n <= 1
      BY <1>1, <2>4, <3>1 DEF TimersComing
    <3> QED BY <1>1, <2>4, <3>2
  <2> QED BY <2>1, <2>2, <2>3, <2>4
<1>5. ASSUME NEW n \in DOMAIN down', NEW id \in down'[n].update.stops
      PROVE  /\ id < nextId'
             /\ \A j \in DOMAIN down' : id \in DOMAIN down'[j].update.starts => j <= n
  <2>1. n + 1 \in DOMAIN down /\ id \in down[n + 1].update.stops
    BY <1>1, <1>5
  <2>2. id < nextId'
    BY <1>2, <2>1 DEF TimersComing
  <2>3. ASSUME NEW j \in DOMAIN down', id \in DOMAIN down'[j].update.starts
        PROVE  j <= n
    <3>1. j + 1 \in DOMAIN down /\ id \in DOMAIN down[j + 1].update.starts
      BY <1>1, <2>3
    <3>2. j + 1 <= n + 1
      BY <2>1, <3>1 DEF TimersComing
    <3> QED BY <1>1, <3>2
  <2> QED BY <2>2, <2>3
<1> QED BY <1>2, <1>4, <1>5 DEF TimersComing, Ids

(* The shim's state keeps its types.                                        *)
LEMMA ApplyTyped ==
    ASSUME AppAssumption, EveryKeysAssumption, SessionInv, NEW f, NEW t, Applies(f, t),
           NEW pd \in Views, preventDefaults' = Ensured(pd, Head(down).update.events)
    PROVE  SessionInv'
<1>1. /\ 1 \in DOMAIN down
      /\ down' \in Seq(Pushes) /\ Len(down') = Len(down) - 1 /\ Len(down) \in Nat
      /\ screen' = down[1].to
      /\ inflight' = Executed(f, down[1].update.cmds)
      /\ intervals' = Retimed(t, down[1].update)
  BY AppliedDown
<1>2. /\ down[1].to \in Models
      /\ down[1].update.events \in Views
      /\ down[1].update.cmds \in IdMaps(CmdKinds)
      /\ down[1].update.starts \in IdMaps(Keys)
  BY <1>1, DownTyped DEF Updates
<1>3. preventDefaults' \in Views
  <2>1. Head(down) = down[1]
    BY TailOf DEF SessionInv, Applies
  <2> DEFINE pd2 == Ensured(pd, down[1].update.events)
  <2>2. DOMAIN pd2 \in SUBSET EventNames /\ \A e \in DOMAIN pd2 : pd2[e] \in BOOLEAN
    BY <1>2 DEF Views, Ensured
  <2>3. pd2 \in [DOMAIN pd2 -> BOOLEAN]
    BY <2>2 DEF Ensured
  <2> QED BY <2>1, <2>2, <2>3 DEF Views
<1>4. /\ DOMAIN inflight' \subseteq Ids
      /\ \A id \in DOMAIN inflight' : inflight'[id] \in Phases
  <2>1. DOMAIN f \subseteq Ids /\ \A id \in DOMAIN f : f[id] \in Phases
    BY DEF SessionInv, ShimTypeOK, Applies, Executing
  <2>2. Executable(down[1].update.cmds) \subseteq Ids
    BY <1>2, IdMapTyped DEF Executable
  <2> QED BY <1>1, <2>1, <2>2 DEF Executed, Phases
<1>5. /\ DOMAIN intervals' \subseteq Ids
      /\ \A id \in DOMAIN intervals' : intervals'[id] \in EveryKeys
  <2>1. DOMAIN t \subseteq Ids /\ \A id \in DOMAIN t : t[id] \in EveryKeys
    BY DEF SessionInv, ShimTypeOK, Applies
  <2>2. StartedEvery(down[1].update.starts) \subseteq Ids
    BY <1>2, IdMapTyped DEF StartedEvery
  <2> QED BY <1>1, <2>1, <2>2 DEF Retimed, StartedEvery
<1>6. ShimTypeOK'
  BY <1>3, <1>4, <1>5 DEF ShimTypeOK, Ids
<1>7. ProgramInv' /\ rendered' = rendered
  BY DEF SessionInv, Applies, progVars, ProgramInv, ProgramTypeOK, TreeIsView, IdsIssued,
         OneOwnerPerId, ActiveIds, LedgerFollowsModel
<1>8. down # <<>> /\ phase # "closed"
  BY DEF SessionInv, Applies
<1> QED BY <1>1, <1>2, <1>6, <1>7, <1>8 DEF SessionInv, Applies

-----------------------------------------------------------------------------
(* The page sends the frame g.                                              *)
Sends(g) ==
    /\ phase = "mounted"
    /\ up' = Append(up, g)
    /\ UNCHANGED <<progVars, phase, screen, down, drops, preventDefaults, intervals>>

LEMMA SentUp ==
    ASSUME SessionInv, NEW g \in Frames, Sends(g)
    PROVE  /\ up' \in Seq(Frames)
           /\ Len(up) \in Nat /\ DOMAIN up = 1 .. Len(up)
           /\ DOMAIN up' = 1 .. Len(up) + 1
           /\ \A n \in DOMAIN up : up'[n] = up[n]
           /\ up'[Len(up) + 1] = g
  BY AppendOf DEF SessionInv, Sends

LEMMA ProgramKept ==
    ASSUME ProgramInv, UNCHANGED progVars
    PROVE  ProgramInv'
  BY DEF progVars, ProgramInv, ProgramTypeOK, TreeIsView, IdsIssued, OneOwnerPerId,
         ActiveIds, LedgerFollowsModel

(* The queue down, the model and the tree stay as they are.                 *)
LEMMA DownKept ==
    ASSUME UNCHANGED <<progVars, phase, screen, down, intervals>>
    PROVE  /\ Chained => Chained'
           /\ TimersComing => TimersComing'
<1>1. UNCHANGED <<model, activeSubs, nextId, phase, screen, down, intervals>>
  BY DEF progVars
<1>2. Chained => Chained'
  BY <1>1 DEF Chained
<1>3. TimersComing => TimersComing'
  BY <1>1 DEF TimersComing, Timed, Doomed, StartedBy, Ids
<1> QED BY <1>2, <1>3

LEMMA SendSession ==
    ASSUME SessionInv, NEW g \in Frames, Sends(g),
           DOMAIN inflight' \subseteq DOMAIN inflight,
           \A id \in DOMAIN inflight' : inflight'[id] = inflight[id]
    PROVE  SessionInv'
<1>1. up' \in Seq(Frames)
  BY SentUp
<1>2. ProgramInv' /\ rendered' = rendered
  BY ProgramKept DEF SessionInv, Sends, progVars
<1>3. ShimTypeOK'
  BY DEF SessionInv, ShimTypeOK, Sends, Ids
<1> QED BY <1>1, <1>2, <1>3 DEF SessionInv, Sends

LEMMA SendNames ==
    ASSUME SessionInv, NamesAgree, NEW g \in Frames, Sends(g),
           g.kind = "notify" => Names(g.at, g.of)
    PROVE  NamesAgree'
<1>1. PICK last \in Nat : last = Len(up) + 1
  BY UpTyped
<1>2. /\ DOMAIN up' = DOMAIN up \cup {last}
      /\ \A n \in DOMAIN up : up'[n] = up[n]
      /\ up'[last] = g
  <2>1. /\ DOMAIN up = 1 .. Len(up) /\ DOMAIN up' = 1 .. last /\ Len(up) \in Nat
        /\ \A n \in DOMAIN up : up'[n] = up[n]
        /\ up'[last] = g
    BY <1>1, SentUp
  <2> QED BY <1>1, <2>1
<1>3. UNCHANGED <<nextId, activeSubs, phase, down, intervals>>
  BY DEF Sends, progVars
<1>4. ASSUME NEW n \in DOMAIN up', up'[n].kind = "notify",
             NEW id, NEW k, id = up'[n].at, k = up'[n].of
      PROVE  Names(id, k)
  BY <1>2, <1>4 DEF NamesAgree
<1> QED BY <1>3, <1>4 DEF NamesAgree, Names

LEMMA SendCommands ==
    ASSUME SessionInv, CommandsOnce, NEW g \in Frames, Sends(g),
           \/ g.kind # "resolve" /\ inflight' = inflight
           \/ /\ g.kind = "resolve"
              /\ g.at \in DOMAIN inflight
              /\ DOMAIN inflight' = DOMAIN inflight \ {g.at}
    PROVE  CommandsOnce'
<1>1. PICK last \in Nat : last = Len(up) + 1
  BY UpTyped
<1>2. /\ DOMAIN up' = DOMAIN up \cup {last} /\ last \notin DOMAIN up
      /\ \A n \in DOMAIN up : up'[n] = up[n]
      /\ up'[last] = g
  <2>1. /\ DOMAIN up = 1 .. Len(up) /\ DOMAIN up' = 1 .. last /\ Len(up) \in Nat
        /\ \A n \in DOMAIN up : up'[n] = up[n]
        /\ up'[last] = g
    BY <1>1, SentUp
  <2> QED BY <1>1, <2>1
<1>3. /\ \A n \in DOMAIN up, id \in Ids : Completes(n, id)' <=> Completes(n, id)
      /\ \A id \in Ids : \A n : n = last =>
            (Completes(n, id)' <=> g.kind = "resolve" /\ g.at = id)
  BY <1>2 DEF Completes
<1>4. /\ UNCHANGED <<pending, down>>
      /\ \A n \in DOMAIN down : CarriedBy(n)' = CarriedBy(n)
      /\ Executing = DOMAIN inflight /\ Executing' = DOMAIN inflight'
  BY DEF Sends, progVars, CarriedBy, Executing
<1>5. /\ \A n \in DOMAIN down : CarriedBy(n) \subseteq Ids
      /\ Executing \subseteq Ids
  BY DownTyped DEF SessionInv, ShimTypeOK, Executing
<1>6. ASSUME NEW id \in Ids
      PROVE  id \in DOMAIN pending' <=> \/ \E n \in DOMAIN down' : id \in CarriedBy(n)'
                                        \/ id \in Executing'
                                        \/ \E n \in DOMAIN up' : Completes(n, id)'
  <2>1. (\E n \in DOMAIN up' : Completes(n, id)')
            <=> (\E n \in DOMAIN up : Completes(n, id)) \/ (g.kind = "resolve" /\ g.at = id)
    BY <1>2, <1>3
  <2>2. id \in Executing <=> id \in Executing' \/ (g.kind = "resolve" /\ g.at = id)
    BY <1>4
  <2>3. id \in DOMAIN pending <=> \/ \E n \in DOMAIN down : id \in CarriedBy(n)
                                  \/ id \in Executing
                                  \/ \E n \in DOMAIN up : Completes(n, id)
    BY DEF CommandsOnce
  <2> QED BY <1>4, <2>1, <2>2, <2>3
<1>7. ASSUME NEW n \in DOMAIN down', NEW id \in CarriedBy(n)'
      PROVE  /\ id \notin Executing'
             /\ \A j \in DOMAIN up' : ~ Completes(j, id)'
             /\ \A j \in DOMAIN down' : id \in CarriedBy(j)' => j = n
  <2>1. n \in DOMAIN down /\ id \in CarriedBy(n) /\ id \in Ids
    BY <1>4, <1>5, <1>7
  <2>2. id \notin Executing /\ id \notin Executing' /\ ~ (g.kind = "resolve" /\ g.at = id)
    BY <1>4, <2>1 DEF CommandsOnce
  <2>3. \A j \in DOMAIN up' : ~ Completes(j, id)'
    BY <1>2, <1>3, <2>1, <2>2 DEF CommandsOnce
  <2> QED BY <1>4, <2>1, <2>2, <2>3 DEF CommandsOnce
<1>8. ASSUME NEW id \in Executing' PROVE \A j \in DOMAIN up' : ~ Completes(j, id)'
  <2>1. id \in Executing /\ id \in Ids /\ ~ (g.kind = "resolve" /\ g.at = id)
    BY <1>4, <1>5, <1>8
  <2> QED BY <1>2, <1>3, <2>1 DEF CommandsOnce
<1>9. ASSUME NEW i \in DOMAIN up', NEW j \in DOMAIN up', NEW id \in Ids,
             Completes(i, id)', Completes(j, id)'
      PROVE  i = j
  <2>1. CASE i = last /\ j \in DOMAIN up
    <3>1. id \in Executing /\ Completes(j, id)
      BY <1>3, <1>4, <1>9, <2>1
    <3> QED BY <2>1, <3>1 DEF CommandsOnce
  <2>2. CASE j = last /\ i \in DOMAIN up
    <3>1. id \in Executing /\ Completes(i, id)
      BY <1>3, <1>4, <1>9, <2>2
    <3> QED BY <2>2, <3>1 DEF CommandsOnce
  <2>3. CASE i \in DOMAIN up /\ j \in DOMAIN up
    BY <1>3, <1>9, <2>3 DEF CommandsOnce
  <2> QED BY <1>2, <2>1, <2>2, <2>3
<1>10. Ids' = Ids
  BY DEF Ids
<1> QED BY <1>6, <1>7, <1>8, <1>9, <1>10 DEF CommandsOnce

-----------------------------------------------------------------------------
LiveInv == SessionInv /\ Chained /\ CommandsOnce /\ NamesAgree

(* The timers are followed for the applications that ask once for each.     *)
TimersFollow == NoDuplicateSubs => TimersComing

(* A turn of the Program, its update sent.                                  *)
LEMMA TurnKeepsLive ==
    ASSUME AppAssumption, LiveInv, TimersFollow, ProgramInv',
           NEW m \in Models, NEW c \in CmdLists, NEW p,
           DOMAIN p \subseteq DOMAIN pending,
           \A id \in DOMAIN p : p[id] = pending[id],
           Settle(p, m, c), model' = m,
           down' = Append(down, Pushed(model, m, UpdateOf(m, c))),
           NEW d \in {0, 1}, Leaves(d),
           \A id \in Ids :
               id \in DOMAIN p
                 <=> id \in DOMAIN pending /\ ~ (d = 1 /\ 1 \in DOMAIN up /\ Completes(1, id)),
           UNCHANGED shimVars, UNCHANGED screen, phase' = "mounted" <=> phase = "mounted"
    PROVE  /\ Chained' /\ CommandsOnce' /\ NamesAgree' /\ TimersFollow'
           /\ down' \in Seq(Pushes) /\ Len(down') = Len(down) + 1
<1> DEFINE u == UpdateOf(m, c)
<1>1. Carries(p, u) /\ u \in Updates
  BY TurnCarries DEF LiveInv, SessionInv, Carries
<1>2. NoDuplicateSubs => Retimes(u)
  BY TurnRetimes DEF LiveInv, SessionInv, ProgramInv
<1>3. /\ nextId' \in Nat /\ OneOwnerPerId'
      /\ UNCHANGED <<intervals, inflight>>
      /\ Executing' = Executing
  BY DEF ProgramInv, ProgramTypeOK, shimVars, Executing
<1> HIDE DEF u
<1>4. Chained'
  BY <1>1, PushChains DEF LiveInv, u
<1>5. CommandsOnce'
  BY <1>1, <1>3, PushCommands DEF LiveInv, u
<1>6. NamesAgree'
  BY <1>1, <1>3, PushNames DEF LiveInv, u
<1>7. TimersFollow'
  BY <1>1, <1>2, <1>3, PushTimers DEF LiveInv, u, TimersFollow, NoDuplicateSubs
<1>8. down' \in Seq(Pushes) /\ Len(down') = Len(down) + 1
  BY <1>1, PushedDown DEF LiveInv, u
<1> QED BY <1>4, <1>5, <1>6, <1>7, <1>8

LEMMA OpenKeepsLive ==
    ASSUME AppAssumption, LiveInv, TimersFollow, Open
    PROVE  LiveInv' /\ TimersFollow'
<1>1. /\ ProgramInv /\ model \in Models /\ initCmds \in CmdLists
      /\ up = <<>> /\ down = <<>>
      /\ InitialRender
      /\ UNCHANGED <<shimVars, screen, up, drops>>
      /\ phase = "closed" /\ phase' = "opening"
  BY DEF LiveInv, SessionInv, ProgramInv, ProgramTypeOK, Open
<1>2. ProgramInv'
  <2>1. [ProgramNext]_progVars
    BY <1>1 DEF ProgramNext
  <2> QED BY <1>1, <2>1, NextKeepsInv
<1>3. Settle(pending, model, initCmds) /\ model' = model /\ rendered'
  BY <1>1 DEF InitialRender
<1>4. down' = Append(down, Pushed(model, model, UpdateOf(model, initCmds)))
  <2>1. Append(<<>>, Pushed(model, model, UpdateOf(model, initCmds)))
            = <<Pushed(model, model, UpdateOf(model, initCmds))>>
    OBVIOUS
  <2> QED BY <1>1, <2>1 DEF Open
<1>5. Leaves(0)
  BY <1>1 DEF Leaves
<1>6. /\ Chained' /\ CommandsOnce' /\ NamesAgree' /\ TimersFollow'
      /\ down' \in Seq(Pushes) /\ Len(down') = Len(down) + 1
  <2>1. /\ DOMAIN pending \subseteq DOMAIN pending
        /\ \A id \in DOMAIN pending : pending[id] = pending[id]
        /\ \A id \in Ids : id \in DOMAIN pending
              <=> id \in DOMAIN pending /\ ~ (0 = 1 /\ 1 \in DOMAIN up /\ Completes(1, id))
        /\ phase' = "mounted" <=> phase = "mounted"
        /\ 0 \in {0, 1}
    BY <1>1
  <2> QED BY <1>1, <1>2, <1>3, <1>4, <1>5, <2>1, TurnKeepsLive
<1>7. SessionInv'
  <2>1. ShimTypeOK' /\ screen' \in Models /\ up' \in Seq(Frames) /\ drops' \in 0 .. MaxDrops
    BY <1>1 DEF LiveInv, SessionInv, ShimTypeOK, shimVars, Ids
  <2>2. rendered' = (phase' # "closed")
    <3>1. rendered' \in BOOLEAN
      BY <1>2 DEF ProgramInv, ProgramTypeOK
    <3> QED BY <1>1, <1>3, <3>1
  <2>3. Len(down') = 1 /\ phase' # "mounted" => up' = <<>>
    BY <1>1, <1>6
  <2> QED BY <1>1, <1>2, <1>6, <2>1, <2>2, <2>3 DEF SessionInv
<1> QED BY <1>6, <1>7 DEF LiveInv

LEMMA ServeKeepsLive ==
    ASSUME AppAssumption, LiveInv, TimersFollow, Serve
    PROVE  LiveInv' /\ TimersFollow'
<1>1. /\ ProgramInv /\ ShimTypeOK /\ up \in Seq(Frames) /\ up # <<>>
      /\ phase = "mounted"
  BY DEF LiveInv, SessionInv, Serve
<1>2. /\ Head(up) = up[1] /\ 1 \in DOMAIN up /\ up[1] \in Frames
      /\ Tail(up) \in Seq(Frames)
      /\ Len(up) \in Nat \ {0} /\ DOMAIN up = 1 .. Len(up)
      /\ DOMAIN Tail(up) = 1 .. Len(up) - 1
      /\ \A n \in DOMAIN Tail(up) : Tail(up)[n] = up[n + 1]
  <2>1. 1 \in 1 .. Len(up)
    BY <1>1, TailOf
  <2> QED BY <1>1, <2>1, TailOf
<1>3. up' = Tail(up) /\ UNCHANGED <<shimVars, phase, screen, drops>>
  BY DEF Serve, Answer
<1>4. Leaves(1)
  BY <1>2, <1>3 DEF Leaves
<1>5. ShimTypeOK' /\ screen' \in Models /\ up' \in Seq(Frames) /\ drops' \in 0 .. MaxDrops
      /\ phase' = "mounted"
  BY <1>1, <1>2, <1>3 DEF LiveInv, SessionInv, ShimTypeOK, shimVars, Ids
<1>6. ASSUME NEW m \in Models, NEW c \in CmdLists,
             Turns(Head(up), m, c), Answer(m, UpdateOf(m, c))
      PROVE  LiveInv' /\ TimersFollow'
  <2>1. PICK p : /\ DOMAIN p \subseteq DOMAIN pending
                 /\ \A id \in DOMAIN p : p[id] = pending[id]
                 /\ Step(p, m, c)
                 /\ \A id \in Ids : id \in DOMAIN p
                        <=> id \in DOMAIN pending /\ ~ Completes(1, id)
    <3>1. CASE up[1].kind = "resolve"
      <4> DEFINE q == Without(pending, up[1].at)
      <4>1. /\ DOMAIN q = DOMAIN pending \ {up[1].at}
            /\ \A id \in DOMAIN q : q[id] = pending[id]
        BY DEF Without
      <4>2. Step(q, m, c)
        BY <1>2, <1>6, <3>1 DEF Turns, Resolve
      <4>3. \A id \in Ids : Completes(1, id) <=> id = up[1].at
        BY <3>1 DEF Completes
      <4> HIDE DEF q
      <4> QED BY <4>1, <4>2, <4>3
    <3>2. CASE up[1].kind # "resolve"
      <4>1. Step(pending, m, c)
        BY <1>2, <1>6, <3>2 DEF Turns, Dispatch, Notify
      <4>2. \A id \in Ids : ~ Completes(1, id)
        BY <3>2 DEF Completes
      <4> QED BY <4>1, <4>2
    <3> QED BY <3>1, <3>2
  <2>2. ProgramInv' /\ rendered' = rendered
    <3>1. initCmds' \in CmdLists /\ rendered' \in BOOLEAN /\ rendered' = rendered
      BY <1>1, <2>1 DEF Step, ProgramInv, ProgramTypeOK
    <3> QED BY <1>1, <2>1, <3>1, SettleKeepsInv DEF Step
  <2>3. /\ Chained' /\ CommandsOnce' /\ NamesAgree' /\ TimersFollow'
        /\ down' \in Seq(Pushes)
    BY <1>2, <1>3, <1>4, <1>6, <2>1, <2>2, TurnKeepsLive DEF Step, Answer
  <2>4. SessionInv'
    BY <1>1, <1>3, <1>5, <2>2, <2>3 DEF SessionInv, LiveInv
  <2> QED BY <2>3, <2>4 DEF LiveInv
<1>7. ASSUME Ignores(Head(up)), Answer(model, Noop)
      PROVE  LiveInv' /\ TimersFollow'
  <2>1. UNCHANGED progVars /\ up[1].kind # "resolve"
    BY <1>2, <1>7 DEF Ignores, DispatchMiss, NotifyUnknown
  <2>2. /\ UNCHANGED <<model, nextId, intervals, inflight>> /\ model \in Models /\ nextId \in Nat
        /\ Executing' = Executing
    BY <1>1, <1>3, <2>1 DEF progVars, shimVars, ProgramInv, ProgramTypeOK, Executing
  <2>3. Carries(pending, Noop) /\ Retimes(Noop) /\ Noop \in Updates
    BY <1>1, <2>1, NoopCarries DEF Carries
  <2>4. down' = Append(down, Pushed(model, model, Noop))
    BY <1>7 DEF Answer
  <2>5. \A id \in Ids : ~ Completes(1, id)
    BY <2>1 DEF Completes
  <2>6. Chained'
    BY <1>1, <1>3, <2>2, <2>3, <2>4, PushChains DEF LiveInv
  <2>7. CommandsOnce'
    BY <1>4, <2>2, <2>3, <2>4, <2>5, PushCommands DEF LiveInv
  <2>8. NamesAgree'
    BY <1>1, <1>4, <2>2, <2>3, <2>4, PushNames DEF LiveInv
  <2>9. TimersFollow'
    BY <1>1, <1>5, <2>2, <2>3, <2>4, PushTimers DEF LiveInv, TimersFollow, NoDuplicateSubs
  <2>10. ProgramInv' /\ rendered' = rendered
    BY <1>1, <2>1, ProgramKept DEF progVars
  <2>11. down' \in Seq(Pushes)
    BY <2>2, <2>3, <2>4, PushedDown DEF LiveInv
  <2>12. SessionInv'
    BY <1>1, <1>3, <1>5, <2>10, <2>11 DEF SessionInv, LiveInv
  <2> QED BY <2>6, <2>7, <2>8, <2>9, <2>12 DEF LiveInv
<1> QED BY <1>6, <1>7 DEF Serve

LEMMA ApplyKeepsLive ==
    ASSUME AppAssumption, EveryKeysAssumption, LiveInv, TimersFollow, LiveMount \/ Receive
    PROVE  LiveInv' /\ TimersFollow'
<1>1. /\ DOMAIN EmptyFn = {} /\ EmptyFn \in Views
      /\ preventDefaults \in Views
  <2>1. EmptyFn \in [{} -> BOOLEAN] /\ DOMAIN EmptyFn = {}
    BY DEF EmptyFn
  <2> QED BY <2>1 DEF Views, LiveInv, SessionInv, ShimTypeOK
<1>2. PICK f, t, pd : /\ Applies(f, t)
                      /\ pd \in Views
                      /\ preventDefaults' = Ensured(pd, Head(down).update.events)
  <2>1. CASE LiveMount
    <3>1. down # <<>>
      <4>1. Len(down) = 1
        BY <2>1 DEF LiveMount, LiveInv, SessionInv
      <4>2. Len(<<>>) = 0
        BY EmptySeq
      <4>3. Len(down) # Len(<<>>)
        BY <4>1, <4>2
      <4> QED BY <4>3, Zenon
    <3>2. Executing = {} /\ phase # "mounted"
      BY <2>1 DEF LiveMount, Executing
    <3>3. Applies(EmptyFn, EmptyFn)
      BY <1>1, <2>1, <3>1, <3>2 DEF LiveMount, Applies
    <3> QED BY <1>1, <2>1, <3>3 DEF LiveMount
  <2>2. CASE Receive
    <3>1. Applies(inflight, intervals)
      BY <2>2 DEF Receive, ShimStep, Applies, Executing
    <3> QED BY <1>1, <2>2, <3>1 DEF Receive, ShimStep
  <2> QED BY <2>1, <2>2
<1>3. SessionInv'
  BY <1>2, ApplyTyped DEF LiveInv
<1>4. Chained'
  BY <1>2, ApplyChains DEF LiveInv
<1>5. CommandsOnce'
  BY <1>2, ApplyCommands DEF LiveInv
<1>6. NamesAgree'
  BY <1>2, ApplyNames DEF LiveInv
<1>7. TimersFollow'
  BY <1>2, ApplyTimers DEF LiveInv, TimersFollow, NoDuplicateSubs
<1> QED BY <1>3, <1>4, <1>5, <1>6, <1>7 DEF LiveInv

LEMMA SendKeepsLive ==
    ASSUME LiveInv, TimersFollow, NEW g \in Frames, Sends(g),
           g.kind = "notify" => Names(g.at, g.of),
           \A id \in DOMAIN inflight' : inflight'[id] = inflight[id],
           \/ g.kind # "resolve" /\ inflight' = inflight
           \/ /\ g.kind = "resolve"
              /\ g.at \in DOMAIN inflight
              /\ DOMAIN inflight' = DOMAIN inflight \ {g.at}
    PROVE  LiveInv' /\ TimersFollow'
<1>1. SessionInv'
  BY SendSession DEF LiveInv
<1>2. CommandsOnce'
  BY SendCommands DEF LiveInv
<1>3. NamesAgree'
  BY SendNames DEF LiveInv
<1>4. Chained' /\ TimersFollow'
  BY DownKept DEF LiveInv, Sends, TimersFollow, NoDuplicateSubs
<1> QED BY <1>1, <1>2, <1>3, <1>4 DEF LiveInv

LEMMA ClickKeepsLive ==
    ASSUME LiveAssumption, LiveInv, TimersFollow, NEW i \in DOMAIN ItemsOf[screen], Click(i)
    PROVE  LiveInv' /\ TimersFollow'
<1> DEFINE g == DispatchFrame(i, ItemsOf[screen][i])
<1>1. ItemsOf[screen] \in Seq(Items)
  BY DEF LiveInv, SessionInv, LiveAssumption
<1>2. i \in 1 .. Len(ItemsOf[screen]) /\ Len(ItemsOf[screen]) \in Nat
  BY <1>1, LenProperties
<1>3. ItemsOf[screen][i] \in Items /\ i \in Nat
  BY <1>1, <1>2, ElementOfSeq
<1>4. g \in Frames /\ g.kind = "dispatch"
  BY <1>3 DEF DispatchFrame, Frames
<1>5. Sends(g) /\ inflight' = inflight
  BY DEF Click, HasRoom, Send, Sends, shimVars
<1> HIDE DEF g
<1> QED BY <1>4, <1>5, SendKeepsLive

LEMMA NotifyKeepsLive ==
    ASSUME LiveInv, TimersFollow, NEW id \in Ids, SendNotify(id)
    PROVE  LiveInv' /\ TimersFollow'
<1> DEFINE g == NotifyFrame(id, intervals[id])
<1>1. id \in DOMAIN intervals /\ intervals[id] \in EveryKeys /\ phase = "mounted"
  BY DEF SendNotify, HasRoom, LiveInv, SessionInv, ShimTypeOK
<1>2. g \in Frames /\ g.kind = "notify" /\ g.at = id /\ g.of = intervals[id]
  BY <1>1 DEF NotifyFrame, Frames
<1>3. Sends(g) /\ inflight' = inflight
  BY DEF SendNotify, HasRoom, Send, Sends, shimVars
<1>4. Names(id, intervals[id])
  BY <1>1 DEF LiveInv, NamesAgree
<1>5. Names(g.at, g.of)
  BY <1>2, <1>4
<1> HIDE DEF g
<1> QED BY <1>2, <1>3, <1>5, SendKeepsLive

LEMMA ProgressKeepsLive ==
    ASSUME LiveInv, TimersFollow, NEW id \in Ids, CommandProgresses(id)
    PROVE  LiveInv' /\ TimersFollow'
<1>1. CASE SendResolve(id) /\ id \in DOMAIN inflight
  <2> DEFINE g == ResolveFrame(id)
  <2>1. g \in Frames /\ g.kind = "resolve" /\ g.at = id
    BY DEF ResolveFrame, Frames
  <2>2. /\ Sends(g)
        /\ DOMAIN inflight' = DOMAIN inflight \ {id}
        /\ \A j \in DOMAIN inflight' : inflight'[j] = inflight[j]
    BY <1>1 DEF SendResolve, Send, Sends, Without
  <2> HIDE DEF g
  <2> QED BY <1>1, <2>1, <2>2, SendKeepsLive
<1>2. ASSUME NEW ph \in Phases, Moved(id, ph), UNCHANGED <<progVars, netVars>>
      PROVE  LiveInv' /\ TimersFollow'
  <2>1. /\ DOMAIN inflight' = DOMAIN inflight
        /\ \A j \in DOMAIN inflight' : inflight'[j] = inflight[j] \/ inflight'[j] = ph
        /\ UNCHANGED <<preventDefaults, intervals>>
    BY <1>2 DEF Moved
  <2>2. UNCHANGED <<progVars, phase, screen, up, down, drops>>
    BY <1>2 DEF netVars
  <2>3. ProgramInv' /\ rendered' = rendered
    BY <2>2, ProgramKept DEF LiveInv, SessionInv, progVars
  <2>4. ShimTypeOK'
    BY <1>2, <2>1 DEF LiveInv, SessionInv, ShimTypeOK, Ids
  <2>5. SessionInv'
    BY <2>2, <2>3, <2>4 DEF LiveInv, SessionInv
  <2>6. Chained' /\ TimersFollow'
    BY <2>1, <2>2, DownKept DEF LiveInv, TimersFollow, NoDuplicateSubs
  <2>7. NamesAgree'
    BY <2>1, <2>2 DEF LiveInv, NamesAgree, Names, progVars
  <2>8. CommandsOnce'
    BY <2>1, <2>2 DEF LiveInv, CommandsOnce, CarriedBy, Executing, Completes, progVars, Ids
  <2> QED BY <2>5, <2>6, <2>7, <2>8 DEF LiveInv
<1>3. CASE UNCHANGED <<progVars, netVars>> /\ (FetchResponds(id) \/ BodyFails(id))
  BY <1>2, <1>3 DEF FetchResponds, BodyFails, Phases
<1> QED BY <1>1, <1>3
        DEF CommandProgresses, TimeoutDue, FetchRejected, BodyArrived, InPhase

(* An empty wire between a page and a Program that has done nothing.        *)
LEMMA CutOff ==
    ASSUME AppAssumption, up = <<>>, down = <<>>, phase = "closed",
           DOMAIN pending = {}, DOMAIN activeSubs = {}
    PROVE  Chained /\ CommandsOnce /\ NamesAgree /\ TimersFollow
<1>1. DOMAIN up = {} /\ DOMAIN down = {} /\ Executing = {}
  BY DEF Executing
<1>2. Chained /\ CommandsOnce /\ NamesAgree
  BY <1>1 DEF Chained, CommandsOnce, NamesAgree
<1>3. TimersComing
  BY <1>1 DEF TimersComing, Timed, Doomed
<1> QED BY <1>2, <1>3 DEF TimersFollow

LEMMA InitLive ==
    AppAssumption /\ LiveAssumption /\ LiveInit => LiveInv /\ TimersFollow
<1> SUFFICES ASSUME AppAssumption, LiveAssumption, LiveInit PROVE LiveInv /\ TimersFollow
  OBVIOUS
<1>1. ProgramInv
  BY InitEstablishesInv DEF LiveInit
<1>2. /\ up = <<>> /\ down = <<>> /\ phase = "closed" /\ drops = 0 /\ screen = model
      /\ DOMAIN pending = {} /\ DOMAIN activeSubs = {}
      /\ DOMAIN inflight = {} /\ DOMAIN intervals = {} /\ preventDefaults = EmptyFn
      /\ rendered = FALSE
  BY DEF LiveInit, ProgramInit, ShimInit, EmptyFn
<1>3. ShimTypeOK
  <2>1. preventDefaults \in [{} -> BOOLEAN]
    BY <1>2 DEF EmptyFn
  <2>2. preventDefaults \in Views
    BY <2>1 DEF Views
  <2> QED BY <1>2, <2>2 DEF ShimTypeOK
<1>4. up \in Seq(Frames) /\ down \in Seq(Pushes)
  BY <1>2, EmptySeq
<1>5. drops \in 0 .. MaxDrops /\ screen \in Models
  BY <1>1, <1>2 DEF LiveAssumption, ProgramInv, ProgramTypeOK
<1>6. rendered = (phase # "closed")
  BY <1>2
<1>7. SessionInv
  BY <1>1, <1>2, <1>3, <1>4, <1>5, <1>6 DEF SessionInv
<1> QED BY <1>2, <1>7, CutOff DEF LiveInv

LEMMA DropKeepsLive ==
    ASSUME AppAssumption, LiveAssumption, LiveInv, TimersFollow, Drop
    PROVE  LiveInv' /\ TimersFollow'
<1>1. PICK m \in Models, c \in CmdLists :
          model' = m /\ current' = View[m] /\ initCmds' = c
  BY DEF Drop
<1>2. /\ pending' = EmptyFn /\ activeSubs' = EmptyFn /\ nextId' = 1 /\ rendered' = FALSE
      /\ up' = <<>> /\ down' = <<>> /\ phase' = "closed"
      /\ UNCHANGED <<shimVars, screen>>
      /\ drops' = drops + 1 /\ drops < MaxDrops
  BY DEF Drop
<1>3. DOMAIN pending' = {} /\ DOMAIN activeSubs' = {} /\ DOMAIN up' = {} /\ DOMAIN down' = {}
  BY <1>2 DEF EmptyFn
<1>4. View[m] \in Views /\ MaxId \in Nat
  BY DEF AppAssumption
<1>5. ProgramInv'
  <2>1. nextId' \in 1 .. MaxId + 1 /\ rendered' \in BOOLEAN
    <3>1. 1 \in 1 .. MaxId + 1
      BY <1>4
    <3>2. FALSE \in BOOLEAN
      OBVIOUS
    <3> QED BY <1>2, <3>1, <3>2, Zenon
  <2>2. ProgramTypeOK'
    BY <1>1, <1>3, <1>4, <2>1 DEF ProgramTypeOK
  <2>3. LedgerFollowsModel'
    BY <1>2 DEF LedgerFollowsModel
  <2>4. TreeIsView' /\ IdsIssued' /\ OneOwnerPerId'
    BY <1>1, <1>3 DEF TreeIsView, IdsIssued, OneOwnerPerId, ActiveIds
  <2> QED BY <2>2, <2>3, <2>4 DEF ProgramInv
<1>6. SessionInv'
  <2>1. up' \in Seq(Frames) /\ down' \in Seq(Pushes)
    BY <1>2, EmptySeq
  <2>2. rendered' = (phase' # "closed")
    BY <1>2
  <2>3. drops' \in 0 .. MaxDrops
    BY <1>2 DEF LiveInv, SessionInv, LiveAssumption
  <2>4. ShimTypeOK' /\ screen' \in Models
    BY <1>2 DEF LiveInv, SessionInv, ShimTypeOK, shimVars, Ids
  <2> QED BY <1>2, <1>5, <2>1, <2>2, <2>3, <2>4 DEF SessionInv
<1>7. Chained' /\ NamesAgree'
  BY <1>2, <1>3 DEF Chained, NamesAgree
<1>8. CommandsOnce'
  BY <1>2, <1>3 DEF CommandsOnce, Executing
<1>9. TimersComing'
  BY <1>2, <1>3 DEF TimersComing, Timed, Doomed
<1> QED BY <1>6, <1>7, <1>8, <1>9 DEF LiveInv, TimersFollow

LEMMA NextLive ==
    ASSUME AppAssumption, EveryKeysAssumption, LiveAssumption,
           LiveInv, TimersFollow, [LiveNext]_liveVars
    PROVE  LiveInv' /\ TimersFollow'
<1>1. CASE UNCHANGED liveVars
  <2>1. UNCHANGED <<progVars, shimVars, phase, screen, up, down, drops>>
    BY <1>1 DEF liveVars, netVars
  <2>2. ProgramInv' /\ UNCHANGED <<rendered, pending, nextId, activeSubs>>
    BY <2>1, ProgramKept DEF LiveInv, SessionInv, progVars
  <2>3. UNCHANGED <<preventDefaults, inflight, intervals>>
    BY <2>1 DEF shimVars
  <2>4. SessionInv'
    BY <2>1, <2>2, <2>3 DEF LiveInv, SessionInv, ShimTypeOK, Ids
  <2>5. Chained' /\ TimersFollow'
    BY <2>1, <2>3, DownKept DEF LiveInv, TimersFollow, NoDuplicateSubs
  <2>6. NamesAgree'
    BY <2>1, <2>2, <2>3 DEF LiveInv, NamesAgree, Names
  <2>7. CommandsOnce'
    BY <2>1, <2>2, <2>3 DEF LiveInv, CommandsOnce, CarriedBy, Executing, Completes, Ids
  <2> QED BY <2>4, <2>5, <2>6, <2>7 DEF LiveInv
<1> QED BY <1>1, OpenKeepsLive, ApplyKeepsLive, ServeKeepsLive, DropKeepsLive,
           ClickKeepsLive, NotifyKeepsLive, ProgressKeepsLive DEF LiveNext

LEMMA LiveInvHolds == LiveSpec => [](LiveInv /\ TimersFollow)
<1>1. LiveInit => LiveInv /\ TimersFollow
  BY AppAssumption, LiveAssumption, InitLive
<1>2. LiveInv /\ TimersFollow /\ [LiveNext]_liveVars => (LiveInv /\ TimersFollow)'
  BY AppAssumption, EveryKeysAssumption, LiveAssumption, NextLive
<1> QED BY <1>1, <1>2, PTL DEF LiveSpec

-----------------------------------------------------------------------------
(* Whatever the application and the network do, page, server and wire keep  *)
(* their types, across reconnects too (zumar-live.js, conn.rs).             *)
THEOREM LiveTypeCorrect == LiveSpec => []LiveTypeOK
<1>1. LiveInv => LiveTypeOK
  <2> SUFFICES ASSUME LiveInv PROVE LiveTypeOK
    OBVIOUS
  <2>1. \A n \in DOMAIN up : up[n].kind \in {"dispatch", "resolve", "notify"}
    BY UpTyped DEF LiveInv, Frames
  <2>2. \A n \in DOMAIN down : down[n].from \in Models /\ down[n].to \in Models
    BY DownTyped DEF LiveInv
  <2> QED BY <2>1, <2>2 DEF LiveTypeOK, LiveInv, SessionInv, ProgramInv
<1> QED BY <1>1, LiveInvHolds, PTL

(* A page can lag behind the server's tree but never diverge from it: every *)
(* update meets the tree it was diffed from, and the last one in flight     *)
(* leads to the tree the server holds (zumar-live.js, conn.rs).             *)
THEOREM PagesNeverDiverge == LiveSpec => []ScreenCatchesUp
<1>1. LiveInv => ScreenCatchesUp
  <2> SUFFICES ASSUME LiveInv, phase = "mounted"
               PROVE  LET trees == <<screen>> \o [n \in DOMAIN down |-> down[n].to] IN
                      /\ \A n \in DOMAIN down : down[n].from = trees[n]
                      /\ trees[Len(trees)] = model
    BY DEF ScreenCatchesUp
  <2> DEFINE s == <<screen>>
             t == [n \in DOMAIN down |-> down[n].to]
             trees == s \o t
  <2>1. /\ Len(down) \in Nat /\ DOMAIN down = 1 .. Len(down) /\ screen \in Models
        /\ \A n \in DOMAIN down : down[n].to \in Models
    BY DownTyped DEF LiveInv, SessionInv
  <2>2. t \in [1 .. Len(down) -> Models]
    BY <2>1
  <2>3. t \in Seq(Models) /\ Len(t) = Len(down)
    <3> HIDE DEF t
    <3> QED BY <2>1, <2>2
  <2>4. s \in Seq(Models) /\ Len(s) = 1 /\ s[1] = screen
    BY <2>1
  <2>5. \A n \in 1 .. Len(down) : t[n] = down[n].to
    BY <2>1
  <2> HIDE DEF s, t
  <2>a. /\ Len(trees) = 1 + Len(down)
        /\ \A i \in 1 .. 1 + Len(down) : trees[i] = IF i <= 1 THEN s[i] ELSE t[i - 1]
    <3>1. /\ Len(s \o t) = Len(s) + Len(t)
          /\ \A i \in 1 .. Len(s) + Len(t) :
                (s \o t)[i] = IF i <= Len(s) THEN s[i] ELSE t[i - Len(s)]
      BY <2>3, <2>4, ConcatProperties, Zenon
    <3>2. Len(s) + Len(t) = 1 + Len(down)
      BY <2>3, <2>4
    <3> QED BY <2>4, <3>1, <3>2
  <2> HIDE DEF trees
  <2>6. Len(trees) = Len(down) + 1 /\ trees[1] = screen
    BY <2>1, <2>4, <2>a
  <2>7. \A n \in 1 .. Len(down) : trees[n + 1] = down[n].to
    <3> TAKE n \in 1 .. Len(down)
    <3>1. n + 1 \in 1 .. 1 + Len(down) /\ ~(n + 1 <= 1) /\ (n + 1) - 1 = n
      BY <2>1
    <3> QED BY <2>5, <2>a, <3>1
  <2>8. ASSUME NEW n \in DOMAIN down PROVE down[n].from = trees[n]
    <3>1. CASE n = 1
      BY <2>1, <2>6, <3>1 DEF LiveInv, Chained
    <3>2. CASE n # 1
      <4>1. n - 1 \in DOMAIN down /\ (n - 1) + 1 = n
        BY <2>1, <3>2
      <4>2. down[n - 1].to = down[n].from
        BY <4>1 DEF LiveInv, Chained
      <4>3. trees[n] = down[n - 1].to
        BY <2>1, <2>7, <4>1
      <4> QED BY <4>2, <4>3
    <3> QED BY <3>1, <3>2
  <2>9. trees[Len(trees)] = model
    <3>1. CASE down = <<>>
      <4>1. Len(down) = 0
        BY <3>1
      <4> QED BY <2>6, <3>1, <4>1 DEF LiveInv, Chained
    <3>2. CASE down # <<>>
      <4>1. Len(down) \in 1 .. Len(down)
        BY <3>2, EmptySeq DEF LiveInv, SessionInv
      <4> QED BY <2>6, <2>7, <3>2, <4>1 DEF LiveInv, Chained
    <3> QED BY <3>1, <3>2
  <2> QED BY <2>8, <2>9 DEF trees, s, t
<1> QED BY <1>1, LiveInvHolds, PTL

(* Each id the server awaits is in one place: in an update going down, with *)
(* the browser, or in a completion coming back; none completes twice, and   *)
(* no completion finds its callback gone (zumar.js 59-87, lib.rs 249-264).  *)
THEOREM LiveCommandsAgree == LiveSpec => []CommandsInOnePlace
<1>1. LiveInv => CommandsInOnePlace
  <2> SUFFICES ASSUME LiveInv, phase = "mounted"
               PROVE  /\ DOMAIN pending = Travelling \cup DOMAIN inflight \cup Completed
                      /\ Travelling \cap DOMAIN inflight = {}
                      /\ Travelling \cap Completed = {}
                      /\ DOMAIN inflight \cap Completed = {}
                      /\ \A i, j \in DOMAIN up :
                            up[i].kind = "resolve" /\ up[i] = up[j] => i = j
    BY DEF CommandsInOnePlace
  <2>1. Executing = DOMAIN inflight /\ CommandsOnce
    BY DEF LiveInv, Executing
  <2>2. /\ DOMAIN pending \subseteq Ids /\ DOMAIN inflight \subseteq Ids
        /\ \A n \in DOMAIN down : CarriedBy(n) \subseteq Ids
        /\ \A n \in DOMAIN up : up[n].kind = "resolve" => up[n].at \in Ids
    <3>1. \A n \in DOMAIN up : up[n].kind = "resolve" => up[n].at \in Ids
      BY UpTyped DEF LiveInv, Frames
    <3> QED BY <3>1, DownTyped DEF LiveInv, SessionInv, ProgramInv, ProgramTypeOK, ShimTypeOK
  <2>3. \A id : id \in Travelling <=> \E n \in DOMAIN down : id \in CarriedBy(n)
    BY DEF Travelling, CarriedBy
  <2>4. \A id : id \in Completed <=> \E n \in DOMAIN up : Completes(n, id)
    BY DEF Completed, Completes
  <2>5. \A n \in DOMAIN up : \A id : Completes(n, id) => id \in Ids
    BY <2>2 DEF Completes
  <2>6. DOMAIN pending = Travelling \cup DOMAIN inflight \cup Completed
    <3>1. ASSUME NEW id
          PROVE  id \in DOMAIN pending <=> id \in Travelling \cup DOMAIN inflight \cup Completed
      BY <2>1, <2>2, <2>3, <2>4, <2>5 DEF CommandsOnce
    <3> QED BY <3>1
  <2>7. Travelling \cap DOMAIN inflight = {} /\ Travelling \cap Completed = {}
    BY <2>1, <2>3, <2>4 DEF CommandsOnce
  <2>8. DOMAIN inflight \cap Completed = {}
    BY <2>1, <2>4 DEF CommandsOnce
  <2>9. ASSUME NEW i \in DOMAIN up, NEW j \in DOMAIN up, up[i].kind = "resolve", up[i] = up[j]
        PROVE  i = j
    BY <2>1, <2>2, <2>9 DEF CommandsOnce, Completes
  <2> QED BY <2>6, <2>7, <2>8, <2>9
<1> QED BY <1>1, LiveInvHolds, PTL

(* A tick that crosses the Stop of its subscription never reaches another   *)
(* subscription (lib.rs 267-279).                                           *)
THEOREM TicksAreNotMistaken == LiveSpec => []TicksReachTheirSub
<1>1. LiveInv => TicksReachTheirSub
  BY DEF LiveInv, NamesAgree, Names, TicksReachTheirSub
<1> QED BY <1>1, LiveInvHolds, PTL

(* For an application that asks once for each subscription, the timers of a *)
(* page with no update in flight are those of the server's ledger           *)
(* (zumar.js 88-107, lib.rs 300-355).                                       *)
THEOREM LiveTimersAgree ==
    ASSUME NoDuplicateSubs
    PROVE  LiveSpec => []TimersCatchUp
<1>1. LiveInv /\ TimersFollow => TimersCatchUp
  <2> SUFFICES ASSUME LiveInv, TimersFollow, phase = "mounted", down = <<>>
               PROVE  {<<id, intervals[id]>> : id \in DOMAIN intervals}
                        = {<<activeSubs[k].id, k>> : k \in DOMAIN activeSubs \cap EveryKeys}
    BY DEF TimersCatchUp
  <2>1. DOMAIN down = {} /\ TimersComing
    BY DEF TimersFollow
  <2>2. DOMAIN intervals \subseteq Ids /\ \A k \in DOMAIN activeSubs : activeSubs[k].id \in Ids
    BY DEF LiveInv, SessionInv, ShimTypeOK, ProgramInv, ProgramTypeOK
  <2>3. \A id \in Ids : id \in DOMAIN intervals
            <=> \E k \in DOMAIN activeSubs \cap EveryKeys : activeSubs[k].id = id
    BY <2>1 DEF TimersComing, Timed, Doomed
  <2>4. \A id \in DOMAIN intervals : \A k \in DOMAIN activeSubs :
            activeSubs[k].id = id => k = intervals[id]
    BY DEF LiveInv, NamesAgree, Names
  <2>5. ASSUME NEW id \in DOMAIN intervals
        PROVE  \E k \in DOMAIN activeSubs \cap EveryKeys :
                  <<id, intervals[id]>> = <<activeSubs[k].id, k>>
    BY <2>2, <2>3, <2>4
  <2>6. ASSUME NEW k \in DOMAIN activeSubs \cap EveryKeys
        PROVE  \E id \in DOMAIN intervals : <<id, intervals[id]>> = <<activeSubs[k].id, k>>
    BY <2>2, <2>3, <2>4
  <2> QED BY <2>5, <2>6
<1> QED BY <1>1, LiveInvHolds, PTL
=============================================================================
