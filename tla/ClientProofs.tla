---------------------------- MODULE ClientProofs ----------------------------
(* Theorems about one page over a synchronous transport, for every          *)
(* application.                                                             *)
EXTENDS Client, ProgramProofs

(* Every task of the page is at most one call into the Program.             *)
LEMMA ClientStepIsProgramStep == ClientNext => ProgramNext \/ UNCHANGED progVars
<1> SUFFICES ASSUME ClientNext PROVE ProgramNext \/ UNCHANGED progVars
  OBVIOUS
<1>1. CASE Mount
  BY <1>1 DEF Mount, ProgramNext
<1>2. ASSUME NEW e \in EventNames, DomEventMiss(e) \/ \E m \in Models, c \in CmdLists : DomEvent(e, m, c)
      PROVE  ProgramNext
  BY <1>2 DEF DomEventMiss, DomEvent, ProgramNext
<1>3. ASSUME NEW id \in Ids, NEW m \in Models, NEW c \in CmdLists,
             Done(id, m, c) \/ IntervalFires(id, m, c)
      PROVE  ProgramNext
  BY <1>3 DEF Done, IntervalFires, ProgramNext
<1>4. ASSUME NEW id \in Ids, StrayIntervalFires(id)
      PROVE  ProgramNext
  BY <1>4 DEF StrayIntervalFires, ProgramNext
<1>5. ASSUME NEW id \in Ids, TimeoutFires(id) \/ FetchSettles(id) \/ BodySettles(id)
      PROVE  ProgramNext \/ UNCHANGED progVars
  BY <1>3, <1>5 DEF TimeoutFires, FetchSettles, BodySettles
<1> QED BY <1>1, <1>2, <1>3, <1>4, <1>5 DEF ClientNext

(* The page is one of the hosts ProgramSpec allows, so that what is proved  *)
(* of the Program holds in it (zumar.js 13-115).                            *)
THEOREM ClientImplementsProgram == ClientSpec => ProgramSpec
<1>1. ClientInit => ProgramInit
  BY DEF ClientInit
<1>2. [ClientNext]_clientVars => [ProgramNext]_progVars
  BY ClientStepIsProgramStep DEF clientVars
<1> QED BY <1>1, <1>2, PTL DEF ClientSpec, ProgramSpec

-----------------------------------------------------------------------------
(* What exec makes of the commands of one update.                           *)
LEMMA ExecutedCommands ==
    ASSUME AppAssumption, nextId \in Nat, NEW m \in Models, NEW c \in CmdLists, NEW f
    PROVE  /\ Executable(UpdateOf(m, c).cmds) = Tracked(c)
           /\ DOMAIN Executed(f, UpdateOf(m, c).cmds) = DOMAIN f \cup Tracked(c)
           /\ \A id \in DOMAIN Executed(f, UpdateOf(m, c).cmds) :
                 \/ id \in DOMAIN f /\ Executed(f, UpdateOf(m, c).cmds)[id] = f[id]
                 \/ Executed(f, UpdateOf(m, c).cmds)[id] \in {"timeout", "fetch"}
<1> DEFINE cmds == UpdateOf(m, c).cmds
<1>1. cmds = [id \in {CmdId(i) : i \in DOMAIN c} |-> c[id - nextId + 1]]
  BY DEF UpdateOf
<1>2. c \in Seq(CmdKinds) /\ DOMAIN c = 1 .. Len(c) /\ Len(c) \in Nat
  BY DEF AppAssumption
<1>3. \A i \in DOMAIN c : CmdId(i) - nextId + 1 = i
  BY <1>2 DEF CmdId
<1>4. Executable(cmds) = Tracked(c)
  BY <1>1, <1>3 DEF Executable, Tracked
<1> HIDE DEF cmds
<1>5. /\ DOMAIN Executed(f, cmds) = DOMAIN f \cup Tracked(c)
      /\ \A id \in DOMAIN Executed(f, cmds) :
            \/ id \in DOMAIN f /\ Executed(f, cmds)[id] = f[id]
            \/ Executed(f, cmds)[id] \in {"timeout", "fetch"}
  BY <1>4 DEF Executed
<1> QED BY <1>4, <1>5 DEF cmds

(* The shim's half of the invariant: it needs the Program's to know which   *)
(* ids an update can carry.                                                 *)
ClientInv == ProgramInv /\ ShimTypeOK /\ InFlightIsPending /\ EventsDelegated

(* One update carried out.  f and p are the commands in flight and pending  *)
(* when the turn begins, the one it completes already gone.                 *)
LEMMA ShimStepKeepsInv ==
    ASSUME AppAssumption, EveryKeysAssumption, ClientInv, ProgramInv',
           NEW f, NEW p, DOMAIN f = DOMAIN p, DOMAIN f \subseteq DOMAIN inflight,
           \A id \in DOMAIN f : f[id] = inflight[id],
           NEW m \in Models, NEW c \in CmdLists,
           Settle(p, m, c), model' = m, current' = View[m],
           ShimStep(f, UpdateOf(m, c))
    PROVE  ClientInv'
<1> DEFINE u == UpdateOf(m, c)
           base == nextId + Len(c)
<1>1. nextId \in Nat
  BY DEF AppAssumption, ClientInv, ProgramInv, ProgramTypeOK
<1>2. inflight' = Executed(f, u.cmds) /\ DOMAIN inflight' = DOMAIN f \cup Tracked(c)
  BY <1>1, ExecutedCommands DEF ShimStep
<1>3. InFlightIsPending'
  BY <1>2 DEF Settle, Registered, InFlightIsPending
<1>4. u.events = View[m] /\ preventDefaults' = Ensured(preventDefaults, View[m])
  BY DEF ShimStep, UpdateOf
<1>5. EventsDelegated'
  BY <1>4 DEF Ensured, EventsDelegated
<1>6. preventDefaults' \in Views
  <2>1. View[m] \in Views /\ preventDefaults \in Views
    BY DEF AppAssumption, ClientInv, ShimTypeOK
  <2>2. DOMAIN Ensured(preventDefaults, View[m]) \in SUBSET EventNames
    BY <2>1 DEF Views, Ensured
  <2>3. \A e \in DOMAIN Ensured(preventDefaults, View[m]) :
            Ensured(preventDefaults, View[m])[e] \in BOOLEAN
    BY <2>1 DEF Views, Ensured
  <2>4. Ensured(preventDefaults, View[m])
            \in [DOMAIN Ensured(preventDefaults, View[m]) -> BOOLEAN]
    BY <2>3 DEF Ensured
  <2> QED BY <1>4, <2>2, <2>4 DEF Views
<1>7. \A id \in DOMAIN inflight' : id \in Ids /\ inflight'[id] \in Phases
  <2> SUFFICES ASSUME NEW id \in DOMAIN inflight'
               PROVE  id \in Ids /\ inflight'[id] \in Phases
    OBVIOUS
  <2>1. id \in Ids
    BY <1>3 DEF InFlightIsPending, ProgramInv, ProgramTypeOK
  <2>2. \/ id \in DOMAIN f /\ inflight'[id] = f[id]
        \/ inflight'[id] \in {"timeout", "fetch"}
    BY <1>1, <1>2, ExecutedCommands
  <2> QED BY <2>1, <2>2 DEF ClientInv, ShimTypeOK, Phases
<1>8. \A id \in DOMAIN intervals' : id \in Ids /\ intervals'[id] \in EveryKeys
  <2>1. u.starts = Started(Subs[m], base)
    BY DEF UpdateOf
  <2>2. ASSUME NEW id \in StartedEvery(u.starts)
        PROVE  id \in Ids /\ u.starts[id] \in EveryKeys
    <3>1. PICK i \in FreshAt(Subs[m]) : id = SubId(Subs[m], i, base)
      BY <2>1 DEF StartedEvery, Started
    <3>2. Subs[m] \in SubLists /\ c \in Seq(CmdKinds)
      BY DEF AppAssumption, SubLists
    <3>3. base \in Nat /\ base >= 1
      BY <3>2 DEF ClientInv, ProgramInv, ProgramTypeOK
    <3>4. id \in base .. base + Cardinality(FreshAt(Subs[m])) - 1
      <4> HIDE DEF base
      <4> QED BY <3>1, <3>2, <3>3, SubIds
    <3>5. base + Cardinality(FreshAt(Subs[m])) <= MaxId + 1 /\ MaxId \in Nat
      BY DEF Settle, AppAssumption
    <3>6. Cardinality(FreshAt(Subs[m])) \in Nat
      BY <3>2, FreshCounts
    <3>7. id \in Ids
      <4> HIDE DEF base
      <4> QED BY <3>3, <3>4, <3>5, <3>6 DEF Ids
    <3> QED BY <3>7 DEF StartedEvery
  <2>3. intervals' = Retimed(intervals, u)
    BY DEF ShimStep
  <2> HIDE DEF u
  <2> QED BY <2>2, <2>3 DEF Retimed, ClientInv, ShimTypeOK
<1> QED BY <1>3, <1>5, <1>6, <1>7, <1>8 DEF ClientInv, ShimTypeOK

-----------------------------------------------------------------------------
LEMMA ClientInitKeepsInv == AppAssumption /\ ClientInit => ClientInv
<1> SUFFICES ASSUME AppAssumption, ClientInit PROVE ClientInv
  OBVIOUS
<1>1. ProgramInv
  BY InitEstablishesInv DEF ClientInit
<1>2. /\ DOMAIN preventDefaults = {} /\ DOMAIN inflight = {} /\ DOMAIN intervals = {}
      /\ DOMAIN pending = {}
      /\ rendered = FALSE
      /\ preventDefaults = EmptyFn
  BY DEF ClientInit, ShimInit, ProgramInit, EmptyFn
<1>3. preventDefaults \in Views
  <2>1. preventDefaults \in [{} -> BOOLEAN]
    BY <1>2 DEF EmptyFn
  <2> QED BY <2>1 DEF Views
<1> QED BY <1>1, <1>2, <1>3 DEF ClientInv, ShimTypeOK, InFlightIsPending, EventsDelegated

LEMMA ClientNextKeepsInv ==
    ASSUME AppAssumption, EveryKeysAssumption, ClientInv, [ClientNext]_clientVars
    PROVE  ClientInv'
<1>1. ProgramInv'
  <2>1. [ProgramNext]_progVars
    BY ClientStepIsProgramStep DEF clientVars
  <2> QED BY <2>1, NextKeepsInv DEF ClientInv
<1>2. /\ model \in Models /\ initCmds \in CmdLists /\ current = View[model]
      /\ DOMAIN inflight = DOMAIN pending
  BY DEF ClientInv, ProgramInv, ProgramTypeOK, TreeIsView, InFlightIsPending
<1>3. CASE Mount
  BY <1>1, <1>2, <1>3, ShimStepKeepsInv DEF Mount, InitialRender
<1>4. ASSUME NEW e \in EventNames, NEW m \in Models, NEW c \in CmdLists, DomEvent(e, m, c)
      PROVE  ClientInv'
  BY <1>1, <1>2, <1>4, ShimStepKeepsInv DEF DomEvent, Dispatch, Step
<1>5. ASSUME NEW id \in Ids, NEW m \in Models, NEW c \in CmdLists, Done(id, m, c)
      PROVE  ClientInv'
  <2>1. /\ DOMAIN Without(inflight, id) = DOMAIN Without(pending, id)
        /\ DOMAIN Without(inflight, id) \subseteq DOMAIN inflight
        /\ \A i \in DOMAIN Without(inflight, id) : Without(inflight, id)[i] = inflight[i]
    BY <1>2 DEF Without
  <2> QED BY <1>1, <1>5, <2>1, ShimStepKeepsInv DEF Done, Resolve, Step
<1>6. ASSUME NEW id \in Ids, NEW m \in Models, NEW c \in CmdLists, IntervalFires(id, m, c)
      PROVE  ClientInv'
  BY <1>1, <1>2, <1>6, ShimStepKeepsInv DEF IntervalFires, Notify, Step
<1>7. ASSUME NEW id \in Ids, NEW phase \in Phases, Moved(id, phase), UNCHANGED progVars
      PROVE  ClientInv'
  <2>1. /\ DOMAIN inflight' = DOMAIN inflight
        /\ \A i \in DOMAIN inflight' : inflight'[i] = inflight[i] \/ inflight'[i] = phase
        /\ UNCHANGED <<preventDefaults, intervals>>
    BY <1>7 DEF Moved
  <2>2. UNCHANGED <<pending, rendered, current>>
    BY <1>7 DEF progVars
  <2>3. InFlightIsPending' /\ EventsDelegated'
    BY <2>1, <2>2 DEF ClientInv, InFlightIsPending, EventsDelegated
  <2>4. ShimTypeOK'
    BY <2>1, <1>7 DEF ClientInv, ShimTypeOK
  <2> QED BY <1>1, <2>3, <2>4 DEF ClientInv
<1>8. CASE UNCHANGED clientVars
  BY <1>1, <1>8 DEF clientVars, progVars, shimVars, ClientInv, ShimTypeOK,
                    InFlightIsPending, EventsDelegated
<1>9. ASSUME NEW id \in Ids, TimeoutFires(id) \/ FetchSettles(id) \/ BodySettles(id)
      PROVE  ClientInv'
  BY <1>5, <1>7, <1>9 DEF TimeoutFires, FetchSettles, BodySettles, FetchResponds, BodyFails, Phases
<1>10. CASE ClientNext
  <2>1. ASSUME NEW e \in EventNames, DomEventMiss(e) PROVE ClientInv'
    BY <1>8, <2>1 DEF DomEventMiss, DispatchMiss, clientVars
  <2>2. ASSUME NEW id \in Ids, StrayIntervalFires(id) PROVE ClientInv'
    BY <1>8, <2>2 DEF StrayIntervalFires, NotifyUnknown, clientVars
  <2> QED BY <1>3, <1>4, <1>6, <1>9, <1>10, <2>1, <2>2 DEF ClientNext
<1> QED BY <1>8, <1>10

LEMMA ClientInvHolds == ClientSpec => []ClientInv
<1>1. ClientInit => ClientInv
  BY AppAssumption, ClientInitKeepsInv
<1>2. ClientInv /\ [ClientNext]_clientVars => ClientInv'
  BY AppAssumption, EveryKeysAssumption, ClientNextKeepsInv
<1> QED BY <1>1, <1>2, PTL DEF ClientSpec

(* Whatever the application, the user and the network do, the page's state  *)
(* has its type (lib.rs 172-355, zumar.js 13-115).                          *)
THEOREM ClientTypeCorrect == ClientSpec => []ClientTypeOK
<1>1. ClientInv => ClientTypeOK
  BY DEF ClientInv, ProgramInv, ClientTypeOK
<1> QED BY <1>1, ClientInvHolds, PTL

(* The commands the browser executes are those whose callback the Program   *)
(* still holds (zumar.js 59-87, lib.rs 249-264).                            *)
THEOREM CommandsAgree == ClientSpec => []InFlightIsPending
<1>1. ClientInv => InFlightIsPending
  BY DEF ClientInv
<1> QED BY <1>1, ClientInvHolds, PTL

(* No event an element of the tree wants goes unheard at the root, or with  *)
(* the flag of an older tree (zumar.js 22-46).                              *)
THEOREM EventsAreDelegated == ClientSpec => []EventsDelegated
<1>1. ClientInv => EventsDelegated
  BY DEF ClientInv
<1> QED BY <1>1, ClientInvHolds, PTL

-----------------------------------------------------------------------------
(* The Start deltas of a turn.                                              *)
StartsOf(m, c) == Started(Subs[m], nextId + Len(c))

(* An old key keeps its id, and the Starts are those of the new keys, under *)
(* the ids the ledger files them by.                                        *)
KeepsOrStarts(m, c) ==
    /\ \A k \in KeysOf(Subs[m]) \cap DOMAIN activeSubs :
          activeSubs'[k].id = activeSubs[k].id
    /\ \A k \in KeysOf(Subs[m]) \ DOMAIN activeSubs :
          /\ activeSubs'[k].id \in nextId .. nextId' - 1
          /\ activeSubs'[k].id \in DOMAIN StartsOf(m, c)
          /\ StartsOf(m, c)[activeSubs'[k].id] = k
    /\ \A id \in DOMAIN StartsOf(m, c) :
          \E k \in KeysOf(Subs[m]) \ DOMAIN activeSubs : id = activeSubs'[k].id

(* So it is when no key is asked for twice.                                 *)
LEMMA SettledDistinct ==
    ASSUME AppAssumption, NoDuplicateSubs, ProgramInv,
           NEW p, NEW m \in Models, NEW c \in CmdLists, Settle(p, m, c)
    PROVE  KeepsOrStarts(m, c)
<1> DEFINE w == Subs[m]
           base == nextId + Len(c)
           starts == Started(w, base)
<1>1. c \in Seq(CmdKinds) /\ MaxId \in Nat /\ w \in SubLists
  BY DEF AppAssumption, SubLists
<1>2. nextId \in Nat \ {0} /\ Len(c) \in Nat /\ base \in Nat
  BY <1>1 DEF ProgramInv, ProgramTypeOK
<1>3. Cardinality(FreshAt(w)) \in Nat
  BY <1>1, FreshCounts
<1>4. /\ nextId' = base + Cardinality(FreshAt(w))
      /\ \A k \in KeysOf(w) : activeSubs'[k].id = SubId(w, LastAt(w, k), base)
  BY DEF Settle, NextActive
<1>5. \A i, j \in DOMAIN w : w[i].key = w[j].key => i = j
  BY DEF NoDuplicateSubs
<1>6. DOMAIN w = 1 .. Len(w) /\ Len(w) \in Nat
  BY <1>1 DEF SubLists
<1> HIDE DEF w, base
<1>7. \A i \in DOMAIN w : LastAt(w, w[i].key) = i /\ w[i].key \in KeysOf(w)
  <2> SUFFICES ASSUME NEW i \in DOMAIN w
               PROVE  LastAt(w, w[i].key) = i /\ w[i].key \in KeysOf(w)
    OBVIOUS
  <2>1. w[i].key \in KeysOf(w)
    BY DEF KeysOf
  <2>2. LastAt(w, w[i].key) \in DOMAIN w /\ w[LastAt(w, w[i].key)].key = w[i].key
    BY <1>1, <2>1, LastWins
  <2> QED BY <1>5, <2>1, <2>2
<1>8. \A i \in DOMAIN w : Retained(w, i) <=> w[i].key \in DOMAIN activeSubs
  <2> SUFFICES ASSUME NEW i \in DOMAIN w
               PROVE  Retained(w, i) <=> w[i].key \in DOMAIN activeSubs
    OBVIOUS
  <2>1. \A j \in 1 .. i-1 : j \in DOMAIN w /\ j # i
    BY <1>6
  <2>2. \A j \in 1 .. i-1 : w[j].key # w[i].key
    BY <1>5, <2>1
  <2> QED BY <2>2, Zenon DEF Retained
<1>9. \A i \in FreshAt(w) :
          /\ i \in DOMAIN w
          /\ w[i].key \notin DOMAIN activeSubs
          /\ activeSubs'[w[i].key].id = SubId(w, i, base)
          /\ SubId(w, i, base) \in nextId .. nextId' - 1
  <2> SUFFICES ASSUME NEW i \in FreshAt(w)
               PROVE  /\ i \in DOMAIN w
                      /\ w[i].key \notin DOMAIN activeSubs
                      /\ activeSubs'[w[i].key].id = SubId(w, i, base)
                      /\ SubId(w, i, base) \in nextId .. nextId' - 1
    OBVIOUS
  <2>1. i \in DOMAIN w /\ w[i].key \notin DOMAIN activeSubs
    BY <1>8 DEF FreshAt
  <2>2. SubId(w, i, base) \in base .. base + Cardinality(FreshAt(w)) - 1
    BY <1>1, <1>2, SubIds
  <2>3. SubId(w, i, base) \in nextId .. nextId' - 1
    BY <1>2, <1>3, <1>4, <2>2 DEF base
  <2> QED BY <1>4, <1>7, <2>1, <2>3
<1>10. \A i \in FreshAt(w) :
           /\ SubId(w, i, base) \in DOMAIN starts
           /\ starts[SubId(w, i, base)] = w[i].key
  <2> SUFFICES ASSUME NEW i \in FreshAt(w)
               PROVE  /\ SubId(w, i, base) \in DOMAIN starts
                      /\ starts[SubId(w, i, base)] = w[i].key
    OBVIOUS
  <2> DEFINE x == SubId(w, i, base)
             j == CHOOSE l \in FreshAt(w) : SubId(w, l, base) = x
  <2>1. j \in FreshAt(w) /\ SubId(w, j, base) = x
    OBVIOUS
  <2>2. j = i
    <3> HIDE DEF j
    <3> QED BY <1>1, <1>2, <2>1, SubIds
  <2>3. x \in DOMAIN starts /\ starts[x] = w[j].key
    BY DEF Started
  <2> QED BY <2>2, <2>3
<1>11. ASSUME NEW k \in KeysOf(w) \cap DOMAIN activeSubs
       PROVE  activeSubs'[k].id = activeSubs[k].id
  <2>1. PICK i \in DOMAIN w : w[i].key = k
    BY DEF KeysOf
  <2>2. Retained(w, i)
    BY <1>8, <2>1
  <2> QED BY <1>4, <1>7, <2>1, <2>2 DEF SubId
<1>12. ASSUME NEW k \in KeysOf(w) \ DOMAIN activeSubs
       PROVE  \E i \in FreshAt(w) : w[i].key = k
  <2>1. PICK i \in DOMAIN w : w[i].key = k
    BY DEF KeysOf
  <2> QED BY <1>8, <2>1 DEF FreshAt
<1>13. ASSUME NEW x \in DOMAIN starts
       PROVE  \E k \in KeysOf(w) \ DOMAIN activeSubs : x = activeSubs'[k].id
  <2>1. PICK i \in FreshAt(w) : x = SubId(w, i, base)
    BY DEF Started
  <2> QED BY <1>7, <1>9, <2>1
<1>14. ASSUME NEW k \in KeysOf(w) \ DOMAIN activeSubs
       PROVE  /\ activeSubs'[k].id \in nextId .. nextId' - 1
              /\ activeSubs'[k].id \in DOMAIN starts
              /\ starts[activeSubs'[k].id] = k
  <2>1. PICK i \in FreshAt(w) : w[i].key = k
    BY <1>12
  <2> HIDE DEF starts
  <2> QED BY <1>9, <1>10, <2>1
<1> QED BY <1>11, <1>13, <1>14 DEF w, base, StartsOf, KeepsOrStarts

(* An update leaves exactly the timers of the new ledger running.           *)
LEMMA RetimedMatches ==
    ASSUME AppAssumption, NoDuplicateSubs, ProgramInv, OneOwnerPerId', TimersMatchLedger,
           NEW p, NEW m \in Models, NEW c \in CmdLists, Settle(p, m, c),
           intervals' = Retimed(intervals, UpdateOf(m, c))
    PROVE  TimersMatchLedger'
<1> DEFINE w == Subs[m]
           starts == StartsOf(m, c)
           newKeys == KeysOf(w) \ DOMAIN activeSubs
<1> HIDE DEF w, starts, newKeys
<1>1. /\ \A k \in KeysOf(w) \cap DOMAIN activeSubs : activeSubs'[k].id = activeSubs[k].id
      /\ \A k \in newKeys :
            /\ activeSubs'[k].id \in nextId .. nextId' - 1
            /\ activeSubs'[k].id \in DOMAIN starts
            /\ starts[activeSubs'[k].id] = k
      /\ \A x \in DOMAIN starts : \E k \in newKeys : x = activeSubs'[k].id
  <2>1. KeepsOrStarts(m, c)
    BY SettledDistinct
  <2> QED BY <2>1 DEF KeepsOrStarts, w, starts, newKeys
<1>2. DOMAIN activeSubs' = KeysOf(w)
  BY DEF Settle, NextActive, w
<1>3. UpdateOf(m, c).starts = starts /\ UpdateOf(m, c).stops = Stopped(w)
  BY DEF UpdateOf, StartsOf, starts, w
<1> USE DEF newKeys
<1>4. /\ DOMAIN intervals' = (DOMAIN intervals \cup StartedEvery(starts)) \ Stopped(w)
      /\ \A x \in DOMAIN intervals' :
            intervals'[x] = IF x \in StartedEvery(starts) THEN starts[x] ELSE intervals[x]
  BY <1>3 DEF Retimed
<1>5. \A k \in DOMAIN activeSubs : activeSubs[k].id \in Nat /\ activeSubs[k].id < nextId
  BY DEF ProgramInv, ProgramTypeOK, IdsIssued, Ids
<1>6. nextId \in Nat
  BY DEF AppAssumption, ProgramInv, ProgramTypeOK
<1>7. \A k \in DOMAIN activeSubs : activeSubs[k].id \notin DOMAIN starts
  BY <1>1, <1>5, <1>6
<1>8. ASSUME NEW k \in KeysOf(w) \cap EveryKeys
      PROVE  activeSubs'[k].id \in DOMAIN intervals' /\ intervals'[activeSubs'[k].id] = k
  <2>1. CASE k \in DOMAIN activeSubs
    <3>1. activeSubs[k].id \in DOMAIN intervals /\ intervals[activeSubs[k].id] = k
      BY <2>1 DEF TimersMatchLedger
    <3>2. activeSubs[k].id \notin Stopped(w)
      BY <2>1 DEF Stopped, ProgramInv, OneOwnerPerId
    <3>3. activeSubs[k].id \notin StartedEvery(starts)
      BY <1>7, <2>1 DEF StartedEvery
    <3> QED BY <1>1, <1>4, <2>1, <3>1, <3>2, <3>3
  <2>2. CASE k \notin DOMAIN activeSubs
    <3>1. activeSubs'[k].id \in StartedEvery(starts) /\ starts[activeSubs'[k].id] = k
      BY <1>1, <2>2 DEF StartedEvery
    <3>2. activeSubs'[k].id \notin Stopped(w)
      BY <1>1, <1>5, <1>6, <2>2 DEF Stopped
    <3> QED BY <1>4, <3>1, <3>2
  <2> QED BY <2>1, <2>2
<1>9. ASSUME NEW x \in DOMAIN intervals'
      PROVE  \E k \in KeysOf(w) \cap EveryKeys : x = activeSubs'[k].id
  <2>1. CASE x \in StartedEvery(starts)
    BY <1>1, <2>1 DEF StartedEvery
  <2>2. CASE x \notin StartedEvery(starts)
    <3>1. x \in DOMAIN intervals /\ x \notin Stopped(w)
      BY <1>4, <2>2
    <3>2. PICK k \in DOMAIN activeSubs \cap EveryKeys : x = activeSubs[k].id
      BY <3>1 DEF TimersMatchLedger
    <3>3. k \in KeysOf(w)
      BY <3>1, <3>2 DEF Stopped
    <3> QED BY <1>1, <3>2, <3>3
  <2> QED BY <2>1, <2>2
<1>10. DOMAIN intervals' = {activeSubs'[k].id : k \in KeysOf(w) \cap EveryKeys}
  BY <1>8, <1>9
<1> QED BY <1>2, <1>8, <1>10 DEF TimersMatchLedger

(* The mapping of EffectsContract, one variable at a time.                  *)
Asked == IF rendered THEN KeysOf(Subs[model]) \cap EveryKeys ELSE {}

Ticking == {<<intervals[id], id>> : id \in DOMAIN intervals}

(* A turn of the page is a turn of the contract.                            *)
LEMMA TurnKeepsContract ==
    ASSUME AppAssumption, EveryKeysAssumption, NoDuplicateSubs,
           ClientInv, TimersMatchLedger, ClientInv', rendered',
           NEW p, DOMAIN p \subseteq DOMAIN pending,
           \A id \in DOMAIN p : p[id] = pending[id],
           \A i, j \in DOMAIN pending \ DOMAIN p : i = j,
           NEW m \in Models, NEW c \in CmdLists,
           Settle(p, m, c), model' = m,
           intervals' = Retimed(intervals, UpdateOf(m, c))
    PROVE  TimersMatchLedger' /\ Contract!Turn
<1>1. TimersMatchLedger'
  BY RetimedMatches DEF ClientInv, ProgramInv
<1>2. KeepsOrStarts(m, c)
  BY SettledDistinct DEF ClientInv
<1>3. /\ DOMAIN activeSubs' = KeysOf(Subs[m])
      /\ Asked' = KeysOf(Subs[m]) \cap EveryKeys
  BY DEF Settle, NextActive, Asked
<1>4. nextId \in Nat \ {0} /\ nextId' \in nextId .. MaxId + 1 /\ MaxId \in Nat
      /\ \A id \in DOMAIN pending' : id \in DOMAIN p \/ id \in nextId .. nextId' - 1
  <2>1. /\ nextId + Len(c) \in Nat
        /\ nextId' \in nextId + Len(c) .. MaxId + 1
        /\ \A id \in DOMAIN pending' :
              id \in DOMAIN p \/ id \in nextId .. nextId + Len(c) - 1
    BY SettledPending DEF ClientInv, ProgramInv
  <2>2. Len(c) \in Nat /\ MaxId \in Nat /\ nextId \in Nat \ {0}
    BY DEF AppAssumption, ClientInv, ProgramInv, ProgramTypeOK
  <2> QED BY <2>1, <2>2
<1>5. \A q : q \in Ticking <=> \E k \in DOMAIN activeSubs \cap EveryKeys :
                                   q = <<k, activeSubs[k].id>>
  BY DEF TimersMatchLedger, Ticking
<1>6. \A q : q \in Ticking' <=> \E k \in KeysOf(Subs[m]) \cap EveryKeys :
                                    q = <<k, activeSubs'[k].id>>
  BY <1>1, <1>3 DEF TimersMatchLedger, Ticking
<1> DEFINE kept == {q \in Ticking : q[1] \in Asked'}
           new  == Ticking' \ kept
           ids  == nextId .. nextId' - 1
<1>7. ASSUME NEW q \in kept
      PROVE  q \in Ticking' /\ q[1] \in DOMAIN activeSubs
  <2>1. PICK k \in DOMAIN activeSubs \cap EveryKeys : q = <<k, activeSubs[k].id>>
    BY <1>5
  <2>2. k \in KeysOf(Subs[m])
    BY <1>3, <2>1
  <2>3. activeSubs'[k].id = activeSubs[k].id
    BY <1>2, <2>1, <2>2 DEF KeepsOrStarts
  <2> QED BY <1>6, <2>1, <2>2, <2>3
<1>8. ASSUME NEW q \in new
      PROVE  \E k \in KeysOf(Subs[m]) \cap EveryKeys :
                /\ k \notin DOMAIN activeSubs
                /\ q = <<k, activeSubs'[k].id>>
                /\ activeSubs'[k].id \in ids
  <2>1. PICK k \in KeysOf(Subs[m]) \cap EveryKeys : q = <<k, activeSubs'[k].id>>
    BY <1>6
  <2>2. k \notin DOMAIN activeSubs
    <3> SUFFICES ASSUME k \in DOMAIN activeSubs PROVE FALSE
      OBVIOUS
    <3>1. activeSubs'[k].id = activeSubs[k].id
      BY <1>2, <2>1 DEF KeepsOrStarts
    <3>2. q \in Ticking /\ q[1] \in Asked'
      BY <1>3, <1>5, <2>1, <3>1
    <3> QED BY <3>2
  <2> QED BY <1>2, <2>1, <2>2 DEF KeepsOrStarts
<1>10. new \subseteq (Asked' \ {q[1] : q \in kept}) \X ids
  <2> SUFFICES ASSUME NEW q \in new
               PROVE  q \in (Asked' \ {r[1] : r \in kept}) \X ids
    OBVIOUS
  <2>1. PICK k \in KeysOf(Subs[m]) \cap EveryKeys :
            /\ k \notin DOMAIN activeSubs
            /\ q = <<k, activeSubs'[k].id>>
            /\ activeSubs'[k].id \in ids
    BY <1>8
  <2>2. k \in Asked' /\ k \notin {r[1] : r \in kept}
    <3> HIDE DEF kept
    <3> QED BY <1>3, <1>7, <2>1
  <2> HIDE DEF kept, ids
  <2> QED BY <2>1, <2>2
<1>11. {q[1] : q \in Ticking'} = Asked'
  <2>1. ASSUME NEW q \in Ticking' PROVE q[1] \in Asked'
    BY <1>3, <1>6
  <2>2. ASSUME NEW k \in Asked' PROVE \E q \in Ticking' : q[1] = k
    <3> DEFINE pair == <<k, activeSubs'[k].id>>
    <3>1. pair \in Ticking' /\ pair[1] = k
      BY <1>3, <1>6
    <3> HIDE DEF pair
    <3> QED BY <3>1
  <2> DEFINE t == Ticking'
             keys == {q[1] : q \in t}
  <2>3. \A k : k \in keys <=> \E q \in t : q[1] = k
    OBVIOUS
  <2>4. \A k : k \in keys <=> k \in Asked'
    BY <2>1, <2>2, <2>3
  <2> HIDE DEF keys
  <2>5. keys = Asked'
    BY <2>4
  <2> QED BY <2>5 DEF keys
<1>12. ASSUME NEW q \in new, NEW r \in new, q[1] = r[1] \/ q[2] = r[2]
       PROVE  q = r
  <2>1. PICK k \in KeysOf(Subs[m]) : q = <<k, activeSubs'[k].id>>
    BY <1>8
  <2>2. PICK l \in KeysOf(Subs[m]) : r = <<l, activeSubs'[l].id>>
    BY <1>8
  <2>3. activeSubs'[k].id = activeSubs'[l].id => k = l
    BY <1>3 DEF ClientInv, ProgramInv, OneOwnerPerId
  <2> QED BY <1>12, <2>1, <2>2, <2>3
<1>13. Asked' \in SUBSET EveryKeys
  BY <1>3
<1>14. nextId' - 1 \in nextId - 1 .. MaxId
  <2>1. /\ nextId \in Nat /\ nextId' \in Nat /\ MaxId \in Nat
        /\ nextId <= nextId' /\ nextId' <= MaxId + 1
    BY <1>4
  <2> QED BY <2>1
<1>15. Ticking' \in SUBSET (EveryKeys \X (1 .. MaxId))
  BY DEF Ticking, ClientInv, ShimTypeOK, Ids
<1>16. (DOMAIN pending)' \in SUBSET (DOMAIN pending \cup ids)
  BY <1>4
<1>17. \A i, j \in DOMAIN pending \ (DOMAIN pending)' : i = j
  BY DEF Settle, Registered
<1>18. {q[1] : q \in {r \in Ticking' : r[2] \in (DOMAIN pending)'}} = {}
  <2>1. \A k \in KeysOf(Subs[m]) : activeSubs'[k].id \notin DOMAIN pending'
    BY <1>3 DEF ClientInv, ProgramInv, OneOwnerPerId, ActiveIds
  <2> QED BY <1>6, <2>1
<1>19. Contract!NewIds = ids
  BY <1>4 DEF Contract!NewIds
<1>20. \A t : Contract!KeysIn(t) = {q[1] : q \in t}
  BY DEF Contract!KeysIn
<1>21. kept \subseteq Ticking'
  BY <1>7
<1>22. Contract!Retime
  <2>1. /\ new \subseteq (Asked' \ Contract!KeysIn(kept)) \X Contract!NewIds
        /\ Contract!KeysIn(Ticking') = Asked'
    BY <1>10, <1>11, <1>19, <1>20, Zenon
  <2>2. \A q, r \in new : (q[1] = r[1] \/ q[2] = r[2]) => q = r
    BY <1>12
  <2> QED BY <1>21, <2>1, <2>2, Zenon DEF Contract!Retime, Asked, Ticking
<1>23. (DOMAIN pending)' \in SUBSET (DOMAIN pending \cup Contract!NewIds)
  BY <1>16, <1>19, Zenon
<1>24. Contract!KeysIn({r \in Ticking' : r[2] \in (DOMAIN pending)'}) = {}
  BY <1>18, <1>20, Zenon
<1>25. (nextId - 1)' \in nextId - 1 .. MaxId
  BY <1>14
<1> QED
  BY <1>1, <1>13, <1>15, <1>17, <1>22, <1>23, <1>24, <1>25, Zenon
     DEF Contract!Turn, Asked, Ticking

LEMMA ClientStepKeepsContract ==
    ASSUME AppAssumption, EveryKeysAssumption, NoDuplicateSubs,
           ClientInv, TimersMatchLedger, ClientInv', [ClientNext]_clientVars
    PROVE  TimersMatchLedger' /\ [Contract!Turn]_(Contract!contractVars)
<1>1. model \in Models /\ initCmds \in CmdLists
  BY DEF ClientInv, ProgramInv, ProgramTypeOK
<1>2. /\ DOMAIN pending \subseteq DOMAIN pending
      /\ \A id \in DOMAIN pending : pending[id] = pending[id]
      /\ \A i, j \in DOMAIN pending \ DOMAIN pending : i = j
  OBVIOUS
<1>3. CASE Mount
  BY <1>1, <1>2, <1>3, TurnKeepsContract DEF Mount, InitialRender, ShimStep
<1>4. ASSUME NEW e \in EventNames, NEW m \in Models, NEW c \in CmdLists, DomEvent(e, m, c)
      PROVE  TimersMatchLedger' /\ Contract!Turn
  BY <1>2, <1>4, TurnKeepsContract DEF DomEvent, Dispatch, Step, ShimStep
<1>5. ASSUME NEW id \in Ids, NEW m \in Models, NEW c \in CmdLists, Done(id, m, c)
      PROVE  TimersMatchLedger' /\ Contract!Turn
  <2> DEFINE p == Without(pending, id)
  <2>1. /\ DOMAIN p \subseteq DOMAIN pending
        /\ \A i \in DOMAIN p : p[i] = pending[i]
        /\ \A i, j \in DOMAIN pending \ DOMAIN p : i = j
    BY DEF Without
  <2>2. /\ Settle(p, m, c) /\ model' = m /\ rendered'
        /\ intervals' = Retimed(intervals, UpdateOf(m, c))
    BY <1>5 DEF Done, Resolve, Step, ShimStep
  <2> HIDE DEF p
  <2> QED BY <2>1, <2>2, TurnKeepsContract
<1>6. ASSUME NEW id \in Ids, NEW m \in Models, NEW c \in CmdLists, IntervalFires(id, m, c)
      PROVE  TimersMatchLedger' /\ Contract!Turn
  BY <1>2, <1>6, TurnKeepsContract DEF IntervalFires, Notify, Step, ShimStep
<1>7. ASSUME UNCHANGED progVars, UNCHANGED intervals
      PROVE  TimersMatchLedger' /\ UNCHANGED Contract!contractVars
  BY <1>7 DEF progVars, TimersMatchLedger, Contract!contractVars
<1>8. ASSUME NEW id \in Ids, TimeoutFires(id) \/ FetchSettles(id) \/ BodySettles(id)
      PROVE  TimersMatchLedger' /\ [Contract!Turn]_(Contract!contractVars)
  <2>1. CASE \E m \in Models, c \in CmdLists : Done(id, m, c)
    BY <1>5, <2>1
  <2>2. CASE UNCHANGED progVars /\ (FetchResponds(id) \/ BodyFails(id))
    BY <1>7, <2>2 DEF FetchResponds, BodyFails, Moved
  <2> QED BY <1>8, <2>1, <2>2 DEF TimeoutFires, FetchSettles, BodySettles
<1>9. CASE UNCHANGED clientVars
  BY <1>7, <1>9 DEF clientVars, shimVars
<1>10. CASE ClientNext
  <2>1. ASSUME NEW e \in EventNames, DomEventMiss(e)
        PROVE  TimersMatchLedger' /\ [Contract!Turn]_(Contract!contractVars)
    BY <1>7, <2>1 DEF DomEventMiss, DispatchMiss, shimVars
  <2>2. ASSUME NEW id \in Ids, StrayIntervalFires(id)
        PROVE  TimersMatchLedger' /\ [Contract!Turn]_(Contract!contractVars)
    BY <1>7, <2>2 DEF StrayIntervalFires, NotifyUnknown, shimVars
  <2> QED BY <1>3, <1>4, <1>6, <1>8, <1>10, <2>1, <2>2 DEF ClientNext
<1> QED BY <1>9, <1>10

LEMMA ContractInit ==
    AppAssumption /\ ClientInit => TimersMatchLedger /\ Contract!Init
<1> SUFFICES ASSUME AppAssumption, ClientInit PROVE TimersMatchLedger /\ Contract!Init
  OBVIOUS
<1>1. /\ DOMAIN intervals = {} /\ DOMAIN activeSubs = {} /\ DOMAIN pending = {}
      /\ nextId = 1
      /\ rendered = FALSE
  BY DEF ClientInit, ShimInit, ProgramInit, EmptyFn
<1> QED BY <1>1 DEF TimersMatchLedger, Contract!Init

(* With no subscription asked for twice, the live timers are always those   *)
(* of the ledger, each under its id (zumar.js 88-107, lib.rs 300-355).      *)
THEOREM TimersAreTheLedgers ==
    ASSUME NoDuplicateSubs
    PROVE  ClientSpec => []TimersMatchLedger
<1>1. ClientInit => TimersMatchLedger
  BY AppAssumption, ContractInit
<1>2. ClientInv /\ ClientInv' /\ TimersMatchLedger /\ [ClientNext]_clientVars
        => TimersMatchLedger'
  BY AppAssumption, EveryKeysAssumption, ClientStepKeepsContract
<1> QED BY <1>1, <1>2, ClientInvHolds, PTL DEF ClientSpec

(* ... and the page implements EffectsContract: what an application may     *)
(* rely on about effects, for every application that asks once for each.    *)
THEOREM PageKeepsContract ==
    ASSUME NoDuplicateSubs
    PROVE  ClientSpec => KeepsContract
<1>1. ClientInit => Contract!Init
  BY AppAssumption, ContractInit
<1>2. ClientInv /\ ClientInv' /\ TimersMatchLedger /\ [ClientNext]_clientVars
        => [Contract!Turn]_(Contract!contractVars)
  BY AppAssumption, EveryKeysAssumption, ClientStepKeepsContract
<1> QED BY <1>1, <1>2, ClientInvHolds, TimersAreTheLedgers, PTL
        DEF ClientSpec, KeepsContract, Contract!Spec
=============================================================================
