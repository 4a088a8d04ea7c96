------------------------------ MODULE GcEffects ------------------------------
(***************************************************************************)
(* What crates/zumar-wasmgc emits for a .zu program does about effects, on *)
(* the page that runs it through www/zumar-gc.js and www/zumar.js.  There  *)
(* is no runtime and there are no ledgers: the id of a command encodes the *)
(* place in the program that issued it, and one bit per `every' says       *)
(* whether it is active.                                                   *)
(*                                                                         *)
(* As in Program the application is open: an update may go to any model.   *)
(* Places (sites) are numbered from 0, as the emitter numbers them.        *)
(***************************************************************************)
EXTENDS Naturals, Sequences, FiniteSets

CONSTANTS
    GcModels,     \* the values of the model struct
    Msgs,         \* the messages
    HandlerMsgs,  \* those some handler of the view dispatches
    NSites,       \* the number of `delay' and `httpGet' in the program
    SiteKind,     \* what exec makes of each: "timeout" or "fetch"
    SiteMsg,      \* the message each continues with
    InitSites,    \* the sites staged by init, in order ...
    ArmSites,     \* ... and by the update equation of each message
    NSubs,        \* the number of `every' in the program
    SubKey,       \* the interval each asks for
    SubMsg,       \* the message each fires
    Wanted,       \* the ones whose conditions hold, for each model
    Wrap,         \* 2^32, the range of an i32
    MaxHandles    \* bound on the effects a behaviour starts

CmdSites == 0 .. NSites - 1
SubSites == 0 .. NSubs - 1

(* One i32 of bits is enough for the subscriptions.                         *)
ASSUME GcAssumption ==
    /\ HandlerMsgs \subseteq Msgs
    /\ NSites \in Nat
    /\ SiteKind \in [CmdSites -> {"timeout", "fetch"}]
    /\ SiteMsg \in [CmdSites -> Msgs]
    /\ InitSites \in Seq(CmdSites)
    /\ ArmSites \in [Msgs -> Seq(CmdSites)]
    /\ NSubs \in 0 .. 32
    /\ SubMsg \in [SubSites -> Msgs]
    /\ DOMAIN SubKey = SubSites
    /\ Wanted \in [GcModels -> SUBSET SubSites]
    /\ Wrap \in Nat \ {0}
    /\ MaxHandles \in Nat

VARIABLES
    model,       \* the struct behind G_STATE
    nextId,      \* G_NEXT_ID
    active,      \* G_SUBS_ACTIVE, as the set of its bits
    shown,       \* the page has called init
    inflight,    \* command the browser executes -> [id, site, phase]
    timers,      \* live interval -> the id it was started with
    subHandles,  \* the shim's map: subscription id -> interval
    handles      \* the number of effects the browser has been given

moduleVars == <<model, nextId, active>>
pageVars == <<shown, inflight, timers, subHandles, handles>>
gcVars == <<moduleVars, pageVars>>

EmptyMap == [x \in {} |-> x]

-----------------------------------------------------------------------------
(* Mutant: ids are the counter, as in the runtime.                          *)
StagedIdPlain(n, site) == n % Wrap

(* stage_cmd, and how fx_tail and resolve get the site back.                *)
StagedId(n, site) == (n * NSites + site) % Wrap

SiteOf(id) == id % NSites

(* Mutant: wanted-ness is not compared with the bit.                        *)
StartsAll(m) == Wanted[m]

(* The deltas fx_tail writes, one comparison per site.                      *)
Starts(m) == Wanted[m] \ active
Stops(m) == active \ Wanted[m]

(* The commands s of one update carried out by exec, on top of those in f:  *)
(* fx_tail picks the spec by the id.  `site' only remembers where it was    *)
(* staged.                                                                  *)
Executing(f, s) ==
    [h \in DOMAIN f \cup (handles + 1 .. handles + Len(s)) |->
        IF h \in DOMAIN f THEN f[h]
        ELSE LET i  == h - handles
                 id == StagedId(nextId + i - 1, s[i])
             IN  [id |-> id, site |-> s[i], phase |-> SiteKind[SiteOf(id)]]]

(* subDelta: a started site gets a new interval, which replaces the one the *)
(* map may hold without clearing it; a stop clears the one the map holds.   *)
HandleFor(site, base) == base + site + 1

Cleared(m) == {subHandles[s] : s \in Stops(m) \cap DOMAIN subHandles}

SubHandles(m, base) ==
    [s \in (DOMAIN subHandles \cup Starts(m)) \ Stops(m) |->
        IF s \in Starts(m) THEN HandleFor(s, base) ELSE subHandles[s]]

Timers(m, base) ==
    LET new == {HandleFor(s, base) : s \in Starts(m)}
    IN  [h \in (DOMAIN timers \ Cleared(m)) \cup new |->
            IF h \in new THEN h - base - 1 ELSE timers[h]]

-----------------------------------------------------------------------------
(* Mutant: a Stop leaves its bit set.                                       *)
CarryOutSticky(f, s, m) ==
    LET base == handles + Len(s)
    IN  /\ nextId' = (nextId + Len(s)) % Wrap
        /\ active' = active \cup Starts(m)
        /\ inflight' = Executing(f, s)
        /\ subHandles' = SubHandles(m, base)
        /\ timers' = Timers(m, base)
        /\ handles' = base + IF Starts(m) = {} THEN 0 ELSE NSubs
        /\ handles' <= MaxHandles

(* Mutant: staging does not advance the counter.                            *)
CarryOutStalled(f, s, m) ==
    LET base == handles + Len(s)
    IN  /\ nextId' = nextId
        /\ active' = (active \cup Starts(m)) \ Stops(m)
        /\ inflight' = Executing(f, s)
        /\ subHandles' = SubHandles(m, base)
        /\ timers' = Timers(m, base)
        /\ handles' = base + IF Starts(m) = {} THEN 0 ELSE NSubs
        /\ handles' <= MaxHandles

(* Mutant: the bit of a started site is the next one.                       *)
CarryOutShifted(f, s, m) ==
    LET base == handles + Len(s)
    IN  /\ nextId' = (nextId + Len(s)) % Wrap
        /\ active' = (active \cup {site + 1 : site \in Starts(m)}) \ Stops(m)
        /\ inflight' = Executing(f, s)
        /\ subHandles' = SubHandles(m, base)
        /\ timers' = Timers(m, base)
        /\ handles' = base + IF Starts(m) = {} THEN 0 ELSE NSubs
        /\ handles' <= MaxHandles

(* Stage the commands s, write the tail for the model m, and let the shim   *)
(* carry it out, f being what is in flight.                                 *)
CarryOut(f, s, m) ==
    LET base == handles + Len(s)
    IN  /\ nextId' = (nextId + Len(s)) % Wrap
        /\ active' = (active \cup Starts(m)) \ Stops(m)
        /\ inflight' = Executing(f, s)
        /\ subHandles' = SubHandles(m, base)
        /\ timers' = Timers(m, base)
        /\ handles' = base + IF Starts(m) = {} THEN 0 ELSE NSubs
        /\ handles' <= MaxHandles

(* init: the start section has built the model; the tree goes out with the  *)
(* tail.                                                                    *)
Show ==
    /\ ~ shown
    /\ shown' = TRUE
    /\ CarryOut(inflight, InitSites, model)
    /\ UNCHANGED model

(* update(msg), patches(), the shim.                                        *)
Turn(f, msg) ==
    /\ shown
    /\ model' \in GcModels
    /\ CarryOut(f, ArmSites[msg], model')
    /\ UNCHANGED shown

Dispatch(msg) == msg \in HandlerMsgs /\ Turn(inflight, msg)

(* resolve, once the browser is done with the command: a timeout that is    *)
(* due, a fetch that is rejected, a body that has arrived.                  *)
Settled(h) == h \in DOMAIN inflight /\ inflight[h].phase \in {"timeout", "fetch", "text"}

Settling(f, h) == [i \in DOMAIN f \ {h} |-> f[i]]

Resolve(h) ==
    /\ Settled(h)
    /\ Turn(Settling(inflight, h), SiteMsg[SiteOf(inflight[h].id)])

(* The same two steps of a fetch as in Shim.                                *)
Moves(h, from, to) ==
    /\ h \in DOMAIN inflight
    /\ inflight[h].phase = from
    /\ inflight' = [inflight EXCEPT ![h].phase = to]
    /\ UNCHANGED <<moduleVars, shown, timers, subHandles, handles>>

FetchResponds(h) == Moves(h, "fetch", "text")
BodyFails(h) == Moves(h, "text", "lost")

(* notify: no bit is consulted, the site's message is dispatched.           *)
Notify(h) == h \in DOMAIN timers /\ Turn(inflight, SubMsg[timers[h]])

-----------------------------------------------------------------------------
GcInit ==
    /\ model \in GcModels
    /\ nextId = 0
    /\ active = {}
    /\ shown = FALSE
    /\ inflight = EmptyMap
    /\ timers = EmptyMap
    /\ subHandles = EmptyMap
    /\ handles = 0

GcNext ==
    \/ Show
    \/ \E msg \in Msgs : Dispatch(msg)
    \/ \E h \in 1 .. MaxHandles :
          Resolve(h) \/ FetchResponds(h) \/ BodyFails(h) \/ Notify(h)

GcSpec == GcInit /\ [][GcNext]_gcVars

-----------------------------------------------------------------------------
(* Type correctness of the module and the page.                             *)
GcTypeOK ==
    /\ model \in GcModels
    /\ nextId \in 0 .. Wrap - 1
    /\ active \in SUBSET SubSites
    /\ shown \in BOOLEAN
    /\ handles \in 0 .. MaxHandles
    /\ DOMAIN inflight \subseteq 1 .. handles
    /\ \A h \in DOMAIN inflight :
          inflight[h] \in [id : 0 .. Wrap - 1, site : CmdSites,
                           phase : {"timeout", "fetch", "text", "lost"}]
    /\ DOMAIN timers \subseteq 1 .. handles
    /\ \A h \in DOMAIN timers : timers[h] \in SubSites
    /\ DOMAIN subHandles \subseteq SubSites

(* Bits, map and browser agree with the model after every call: a site that *)
(* is wanted has its bit and exactly one interval, the one the map holds    *)
(* for it; no other interval runs (lib.rs 3094-3152, zumar.js subDelta).    *)
TimersAreWanted ==
    shown =>
        /\ active = Wanted[model]
        /\ DOMAIN subHandles = Wanted[model]
        /\ \A s \in Wanted[model] : /\ subHandles[s] \in DOMAIN timers
                                    /\ timers[subHandles[s]] = s
        /\ \A h \in DOMAIN timers : /\ timers[h] \in Wanted[model]
                                    /\ subHandles[timers[h]] = h

(* "Issued ids encode their callsite (id = counter * n_sites + site), so    *)
(* resolve recovers the continuation with id % n_sites" (lib.rs 214-216).   *)
ContinuationRecovered ==
    \A h \in DOMAIN inflight : SiteOf(inflight[h].id) = inflight[h].site

(* No two commands are outstanding under one id.                            *)
OneCommandPerId ==
    \A h, i \in DOMAIN inflight : inflight[h].id = inflight[i].id => h = i

(* No behaviour issues so many commands that the counter wraps.             *)
NoWrap == (MaxHandles + 1) * NSites <= Wrap

(* No two sites ask for the same interval.                                  *)
DistinctKeys == \A s, t \in SubSites : SubKey[s] = SubKey[t] => s = t

-----------------------------------------------------------------------------
Contract == INSTANCE EffectsContract WITH
    Intervals <- {SubKey[s] : s \in SubSites},
    MaxIssued <- MaxHandles,
    asked   <- IF shown THEN {SubKey[s] : s \in Wanted[model]} ELSE {},
    ticking <- {<<SubKey[timers[h]], h>> : h \in DOMAIN timers},
    waiting <- DOMAIN inflight,
    issued  <- handles

(* With distinct intervals the emitted module keeps the promise the runtime *)
(* keeps, without its ledgers.                                              *)
GcKeepsContract == Contract!Spec
=============================================================================
