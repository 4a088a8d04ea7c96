------------------------------- MODULE Client -------------------------------
(***************************************************************************)
(* The Program and its shim over a synchronous transport (wasm or gc):     *)
(* every call into the Program returns its update at once, and JavaScript  *)
(* runs one task at a time, so a turn - the call, apply, ensure, exec,     *)
(* subDelta - is one step.                                                 *)
(***************************************************************************)
EXTENDS Shim

clientVars == <<progVars, shimVars>>

Mount ==
    /\ InitialRender
    /\ ShimStep(inflight, UpdateOf(model, initCmds))

(* A delegated listener fires for an event inside the root ...              *)
DomEvent(e, m, c) ==
    /\ e \in DOMAIN preventDefaults
    /\ Dispatch(e, m, c)
    /\ ShimStep(inflight, UpdateOf(m, c))

(* ... and the Program may find nobody who wants it.                        *)
DomEventMiss(e) ==
    /\ e \in DOMAIN preventDefaults
    /\ DispatchMiss
    /\ UNCHANGED shimVars

(* done: resolve the command and carry out the update.  That the Program    *)
(* still knows the id is InFlightIsPending below.                           *)
Done(id, m, c) ==
    /\ Resolve(id, m, c)
    /\ ShimStep(Without(inflight, id), UpdateOf(m, c))

TimeoutFires(id) ==
    TimeoutDue(id) /\ \E m \in Models, c \in CmdLists : Done(id, m, c)

FetchSettles(id) ==
    \/ FetchResponds(id) /\ UNCHANGED progVars
    \/ FetchRejected(id) /\ \E m \in Models, c \in CmdLists : Done(id, m, c)

BodySettles(id) ==
    \/ BodyFails(id) /\ UNCHANGED progVars
    \/ BodyArrived(id) /\ \E m \in Models, c \in CmdLists : Done(id, m, c)

IntervalFires(id, m, c) ==
    /\ id \in DOMAIN intervals
    /\ Notify(id, m, c)
    /\ ShimStep(inflight, UpdateOf(m, c))

(* An interval whose id the Program has dropped from its ledger.            *)
StrayIntervalFires(id) ==
    /\ id \in DOMAIN intervals
    /\ NotifyUnknown(id)
    /\ UNCHANGED shimVars

-----------------------------------------------------------------------------
ClientInit == ProgramInit /\ ShimInit

ClientNext ==
    \/ Mount
    \/ \E e \in EventNames :
          \/ DomEventMiss(e)
          \/ \E m \in Models, c \in CmdLists : DomEvent(e, m, c)
    \/ \E id \in Ids :
          \/ TimeoutFires(id)
          \/ FetchSettles(id)
          \/ BodySettles(id)
          \/ StrayIntervalFires(id)
          \/ \E m \in Models, c \in CmdLists : IntervalFires(id, m, c)

ClientSpec == ClientInit /\ [][ClientNext]_clientVars

(* The browser runs a timeout that is due and settles every promise it made *)
(* for a fetch, one way or the other.  Users and intervals promise nothing. *)
Fairness ==
    \A id \in Ids : /\ WF_clientVars(TimeoutFires(id))
                    /\ WF_clientVars(FetchSettles(id))
                    /\ WF_clientVars(BodySettles(id))

FairClientSpec == ClientSpec /\ Fairness

-----------------------------------------------------------------------------
(* Type correctness of the Program and the shim together.                   *)
ClientTypeOK == ProgramTypeOK /\ ShimTypeOK

(* The two halves agree on what is outstanding: the Program awaits exactly  *)
(* the commands the browser is executing or has lost, so a completion is    *)
(* never delivered twice and never finds its callback gone.                 *)
InFlightIsPending == DOMAIN inflight = DOMAIN pending

(* Every event some element of the tree on screen wants is listened to at   *)
(* the root, with the preventDefault flag of that tree: events absent from  *)
(* the first render are picked up by the render that introduces them.       *)
EventsDelegated ==
    rendered => \A e \in DOMAIN current :
        /\ e \in DOMAIN preventDefaults
        /\ preventDefaults[e] = current[e]

(* The live timers are exactly those of the interval subscriptions in the   *)
(* ledger, each under the id the Program knows it by: "an interval the      *)
(* model stops asking for is torn down without bookkeeping" (README).       *)
TimersMatchLedger ==
    /\ DOMAIN intervals =
          {activeSubs[k].id : k \in DOMAIN activeSubs \cap EveryKeys}
    /\ \A k \in DOMAIN activeSubs \cap EveryKeys :
          intervals[activeSubs[k].id] = k

(* "Two subs with the same spec are the same subscription (last callback    *)
(* wins)" (effects.rs 152-154): one key, one timer.                         *)
OneTimerPerKey ==
    \A i, j \in DOMAIN intervals : intervals[i] = intervals[j] => i = j

(* Every command is answered, or its response body could not be read.       *)
CommandsSettle ==
    \A id \in Ids :
        id \in DOMAIN pending ~> (id \notin DOMAIN pending \/ InPhase(id, "lost"))

-----------------------------------------------------------------------------
Contract == INSTANCE EffectsContract WITH
    Intervals <- EveryKeys,
    MaxIssued <- MaxId,
    asked   <- IF rendered THEN KeysOf(Subs[model]) \cap EveryKeys ELSE {},
    ticking <- {<<intervals[id], id>> : id \in DOMAIN intervals},
    waiting <- DOMAIN pending,
    issued  <- nextId - 1

(* With no subscription asked for twice, the Program and its shim keep the  *)
(* promise of EffectsContract.                                              *)
KeepsContract == Contract!Spec
=============================================================================
