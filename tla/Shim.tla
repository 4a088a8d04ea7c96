-------------------------------- MODULE Shim --------------------------------
(***************************************************************************)
(* www/zumar.js: what mount() keeps on the page for one Program, and what  *)
(* it does with an update, whichever transport the update came over.       *)
(*                                                                         *)
(* Handles are never told apart from the ids they are filed under: an id   *)
(* is started at most once, so subHandles and the browser's live intervals *)
(* are one map here; likewise `listening' is the domain of preventDefaults,*)
(* which ensure extends by the same names.                                 *)
(***************************************************************************)
EXTENDS Program

CONSTANT EveryKeys   \* the keys of `every' specs; the others are topics

ASSUME EveryKeysAssumption == EveryKeys \subseteq Keys

VARIABLES
    preventDefaults,  \* event name -> flag, for the names listened to
    inflight,         \* command id -> how far its execution has got
    intervals         \* live interval, by its subscription id -> key

shimVars == <<preventDefaults, inflight, intervals>>

Phases == {"timeout", "fetch", "text", "lost"}

-----------------------------------------------------------------------------
(* Mutant: a name that is listened to already is skipped.                   *)
EnsuredOnce(pd, events) ==
    [e \in DOMAIN pd \cup DOMAIN events |->
        IF e \in DOMAIN pd THEN pd[e] ELSE events[e]]

(* ensure: one listener per name, and the flag of every name in the tree.   *)
Ensured(pd, events) ==
    [e \in DOMAIN pd \cup DOMAIN events |->
        IF e \in DOMAIN events THEN events[e] ELSE pd[e]]

(* Mutant: the switch forgets requests.                                     *)
ExecutableDelays(cmds) == {id \in DOMAIN cmds : cmds[id] = "delay"}

(* exec: a delay becomes a timeout, a request a fetch; anything else is     *)
(* warned about and dropped, as publish is.                                 *)
Executable(cmds) == {id \in DOMAIN cmds : cmds[id] # "publish"}

Executed(f, cmds) ==
    [id \in DOMAIN f \cup Executable(cmds) |->
        IF id \notin Executable(cmds) THEN f[id]
        ELSE IF cmds[id] = "delay" THEN "timeout" ELSE "fetch"]

(* Mutant: the kind of the spec is not looked at.                           *)
StartedAll(starts) == DOMAIN starts

(* subDelta over the deltas of one update, the starts before the stops; a   *)
(* topic is warned about and gets no handle.                                *)
StartedEvery(starts) == {id \in DOMAIN starts : starts[id] \in EveryKeys}

(* Mutant: a Stop does not clear the interval.                              *)
RetimedNoStop(t, u) ==
    [id \in DOMAIN t \cup StartedEvery(u.starts) |->
        IF id \in StartedEvery(u.starts) THEN u.starts[id] ELSE t[id]]

Retimed(t, u) ==
    [id \in (DOMAIN t \cup StartedEvery(u.starts)) \ u.stops |->
        IF id \in StartedEvery(u.starts) THEN u.starts[id] ELSE t[id]]

(* step(result), f being the commands still in flight.                      *)
ShimStep(f, u) ==
    /\ preventDefaults' = Ensured(preventDefaults, u.events)
    /\ inflight' = Executed(f, u.cmds)
    /\ intervals' = Retimed(intervals, u)

ShimInit ==
    /\ preventDefaults = EmptyFn
    /\ inflight = EmptyFn
    /\ intervals = EmptyFn

-----------------------------------------------------------------------------
(* The execution of a command, up to the call of done.  fetch fulfils once  *)
(* the headers are in, and its first handler then awaits text(); if that    *)
(* rejects, so does the async handler's own promise, and no one looks.      *)

InPhase(id, phase) == id \in DOMAIN inflight /\ inflight[id] = phase

TimeoutDue(id) == InPhase(id, "timeout")
FetchRejected(id) == InPhase(id, "fetch")
BodyArrived(id) == InPhase(id, "text")

Moved(id, phase) ==
    /\ inflight' = [inflight EXCEPT ![id] = phase]
    /\ UNCHANGED <<preventDefaults, intervals>>

FetchResponds(id) == InPhase(id, "fetch") /\ Moved(id, "text")
BodyFails(id) == InPhase(id, "text") /\ Moved(id, "lost")

-----------------------------------------------------------------------------
(* Type correctness of the shim's state.                                    *)
ShimTypeOK ==
    /\ preventDefaults \in Views
    /\ DOMAIN inflight \subseteq Ids
    /\ \A id \in DOMAIN inflight : inflight[id] \in Phases
    /\ DOMAIN intervals \subseteq Ids
    /\ \A id \in DOMAIN intervals : intervals[id] \in EveryKeys

(* No model asks twice for one key.                                         *)
NoDuplicateSubs ==
    \A m \in Models : \A i, j \in DOMAIN Subs[m] :
        Subs[m][i].key = Subs[m][j].key => i = j
=============================================================================
