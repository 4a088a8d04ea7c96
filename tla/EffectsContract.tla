-------------------------- MODULE EffectsContract --------------------------
(***************************************************************************)
(* What zumar promises an application about effects, whatever carries them *)
(* out: after every turn exactly the intervals the model asks for tick,    *)
(* one each; an interval asked for before and after a turn is left         *)
(* running, not restarted; a turn completes at most one command; and an id *)
(* is handed out once.                                                     *)
(***************************************************************************)
EXTENDS Naturals, FiniteSets

CONSTANTS Intervals,   \* the keys of interval subscriptions
          MaxIssued    \* bound on the number of ids handed out

VARIABLES asked,    \* the intervals the model asks for
          ticking,  \* the timers that run: pairs <<key, id>>
          waiting,  \* the commands whose callback is still owed
          issued    \* the number of ids handed out

contractVars == <<asked, ticking, waiting, issued>>

Init == /\ asked = {}
        /\ ticking = {}
        /\ waiting = {}
        /\ issued = 0

KeysIn(t) == {p[1] : p \in t}

NewIds == issued + 1 .. issued'

(* The timers still asked for survive, and each newly asked interval gets   *)
(* exactly one timer, under a new id.                                       *)
Retime ==
    LET kept == {p \in ticking : p[1] \in asked'}
        new  == ticking' \ kept
    IN  /\ kept \subseteq ticking'
        /\ new \subseteq (asked' \ KeysIn(kept)) \X NewIds
        /\ KeysIn(ticking') = asked'
        /\ \A p, q \in new : (p[1] = q[1] \/ p[2] = q[2]) => p = q

(* One turn of the application, which may complete a command.               *)
Turn ==
    /\ asked' \in SUBSET Intervals
    /\ issued' \in issued .. MaxIssued
    /\ ticking' \in SUBSET (Intervals \X (1 .. MaxIssued))
    /\ Retime
    /\ waiting' \in SUBSET (waiting \cup NewIds)
    /\ \A c, d \in waiting \ waiting' : c = d
    /\ KeysIn({p \in ticking' : p[2] \in waiting'}) = {}

Spec == Init /\ [][Turn]_contractVars
=============================================================================
