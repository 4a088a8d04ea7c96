------------------------------ MODULE Program ------------------------------
(***************************************************************************)
(* crates/zumar-runtime: one Program, the model/update/view loop with its  *)
(* two effect ledgers (pending commands, active subscriptions), driven by  *)
(* an arbitrary host through initial_render, dispatch, resolve, notify.    *)
(*                                                                         *)
(* The application is left open.  A model is known only through what       *)
(* subscriptions(&model) and view(&model) return for it, and an update may *)
(* move to any model and request any of the command lists.  What is proved *)
(* or checked here therefore holds for every update function.              *)
(***************************************************************************)
EXTENDS Naturals, Sequences, FiniteSets

CONSTANTS
    Models,      \* the application's models
    Subs,        \* Subs[m]: the list subscriptions(&m) returns
    View,        \* View[m]: the events of view(&m), name -> preventDefault
    CmdLists,    \* the lists of command kinds an update may return
    Keys,        \* structural keys of subscription specs, SubSpec::key
    SubMsgs,     \* the callbacks a subscription may carry
    EventNames,  \* DOM event names
    MaxId        \* bound on the ids handed out; stands for u32::MAX

CmdKinds == {"delay", "http", "publish"}

(* collect_events: the names used anywhere in the tree, with their flag.   *)
Views == UNION {[E -> BOOLEAN] : E \in SUBSET EventNames}

ASSUME AppAssumption ==
    /\ Models # {}
    /\ Subs \in [Models -> Seq([key : Keys, msg : SubMsgs])]
    /\ View \in [Models -> Views]
    /\ CmdLists \subseteq Seq(CmdKinds)
    /\ <<>> \in CmdLists
    /\ MaxId \in Nat

VARIABLES
    model, current,  \* the model, and the events of its last rendered tree
    initCmds,        \* commands to hand out with the first render
    pending,         \* command id -> kind, the callbacks still awaited
    activeSubs,      \* subscription key -> [id, msg]
    nextId,          \* the next id fresh_id returns
    rendered         \* the host has made its initial_render call

progVars == <<model, current, initCmds, pending, activeSubs, nextId, rendered>>

Ids == 1 .. MaxId

EmptyFn == [x \in {} |-> x]

-----------------------------------------------------------------------------
(* register_cmds.  The i-th command of a list gets the i-th fresh id; a     *)
(* fire-and-forget publish consumes an id but leaves nothing pending.       *)

CmdId(i) == nextId + i - 1

(* Mutant: a publish is put in the ledger like the others.                  *)
TrackedWithPublish(c) == {CmdId(i) : i \in DOMAIN c}

Tracked(c) == {CmdId(i) : i \in {j \in DOMAIN c : c[j] # "publish"}}

(* The ledger p after the list c is registered: BTreeMap::insert per id.    *)
Registered(p, c) ==
    [id \in DOMAIN p \cup Tracked(c) |->
        IF id \in Tracked(c) THEN c[id - nextId + 1] ELSE p[id]]

-----------------------------------------------------------------------------
(* diff_subs.  The loop takes each wanted subscription in turn: the first   *)
(* occurrence of a key that is active keeps its id, everything else, a      *)
(* second occurrence included, is started under a fresh id.  `base' is the  *)
(* first id still free when the loop begins.                                *)

KeysOf(w) == {w[i].key : i \in DOMAIN w}

Retained(w, i) ==
    /\ w[i].key \in DOMAIN activeSubs
    /\ \A j \in 1 .. i-1 : w[j].key # w[i].key

FreshAt(w) == {i \in DOMAIN w : ~ Retained(w, i)}

FreshBefore(w, i) == {j \in FreshAt(w) : j < i}

SubId(w, i, base) ==
    IF Retained(w, i) THEN activeSubs[w[i].key].id
                      ELSE base + Cardinality(FreshBefore(w, i))

(* Mutant: the first callback wins, as with entry().or_insert.              *)
FirstAt(w, k) ==
    CHOOSE i \in DOMAIN w :
        w[i].key = k /\ \A j \in DOMAIN w : w[j].key = k => i <= j

LastAt(w, k) ==
    CHOOSE i \in DOMAIN w :
        w[i].key = k /\ \A j \in DOMAIN w : w[j].key = k => j <= i

(* next_active: a later entry of the same key overwrites an earlier one.    *)
NextActive(w, base) ==
    [k \in KeysOf(w) |-> [id  |-> SubId(w, LastAt(w, k), base),
                          msg |-> w[LastAt(w, k)].msg]]

(* The Start deltas, as a map from the started id to its spec's key, and    *)
(* the ids of the Stop deltas.                                              *)
Started(w, base) ==
    [id \in {SubId(w, i, base) : i \in FreshAt(w)} |->
        w[CHOOSE i \in FreshAt(w) : SubId(w, i, base) = id].key]

Stopped(w) == {activeSubs[k].id : k \in DOMAIN activeSubs \ KeysOf(w)}

-----------------------------------------------------------------------------
(* Mutant: the ids of started subscriptions are peeked at, not taken.       *)
SettleStalls(p, m, c) ==
    LET base == nextId + Len(c)
    IN  /\ pending' = Registered(p, c)
        /\ activeSubs' = NextActive(Subs[m], base)
        /\ nextId' = base
        /\ base + Cardinality(FreshAt(Subs[m])) <= MaxId + 1

(* Mutant: numbering starts again when nothing is outstanding.              *)
SettleReuses(p, m, c) ==
    LET base == nextId + Len(c)
        next == base + Cardinality(FreshAt(Subs[m]))
    IN  /\ pending' = Registered(p, c)
        /\ activeSubs' = NextActive(Subs[m], base)
        /\ nextId' = IF DOMAIN pending' = {} /\ DOMAIN activeSubs' = {}
                     THEN 1 ELSE next
        /\ next <= MaxId + 1

(* What initial_render and step have in common: with the ledger p, hand out *)
(* ids for the commands c, then for the subscriptions of m.                 *)
Settle(p, m, c) ==
    LET base == nextId + Len(c)
    IN  /\ pending' = Registered(p, c)
        /\ activeSubs' = NextActive(Subs[m], base)
        /\ nextId' = base + Cardinality(FreshAt(Subs[m]))
        /\ nextId' <= MaxId + 1

(* ... and what both return to the host, but for the patches: the events of *)
(* the new tree, each command under its id, the subscription deltas.        *)
UpdateOf(m, c) ==
    [events |-> View[m],
     cmds   |-> [id \in {CmdId(i) : i \in DOMAIN c} |-> c[id - nextId + 1]],
     starts |-> Started(Subs[m], nextId + Len(c)),
     stops  |-> Stopped(Subs[m])]

(* Update::noop().                                                          *)
Noop == [events |-> EmptyFn, cmds |-> EmptyFn, starts |-> EmptyFn, stops |-> {}]

(* step: update the model, re-render it, then do the bookkeeping.           *)
Step(p, m, c) ==
    /\ model' = m
    /\ current' = View[m]
    /\ Settle(p, m, c)
    /\ UNCHANGED <<initCmds, rendered>>

InitialRender ==
    /\ ~ rendered
    /\ rendered' = TRUE
    /\ Settle(pending, model, initCmds)
    /\ initCmds' = <<>>
    /\ UNCHANGED <<model, current>>

(* dispatch: find_listener finds a listener for e along the path ...        *)
Dispatch(e, m, c) ==
    /\ rendered
    /\ e \in DOMAIN current
    /\ Step(pending, m, c)

(* ... or there is none, because the tree has no such listener or the path  *)
(* misses them all, and the call returns Update::noop().                    *)
DispatchMiss == rendered /\ UNCHANGED progVars

(* Mutant: the ledger is cleared instead.                                   *)
WithoutRest(p, id) == EmptyFn

Without(p, id) == [i \in DOMAIN p \ {id} |-> p[i]]

(* Mutant: the callback is looked up but not removed.                       *)
ResolveKeeps(id, m, c) ==
    /\ rendered
    /\ id \in DOMAIN pending
    /\ Step(pending, m, c)

Resolve(id, m, c) ==
    /\ rendered
    /\ id \in DOMAIN pending
    /\ Step(Without(pending, id), m, c)

ResolveUnknown(id) == rendered /\ id \notin DOMAIN pending /\ UNCHANGED progVars

ActiveIds == {activeSubs[k].id : k \in DOMAIN activeSubs}

Notify(id, m, c) ==
    /\ rendered
    /\ id \in ActiveIds
    /\ Step(pending, m, c)

NotifyUnknown(id) == rendered /\ id \notin ActiveIds /\ UNCHANGED progVars

-----------------------------------------------------------------------------
(* Program::new with with_init and with_subscriptions.                      *)
ProgramInit ==
    /\ model \in Models
    /\ current = View[model]
    /\ initCmds \in CmdLists
    /\ pending = EmptyFn
    /\ activeSubs = EmptyFn
    /\ nextId = 1
    /\ rendered = FALSE

(* Every host takes the first render once, before anything else; then it    *)
(* calls in any order and with any id, its own or not.  rerender, which     *)
(* changes nothing, is no action.                                           *)
ProgramNext ==
    \/ InitialRender
    \/ DispatchMiss
    \/ \E m \in Models, c \in CmdLists :
          \/ \E e \in EventNames : Dispatch(e, m, c)
          \/ \E id \in Ids : Resolve(id, m, c) \/ Notify(id, m, c)
    \/ \E id \in Ids : ResolveUnknown(id) \/ NotifyUnknown(id)

ProgramSpec == ProgramInit /\ [][ProgramNext]_progVars

-----------------------------------------------------------------------------
(* Type correctness of the Program.                                         *)
ProgramTypeOK ==
    /\ model \in Models
    /\ current \in Views
    /\ initCmds \in CmdLists
    /\ DOMAIN pending \subseteq Ids
    /\ \A id \in DOMAIN pending : pending[id] \in CmdKinds \ {"publish"}
    /\ DOMAIN activeSubs \subseteq Keys
    /\ \A k \in DOMAIN activeSubs : activeSubs[k] \in [id : Ids, msg : SubMsgs]
    /\ nextId \in 1 .. MaxId + 1
    /\ rendered \in BOOLEAN

(* An id names one effect: no two active subscriptions share one, and none  *)
(* is also the id of a pending command, so a resolve or notify from the     *)
(* host can only ever reach the effect it was issued for (lib.rs 249-279).  *)
OneOwnerPerId ==
    /\ \A k, l \in DOMAIN activeSubs :
          activeSubs[k].id = activeSubs[l].id => k = l
    /\ ActiveIds \cap DOMAIN pending = {}

(* "Retained keys keep their id but adopt the latest callback" (lib.rs      *)
(* 314-316): after every turn the ledger holds exactly the keys the model   *)
(* asks for now, each with the callback of its last occurrence.             *)
LedgerFollowsModel ==
    rendered =>
        LET w == Subs[model] IN
        /\ DOMAIN activeSubs = KeysOf(w)
        /\ \A k \in KeysOf(w) : \E i \in DOMAIN w :
              /\ w[i].key = k
              /\ activeSubs[k].msg = w[i].msg
              /\ \A j \in DOMAIN w : w[j].key = k => j <= i

(* An id that has been given up is never given out again: every id that     *)
(* enters a ledger is at least the old next_id, and next_id never falls.    *)
(* A late resolve or notify of a finished effect therefore stays a no-op.   *)
RetiredIdsStayRetired ==
    [][ /\ nextId' >= nextId
        /\ \A id \in (DOMAIN pending' \cup ActiveIds')
                        \ (DOMAIN pending \cup ActiveIds) : id >= nextId
      ]_progVars
=============================================================================
