-------------------------------- MODULE Live --------------------------------
(***************************************************************************)
(* Live mode: the Program runs in the server, one per WebSocket connection *)
(* (spikes/sutegi-zumar), and the page talks to it through zumar-live.js.  *)
(* Events and completions travel up as frames, updates travel down; both   *)
(* directions are FIFO until the connection drops, which loses what is in  *)
(* flight and the Program with it.  mountLive then connects again and      *)
(* mounts the first render of a new Program on a clean root.               *)
(*                                                                         *)
(* A tree is the list of its clickable items, which is all that a path     *)
(* into it can tell apart: the page computes a path from the tree on the   *)
(* screen, the Program resolves it in the tree it rendered last.           *)
(***************************************************************************)
EXTENDS Shim

CONSTANTS
    Items,      \* the things a view lists
    ItemEvent,  \* the event every listed item listens to
    ItemsOf,    \* ItemsOf[m]: the items of view(&m), in order
    MaxFrames,  \* bound on the frames the page's user and timers queue up
    MaxDrops    \* bound on the number of lost connections

ASSUME LiveAssumption ==
    /\ ItemsOf \in [Models -> Seq(Items)]
    /\ \A m \in Models : ItemsOf[m] # <<>> => ItemEvent \in DOMAIN View[m]
    /\ MaxFrames \in Nat
    /\ MaxDrops \in Nat

VARIABLES
    phase,   \* "closed", "opening" until the first frame is in, "mounted"
    screen,  \* the model whose tree is on the page
    up,      \* frames on their way to the server
    down,    \* updates on their way to the page
    drops    \* connections lost so far

netVars == <<phase, screen, up, down, drops>>
liveVars == <<progVars, shimVars, netVars>>

(* What the page sends.  `of' is no part of the frame: it records what the  *)
(* frame is about, so that properties can compare it with where it lands.   *)
DispatchFrame(i, item) == [kind |-> "dispatch", at |-> i, of |-> item]
ResolveFrame(id) == [kind |-> "resolve", at |-> id, of |-> id]
NotifyFrame(id, key) == [kind |-> "notify", at |-> id, of |-> key]

(* What the server sends: an update, and the models it leads from and to,   *)
(* which stand for its patches and the trees they connect.                  *)
Pushed(from, to, u) == [from |-> from, to |-> to, update |-> u]

-----------------------------------------------------------------------------
(* on_open: a new Program is put in the map, and its first render is sent.  *)
Open ==
    /\ phase = "closed"
    /\ phase' = "opening"
    /\ InitialRender
    /\ down' = <<Pushed(model, model, UpdateOf(model, initCmds))>>
    /\ UNCHANGED <<shimVars, screen, up, drops>>

(* Mutant: a mount keeps the tree it finds.                                 *)
LiveMountStale ==
    /\ phase = "opening"
    /\ phase' = "mounted"
    /\ LET first == Head(down) IN
       /\ screen' = screen
       /\ preventDefaults' = Ensured(EmptyFn, first.update.events)
       /\ inflight' = Executed(EmptyFn, first.update.cmds)
       /\ intervals' = Retimed(EmptyFn, first.update)
    /\ down' = Tail(down)
    /\ UNCHANGED <<progVars, up, drops>>

(* The first frame resolves connect's promise, and mountLive's continuation *)
(* mounts it before the next message event: onUpdate is set by then.        *)
LiveMount ==
    /\ phase = "opening"
    /\ phase' = "mounted"
    /\ LET first == Head(down) IN
       /\ screen' = first.to
       /\ preventDefaults' = Ensured(EmptyFn, first.update.events)
       /\ inflight' = Executed(EmptyFn, first.update.cmds)
       /\ intervals' = Retimed(EmptyFn, first.update)
    /\ down' = Tail(down)
    /\ UNCHANGED <<progVars, up, drops>>

(* onUpdate: a pushed update is applied.                                    *)
Receive ==
    /\ phase = "mounted"
    /\ down # <<>>
    /\ screen' = Head(down).to
    /\ ShimStep(inflight, Head(down).update)
    /\ down' = Tail(down)
    /\ UNCHANGED <<progVars, phase, up, drops>>

-----------------------------------------------------------------------------
Send(f) == up' = Append(up, f) /\ UNCHANGED <<progVars, phase, screen, down, drops>>

HasRoom == phase = "mounted" /\ Len(up) < MaxFrames

(* The user clicks an item of the tree on the screen.                       *)
Click(i) ==
    /\ HasRoom
    /\ ItemEvent \in DOMAIN preventDefaults
    /\ i \in DOMAIN ItemsOf[screen]
    /\ Send(DispatchFrame(i, ItemsOf[screen][i]))
    /\ UNCHANGED shimVars

SendNotify(id) ==
    /\ HasRoom
    /\ id \in DOMAIN intervals
    /\ Send(NotifyFrame(id, intervals[id]))
    /\ UNCHANGED shimVars

(* Mutant: a completed command is not forgotten.                            *)
SendResolveTwice(id) ==
    /\ phase = "mounted"
    /\ Send(ResolveFrame(id))
    /\ UNCHANGED shimVars

(* done: the completion of a command is sent, and its update comes later.   *)
SendResolve(id) ==
    /\ phase = "mounted"
    /\ Send(ResolveFrame(id))
    /\ inflight' = Without(inflight, id)
    /\ UNCHANGED <<preventDefaults, intervals>>

CommandProgresses(id) ==
    \/ TimeoutDue(id) /\ SendResolve(id)
    \/ FetchRejected(id) /\ SendResolve(id)
    \/ BodyArrived(id) /\ SendResolve(id)
    \/ /\ phase = "mounted"
       /\ FetchResponds(id) \/ BodyFails(id)
       /\ UNCHANGED <<progVars, netVars>>

-----------------------------------------------------------------------------
(* Mutant: an update overtakes those sent before it.                        *)
AnswerFirst(to, u) ==
    /\ up' = Tail(up)
    /\ down' = <<Pushed(model, to, u)>> \o down
    /\ UNCHANGED <<shimVars, phase, screen, drops>>

(* on_message: the Program takes the frame, and whatever update comes of it *)
(* is sent, the empty one included.                                         *)
Answer(to, u) ==
    /\ up' = Tail(up)
    /\ down' = Append(down, Pushed(model, to, u))
    /\ UNCHANGED <<shimVars, phase, screen, drops>>

Turns(f, m, c) ==
    \/ f.kind = "dispatch" /\ f.at \in DOMAIN ItemsOf[model] /\ Dispatch(ItemEvent, m, c)
    \/ f.kind = "resolve" /\ Resolve(f.at, m, c)
    \/ f.kind = "notify" /\ Notify(f.at, m, c)

(* A completion always finds its command: see CommandsInOnePlace.           *)
Ignores(f) ==
    \/ f.kind = "dispatch" /\ f.at \notin DOMAIN ItemsOf[model] /\ DispatchMiss
    \/ f.kind = "notify" /\ NotifyUnknown(f.at)

Serve ==
    /\ up # <<>>
    /\ Len(down) < MaxFrames
    /\ \/ \E m \in Models, c \in CmdLists :
             Turns(Head(up), m, c) /\ Answer(m, UpdateOf(m, c))
       \/ Ignores(Head(up)) /\ Answer(model, Noop)

(* The connection drops.  The server forgets the Program in on_close, and   *)
(* the next connection will have one of its own; the page keeps showing the *)
(* old tree, and the sends of its old mount go nowhere.                     *)
Drop ==
    /\ phase # "closed"
    /\ drops < MaxDrops
    /\ phase' = "closed"
    /\ up' = <<>>
    /\ down' = <<>>
    /\ drops' = drops + 1
    /\ \E m \in Models, c \in CmdLists :
          /\ model' = m
          /\ current' = View[m]
          /\ initCmds' = c
    /\ pending' = EmptyFn
    /\ activeSubs' = EmptyFn
    /\ nextId' = 1
    /\ rendered' = FALSE
    /\ UNCHANGED <<shimVars, screen>>

-----------------------------------------------------------------------------
LiveInit ==
    /\ ProgramInit
    /\ ShimInit
    /\ phase = "closed"
    /\ screen = model
    /\ up = <<>>
    /\ down = <<>>
    /\ drops = 0

LiveNext ==
    \/ Open
    \/ LiveMount
    \/ Receive
    \/ Serve
    \/ Drop
    \/ \E i \in DOMAIN ItemsOf[screen] : Click(i)
    \/ \E id \in Ids : SendNotify(id) \/ CommandProgresses(id)

LiveSpec == LiveInit /\ [][LiveNext]_liveVars

(* While connected the socket delivers, the server answers, mountLive keeps *)
(* connecting, and the browser settles what it started.  Clicks, ticks and  *)
(* drops owe nothing.                                                       *)
LiveFairness ==
    /\ WF_liveVars(Open)
    /\ WF_liveVars(LiveMount)
    /\ WF_liveVars(Receive)
    /\ WF_liveVars(Serve)
    /\ \A id \in Ids : WF_liveVars(CommandProgresses(id))

FairLiveSpec == LiveSpec /\ LiveFairness

-----------------------------------------------------------------------------
(* Type correctness of the live session.                                    *)
LiveTypeOK ==
    /\ ProgramTypeOK
    /\ ShimTypeOK
    /\ phase \in {"closed", "opening", "mounted"}
    /\ screen \in Models
    /\ \A n \in DOMAIN up : up[n].kind \in {"dispatch", "resolve", "notify"}
    /\ \A n \in DOMAIN down : down[n].from \in Models /\ down[n].to \in Models
    /\ drops \in 0 .. MaxDrops

(* Every update is applied to the very tree it was diffed from, and the     *)
(* last one in flight leads to the server's tree: the page can lag but it   *)
(* cannot diverge, across reconnects too.                                   *)
ScreenCatchesUp ==
    phase = "mounted" =>
        LET trees == <<screen>> \o [n \in DOMAIN down |-> down[n].to] IN
        /\ \A n \in DOMAIN down : down[n].from = trees[n]
        /\ trees[Len(trees)] = model

(* The commands on their way to the page, and the completions on their way  *)
(* to the server.                                                           *)
Travelling == UNION {Executable(down[n].update.cmds) : n \in DOMAIN down}
Completed == {up[n].at : n \in {n \in DOMAIN up : up[n].kind = "resolve"}}

(* Over the socket too a command completes once: each id the server awaits  *)
(* is in exactly one place - going down, executing, or coming back.         *)
CommandsInOnePlace ==
    phase = "mounted" =>
        /\ DOMAIN pending = Travelling \cup DOMAIN inflight \cup Completed
        /\ Travelling \cap DOMAIN inflight = {}
        /\ Travelling \cap Completed = {}
        /\ DOMAIN inflight \cap Completed = {}
        /\ \A i, j \in DOMAIN up :
              up[i].kind = "resolve" /\ up[i] = up[j] => i = j

(* Once the deltas in flight are applied, the page's timers are those of    *)
(* the server's ledger.                                                     *)
TimersCatchUp ==
    phase = "mounted" /\ down = <<>> =>
        {<<id, intervals[id]>> : id \in DOMAIN intervals}
            = {<<activeSubs[k].id, k>> : k \in DOMAIN activeSubs \cap EveryKeys}

(* A tick that raced the Stop of its subscription is ignored; it is never   *)
(* taken for a tick of a subscription started since (lib.rs 267-268).       *)
TicksReachTheirSub ==
    \A n \in DOMAIN up : up[n].kind = "notify" =>
        \A k \in DOMAIN activeSubs : activeSubs[k].id = up[n].at => k = up[n].of

(* "An event [that] raced a render is a no-op" (lib.rs 235-237; vdom.rs     *)
(* 194-196: "dropping the event is the correct outcome"): a click the       *)
(* server acts on is a click on the item it acts on.                        *)
ClicksReachTheirItem ==
    [][ Serve /\ Head(up).kind = "dispatch" /\ Head(up).at \in DOMAIN ItemsOf[model]
            => ItemsOf[model][Head(up).at] = Head(up).of ]_liveVars

(* Every command the server awaits is answered, lost with its body, or lost *)
(* with its connection, although its start and its completion each cross    *)
(* the socket.                                                              *)
LiveCommandsSettle ==
    \A id \in Ids :
        id \in DOMAIN pending ~> (id \notin DOMAIN pending \/ InPhase(id, "lost"))

(* A page that lost its connection gets a new tree, and a page that lags    *)
(* catches up whenever the server's tree rests.                             *)
PageComesBack ==
    \A m \in Models :
        []<>(model # m \/ (phase = "mounted" /\ screen = m))
=============================================================================
