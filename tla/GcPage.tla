------------------------------- MODULE GcPage -------------------------------
(***************************************************************************)
(* The page of an emitted module: its effects and, tree and events, its    *)
(* view.                                                                   *)
(***************************************************************************)
EXTENDS GcEffects, GcView

CONSTANTS Template,    \* the view of the program
          EventNames   \* the events the user may cause

(* What the module was compiled with.                                       *)
PatchPlan == Plan(Template)
HandlerTable == Table(Template)

ASSUME PageAssumption ==
    /\ Template \in Parts
    /\ \A m \in GcModels, t \in Parts : IsRegion(t) => m[t.each] \in Seq(Items)

VARIABLE dom   \* the tree under the mount point

pageAllVars == <<gcVars, dom>>

Blank == [tag |-> TextTag, text |-> "", attrs |-> <<>>, kids |-> <<>>]

(* pathOf: the nodes of the page, which is as deep as the template is high. *)
TargetPaths == Paths(dom, Height[Template])

(* Mounting builds the tree init wrote.                                     *)
PageShow ==
    /\ Show
    /\ dom' = Tree(Template, model)

(* patches() and apply, for the model after the update.                     *)
Repaint == dom' = Applied(dom, Patches(PatchPlan, model'))

(* A DOM event: the path of its target, as the page is now, goes through    *)
(* the table.                                                               *)
PageEvent(path, event) ==
    LET hit == Dispatched(HandlerTable, path, event, model)
    IN  /\ hit # NoMessage
        /\ Dispatch(hit[1])
        /\ Repaint

(* One that no handler matches: an empty update, and nothing changes.       *)
PageEventMiss(path, event) ==
    /\ shown
    /\ Dispatched(HandlerTable, path, event, model) = NoMessage
    /\ UNCHANGED pageAllVars

PageResolve(h) == Resolve(h) /\ Repaint
PageNotify(h) == Notify(h) /\ Repaint
PageWaits(h) == (FetchResponds(h) \/ BodyFails(h)) /\ UNCHANGED dom

PageInit == GcInit /\ dom = Blank

PageNext ==
    \/ PageShow
    \/ \E path \in TargetPaths, event \in EventNames :
          PageEvent(path, event) \/ PageEventMiss(path, event)
    \/ \E h \in 1 .. MaxHandles : PageResolve(h) \/ PageNotify(h) \/ PageWaits(h)

PageSpec == PageInit /\ [][PageNext]_pageAllVars

-----------------------------------------------------------------------------
(* The plan made when the program was compiled brings the screen to the     *)
(* tree the runtime would have rendered for the new model, whatever it      *)
(* showed before (lib.rs 747-853, 2690-2735).                               *)
TreeOnScreen ==
    shown => LET view == View(Template, model) IN
        \A path \in TargetPaths :
            /\ HasNode(view, path)
            /\ LET seen == NodeAt(dom, path)
                   meant == NodeAt(view, path)
               IN  /\ <<seen.tag, seen.text, seen.attrs>> = <<meant.tag, meant.text, meant.attrs>>
                   /\ Len(seen.kids) = Len(meant.kids)

(* The two backends agree on every event: the table picks the handler that  *)
(* bubbling finds in the rendered tree, and evaluates its argument to the   *)
(* same value (lib.rs 2795-2931, vdom.rs 190-222).                          *)
HandlersAgree ==
    shown => LET view == View(Template, model) IN
        \A path \in TargetPaths, event \in EventNames :
            Dispatched(HandlerTable, path, event, model)
              = FindListener(view, path, event)
=============================================================================
