----------------------------- MODULE MCClient -----------------------------
(* Small applications for model-checking the synchronous client.            *)
EXTENDS Client

Sub(k, x) == [key |-> k, msg |-> x]

App(subs, view) == [subs |-> subs, view |-> view]

Click(pd) == [e \in {"click"} |-> pd]
Quiet == [e \in {} |-> TRUE]

(* Applications that never ask twice for one subscription.                  *)
DistinctModels ==
    {App(<<>>, Quiet),
     App(<<Sub("every1", "A")>>, Click(FALSE)),
     App(<<Sub("every2", "A"), Sub("topic", "A"), Sub("every1", "B")>>, Click(TRUE))}

(* The same, and a model that asks for two callbacks of one interval.       *)
RepeatingModels ==
    {App(<<>>, Quiet),
     App(<<Sub("every1", "A")>>, Click(TRUE)),
     App(<<Sub("every1", "A"), Sub("every1", "B")>>, Click(FALSE))}

SubsOf(models) == [m \in models |-> m.subs]
ViewOf(models) == [m \in models |-> m.view]

DistinctSubs == SubsOf(DistinctModels)
DistinctView == ViewOf(DistinctModels)
RepeatingSubs == SubsOf(RepeatingModels)
RepeatingView == ViewOf(RepeatingModels)

MCCmdLists == {<<>>, <<"delay">>, <<"publish", "http">>}
=============================================================================
