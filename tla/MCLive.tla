------------------------------- MODULE MCLive -------------------------------
(* A list that can lose its first item, and the timers that come and go     *)
(* with it.                                                                 *)
EXTENDS Live

Sub(k, x) == [key |-> k, msg |-> x]

MCModels ==
    {[subs |-> <<Sub("every1", "A")>>, items |-> <<"x", "y">>],
     [subs |-> <<Sub("every2", "A"), Sub("topic", "A")>>, items |-> <<"y">>]}

MCSubs == [m \in MCModels |-> m.subs]
MCView == [m \in MCModels |-> [e \in {"click"} |-> FALSE]]
MCItemsOf == [m \in MCModels |-> m.items]
MCCmdLists == {<<>>, <<"delay", "http">>}
=============================================================================
