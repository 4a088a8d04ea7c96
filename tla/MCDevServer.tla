---------------------------- MODULE MCDevServer ----------------------------
(* The apps TLC lets the user save.                                         *)
EXTENDS DevServer

(* Every save keeps the app's name.                                         *)
OneName == [v \in Saves |-> "counter"]
=============================================================================
