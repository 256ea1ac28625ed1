------------------------------- MODULE MCTasks -------------------------------
(***************************************************************************)
(* A small instance of Tasks: the boot task and two that it can start.     *)
(***************************************************************************)
EXTENDS Tasks
=============================================================================
