----------------------------- MODULE RoundRobin -----------------------------
(***************************************************************************)
(* What the task scheduler promises: one task runs, the runnable ones wait *)
(* in a queue, a switch runs the longest waiting one, and a task that      *)
(* exited never runs again.  A task that is started runs next.             *)
(***************************************************************************)
EXTENDS Sequences, SequencesExt

CONSTANTS Task, Main

VARIABLES running,  \* the task that has the processor
          ready,    \* the runnable tasks, the next to run first
          exited    \* the tasks that have exited, the oldest first

vars == <<running, ready, exited>>

Init == running = Main /\ ready = <<>> /\ exited = <<>>

Known == {running} \cup ToSet(ready) \cup ToSet(exited)

(* A new task goes to the front: it is the next to run. *)
Start(t) ==
  /\ t \notin Known
  /\ ready' = <<t>> \o ready
  /\ UNCHANGED <<running, exited>>

(* The running task gives the processor to the one that waited longest. *)
Rotate ==
  LET queue == Append(ready, running)
  IN running' = Head(queue) /\ ready' = Tail(queue) /\ UNCHANGED exited

(* The running task ends: there must be another one to run. *)
Exit ==
  /\ ready # <<>>
  /\ running' = Head(ready) /\ ready' = Tail(ready)
  /\ exited' = Append(exited, running)

Next == \/ \E t \in Task : Start(t)
        \/ Rotate
        \/ Exit

Spec == Init /\ [][Next]_vars
=============================================================================
