---------------------------- MODULE TasksUnmasked ----------------------------
(***************************************************************************)
(* The kernel calls of module Tasks when the caller has interrupts         *)
(* enabled, as a function that mi_task_startup calls has: spl0 comes       *)
(* first.  task_start and mi_switch then run statement by statement, with  *)
(* the timer interrupt between any two, until mi_switch masks interrupts.  *)
(* The build has no -O flag: each statement reads memory anew.             *)
(*                                                                         *)
(* A call in progress is a frame on the stack of its task.                 *)
(***************************************************************************)
EXTENDS Tasks

CONSTANT Unmasked  \* the calls that are made with interrupts enabled

ASSUME UnmaskedAssumption == Unmasked \subseteq {"start", "yield", "exit"}

StartFrame == [at : {"task_start"}, pc : {"next", "prev", "head", "pcb"}, task : Task]
SwitchingFrame ==
  [at : {"switching"}, pc : {"scheduler", "unlink", "prev", "next", "tail", "switch"},
   into : Lists, next : Pointer]
SplhighFrame == [at : {"splhigh"}, pc : {"daifset", "curspl"}]

(* The frame of the call in progress, and the stack with it changed. *)
Call == Top(curtask)
Enter(frame) == [stack EXCEPT ![curtask] = <<frame>> \o @]
Goto(pc) == [stack EXCEPT ![curtask][1].pc = pc]

(* The running task is at this statement of this function. *)
At(function, pc) == In(function) /\ Call.pc = pc /\ ~Interrupted

(* A task's own code calls the kernel with interrupts enabled. *)
Calls == InBody /\ level[curtask] = 0 /\ ~Interrupted

-----------------------------------------------------------------------------
(* splhigh: the mask, then the two assignments. *)
BeginSplhigh ==
  /\ Calls
  /\ stack' = Enter([at |-> "splhigh", pc |-> "daifset"])
  /\ UNCHANGED <<links, curtask, curspl, daif, spl, state, level, pending, halt>>

SplhighDaifset ==
  /\ At("splhigh", "daifset")
  /\ daif' = TRUE
  /\ stack' = Goto("curspl")
  /\ UNCHANGED <<links, curtask, curspl, spl, state, level, pending, halt>>

SplhighCurspl ==
  /\ At("splhigh", "curspl")
  /\ curspl' = 1 /\ spl' = [spl EXCEPT ![curtask] = 1]
  /\ level' = [level EXCEPT ![curtask] = 1]
  /\ stack' = Pop(curtask)
  /\ UNCHANGED <<links, curtask, daif, state, pending, halt>>

-----------------------------------------------------------------------------
(* task_start(t): task_list_move_head of a task that has no links, and      *)
(* md_init_new_task_pcb last.                                               *)
Starting(t) ==
  \E u \in Task : \E f \in ToSet(stack[u]) : f.at = "task_start" /\ f.task = t

BeginStart(t) ==
  /\ "start" \in Unmasked /\ Calls
  /\ New(t) /\ ~Starting(t)
  /\ stack' = Enter([at |-> "task_start", pc |-> "next", task |-> t])
  /\ UNCHANGED <<links, curtask, curspl, daif, spl, state, level, pending, halt>>

StartNext ==
  /\ At("task_start", "next")
  /\ links' = [links EXCEPT !.next[Call.task] = links.head["TS_READY"]]
  /\ stack' = Goto("prev")
  /\ UNCHANGED <<curtask, curspl, daif, spl, state, level, pending, halt>>

StartPrev ==
  /\ At("task_start", "prev")
  /\ LET t == Call.task
         n == links.next[t]
     IN links' = IF n # NULL THEN [links EXCEPT !.prev[n] = t]
                             ELSE [links EXCEPT !.tail["TS_READY"] = t]
  /\ stack' = Goto("head")
  /\ UNCHANGED <<curtask, curspl, daif, spl, state, level, pending, halt>>

StartHead ==
  /\ At("task_start", "head")
  /\ links' = [links EXCEPT !.head["TS_READY"] = Call.task]
  /\ stack' = Goto("pcb")
  /\ UNCHANGED <<curtask, curspl, daif, spl, state, level, pending, halt>>

StartPcb ==
  /\ At("task_start", "pcb")
  /\ stack' = [Pop(curtask) EXCEPT ![Call.task] = <<Startup>>]
  /\ halt' = IF links.prev[Call.task] = NULL THEN halt ELSE "panic"
  /\ UNCHANGED <<links, curtask, curspl, daif, spl, state, level, pending>>

-----------------------------------------------------------------------------
(* mi_switch(into). *)
BeginSwitch(into) ==
  /\ Calls
  /\ IF into = "TS_READY" THEN "yield" \in Unmasked
                          ELSE "exit" \in Unmasked /\ curtask # Main
  /\ stack' = Enter([at |-> "switching", pc |-> "scheduler", into |-> into, next |-> NULL])
  /\ UNCHANGED <<links, curtask, curspl, daif, spl, state, level, pending, halt>>

SwitchScheduler ==
  /\ At("switching", "scheduler")
  /\ stack' = [stack EXCEPT ![curtask][1] =
                 [@ EXCEPT !.pc = "unlink", !.next = Scheduler(links)]]
  /\ UNCHANGED <<links, curtask, curspl, daif, spl, state, level, pending, halt>>

(* task_list_move_tail, in four steps. *)
SwitchUnlink ==
  /\ At("switching", "unlink")
  /\ links' = UnlinkFrom(links, curtask, "none")
  /\ stack' = Goto("prev")
  /\ UNCHANGED <<curtask, curspl, daif, spl, state, level, pending, halt>>

SwitchPrev ==
  /\ At("switching", "prev")
  /\ links' = [links EXCEPT !.prev[curtask] = links.tail[Call.into]]
  /\ stack' = Goto("next")
  /\ UNCHANGED <<curtask, curspl, daif, spl, state, level, pending, halt>>

SwitchNext ==
  /\ At("switching", "next")
  /\ LET p == links.prev[curtask]
     IN links' = IF p # NULL THEN [links EXCEPT !.next[p] = curtask]
                             ELSE [links EXCEPT !.head[Call.into] = curtask]
  /\ stack' = Goto("tail")
  /\ UNCHANGED <<curtask, curspl, daif, spl, state, level, pending, halt>>

SwitchTail ==
  /\ At("switching", "tail")
  /\ links' = [links EXCEPT !.tail[Call.into] = curtask]
  /\ stack' = Goto("switch")
  /\ UNCHANGED <<curtask, curspl, daif, spl, state, level, pending, halt>>

(* The assertion, the choice of next, and the rest behind splhigh. *)
SwitchMasked ==
  /\ At("switching", "switch")
  /\ LET next == IF Call.next = NULL THEN curtask ELSE Call.next
     IN /\ links' = UnlinkFrom(links, next, "TS_READY")
        /\ curtask' = next
        /\ stack' = [stack EXCEPT ![curtask][1] = Suspended(Call.into, curspl)]
        /\ halt' = IF links.next[curtask] # NULL THEN "panic"
                   ELSE IF stack'[next] = <<>> THEN "wild" ELSE halt
  /\ Splhigh
  /\ UNCHANGED <<state, level, pending>>

-----------------------------------------------------------------------------
(* At level 1 the calls are the steps of Tasks. *)
SetLevelMasked(s) == level[curtask] = 1 /\ SetLevel(s)
TaskStartMasked(t) == TaskStart(t) /\ ~Starting(t)

NextUnmasked ==
  \/ \E s \in Level : SetLevelMasked(s)
  \/ \E t \in Task : TaskStartMasked(t)
  \/ TaskYield \/ TaskExit
  \/ \E t \in Task : TaskNew(t)
  \/ MiTaskStartup \/ SwitchReturn
  \/ TimerExpire \/ TimerIrq \/ TrapReturn
  \/ BeginSplhigh \/ SplhighDaifset \/ SplhighCurspl
  \/ \E t \in Task : BeginStart(t)
  \/ StartNext \/ StartPrev \/ StartHead \/ StartPcb
  \/ \E into \in Lists : BeginSwitch(into)
  \/ SwitchScheduler \/ SwitchUnlink \/ SwitchPrev \/ SwitchNext \/ SwitchTail
  \/ SwitchMasked

SpecUnmasked == Init /\ [][NextUnmasked]_vars

-----------------------------------------------------------------------------
(***************************************************************************)
(* Properties                                                              *)
(***************************************************************************)
(* The type invariant, with the frames of the calls in progress.            *)
TypeOKUnmasked ==
  /\ links \in Links
  /\ curtask \in Task
  /\ curspl \in Level /\ daif \in BOOLEAN
  /\ spl \in [Task -> Level]
  /\ state \in [Task -> {"none", "TS_READY", "TS_RUNNING"}]
  /\ stack \in [Task -> Seq(Frame \cup StartFrame \cup SwitchingFrame \cup SplhighFrame)]
  /\ level \in [Task -> Level]
  /\ pending \in BOOLEAN
  /\ halt \in {"no", "panic", "wild"}

(* The interrupt levels survive every interleaving of the calls with the    *)
(* timer, those that break the lists included: whenever the processor takes *)
(* interrupts, curspl and the running task's spl are 0, so that a trap      *)
(* saves and restores the right level, and a task's own code always runs at *)
(* the level it has set (the argument of the comments at spl.c:17-23 and    *)
(* 37-44 and trap.c:93-96).                                                 *)
InterruptLevelsUnmasked ==
  halt = "no" =>
    /\ ~daif => curspl = 0 /\ spl[curtask] = 0
    /\ InBody => /\ curspl = level[curtask] /\ spl[curtask] = level[curtask]
                 /\ daif <=> level[curtask] = 1
    /\ In("mi_switch") \/ In("mi_task_startup") \/ In("aarch64_trapentry") => daif

(* The assertion of task_list_move_tail (task.c:80) and the one of          *)
(* task_list_move_head (task.c:62) hold.                                    *)
AssertionsHold == halt # "panic"

(* A task that mi_switch enters has the context that md_init_new_task_pcb   *)
(* sets up (pcb.c:12-15), or one that an earlier switch saved.              *)
ContextSetUp == halt # "wild"
=============================================================================
