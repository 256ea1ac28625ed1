-------------------------------- MODULE Tasks --------------------------------
(***************************************************************************)
(* The tasks of the kernel on its one processor: the task lists and the    *)
(* switch of kern/task/task.c, the interrupt levels of                     *)
(* kern/arch/aarch64/spl.c, and the preemption of the running task by the  *)
(* timer interrupt, from aarch64_trapentry to task_yield and back.         *)
(*                                                                         *)
(* Code that runs with interrupts masked is one step.  task_start,         *)
(* task_yield and task_exit do not mask interrupts before they change the  *)
(* lists, so here their callers do (module TasksUnmasked takes the calls   *)
(* made with interrupts enabled apart, store by store).                    *)
(*                                                                         *)
(* What a task's function does between two kernel calls is not modelled.   *)
(* What is suspended of a task is its kernel stack: a sequence of frames,  *)
(* the innermost first.                                                    *)
(***************************************************************************)
EXTENDS TaskLists

CONSTANT Main  \* the task that task_bootstrap makes of the boot code

ASSUME MainAssumption == Main \in Task

VARIABLES
  links,    \* the links of the tasks, the heads and tails of the lists
  curtask,  \* curtask
  curspl,   \* curspl
  daif,     \* TRUE when the processor masks interrupts (PSTATE.DAIF)
  spl,      \* spl[t] : t->spl
  state,    \* state[t] : t->state, "none" for a task not allocated yet
  stack,    \* stack[t] : the frames of the kernel calls t is suspended in
  level,    \* level[t] : the interrupt level that t's own code has set
  pending,  \* TRUE when the timer asserts its interrupt
  halt      \* "no", or how the kernel died: "panic" or "wild"

vars == <<links, curtask, curspl, daif, spl, state, stack, level, pending, halt>>

Level == {0, 1}

(* The frames that stay on the stack of a suspended task: mi_switch with    *)
(* its local spl and the state it switches into, aarch64_trapentry with its *)
(* local oldspl, and the frame that md_init_new_task_pcb fakes.             *)
SwitchFrame == [at : {"mi_switch"}, spl : Level, into : Lists]
TrapFrame == [at : {"aarch64_trapentry"}, oldspl : Level]
Startup == [at |-> "mi_task_startup"]
Frame == SwitchFrame \cup TrapFrame \cup {Startup}

Top(t) == Head(stack[t])
Pop(t) == [stack EXCEPT ![t] = Tail(@)]

(* The running task executes the code of its own function. *)
InBody == halt = "no" /\ stack[curtask] = <<>>
(* The running task executes the frame of this function. *)
In(function) ==
  halt = "no" /\ stack[curtask] # <<>> /\ Top(curtask).at = function

(* An interrupt the processor takes before its next instruction. *)
Interrupted == pending /\ ~daif

-----------------------------------------------------------------------------
(* The state when load_devices returns: the boot code, which enabled the    *)
(* interrupts, has become the task Main, and the timer is running.          *)
Init ==
  /\ links = NoLinks
  /\ curtask = Main
  /\ curspl = 0 /\ daif = FALSE
  /\ spl = [t \in Task |-> 0]
  /\ state = [t \in Task |-> IF t = Main THEN "TS_RUNNING" ELSE "none"]
  /\ stack = [t \in Task |-> <<>>]
  /\ level = [t \in Task |-> 0]
  /\ pending = FALSE
  /\ halt = "no"

-----------------------------------------------------------------------------
(***************************************************************************)
(* spl.c                                                                   *)
(***************************************************************************)
(* Faulty variants: levels that nest, and an spl0 that forgets the task. *)
SplhighNests ==
  daif' = TRUE /\ curspl' = curspl + 1 /\ spl' = [spl EXCEPT ![curtask] = curspl + 1]
Spl0ForgetsTask == daif' = FALSE /\ curspl' = 0 /\ UNCHANGED spl

Splhigh == daif' = TRUE /\ curspl' = 1 /\ spl' = [spl EXCEPT ![curtask] = 1]
Spl0 == daif' = FALSE /\ curspl' = 0 /\ spl' = [spl EXCEPT ![curtask] = 0]
Splx(s) == IF s > 0 THEN Splhigh ELSE Spl0

(* The running task's code sets its interrupt level. *)
SetLevel(s) ==
  /\ InBody /\ ~Interrupted
  /\ Splx(s)
  /\ level' = [level EXCEPT ![curtask] = s]
  /\ UNCHANGED <<links, curtask, state, stack, pending, halt>>

-----------------------------------------------------------------------------
(***************************************************************************)
(* task.c and pcb.c                                                        *)
(***************************************************************************)
TaskNew(t) ==
  /\ InBody /\ ~Interrupted
  /\ state[t] = "none"
  /\ state' = [state EXCEPT ![t] = "TS_READY"]
  /\ UNCHANGED <<links, curtask, curspl, daif, spl, stack, level, pending, halt>>

(* Allocated and not started yet. *)
New(t) == state[t] = "TS_READY" /\ stack[t] = <<>> /\ t # curtask

(* Faulty variant: the task is listed and its context never set up. *)
TaskStartNoPcb(t) ==
  /\ InBody /\ level[curtask] = 1
  /\ New(t)
  /\ links' = MoveHead(links, t, "TS_READY")
  /\ halt' = IF links'.prev[t] = NULL THEN halt ELSE "panic"
  /\ UNCHANGED <<curtask, curspl, daif, spl, state, stack, level, pending>>

(* task_list_move_head, with its assertion, and md_init_new_task_pcb. *)
TaskStart(t) ==
  /\ InBody /\ level[curtask] = 1
  /\ New(t)
  /\ links' = MoveHead(links, t, "TS_READY")
  /\ stack' = [stack EXCEPT ![t] = <<Startup>>]
  /\ halt' = IF links'.prev[t] = NULL THEN halt ELSE "panic"
  /\ UNCHANGED <<curtask, curspl, daif, spl, state, level, pending>>

(* Faulty variant: the most recent task in the queue. *)
SchedulerTail(L) == L.tail["TS_READY"]

Scheduler(L) == L.head["TS_READY"]

(* The frame that mi_switch leaves on the stack of the task it suspends: l  *)
(* is the interrupt level it is called at, which splhigh returns.           *)
Suspended(into, l) == [at |-> "mi_switch", spl |-> l, into |-> into]

(* The task that runs next, and the links without it on the ready list. *)
Successor == IF Scheduler(links) = NULL THEN curtask ELSE Scheduler(links)
Descheduled(into) == MoveTail(links, curtask, into)

(***************************************************************************)
(* mi_switch(into), called at interrupt level l with the frames below on   *)
(* the stack already.  The assertion is that of task_list_move_tail.  To   *)
(* switch to a task with no saved context is to jump to a wild address.    *)
(***************************************************************************)
MiSwitch(into, l, below) ==
  /\ links' = UnlinkFrom(Descheduled(into), Successor, "TS_READY")
  /\ curtask' = Successor
  /\ stack' = [stack EXCEPT ![curtask] = <<Suspended(into, l)>> \o below \o @]
  /\ Splhigh
  /\ halt' = IF Descheduled(into).next[curtask] # NULL THEN "panic"
             ELSE IF stack'[Successor] = <<>> THEN "wild" ELSE halt

TaskYield ==
  /\ InBody /\ level[curtask] = 1
  /\ MiSwitch("TS_READY", curspl, <<>>)
  /\ UNCHANGED <<state, level, pending>>

(* A task's function returns, or calls task_exit itself.  Main loops. *)
TaskExit ==
  /\ InBody /\ level[curtask] = 1
  /\ curtask # Main
  /\ MiSwitch("TS_ZOMBIE", curspl, <<>>)
  /\ UNCHANGED <<state, level, pending>>

(* mi_task_startup, up to the call of the task's function. *)
MiTaskStartup ==
  /\ In("mi_task_startup")
  /\ Spl0
  /\ stack' = Pop(curtask)
  /\ UNCHANGED <<links, curtask, state, level, pending, halt>>

(* md_switch returns to mi_switch, which restores the interrupt level.  A   *)
(* task that is switched back to after task_exit returns to nowhere.        *)
SwitchReturn ==
  /\ In("mi_switch")
  /\ Splx(Top(curtask).spl)
  /\ stack' = Pop(curtask)
  /\ halt' = IF Top(curtask).into = "TS_ZOMBIE" THEN "wild" ELSE halt
  /\ UNCHANGED <<links, curtask, state, level, pending>>

-----------------------------------------------------------------------------
(***************************************************************************)
(* trap.c, el1_physical_timer.c, preempt.c                                 *)
(***************************************************************************)
TimerExpire ==
  /\ halt = "no" /\ ~pending
  /\ pending' = TRUE
  /\ UNCHANGED <<links, curtask, curspl, daif, spl, state, stack, level, halt>>

(* Faulty variant: the handler runs with interrupts enabled. *)
TrapLevelLow == 0

(* The interrupt level that aarch64_trapentry sets. *)
TrapLevel == 1

(* The frame that it leaves on the stack: l is curtask->spl at its entry. *)
Interrupt(l) == [at |-> "aarch64_trapentry", oldspl |-> l]

(* Faulty variant: the timer's callback does not ask for preemption. *)
TimerIrqNoPreempt ==
  /\ halt = "no" /\ Interrupted
  /\ pending' = FALSE
  /\ UNCHANGED <<links, curtask, curspl, daif, spl, state, stack, level, halt>>

(***************************************************************************)
(* The timer interrupt: aarch64_trapentry raises the level, el1_timer_irq  *)
(* re-arms the timer, and preempt_fire yields with the trap's frame on the *)
(* stack.                                                                  *)
(***************************************************************************)
TimerIrq ==
  /\ halt = "no" /\ Interrupted
  /\ pending' = FALSE
  /\ MiSwitch("TS_READY", TrapLevel,
              <<Interrupt(spl[curtask])>>)
  /\ UNCHANGED <<state, level>>

(* Faulty variant: the level stays where aarch64_trapentry raised it. *)
TrapReturnKeepsLevel ==
  /\ In("aarch64_trapentry")
  /\ daif' = FALSE
  /\ stack' = Pop(curtask)
  /\ UNCHANGED <<links, curtask, curspl, spl, state, level, pending, halt>>

(* The end of aarch64_trapentry, and the eret that restores the DAIF of the *)
(* interrupted code, which was clear.                                       *)
TrapReturn ==
  /\ In("aarch64_trapentry")
  /\ spl' = [spl EXCEPT ![curtask] = Top(curtask).oldspl]
  /\ curspl' = Top(curtask).oldspl
  /\ daif' = FALSE
  /\ stack' = Pop(curtask)
  /\ UNCHANGED <<links, curtask, state, level, pending, halt>>

-----------------------------------------------------------------------------
Next ==
  \/ \E s \in Level : SetLevel(s)
  \/ \E t \in Task : TaskNew(t) \/ TaskStart(t)
  \/ TaskYield \/ TaskExit
  \/ MiTaskStartup \/ SwitchReturn
  \/ TimerExpire \/ TimerIrq \/ TrapReturn

(* The processor executes the kernel's code and takes the interrupts it is  *)
(* sent, the timer is re-armed at every tick and so expires again, and a    *)
(* task's function leaves the sections it has masked interrupts for.        *)
Fairness ==
  /\ WF_vars(MiTaskStartup) /\ WF_vars(SwitchReturn) /\ WF_vars(TrapReturn)
  /\ WF_vars(TimerExpire) /\ WF_vars(TimerIrq)
  /\ WF_vars(SetLevel(0))

Spec == Init /\ [][Next]_vars
FairSpec == Spec /\ Fairness

-----------------------------------------------------------------------------
(***************************************************************************)
(* Properties                                                              *)
(***************************************************************************)
(* The type invariant of the scheduler's state, frames of suspended contexts *)
(* included.                                                                *)
TypeOK ==
  /\ links \in Links
  /\ curtask \in Task
  /\ curspl \in Level /\ daif \in BOOLEAN
  /\ spl \in [Task -> Level]
  /\ state \in [Task -> {"none", "TS_READY", "TS_RUNNING"}]
  /\ stack \in [Task -> Seq(Frame)]
  /\ level \in [Task -> Level]
  /\ pending \in BOOLEAN
  /\ halt \in {"no", "panic", "wild"}

(* t has called task_exit. *)
Exited(t) == stack[t] # <<>> /\ Top(t).at = "mi_switch" /\ Top(t).into = "TS_ZOMBIE"
(* t has been started and waits for the processor. *)
Runnable(t) == stack[t] # <<>> /\ t # curtask /\ ~Exited(t)

(* A task is back at the interrupt level it has set whenever its own code   *)
(* runs, however it lost the processor (yield, preemption) and got it back, *)
(* curspl, its spl field and the processor agree on that level, and         *)
(* mi_switch, mi_task_startup and the trap handler run with interrupts      *)
(* masked to their end (spl.c, trap.c:21-25 and 92-98, task.c:165-179).     *)
InterruptLevels ==
  halt = "no" =>
    IF InBody
    THEN /\ curspl = level[curtask] /\ spl[curtask] = level[curtask]
         /\ daif <=> level[curtask] = 1
    ELSE daif

(* The stacks of a task whose own code is at interrupt level l. *)
Contexts(l) ==
  {<<>>, <<Startup>>}
    \cup {<<Suspended(into, l)>> : into \in Lists}
    \cup IF l = 0 THEN {<<Interrupt(0)>>, <<Suspended("TS_READY", TrapLevel), Interrupt(0)>>}
                  ELSE {}

(* The kernel's part of a task's stack does not grow with the time the task *)
(* is up: a trap interrupts the task's own code only, never a handler or a  *)
(* switch, so that a context is at most one mi_switch on one trap           *)
(* (STACK_SIZE is fixed, task.c:90), and what it saves is the task's level. *)
SavedContexts == \A t \in Task : stack[t] \in Contexts(level[t])

(* tasks_ready holds q, the runnable tasks, and tasks_zombie z, the exited  *)
(* ones, and the running task is none of them.                              *)
Listed(q, z) ==
  /\ Represents(links, q, z)
  /\ ToSet(q) = {t \in Task : Runnable(t)}
  /\ ToSet(z) = {t \in Task : Exited(t)}
  /\ curtask \notin ToSet(z)

(* The lists hold every task where it belongs: tasks_ready each runnable    *)
(* task once, tasks_zombie each exited task once, both well linked in both  *)
(* directions, and the running task and a task not started are on neither   *)
(* (task.h:23-33, task.c:41-81).                                            *)
EachTaskListed == halt = "no" => \E q, z \in Queues : Listed(q, z)

(* No assertion of the lists fails, no switch enters a task whose context   *)
(* is not set up, and task_exit never returns: as Main never exits, a task  *)
(* that exits finds another one to run (task.c:62, 80, 159, 209).           *)
NeverHalts == halt = "no"

(* The task lists and the switch implement the round-robin queue: the task  *)
(* that runs next is the one started last or waiting longest, whatever mix  *)
(* of yields, exits and preemptions there was (task.c:126-130).             *)
RR == INSTANCE RoundRobin WITH
        running <- curtask,
        ready <- Contents(links, "TS_READY"),
        exited <- Contents(links, "TS_ZOMBIE")
ImplementsRoundRobin == RR!Spec

(* A runnable task gets the processor: the timer preempts the tasks that do *)
(* not yield (preempt.c:5-10).                                              *)
NoStarvation == \A t \in Task : Runnable(t) ~> (curtask = t)
=============================================================================
