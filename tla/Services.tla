------------------------------- MODULE Services -------------------------------
(***************************************************************************)
(* What tasks share beside the processor: the heap (module Heap), the      *)
(* console on the UART (printk.c, con_vt100.c, rpi4os_uart.c), the devices *)
(* that load_devices installs, and the end of the kernel, a panic          *)
(* (panic.c, watchdog.c) or an exception (trap.c).                         *)
(*                                                                         *)
(* The processor goes from task to task as module RoundRobin says, which   *)
(* Tasks implements, and a task keeps the interrupt level it has set, as   *)
(* InterruptLevels of Tasks says: the processor masks interrupts when the  *)
(* running task does.  A message is a sequence of bytes, which the UART    *)
(* takes one by one; what a byte says is who wrote it.                     *)
(***************************************************************************)
EXTENDS Heap

CONSTANTS
  Main,        \* the boot task
  FifoSize,    \* the bytes that the UART's transmit FIFO holds
  MessageSize, \* the bytes of a message
  MaxCalls     \* how much the tasks call (a bound for TLC)

ASSUME ServicesAssumption ==
  /\ Main \in Task
  /\ {FifoSize, MessageSize, MaxCalls} \subseteq Nat \ {0}

VARIABLES
  running, ready,  \* the scheduler's queue
  masked,    \* masked[t] : t runs with interrupts masked
  pc,        \* pc[t] : where t is
  out,       \* out[t] : the bytes that t has left to print
  after,     \* after[t] : where t goes on when they are printed
  calls,     \* how much the tasks have called
  installed, \* the devices that are installed
  step,      \* panic's step
  queued,    \* the number of bytes in the transmit FIFO
  accepted,  \* the bytes that the FIFO has taken, in order
  lost,      \* the bytes written to a full FIFO
  power      \* "on", "reset" when the watchdog will fire, "off"

scheduling == <<running, ready>>
console == <<queued, accepted, lost>>
task == <<masked, pc, out, after, calls>>
vars == <<scheduling, console, task, installed, step, power, heap>>

Scheduler == INSTANCE RoundRobin WITH exited <- <<>>

Byte == [task : Task, call : 0 .. MaxCalls, at : 1 .. MessageSize, masked : BOOLEAN]
Message(t, m) ==
  [k \in 1 .. MessageSize |-> [task |-> t, call |-> calls, at |-> k, masked |-> m]]

Init ==
  /\ HeapInit
  /\ running = Main /\ ready = <<>>
  /\ masked = [t \in Task |-> FALSE]
  /\ pc = [t \in Task |-> "body"]
  /\ out = [t \in Task |-> <<>>] /\ after = [t \in Task |-> "body"]
  /\ calls = 0
  /\ installed = {}
  /\ step = 0
  /\ queued = 0 /\ accepted = <<>> /\ lost = {}
  /\ power = "on"

(* t has the processor and is at this point. *)
At(t, point) == running = t /\ pc[t] = point /\ power # "off"
(* The bound on the calls, which have different weights in it: 2 for a call *)
(* of kzalloc, of which several are needed to meet, and 3 for any other.    *)
Spends(weight) == calls + weight <= MaxCalls /\ calls' = calls + weight
(* t's own function, which may make another call. *)
Calls(t, weight) == At(t, "body") /\ Spends(weight)

-----------------------------------------------------------------------------
(***************************************************************************)
(* Devices, interrupts and tasks                                           *)
(***************************************************************************)
(* load_devices: the console, the power device, then the timer. *)
Install(device, before) ==
  /\ At(Main, "body")
  /\ installed = before
  /\ installed' = before \cup {device}
  /\ UNCHANGED <<scheduling, console, task, step, power, heap>>
LoadDevices ==
  \/ Install("console", {})
  \/ Install("power", {"console"})
  \/ Install("timer", {"console", "power"})

StartTask(t) ==
  /\ At(running, "body")
  /\ Scheduler!Start(t)
  /\ UNCHANGED <<console, task, installed, step, power, heap>>

SetMask(t, m) ==
  /\ At(t, "body") /\ masked[t] # m
  /\ masked' = [masked EXCEPT ![t] = m]
  /\ UNCHANGED <<scheduling, console, pc, out, after, calls, installed, step, power, heap>>

Interruptible(t) == running = t /\ ~masked[t] /\ "timer" \in installed /\ power # "off"

Preempt ==
  /\ Interruptible(running)
  /\ Scheduler!Rotate
  /\ UNCHANGED <<console, task, installed, step, power, heap>>

Kzalloc(t, size) ==
  /\ Calls(t, 2)
  /\ pc' = [pc EXCEPT ![t] = "kzalloc"]
  /\ KzallocEnter(t, size)
  /\ UNCHANGED <<scheduling, console, masked, out, after, installed, step, power>>

InKzallocStep(t) ==
  /\ At(t, "kzalloc")
  /\ KzallocStep(t)
  /\ pc' = [pc EXCEPT ![t] = IF kzalloc'[t] = NoCall THEN "body" ELSE @]
  /\ UNCHANGED <<scheduling, console, masked, out, after, calls, installed, step, power>>

-----------------------------------------------------------------------------
(***************************************************************************)
(* printk, and the UART                                                    *)
(***************************************************************************)
(* t begins to print a message, and goes on at this point then. *)
Prints(t, m, then) ==
  /\ out' = [out EXCEPT ![t] = Message(t, m)]
  /\ after' = [after EXCEPT ![t] = then]
  /\ pc' = [pc EXCEPT ![t] = "putc"]

Printk(t) ==
  /\ Calls(t, 3)
  /\ Prints(t, masked[t], "body")
  /\ UNCHANGED <<scheduling, console, masked, installed, step, power, heap>>

(* con_putc has returned. *)
NextByte(t) ==
  /\ out' = [out EXCEPT ![t] = Tail(@)]
  /\ pc' = [pc EXCEPT ![t] = IF Tail(out[t]) = <<>> THEN after[t] ELSE "putc"]
  /\ UNCHANGED <<scheduling, masked, after, calls, installed, step, power, heap>>

(* con_putc_dummy. *)
PutcDummy(t) ==
  /\ At(t, "putc") /\ "console" \notin installed
  /\ NextByte(t)
  /\ UNCHANGED console

(* Faulty variants: the transmitter is not waited for, or waited for while  *)
(* it is ready.                                                             *)
PollNever(t) ==
  /\ At(t, "putc") /\ "console" \in installed
  /\ pc' = [pc EXCEPT ![t] = "write"]
  /\ UNCHANGED <<scheduling, console, masked, out, after, calls, installed, step, power, heap>>

PollInverted(t) ==
  /\ At(t, "putc") /\ "console" \in installed
  /\ queued >= FifoSize
  /\ pc' = [pc EXCEPT ![t] = "write"]
  /\ UNCHANGED <<scheduling, console, masked, out, after, calls, installed, step, power, heap>>

(* uart_isWriteByteReady is true. *)
Poll(t) ==
  /\ At(t, "putc") /\ "console" \in installed
  /\ queued < FifoSize
  /\ pc' = [pc EXCEPT ![t] = "write"]
  /\ UNCHANGED <<scheduling, console, masked, out, after, calls, installed, step, power, heap>>

(* The store to AUX_MU_IO_REG: a full FIFO loses the byte. *)
Write(t) ==
  /\ At(t, "write")
  /\ IF queued < FifoSize
     THEN queued' = queued + 1 /\ accepted' = Append(accepted, Head(out[t])) /\ UNCHANGED lost
     ELSE lost' = lost \cup {Head(out[t])} /\ UNCHANGED <<queued, accepted>>
  /\ NextByte(t)

Transmit ==
  /\ queued > 0 /\ power # "off"
  /\ queued' = queued - 1
  /\ UNCHANGED <<scheduling, task, accepted, lost, installed, step, power, heap>>

-----------------------------------------------------------------------------
(***************************************************************************)
(* The end: panic, the watchdog, an exception                              *)
(***************************************************************************)
(* Where panic goes on from the step it has reached. *)
PanicPoint == [s \in 0 .. 4 |-> IF s = 0 THEN "splhigh" ELSE IF s <= 2 THEN "message"
                                ELSE IF s = 3 THEN "power" ELSE "hang"]

Panic(t) ==
  /\ Calls(t, 3)
  /\ pc' = [pc EXCEPT ![t] = PanicPoint[step]]
  /\ UNCHANGED <<scheduling, console, masked, out, after, installed, step, power, heap>>

(* An assertion fails in the handler of an interrupt, wherever that came. *)
PanicInTrap(t) ==
  /\ Interruptible(t) /\ Spends(3)
  /\ masked' = [masked EXCEPT ![t] = TRUE]
  /\ pc' = [pc EXCEPT ![t] = PanicPoint[step]]
  /\ UNCHANGED <<scheduling, console, out, after, installed, step, power, heap>>

(* Faulty variant: the step is taken and the interrupts stay enabled. *)
PanicUnmasked(t) ==
  /\ At(t, "splhigh")
  /\ step' = 2
  /\ pc' = [pc EXCEPT ![t] = "message"]
  /\ UNCHANGED <<scheduling, console, masked, out, after, calls, installed, power, heap>>

(* splhigh, and the steps up to the message. *)
PanicMask(t) ==
  /\ At(t, "splhigh")
  /\ masked' = [masked EXCEPT ![t] = TRUE]
  /\ step' = 2
  /\ pc' = [pc EXCEPT ![t] = "message"]
  /\ UNCHANGED <<scheduling, console, out, after, calls, installed, power, heap>>

PanicMessage(t) ==
  /\ At(t, "message")
  /\ Prints(t, TRUE, "power")
  /\ UNCHANGED <<scheduling, console, masked, calls, installed, step, power, heap>>

(* Faulty variant: the power device is not called. *)
PanicPowerHangs(t) ==
  /\ At(t, "power")
  /\ step' = 4
  /\ pc' = [pc EXCEPT ![t] = "hang"]
  /\ UNCHANGED <<scheduling, console, masked, out, after, calls, installed, power, heap>>

(* power_dev->panic: wdog_panic has the watchdog fire soon, and the dummy   *)
(* prints and hangs.                                                        *)
PanicPower(t) ==
  /\ At(t, "power")
  /\ IF "power" \in installed
     THEN /\ step' = 4 /\ power' = "reset"
          /\ pc' = [pc EXCEPT ![t] = "hang"]
          /\ UNCHANGED <<out, after>>
     ELSE /\ step' = 3
          /\ Prints(t, TRUE, "hang")
          /\ UNCHANGED power
  /\ UNCHANGED <<scheduling, console, masked, calls, installed, heap>>

(* A synchronous exception: aarch64_trapentry prints and hangs. *)
Exception(t) ==
  /\ Calls(t, 3)
  /\ masked' = [masked EXCEPT ![t] = TRUE]
  /\ Prints(t, TRUE, "hang")
  /\ UNCHANGED <<scheduling, console, installed, step, power, heap>>

PowerOff ==
  /\ power = "reset"
  /\ power' = "off"
  /\ UNCHANGED <<scheduling, console, task, installed, step, heap>>

-----------------------------------------------------------------------------
(* The task goes on in the call that it is in. *)
Continue(t) ==
  \/ InKzallocStep(t)
  \/ PutcDummy(t) \/ Poll(t) \/ Write(t)
  \/ PanicMask(t) \/ PanicMessage(t) \/ PanicPower(t)

Next ==
  \/ LoadDevices
  \/ Preempt
  \/ Transmit
  \/ PowerOff
  \/ \E t \in Task :
       \/ StartTask(t)
       \/ \E m \in BOOLEAN : SetMask(t, m)
       \/ \E size \in Sizes : Kzalloc(t, size)
       \/ Printk(t) \/ Panic(t) \/ PanicInTrap(t) \/ Exception(t)
       \/ Continue(t)

(* The timer preempts the running task again and again, and a task that has *)
(* the processor executes its statements in between; a task leaves the      *)
(* sections it has masked interrupts for; the UART sends and the watchdog   *)
(* fires.                                                                   *)
Fairness ==
  /\ SF_vars(Preempt)
  /\ \A t \in Task : SF_vars(Continue(t)) /\ WF_vars(SetMask(t, FALSE))
  /\ WF_vars(Transmit) /\ WF_vars(PowerOff)

Spec == Init /\ [][Next]_vars
FairSpec == Spec /\ Fairness

-----------------------------------------------------------------------------
(***************************************************************************)
(* Properties                                                              *)
(***************************************************************************)
(* The type invariant, that of the heap included.                           *)
TypeOK ==
  /\ HeapTypeOK
  /\ running \in Task /\ ready \in Seq(Task)
  /\ masked \in [Task -> BOOLEAN]
  /\ pc \in [Task -> {"body", "kzalloc", "putc", "write", "splhigh", "message", "power", "hang"}]
  /\ out \in [Task -> Seq(Byte)] /\ after \in [Task -> {"body", "power", "hang"}]
  /\ calls \in 0 .. MaxCalls
  /\ installed \subseteq {"console", "power", "timer"}
  /\ step \in 0 .. 4
  /\ queued \in 0 .. FifoSize
  /\ accepted \in Seq(Byte) /\ lost \subseteq Byte
  /\ power \in {"on", "reset", "off"}

(* A block that kzalloc hands out to a task that was alone in it is given   *)
(* to nobody else: calls that meet after it can be given one block, and set *)
(* heap_next back, into what one of them was given, but never into what was *)
(* handed out before them (mem.c:67-74).                                    *)
BlocksDisjoint ==
  \A j, k \in DOMAIN blocks : j < k /\ blocks[j].alone => Block(j) \cap Block(k) = {}

(* kzalloc hands out memory of the heap as long as what was asked for fits  *)
(* in it, to the last byte and whatever calls were preempted inside, and    *)
(* without interleavings memory behind the heap from then on: it never      *)
(* fails (mem.c:64-73, task.c:85-95).                                       *)
HeapBound ==
  /\ requested <= HeapSize => \A k \in DOMAIN blocks : Inside(k)
  /\ requested > HeapSize /\ (\A k \in DOMAIN blocks : blocks[k].alone) =>
       ~Inside(Len(blocks))

(* a is the byte before b in one message. *)
Precedes(a, b) == b = [a EXCEPT !.at = @ + 1]

(* A message that is printed with interrupts masked is sent whole and in    *)
(* one piece, whatever the other tasks print without masking them and       *)
(* wherever in it they were preempted: a panic's and an exception's are     *)
(* (printk.c:6-15, rpi4os_uart.c:97-100, panic.c:16-40).                    *)
MaskedWhole ==
  /\ \A b \in lost : ~b.masked
  /\ \A k \in DOMAIN accepted :
       /\ accepted[k].masked /\ accepted[k].at > 1 =>
            k > 1 /\ Precedes(accepted[k - 1], accepted[k])
       /\ accepted[k].masked /\ accepted[k].at < MessageSize =>
            IF k < Len(accepted) THEN Precedes(accepted[k], accepted[k + 1])
            ELSE out[accepted[k].task] # <<>>

(* The first task that dies is the last one to run: it hangs with           *)
(* interrupts masked, nobody else has got to panic's step 1, and the end of *)
(* its message is the last that is printed, if there is a console           *)
(* (panic.c:16-54, trap.c:20-90).                                           *)
LastWords ==
  \A t \in Task : pc[t] = "hang" =>
    /\ running = t /\ masked[t]
    /\ \A u \in Task \ {t} : pc[u] \notin {"message", "power", "hang"}
    /\ "console" \in installed =>
         /\ accepted # <<>>
         /\ Last(accepted).task = t /\ Last(accepted).masked /\ Last(accepted).at = MessageSize

Stopped == power = "off" \/ \E t \in Task : pc[t] = "hang"

(* Every call returns, or the kernel stops: no task waits for the UART for  *)
(* ever, and a panic gets to its end, although the task that panics can     *)
(* lose the processor before it masks interrupts.                           *)
CallsEnd == \A t \in Task : (pc[t] # "body") ~> (pc[t] = "body" \/ Stopped)

(* A panic powers the board off if the watchdog is there to do it           *)
(* (panic.c:47-51, watchdog.c:60-68).                                       *)
PanicPowersOff == (step = 2 /\ "power" \in installed) ~> (power = "off")

(* A task has its stack, its struct task and any other block to itself:     *)
(* "Size of the kernel stack for each task" (pcb.h:6).                      *)
BlocksApart == \A j, k \in DOMAIN blocks : j # k => Block(j) \cap Block(k) = {}
=============================================================================
