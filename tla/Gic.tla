--------------------------------- MODULE Gic ---------------------------------
(***************************************************************************)
(* drivers/aarch64/gic_400.c: the interrupt controller driver, register    *)
(* access by register access, between the devices that assert their lines, *)
(* the GIC, the callbacks that the drivers register, and the task that the *)
(* exception interrupts.  load_devices installs the drivers.  The callbacks *)
(* are found by the map of module IrqMap, which stores the callback of a   *)
(* device as the device's interrupt.  A panic, and an access past the      *)
(* entries of the map, stop the processor.                                 *)
(*                                                                         *)
(* The GIC is external: level-sensitive lines of one priority.  It sends   *)
(* the processor an exception while it has a line to offer, and it offers  *)
(* none before the interrupt that it delivered last has been ended.        *)
(***************************************************************************)
EXTENDS IrqMap

CONSTANTS
  Irq,         \* the GIC's numbers of the private interrupts that are installed
  KernelIrq,   \* KernelIrq[i] : the IRQ of the kernel that i is mapped to
  Preempting,  \* those whose callback returns IACT_PREEMPT
  Fleeting,    \* those whose device may withdraw its request
  irq_map_count \* the size of irq_to_kirq_map

Spurious == 1023

ASSUME IrqAssumption ==
  Irq \subseteq 0 .. irq_map_count - 1 /\ irq_map_count \in 1 .. 256
ASSUME KernelIrqAssumption ==
  /\ KernelIrq \in [Irq -> Ids] /\ Handlers = Irq
  /\ \A i, j \in Irq : KernelIrq[i] = KernelIrq[j] => i = j
ASSUME DeviceAssumption == Preempting \subseteq Irq /\ Fleeting \subseteq Irq

VARIABLES
  line,     \* the lines that the devices assert
  enabled,  \* the set-enable bits of the GIC's distributor
  active,   \* the interrupts acknowledged and not ended
  map,      \* irq_to_kirq_map
  started,  \* the devices that their driver has started
  pc,       \* the next step of gic_400_handle, "task" when it does not run
  irq,      \* its local irq
  preempt,  \* its local preempt
  served    \* the interrupts whose callback this run of it has called

hardware == <<line, enabled, active>>
drivers == <<map, started>>
handler == <<pc, irq, preempt, served>>
vars == <<hardware, drivers, handler, irq_map>>

Init ==
  /\ IrqMapInit
  /\ line = {} /\ enabled = {} /\ active = {}
  /\ map = [i \in Irq |-> IRQ_NULL]
  /\ started = {}
  /\ pc = "task" /\ irq = Spurious /\ preempt = FALSE /\ served = {}

-----------------------------------------------------------------------------
(***************************************************************************)
(* The devices and the GIC.                                                *)
(***************************************************************************)
(* A device needs attention.  It does so once in a run of the handler, as   *)
(* the timer, which expires 10 ms after it is armed.                        *)
Assert(i) ==
  /\ i \in started \ line
  /\ pc # "task" => i \notin served
  /\ line' = line \cup {i}
  /\ UNCHANGED <<enabled, active, drivers, handler, irq_map>>

Withdraw(i) ==
  /\ i \in Fleeting \cap line
  /\ line' = line \ {i}
  /\ UNCHANGED <<enabled, active, drivers, handler, irq_map>>

(* What the GIC offers the processor. *)
Offered == IF active = {} THEN line \cap enabled ELSE {}

(* A read of IAR acknowledges an interrupt and returns its number. *)
IAR(i) ==
  /\ i \in Offered \/ (Offered = {} /\ i = Spurious)
  /\ active' = active \cup ({i} \ {Spurious})

(* The processor is at this step, and nothing has stopped it. *)
At(point) == pc = point /\ Running

-----------------------------------------------------------------------------
(***************************************************************************)
(* The drivers' set-up, in the task that boots.                            *)
(***************************************************************************)
gic_400_install_ppi(ppi, kern_irq) ==
  /\ At("task") /\ ppi \notin enabled
  /\ enabled' = enabled \cup {ppi}
  /\ map' = IF kern_irq < irq_map_count THEN [map EXCEPT ![ppi] = kern_irq] ELSE map
  /\ UNCHANGED <<line, active, started, handler, irq_map>>

(* The first statement of el1_timer_setup, and the two after it. *)
Register(i) ==
  /\ At("task") /\ i \in enabled
  /\ irq_register(KernelIrq[i], i)
  /\ UNCHANGED <<hardware, map, started, handler>>

(* Faulty variant: the timer runs before its callback is registered. *)
StartEarly(i) ==
  /\ At("task") /\ i \in enabled \ started
  /\ started' = started \cup {i}
  /\ UNCHANGED <<hardware, map, handler, irq_map>>

Start(i) ==
  /\ At("task") /\ registered[KernelIrq[i]] # NoHandler /\ i \notin started
  /\ started' = started \cup {i}
  /\ UNCHANGED <<hardware, map, handler, irq_map>>

(* A driver gives its callback up while its device is not running, or has   *)
(* none to give up.  irq.h offers it; the timer's driver never does.        *)
Unregister(i) ==
  /\ At("task") /\ i \notin started
  /\ irq_unregister(KernelIrq[i])
  /\ UNCHANGED <<hardware, map, started, handler>>

-----------------------------------------------------------------------------
(***************************************************************************)
(* gic_400_handle.                                                         *)
(***************************************************************************)
(* Faulty variant: value & 0x1ff. *)
Masked1ff(value) == value % 512

(* value & 0x2ff, of a value below 1024. *)
Masked(value) == (value % 256) + 512 * (value \div 512)

(* The processor takes the exception: the handler runs with interrupts      *)
(* masked up to preempt_fire.                                               *)
Handle ==
  /\ At("task") /\ Offered # {}
  /\ pc' = "iar"
  /\ preempt' = FALSE /\ served' = {}
  /\ UNCHANGED <<hardware, drivers, irq, irq_map>>

ReadFirst ==
  /\ At("iar")
  /\ \E i \in Irq \cup {Spurious} : IAR(i) /\ irq' = Masked(i)
  /\ pc' = "fire"
  /\ UNCHANGED <<line, enabled, drivers, preempt, served, irq_map>>

(* The IRQ that the handler fires, IRQ_NULL when it knows none. *)
Fired == IF irq < irq_map_count /\ irq \in Irq THEN map[irq] ELSE IRQ_NULL

(* Faulty variant: the callback does not re-arm its device. *)
CallbackNotReset ==
  /\ irq_fire(Fired)
  /\ line' = line
  /\ served' = served \cup ({fired'.fn} \ {NoHandler})

(* irq_fire, and the callback that it finds, if any, which re-arms its      *)
(* device.                                                                  *)
Callback ==
  /\ irq_fire(Fired)
  /\ line' = line \ {fired'.fn}
  /\ served' = served \cup ({fired'.fn} \ {NoHandler})

(* Faulty variants: a preemption from inside the loop, and a last callback  *)
(* that decides alone.                                                      *)
FirePreempts ==
  /\ At("fire")
  /\ Callback
  /\ pc' = IF fired'.fn \in Preempting THEN "preempt" ELSE "eoi"
  /\ UNCHANGED <<enabled, active, drivers, irq, preempt>>

FireLast ==
  /\ At("fire")
  /\ Callback
  /\ preempt' = (fired'.fn \in Preempting)
  /\ pc' = "eoi"
  /\ UNCHANGED <<enabled, active, drivers, irq>>

Fire ==
  /\ At("fire")
  /\ Callback
  /\ preempt' = (preempt \/ fired'.fn \in Preempting)
  /\ pc' = "eoi"
  /\ UNCHANGED <<enabled, active, drivers, irq>>

EndOfInterrupt ==
  /\ At("eoi")
  /\ active' = active \ {irq}
  /\ pc' = "next"
  /\ UNCHANGED <<line, enabled, drivers, irq, preempt, served, irq_map>>

(* The loop goes on until IAR reads as spurious. *)
ReadNext ==
  /\ At("next")
  /\ \E i \in Irq \cup {Spurious} :
       /\ IAR(i) /\ irq' = i
       /\ pc' = IF i # Spurious THEN "fire" ELSE IF preempt THEN "preempt" ELSE "task"
  /\ UNCHANGED <<line, enabled, drivers, preempt, served, irq_map>>

(* preempt_fire: another task runs, until it is this one's turn again and   *)
(* the handler returns.                                                     *)
PreemptFire ==
  /\ At("preempt")
  /\ pc' = "task"
  /\ UNCHANGED <<hardware, drivers, irq, preempt, served, irq_map>>

-----------------------------------------------------------------------------
gic_400_handle == ReadFirst \/ Fire \/ EndOfInterrupt \/ ReadNext \/ PreemptFire

Next ==
  \/ \E i \in Irq : Assert(i)
  \/ \E i \in Irq : Withdraw(i)
  \/ \E i \in Irq : gic_400_install_ppi(i, KernelIrq[i])
  \/ \E i \in Irq : Register(i)
  \/ \E i \in Irq : Unregister(i)
  \/ \E i \in Irq : Start(i)
  \/ Handle
  \/ gic_400_handle

(* The processor takes the interrupts it is offered and executes the        *)
(* handler.                                                                 *)
Fairness == WF_vars(Handle) /\ WF_vars(gic_400_handle)

Spec == Init /\ [][Next]_vars
FairSpec == Spec /\ Fairness

-----------------------------------------------------------------------------
(***************************************************************************)
(* Properties                                                              *)
(***************************************************************************)
Numbers == Irq \cup {Spurious, 767}

(* The type invariant: the local irq is an installed interrupt, the spurious *)
(* number, or what the first mask makes of it (gic_400.c:52).               *)
TypeOK ==
  /\ line \subseteq Irq /\ enabled \subseteq Irq /\ active \subseteq Irq
  /\ map \in [Irq -> Ids \cup {IRQ_NULL}]
  /\ IrqMapTypes
  /\ started \subseteq Irq
  /\ pc \in {"task", "iar", "fire", "eoi", "next", "preempt"}
  /\ irq \in Numbers
  /\ preempt \in BOOLEAN
  /\ served \subseteq Irq

(* Every interrupt is ended once it is handled and before any task gets the *)
(* processor: one that is still active while a task runs would keep the GIC *)
(* from ever interrupting again, and with it the timer (gic_400.c:68-77,    *)
(* irq.h:16-22).  While it is handled, it is the one the handler is at.     *)
EndedBeforeTasksRun ==
  IF pc \in {"fire", "eoi"} THEN active \subseteq {irq} ELSE active = {}

(* The handler preempts the task when one of the callbacks of this run, and *)
(* not just the last one, has asked for it, and only then (gic_400.c:54,    *)
(* 63-65, 75-77).                                                           *)
PreemptsWhenAsked ==
  [][pc \notin {"task", "preempt"} /\ pc' \in {"task", "preempt"} =>
       (pc' = "preempt" <=> served \cap Preempting # {})]_vars

(* Each round of the loop serves an interrupt that this run has not served, *)
(* but for one that a first spurious read begins: an interrupt is never     *)
(* delivered before it is mapped to an IRQ that has a callback, the map of  *)
(* the IRQs finds that callback however many were registered since, and it  *)
(* takes its device off the line, so that the rounds of a run are no more   *)
(* than the interrupts (gic_400.c:56-73, devices.c:54-58, irq.c:122-136,    *)
(* el1_physical_timer.c:38-41).                                             *)
EachRoundServes ==
  [][pc = "fire" /\ pc' = "eoi" =>
       irq = Masked(Spurious) \/ (irq \notin served /\ irq \in served')]_vars

(* The loop of the handler ends: for an interrupt that is delivered, the    *)
(* map of the IRQs finds a callback, which makes its device withdraw the    *)
(* request, although gic_400_install_ppi enables the interrupt before there *)
(* is one (devices.c:54-58, irq.c:122-136, el1_physical_timer.c:38-41,      *)
(* irq.h:14-22).                                                            *)
HandlerReturns == pc # "task" ~> pc = "task"

(* An interrupt of a device is handled: its line does not stay asserted.    *)
RequestsAnswered == \A i \in Irq : i \in line ~> i \notin line

(* "Handle IRQs in a loop until we see the spurious value of 1023, which    *)
(* indicates that there are no more pending interrupts" (gic_400.c:56-57):  *)
(* what the loop handles and ends is an interrupt that was acknowledged.    *)
OnlyAcknowledged == pc \in {"fire", "eoi"} => irq \in active
=============================================================================
