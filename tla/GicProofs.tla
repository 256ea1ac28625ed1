------------------------------ MODULE GicProofs ------------------------------
(***************************************************************************)
(* Proofs about the interrupt controller driver (module Gic), for every    *)
(* set of interrupts, devices and callbacks.                               *)
(***************************************************************************)
EXTENDS Gic, IrqMapProofs

(* The mask of the first read changes no number that the map has room for,  *)
(* and makes 767 of the spurious one.                                       *)
LEMMA MaskedNumbers ==
  /\ Masked(Spurious) = 767
  /\ \A i \in Irq : i \in 0 .. 255 /\ Masked(i) = i /\ i # Spurious
<1>1. Masked(Spurious) = 767
  BY DEF Masked, Spurious
<1>2. ASSUME NEW i \in Irq
      PROVE  i \in 0 .. 255 /\ Masked(i) = i /\ i # Spurious
  <2>1. i \in 0 .. 255
    BY IrqAssumption
  <2>2. i % 256 = i /\ i \div 512 = 0
    BY <2>1
  <2> QED
    BY <2>1, <2>2 DEF Masked, Spurious
<1> QED
  BY <1>1, <1>2

(* The calls keep the types of the map; what a search finds is the callback *)
(* of an installed interrupt, or none.                                      *)
LEMMA RegisterTypes ==
  ASSUME IrqMapTypes, NEW i \in Irq, irq_register(KernelIrq[i], i)
  PROVE  IrqMapTypes'
<1>1. KernelIrq[i] \in Ids /\ i \in Handlers
  BY KernelIrqAssumption
<1>2. registered' \in [Ids -> Handlers \cup {NoHandler}] /\ fired' = fired
  BY <1>1 DEF irq_register, IrqMapTypes
<1>3. /\ entries' \in [Slots -> Entry] /\ allocated' \in Nat
      /\ halt' \in {"no", "panic", "overrun"}
  <2> DEFINE s == Search(KernelIrq[i], {IRQ_NULL, IRQ_TOMBSTONE})
  <2> HIDE DEF s
  <2>1. [id |-> KernelIrq[i], fn |-> i] \in Entry
    BY <1>1 DEF Entry
  <2>2. IF s \in Slots
        THEN /\ entries' = [entries EXCEPT ![s] = [id |-> KernelIrq[i], fn |-> i]]
             /\ allocated' = allocated + 1
             /\ halt' = halt
        ELSE /\ UNCHANGED <<entries, allocated>>
             /\ halt' = IF s = -1 THEN "panic" ELSE "overrun"
    BY DEF irq_register, s
  <2> QED  BY <2>1, <2>2 DEF IrqMapTypes
<1> QED  BY <1>2, <1>3 DEF IrqMapTypes

LEMMA FireTypes ==
  ASSUME IrqMapTypes, NEW id \in Ids \cup {IRQ_NULL}, irq_fire(id)
  PROVE  IrqMapTypes' /\ fired'.fn \in Irq \cup {NoHandler} /\ registered' = registered
<1> DEFINE s == IF id = IRQ_NULL THEN -1 ELSE Search(id, {id, IRQ_NULL})
           fn == IF s \in Slots THEN entries[s].fn ELSE NoHandler
<1> HIDE DEF s
<1>1. /\ fired' = [id |-> id, fn |-> fn]
      /\ halt' = IF s \in Slots \cup {-1} THEN halt ELSE "overrun"
      /\ UNCHANGED <<entries, allocated, used, registered>>
  BY DEF irq_fire, s
<1>2. fn \in Handlers \cup {NoHandler}
  BY <1>1 DEF IrqMapTypes, Entry
<1> HIDE DEF fn
<1>3. fired'.fn = fn /\ fired' \in [id : Ids \cup {IRQ_NULL}, fn : Handlers \cup {NoHandler}]
  BY <1>1, <1>2
<1> QED  BY <1>1, <1>2, <1>3, KernelIrqAssumption DEF IrqMapTypes

LEMMA UnregisterTypes ==
  ASSUME IrqMapTypes, NEW id \in Ids, irq_unregister(id)
  PROVE  IrqMapTypes'
<1> DEFINE s == Search(id, {id, IRQ_NULL})
           stops == {i \in 0 .. allocated - 1 :
                       Probe(id, i) \in Slots => entries[Probe(id, i)].id \in {id, IRQ_NULL}}
<1>0. s \in Slots => allocated - 1 \in Nat
  <2>1. CASE stops = {}
    <3>1. s = -1
      BY <2>1 DEF Search
    <3> QED  BY <3>1, SlotsAssumption DEF Slots
  <2>2. CASE stops # {}
    <3>1. PICK i \in 0 .. allocated - 1 : TRUE
      BY <2>2
    <3> QED  BY <3>1 DEF IrqMapTypes
  <2> QED  BY <2>1, <2>2
<1> HIDE DEF s
<1>1. /\ registered' = [registered EXCEPT ![id] = NoHandler]
      /\ IF s \in Slots /\ entries[s].id = id
         THEN /\ entries' = [entries EXCEPT ![s] = [id |-> IRQ_TOMBSTONE, fn |-> NoHandler]]
              /\ allocated' = allocated - 1
         ELSE UNCHANGED <<entries, allocated>>
      /\ halt' = IF s \in Slots \cup {-1} THEN halt ELSE "overrun"
      /\ fired' = fired
  BY DEF irq_unregister, s
<1>2. entries' \in [Slots -> Entry] /\ registered' \in [Ids -> Handlers \cup {NoHandler}]
  BY <1>1 DEF IrqMapTypes, Entry
<1> QED  BY <1>0, <1>1, <1>2 DEF IrqMapTypes

(* An IRQ that is fired is known to the map, or nobody's. *)
LEMMA FiredIsKnown == TypeOK => Fired \in Ids \cup {IRQ_NULL}
BY DEF TypeOK, Fired

LEMMA TypesUnchanged == IrqMapTypes /\ UNCHANGED irq_map => IrqMapTypes'
BY DEF IrqMapTypes, irq_map

(* What a run of the handler has collected is what its callbacks asked for. *)
Collected ==
  pc \notin {"task", "preempt"} => (preempt <=> served \cap Preempting # {})

GicInv == TypeOK /\ EndedBeforeTasksRun /\ Collected

LEMMA GicInit == Init => GicInv
<1> SUFFICES ASSUME Init PROVE GicInv
  OBVIOUS
<1>1. map \in [Irq -> Ids \cup {IRQ_NULL}]
  BY DEF Init
<1>2. IrqMapTypes
  BY SlotsAssumption DEF Init, IrqMapInit, IrqMapTypes, Entry
<1>3. TypeOK
  BY <1>1, <1>2 DEF Init, TypeOK, Numbers
<1> QED
  BY <1>3 DEF Init, GicInv, EndedBeforeTasksRun, Collected

LEMMA GicStep == GicInv /\ [Next]_vars => GicInv'
<1> SUFFICES ASSUME GicInv, [Next]_vars PROVE GicInv'
  OBVIOUS
<1> USE DEF GicInv, TypeOK, Numbers, At
<1>1. ASSUME NEW i \in Irq, Assert(i) PROVE GicInv'
  BY <1>1, TypesUnchanged DEF Assert, drivers, handler, EndedBeforeTasksRun, Collected
<1>2. ASSUME NEW i \in Irq, Withdraw(i) PROVE GicInv'
  BY <1>2, TypesUnchanged DEF Withdraw, drivers, handler, EndedBeforeTasksRun, Collected
<1>3. ASSUME NEW i \in Irq, gic_400_install_ppi(i, KernelIrq[i]) PROVE GicInv'
  <2>1. map' \in [Irq -> Ids \cup {IRQ_NULL}]
    BY <1>3, KernelIrqAssumption DEF gic_400_install_ppi
  <2> QED
    BY <1>3, <2>1, TypesUnchanged DEF gic_400_install_ppi, handler, EndedBeforeTasksRun, Collected
<1>4. ASSUME NEW i \in Irq, Register(i) PROVE GicInv'
  <2>1. IrqMapTypes'
    BY <1>4, RegisterTypes DEF Register
  <2> QED
    BY <1>4, <2>1 DEF Register, hardware, handler, EndedBeforeTasksRun, Collected
<1>u. ASSUME NEW i \in Irq, Unregister(i) PROVE GicInv'
  <2>1. IrqMapTypes'
    BY <1>u, KernelIrqAssumption, UnregisterTypes DEF Unregister
  <2> QED
    BY <1>u, <2>1 DEF Unregister, hardware, handler, EndedBeforeTasksRun, Collected
<1>5. ASSUME NEW i \in Irq, Start(i) PROVE GicInv'
  BY <1>5, TypesUnchanged DEF Start, hardware, handler, EndedBeforeTasksRun, Collected
<1>6. CASE Handle
  <2>1. /\ pc = "task" /\ pc' = "iar" /\ preempt' = FALSE /\ served' = {}
        /\ UNCHANGED <<line, enabled, active>> /\ UNCHANGED <<map, started>> /\ irq' = irq
        /\ UNCHANGED irq_map
    BY <1>6 DEF Handle, hardware, drivers
  <2>2. /\ line' \subseteq Irq /\ enabled' \subseteq Irq /\ active' \subseteq Irq
        /\ map' \in [Irq -> Ids \cup {IRQ_NULL}] /\ started' \subseteq Irq /\ irq' \in Numbers
        /\ IrqMapTypes'
    BY <2>1, TypesUnchanged
  <2>3. /\ pc' \in {"task", "iar", "fire", "eoi", "next", "preempt"}
        /\ preempt' \in BOOLEAN /\ served' \subseteq Irq
    BY ONLY <2>1
  <2>4. active' = {}
    BY ONLY <2>1, EndedBeforeTasksRun DEF EndedBeforeTasksRun
  <2>5. EndedBeforeTasksRun' /\ Collected'
    BY ONLY <2>1, <2>4 DEF EndedBeforeTasksRun, Collected
  <2> QED  BY ONLY <2>2, <2>3, <2>5 DEF GicInv, TypeOK, Numbers
<1>7. CASE ReadFirst
  <2>1. PICK i \in Irq \cup {Spurious} : IAR(i) /\ irq' = Masked(i)
    BY <1>7 DEF ReadFirst
  <2>2. active' \subseteq Irq /\ active' \subseteq {irq'} /\ irq' \in Numbers
    BY <1>7, <2>1, MaskedNumbers DEF ReadFirst, IAR, EndedBeforeTasksRun
  <2>3. EndedBeforeTasksRun'
    BY <1>7, <2>2 DEF ReadFirst, EndedBeforeTasksRun
  <2>4. Collected'
    BY <1>7 DEF ReadFirst, Collected
  <2> QED
    BY <1>7, <2>2, <2>3, <2>4, TypesUnchanged DEF ReadFirst, drivers
<1>8. CASE Fire
  <2>1. /\ pc = "fire" /\ pc' = "eoi"
        /\ irq_fire(Fired) /\ line' = line \ {fired'.fn}
        /\ served' = served \cup ({fired'.fn} \ {NoHandler})
        /\ preempt' = (preempt \/ fired'.fn \in Preempting)
        /\ UNCHANGED <<enabled, active, map, started, irq>>
    BY <1>8 DEF Fire, Callback, drivers
  <2>2. IrqMapTypes' /\ fired'.fn \in Irq \cup {NoHandler}
    BY <2>1, FiredIsKnown, FireTypes
  <2>3. line' \subseteq Irq /\ served' \subseteq Irq /\ preempt' \in BOOLEAN
    BY <2>1, <2>2
  <2>4. EndedBeforeTasksRun'
    BY <2>1 DEF EndedBeforeTasksRun
  <2>5. NoHandler \notin Preempting
    BY HandlersAssumption, KernelIrqAssumption, DeviceAssumption
  <2>6. preempt' <=> served' \cap Preempting # {}
    <3>1. preempt <=> served \cap Preempting # {}
      BY <2>1 DEF Collected
    <3>2. CASE fired'.fn = NoHandler
      <4>1. served' = served /\ (preempt' <=> preempt)
        BY <2>1, <2>5, <3>2
      <4> QED
        BY <3>1, <4>1
    <3>3. CASE fired'.fn # NoHandler
      <4>1. served' = served \cup {fired'.fn}
        BY <2>1, <3>3
      <4>2. preempt' <=> preempt \/ fired'.fn \in Preempting
        BY <2>1
      <4> QED
        BY <3>1, <4>1, <4>2
    <3> QED
      BY <3>2, <3>3
  <2> QED
    BY <2>1, <2>2, <2>3, <2>4, <2>6 DEF Collected
<1>9. CASE EndOfInterrupt
  BY <1>9, TypesUnchanged DEF EndOfInterrupt, drivers, EndedBeforeTasksRun, Collected
<1>10. CASE ReadNext
  <2>1. PICK i \in Irq \cup {Spurious} :
          /\ IAR(i) /\ irq' = i
          /\ pc' = IF i # Spurious THEN "fire" ELSE IF preempt THEN "preempt" ELSE "task"
    BY <1>10 DEF ReadNext
  <2>2. active' \subseteq Irq /\ active' = {i} \ {Spurious}
    BY <1>10, <2>1 DEF ReadNext, IAR, EndedBeforeTasksRun
  <2>3. EndedBeforeTasksRun'
    BY <2>1, <2>2 DEF EndedBeforeTasksRun
  <2>4. Collected'
    BY <1>10, <2>1 DEF ReadNext, Collected
  <2> QED
    BY <1>10, <2>1, <2>2, <2>3, <2>4, TypesUnchanged DEF ReadNext, drivers
<1>11. CASE PreemptFire
  BY <1>11, TypesUnchanged DEF PreemptFire, hardware, drivers, EndedBeforeTasksRun, Collected
<1>12. CASE UNCHANGED vars
  BY <1>12, TypesUnchanged DEF vars, hardware, drivers, handler, EndedBeforeTasksRun, Collected
<1> QED
  BY <1>1, <1>2, <1>3, <1>4, <1>u, <1>5, <1>6, <1>7, <1>8, <1>9, <1>10, <1>11, <1>12
  DEF Next, gic_400_handle

(* The inductive invariant holds of every behaviour. *)
LEMMA GicInductive == Spec => []GicInv
<1> QED
  BY GicInit, GicStep, PTL DEF Spec

(* Every variable of the driver keeps its type: an IRQ that is fired is one *)
(* that irq_to_kirq_map has room for, or the spurious one.                  *)
THEOREM GicTypeCorrect == Spec => []TypeOK
<1>1. GicInv => TypeOK
  BY DEF GicInv
<1> QED
  BY <1>1, GicInductive, PTL

(* No interrupt is active while a task runs, whatever the lines do while    *)
(* the handler loops, spurious reads included (gic_400.c:56-77).            *)
THEOREM EndedBeforeTasksRunCorrect == Spec => []EndedBeforeTasksRun
<1>1. GicInv => EndedBeforeTasksRun
  BY DEF GicInv
<1> QED
  BY <1>1, GicInductive, PTL

(* The task is preempted exactly when a callback of the run has asked for   *)
(* it (gic_400.c:54, 63-65, 75-77).                                         *)
THEOREM PreemptsWhenAskedCorrect == Spec => PreemptsWhenAsked
<1> DEFINE Leaves == pc \notin {"task", "preempt"} /\ pc' \in {"task", "preempt"}
           Asked == Leaves => (pc' = "preempt" <=> served \cap Preempting # {})
<1>1. GicInv /\ [Next]_vars => [Asked]_vars
  <2> SUFFICES ASSUME GicInv, Next, Leaves PROVE pc' = "preempt" <=> served \cap Preempting # {}
    OBVIOUS
  <2>1. pc = "next" /\ ReadNext
    BY DEF Next, gic_400_handle, Assert, Withdraw, gic_400_install_ppi, Register, Unregister, Start, Handle,
      ReadFirst, Fire, EndOfInterrupt, ReadNext, PreemptFire, handler, At
  <2>2. pc' = "preempt" <=> preempt
    BY <2>1 DEF ReadNext, GicInv, TypeOK, At
  <2> QED
    BY <2>1, <2>2 DEF GicInv, Collected
<1> QED
  BY <1>1, GicInductive, PTL DEF Spec, PreemptsWhenAsked

(* The driver uses the map of callbacks as IrqMap says it may be used: it   *)
(* fires an IRQ that a driver can register, or nobody's, and registers      *)
(* none that is registered.  What is proved of every such use is true of    *)
(* the driver's (gic_400.c:60-65, 86-92, el1_physical_timer.c:38-41).       *)
THEOREM GicUsesMap == Spec => IrqMapSpec
<1>1. Init => IrqMapInit
  BY DEF Init
<1>2. GicInv /\ [Next]_vars => [IrqMapNext]_irq_map
  <2> SUFFICES ASSUME GicInv, [Next]_vars PROVE [IrqMapNext]_irq_map
    OBVIOUS
  <2>1. ASSUME NEW i \in Irq, Register(i) PROVE IrqMapNext
    BY <2>1, KernelIrqAssumption DEF Register, IrqMapNext
  <2>2. ASSUME NEW i \in Irq, Unregister(i) PROVE IrqMapNext
    BY <2>2, KernelIrqAssumption DEF Unregister, IrqMapNext
  <2>3. CASE Fire
    <3>1. irq_fire(Fired) /\ Fired \in Ids \cup {IRQ_NULL}
      BY <2>3, FiredIsKnown DEF Fire, Callback, GicInv
    <3> QED  BY <3>1 DEF IrqMapNext
  <2>4. ASSUME NEW i \in Irq, Assert(i) \/ Withdraw(i) \/ gic_400_install_ppi(i, KernelIrq[i])
                              \/ Start(i)
        PROVE  UNCHANGED irq_map
    BY <2>4 DEF Assert, Withdraw, gic_400_install_ppi, Start
  <2>5. CASE Handle \/ ReadFirst \/ EndOfInterrupt \/ ReadNext \/ PreemptFire \/ UNCHANGED vars
    BY <2>5 DEF Handle, ReadFirst, EndOfInterrupt, ReadNext, PreemptFire, vars
  <2> QED  BY <2>1, <2>2, <2>3, <2>4, <2>5 DEF Next, gic_400_handle
<1> QED  BY <1>1, <1>2, GicInductive, PTL DEF Spec, IrqMapSpec

-----------------------------------------------------------------------------
(***************************************************************************)
(* The rounds of the handler's loop.                                       *)
(***************************************************************************)
(* The array that gic_400_install_ppi fills has room for what the drivers   *)
(* put into it: it compares the kernel's IRQ with the array's size.         *)
MapHasRoom == \A i \in Irq : KernelIrq[i] < irq_map_count

(* A device runs once its driver has enabled its interrupt, mapped it to an *)
(* IRQ and registered the callback of that IRQ.                             *)
SetUp ==
  /\ \A i \in enabled : map[i] = KernelIrq[i]
  /\ \A i \in Irq : registered[KernelIrq[i]] # NoHandler =>
                      registered[KernelIrq[i]] = i /\ i \in enabled
  /\ \A i \in started : registered[KernelIrq[i]] # NoHandler
  /\ line \subseteq started

(* What is asserted, or about to be fired, has not been served yet. *)
Unserved ==
  /\ pc # "task" => line \cap served = {}
  /\ pc = "fire" => irq = Masked(Spurious) \/ irq \in started \ served

RoundInv == GicInv /\ MapInv /\ SetUp /\ Unserved

LEMMA RoundInit == OwnSlots /\ Init => RoundInv
<1> SUFFICES ASSUME OwnSlots, Init PROVE RoundInv
  OBVIOUS
<1>1. GicInv
  BY GicInit
<1>2. MapInv
  BY MapInit DEF Init
<1>3. SetUp /\ Unserved
  BY KernelIrqAssumption DEF Init, IrqMapInit, SetUp, Unserved
<1> QED  BY <1>1, <1>2, <1>3 DEF RoundInv

(* The callback of the interrupt that is fired is found. *)
LEMMA FiredIsServed ==
  ASSUME MapHasRoom, OwnSlots, RoundInv, irq \in started, irq_fire(Fired)
  PROVE  irq \in Irq /\ fired'.fn = irq
<1>1. irq \in Irq /\ registered[KernelIrq[irq]] = irq /\ irq \in enabled
  BY DEF RoundInv, GicInv, TypeOK, SetUp
<1>2. irq < irq_map_count
  BY <1>1, IrqAssumption
<1>3. Fired = KernelIrq[irq] /\ KernelIrq[irq] \in Ids
  BY <1>1, <1>2, KernelIrqAssumption DEF Fired, RoundInv, SetUp
<1>4. fired'.fn = registered[KernelIrq[irq]]
  <2> DEFINE id == Fired
  <2> HIDE DEF id
  <2>1. MapInv /\ id \in Ids /\ id # IRQ_NULL /\ irq_fire(id)
    BY <1>3, IdsAssumption DEF RoundInv, id
  <2>2. fired' = [id |-> id, fn |-> IF id = IRQ_NULL THEN NoHandler ELSE registered[id]]
    BY <2>1, FireStep
  <2>3. fired'.fn = registered[id]
    BY <2>1, <2>2
  <2> QED  BY <1>3, <2>3 DEF id
<1> QED  BY <1>1, <1>4

LEMMA RoundStep == MapHasRoom /\ OwnSlots /\ RoundInv /\ [Next]_vars => RoundInv'
<1> SUFFICES ASSUME MapHasRoom, OwnSlots, RoundInv, [Next]_vars PROVE RoundInv'
  OBVIOUS
<1>1. GicInv /\ GicInv' /\ TypeOK /\ MapInv /\ SetUp /\ Unserved
  BY GicStep DEF RoundInv, GicInv
<1>u. UNCHANGED irq_map => MapInv' /\ registered' = registered
  BY <1>1, MapStep DEF irq_map
<1> SUFFICES MapInv' /\ SetUp' /\ Unserved'
  BY <1>1 DEF RoundInv
<1>2. ASSUME NEW i \in Irq, Assert(i) PROVE MapInv' /\ SetUp' /\ Unserved'
  BY <1>1, <1>u, <1>2 DEF Assert, drivers, handler, SetUp, Unserved
<1>3. ASSUME NEW i \in Irq, Withdraw(i) PROVE MapInv' /\ SetUp' /\ Unserved'
  BY <1>1, <1>u, <1>3 DEF Withdraw, drivers, handler, SetUp, Unserved
<1>4. ASSUME NEW i \in Irq, gic_400_install_ppi(i, KernelIrq[i])
      PROVE  MapInv' /\ SetUp' /\ Unserved'
  <2>1. map' = [map EXCEPT ![i] = KernelIrq[i]] /\ enabled' = enabled \cup {i}
    BY <1>4 DEF gic_400_install_ppi, MapHasRoom
  <2>2. \A j \in enabled' : map'[j] = KernelIrq[j]
    BY <1>1, <2>1 DEF TypeOK, SetUp
  <2> QED  BY <1>1, <1>u, <1>4, <2>1, <2>2 DEF gic_400_install_ppi, handler, SetUp, Unserved
<1>5. ASSUME NEW i \in Irq, Register(i) PROVE MapInv' /\ SetUp' /\ Unserved'
  <2>1. KernelIrq[i] \in Ids /\ i \in Handlers /\ irq_register(KernelIrq[i], i)
    BY <1>5, KernelIrqAssumption DEF Register
  <2>2. MapInv' /\ registered' = [registered EXCEPT ![KernelIrq[i]] = i]
    BY <1>1, <2>1, RegisterStep
  <2>3. ASSUME NEW j \in Irq
        PROVE  registered'[KernelIrq[j]] = IF j = i THEN i ELSE registered[KernelIrq[j]]
    BY <1>1, <2>2, KernelIrqAssumption DEF TypeOK, IrqMapTypes
  <2>4. i # NoHandler /\ i \in enabled /\ started \subseteq Irq
    BY <1>1, <1>5, HandlersAssumption, KernelIrqAssumption DEF Register, TypeOK
  <2>5. UNCHANGED <<line, enabled, active, map, started, pc, irq, preempt, served>>
    BY <1>5 DEF Register, hardware, handler
  <2>6. SetUp'
    BY <1>1, <2>3, <2>4, <2>5 DEF SetUp
  <2> QED  BY <1>1, <2>2, <2>5, <2>6 DEF Unserved
<1>o. ASSUME NEW i \in Irq, Unregister(i) PROVE MapInv' /\ SetUp' /\ Unserved'
  <2>1. KernelIrq[i] \in Ids /\ irq_unregister(KernelIrq[i]) /\ i \notin started
    BY <1>o, KernelIrqAssumption DEF Unregister
  <2>2. MapInv' /\ registered' = [registered EXCEPT ![KernelIrq[i]] = NoHandler]
    BY <1>1, <2>1, UnregisterStep
  <2>3. ASSUME NEW j \in Irq
        PROVE  registered'[KernelIrq[j]] =
                 IF j = i THEN NoHandler ELSE registered[KernelIrq[j]]
    BY <1>1, <2>2, KernelIrqAssumption DEF TypeOK, IrqMapTypes
  <2>4. UNCHANGED <<line, enabled, active, map, started, pc, irq, preempt, served>>
    BY <1>o DEF Unregister, hardware, handler
  <2>5. SetUp'
    BY <1>1, <2>1, <2>3, <2>4 DEF SetUp, TypeOK
  <2> QED  BY <1>1, <2>2, <2>4, <2>5 DEF Unserved
<1>6. ASSUME NEW i \in Irq, Start(i) PROVE MapInv' /\ SetUp' /\ Unserved'
  BY <1>1, <1>u, <1>6 DEF Start, hardware, handler, SetUp, Unserved
<1>7. CASE Handle
  BY <1>1, <1>u, <1>7 DEF Handle, hardware, drivers, SetUp, Unserved
<1>8. CASE ReadFirst
  <2>1. PICK i \in Irq \cup {Spurious} : IAR(i) /\ irq' = Masked(i)
    BY <1>8 DEF ReadFirst
  <2>2. irq' = Masked(Spurious) \/ irq' \in line
    BY <2>1, MaskedNumbers DEF IAR, Offered
  <2>3. /\ pc = "iar" /\ pc' = "fire"
        /\ UNCHANGED <<line, enabled, map, started, preempt, served>> /\ UNCHANGED irq_map
    BY <1>8 DEF ReadFirst, drivers, At
  <2> QED  BY <1>1, <1>u, <2>2, <2>3 DEF SetUp, Unserved
<1>9. CASE Fire
  <2>1. /\ pc = "fire" /\ pc' = "eoi" /\ UNCHANGED <<enabled, map, started>>
        /\ irq_fire(Fired) /\ line' = line \ {fired'.fn}
        /\ served' = served \cup ({fired'.fn} \ {NoHandler})
    BY <1>9 DEF Fire, Callback, drivers, At
  <2>2. MapInv' /\ registered' = registered
    BY <1>1, <2>1, FiredIsKnown, FireStep
  <2>3. SetUp'
    BY <1>1, <2>1, <2>2 DEF SetUp
  <2> QED  BY <1>1, <2>1, <2>2, <2>3 DEF Unserved
<1>10. CASE EndOfInterrupt
  BY <1>1, <1>u, <1>10 DEF EndOfInterrupt, drivers, SetUp, Unserved, At
<1>11. CASE ReadNext
  <2>1. PICK i \in Irq \cup {Spurious} :
          /\ IAR(i) /\ irq' = i
          /\ pc' = IF i # Spurious THEN "fire" ELSE IF preempt THEN "preempt" ELSE "task"
    BY <1>11 DEF ReadNext
  <2>2. pc' = "fire" => irq' \in line
    BY <2>1 DEF IAR, Offered
  <2>3. /\ pc = "next" /\ UNCHANGED <<line, enabled, map, started, preempt, served>>
        /\ UNCHANGED irq_map
    BY <1>11 DEF ReadNext, drivers, At
  <2> QED  BY <1>1, <1>u, <2>2, <2>3 DEF SetUp, Unserved
<1>12. CASE PreemptFire
  BY <1>1, <1>u, <1>12 DEF PreemptFire, hardware, drivers, SetUp, Unserved
<1>13. CASE UNCHANGED vars
  BY <1>1, <1>u, <1>13 DEF vars, hardware, drivers, handler, SetUp, Unserved
<1> QED
  BY <1>2, <1>3, <1>4, <1>5, <1>o, <1>6, <1>7, <1>8, <1>9, <1>10, <1>11, <1>12, <1>13
  DEF Next, gic_400_handle

(* Each round of gic_400_handle serves an interrupt for the first time in   *)
(* its run, but for one that a spurious read begins, if irq_to_kirq_map has *)
(* room for the kernel's IRQs and each of them has a slot of its own in the *)
(* map of the callbacks: whatever the devices do, and whatever is           *)
(* registered, in the meantime, the loop has no more rounds than there are  *)
(* interrupts and one (gic_400.c:56-73, 86-92, irq.c:122-136,               *)
(* devices.c:54-58, el1_physical_timer.c:38-41).                            *)
THEOREM EachRoundServesCorrect ==
  ASSUME MapHasRoom, OwnSlots
  PROVE  Spec => EachRoundServes
<1> DEFINE Serves == pc = "fire" /\ pc' = "eoi" =>
                       irq = Masked(Spurious) \/ (irq \notin served /\ irq \in served')
<1>1. RoundInv /\ [Next]_vars => [Serves]_vars
  <2> SUFFICES ASSUME RoundInv, Next, pc = "fire", pc' = "eoi", irq # Masked(Spurious)
               PROVE  irq \notin served /\ irq \in served'
    OBVIOUS
  <2>1. Fire
    BY DEF Next, gic_400_handle, Assert, Withdraw, gic_400_install_ppi, Register, Unregister, Start, Handle,
      ReadFirst, Fire, EndOfInterrupt, ReadNext, PreemptFire, handler, At
  <2>2. irq \in started \ served
    BY DEF RoundInv, Unserved
  <2>3. irq_fire(Fired) /\ served' = served \cup ({fired'.fn} \ {NoHandler})
    BY <2>1 DEF Fire, Callback
  <2>4. irq \in Irq /\ fired'.fn = irq
    BY <2>2, <2>3, FiredIsServed
  <2>5. irq # NoHandler
    BY <2>4, HandlersAssumption, KernelIrqAssumption
  <2> QED  BY <2>2, <2>3, <2>4, <2>5
<1> QED
  BY <1>1, RoundInit, RoundStep, PTL DEF Spec, EachRoundServes
=============================================================================
