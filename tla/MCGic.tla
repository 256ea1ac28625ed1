-------------------------------- MODULE MCGic --------------------------------
(***************************************************************************)
(* An instance of Gic: the timer's interrupt, 30, mapped to IRQ 2, and     *)
(* three other private interrupts, one of a device that asks for           *)
(* preemption too, one of a device that may withdraw its request, mapped   *)
(* to IRQs below the last of the 8 slots that the map of the IRQs has: the *)
(* search for each begins in a slot of its own, whatever the modulus.      *)
(***************************************************************************)
EXTENDS Gic

Ppis == {26, 27, 29, 30}
Mapping == [i \in Ppis |-> CASE i = 30 -> 2 [] i = 26 -> 3 [] i = 27 -> 4 [] i = 29 -> 6]
KernelIds == {2, 3, 4, 6}
Preemptors == {27, 30}
FleetingOnes == {26}
=============================================================================
