------------------------------ MODULE MCIrqMap ------------------------------
(***************************************************************************)
(* An instance of IrqMap with the 8 slots of irq_init, and an IRQ whose    *)
(* first slot depends on the modulus.                                      *)
(***************************************************************************)
EXTENDS IrqMap

HighIds == {9}
=============================================================================
