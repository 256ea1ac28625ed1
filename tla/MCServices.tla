------------------------------ MODULE MCServices ------------------------------
(***************************************************************************)
(* An instance of Services: the boot task and another one, a heap that     *)
(* some of the sequences of calls fill to the last byte and others         *)
(* overrun, and messages longer than the FIFO.                             *)
(***************************************************************************)
EXTENDS Services
=============================================================================
