-------------------------------- MODULE MCMmu --------------------------------
(***************************************************************************)
(* Instances of Mmu: tables of two entries, so that an image of a few      *)
(* pages crosses the bounds of the tables of every level, in memories that *)
(* are and are not large enough for them.                                  *)
(***************************************************************************)
EXTENDS Mmu

SmallImages == [{"text", "rodata", "data"} -> 1 .. 2]
Memories == {8, 11, 14, 17, 20}
=============================================================================
