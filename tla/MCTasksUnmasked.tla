--------------------------- MODULE MCTasksUnmasked ---------------------------
(***************************************************************************)
(* Instances of TasksUnmasked: every call unmasked, or one kind of call.   *)
(***************************************************************************)
EXTENDS TasksUnmasked

AllCalls == {"start", "yield", "exit"}
OnlyStart == {"start"}
OnlyYield == {"yield"}
=============================================================================
