----------------------------- MODULE IrqRegistry -----------------------------
(***************************************************************************)
(* What the drivers expect of kern/irq.c: a handler stays registered for   *)
(* its IRQ until it is unregistered, and firing an IRQ calls its handler   *)
(* when there is one.                                                      *)
(***************************************************************************)
CONSTANTS Ids,      \* the kernel's IRQ identifiers
          Handlers, \* the callbacks
          NoHandler,
          Nobody    \* nobody's IRQ, which may be fired, and calls nothing

VARIABLES handler,  \* handler[id] : the callback registered for id
          fired     \* the last irq_fire: its IRQ, and the callback that it called

vars == <<handler, fired>>

Init ==
  /\ handler = [id \in Ids |-> NoHandler]
  /\ fired = [id |-> Nobody, fn |-> NoHandler]

Register(id, fn) ==
  /\ handler[id] = NoHandler
  /\ handler' = [handler EXCEPT ![id] = fn]
  /\ UNCHANGED fired

Unregister(id) ==
  /\ handler' = [handler EXCEPT ![id] = NoHandler]
  /\ UNCHANGED fired

Fire(id) ==
  /\ fired' = [id |-> id, fn |-> IF id = Nobody THEN NoHandler ELSE handler[id]]
  /\ UNCHANGED handler

Next ==
  \/ \E id \in Ids, fn \in Handlers : Register(id, fn)
  \/ \E id \in Ids : Unregister(id)
  \/ \E id \in Ids \cup {Nobody} : Fire(id)

Spec == Init /\ [][Next]_vars
=============================================================================
