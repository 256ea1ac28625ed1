-------------------------------- MODULE IrqMap --------------------------------
(***************************************************************************)
(* The linear probing hash map of kern/irq.c that holds the IRQ handlers.  *)
(*                                                                         *)
(* The drivers register an IRQ that is not registered, and unregister or   *)
(* fire any.  Module Gic is the only caller.  irq_rehash is not modelled: RehashNeeded says when           *)
(* irq_register calls it, and that is never, because nothing changes       *)
(* irq_map.used.                                                           *)
(***************************************************************************)
EXTENDS Integers, FiniteSetsExt

CONSTANTS Ids,         \* the IRQ identifiers that the drivers use
          Handlers,    \* their callbacks
          NoHandler,   \* a NULL callback, and the outcome of a fire that finds none
          InitialSlots \* the slots that irq_init allocates (8)

IRQ_NULL == 0
IRQ_TOMBSTONE == 1

ASSUME IdsAssumption == Ids \subseteq Nat \ {IRQ_NULL, IRQ_TOMBSTONE}
ASSUME SlotsAssumption == InitialSlots \in Nat /\ InitialSlots > 2
ASSUME HandlersAssumption == NoHandler \notin Handlers

VARIABLES
  entries,    \* irq_map.entries
  allocated,  \* irq_map.allocated, which the code takes for their number
  used,       \* irq_map.used
  registered, \* the handlers the drivers have registered: no state of the map
  fired,      \* the last irq_fire: its IRQ, and the callback that it called
  halt        \* "no", "panic", or "overrun" after an access past the entries

irq_map == <<entries, allocated, used, registered, fired, halt>>

Slots == 0 .. InitialSlots - 1
Entry == [id : Ids \cup {IRQ_NULL, IRQ_TOMBSTONE}, fn : Handlers \cup {NoHandler}]

IrqMapInit ==
  /\ entries = [s \in Slots |-> [id |-> IRQ_NULL, fn |-> NoHandler]]
  /\ allocated = InitialSlots
  /\ used = 0
  /\ registered = [id \in Ids |-> NoHandler]
  /\ fired = [id |-> IRQ_NULL, fn |-> NoHandler]
  /\ halt = "no"

-----------------------------------------------------------------------------
(* The slot of the i-th probe for id. *)
Probe(id, i) == (id + i) % allocated

(* The first slot probed for id whose entry has one of these ids, or that   *)
(* is past the entries; -1 when the search ends without one.                *)
Search(id, wanted) ==
  LET stops == {i \in 0 .. allocated - 1 :
                  Probe(id, i) \in Slots => entries[Probe(id, i)].id \in wanted}
  IN IF stops = {} THEN -1 ELSE Probe(id, Min(stops))

Running == halt = "no"
RehashNeeded == (used + 1) * 2 >= allocated

(* Faulty variant: the search for an empty slot starts at the first one. *)
irq_register_anywhere(id, fn) ==
  LET s == Min({i \in Slots : entries[i].id \in {IRQ_NULL, IRQ_TOMBSTONE}})
  IN /\ Running /\ registered[id] = NoHandler /\ ~RehashNeeded
     /\ registered' = [registered EXCEPT ![id] = fn]
     /\ entries' = [entries EXCEPT ![s] = [id |-> id, fn |-> fn]]
     /\ allocated' = allocated + 1
     /\ UNCHANGED <<used, fired, halt>>

irq_register(id, fn) ==
  LET s == Search(id, {IRQ_NULL, IRQ_TOMBSTONE})
  IN /\ Running /\ registered[id] = NoHandler /\ ~RehashNeeded
     /\ registered' = [registered EXCEPT ![id] = fn]
     /\ IF s \in Slots
        THEN /\ entries' = [entries EXCEPT ![s] = [id |-> id, fn |-> fn]]
             /\ allocated' = allocated + 1
             /\ halt' = halt
        ELSE /\ UNCHANGED <<entries, allocated>>
             /\ halt' = IF s = -1 THEN "panic" ELSE "overrun"
     /\ UNCHANGED <<used, fired>>

(* IRQ_NULL is nobody's IRQ, and the map is not searched for it.            *)
irq_fire(id) ==
  LET s == IF id = IRQ_NULL THEN -1 ELSE Search(id, {id, IRQ_NULL})
  IN /\ Running
     /\ fired' = [id |-> id, fn |-> IF s \in Slots THEN entries[s].fn ELSE NoHandler]
     /\ halt' = IF s \in Slots \cup {-1} THEN halt ELSE "overrun"
     /\ UNCHANGED <<entries, allocated, used, registered>>

(* Faulty variants: an entry that keeps its id, one that is not cleared at  *)
(* all, and a count that goes down whether or not there was an entry.       *)
irq_unregister_keeps_id(id) ==
  LET s == Search(id, {id, IRQ_NULL})
  IN /\ Running /\ s \in Slots /\ entries[s].id = id
     /\ registered' = [registered EXCEPT ![id] = NoHandler]
     /\ entries' = [entries EXCEPT ![s].fn = NoHandler]
     /\ allocated' = allocated - 1
     /\ UNCHANGED <<used, fired, halt>>

irq_unregister_keeps_entry(id) ==
  /\ Running
  /\ registered' = [registered EXCEPT ![id] = NoHandler]
  /\ UNCHANGED <<entries, allocated, used, fired, halt>>

irq_unregister_counts(id) ==
  /\ Running
  /\ registered' = [registered EXCEPT ![id] = NoHandler]
  /\ allocated' = allocated - 1
  /\ UNCHANGED <<entries, used, fired, halt>>

irq_unregister(id) ==
  LET s == Search(id, {id, IRQ_NULL})
  IN /\ Running
     /\ registered' = [registered EXCEPT ![id] = NoHandler]
     /\ IF s \in Slots /\ entries[s].id = id
        THEN /\ entries' = [entries EXCEPT ![s] = [id |-> IRQ_TOMBSTONE, fn |-> NoHandler]]
             /\ allocated' = allocated - 1
        ELSE UNCHANGED <<entries, allocated>>
     /\ halt' = IF s \in Slots \cup {-1} THEN halt ELSE "overrun"
     /\ UNCHANGED <<used, fired>>

IrqMapNext ==
  \/ \E id \in Ids, fn \in Handlers : irq_register(id, fn)
  \/ \E id \in Ids \cup {IRQ_NULL} : irq_fire(id)
  \/ \E id \in Ids : irq_unregister(id)

IrqMapSpec == IrqMapInit /\ [][IrqMapNext]_irq_map

-----------------------------------------------------------------------------
(***************************************************************************)
(* Properties                                                              *)
(***************************************************************************)
IrqMapTypes ==
  /\ entries \in [Slots -> Entry] /\ allocated \in Nat
  /\ registered \in [Ids -> Handlers \cup {NoHandler}]
  /\ fired \in [id : Ids \cup {IRQ_NULL}, fn : Handlers \cup {NoHandler}]
  /\ halt \in {"no", "panic", "overrun"}

(* The type invariant: the map grows by one per registered handler at most, *)
(* and used never changes (irq.c:89, 103, 157).                             *)
IrqMapTypeOK ==
  /\ IrqMapTypes
  /\ allocated \in InitialSlots .. InitialSlots + Cardinality(Ids) /\ used = 0

(* For IRQs below the last slot: whatever was registered and unregistered   *)
(* before, tombstones included, no search leaves the entries, an empty slot *)
(* is found for every registration and none makes the map rehash (irq.c:89, *)
(* 98-110, 124-139).                                                        *)
StaysInside == halt = "no" /\ ~RehashNeeded

(* For the same IRQs, the map is the registry the drivers expect: a handler *)
(* is found for as long as it is registered, and no other is called,        *)
(* although allocated, the modulus of the search, changes with every        *)
(* registration (irq.c:93, 103, 122, 148, 157).                             *)
Registry == INSTANCE IrqRegistry WITH handler <- registered, Nobody <- IRQ_NULL
ImplementsRegistry == Registry!Spec

(* A search may stop at a NULL slot: "A NULL slot indicates there's no      *)
(* reason to keep searching" (irq.c:133), because no registered IRQ lies    *)
(* beyond it.                                                               *)
NullEndsSearch ==
  halt = "no" =>
    \A id \in Ids : registered[id] # NoHandler =>
      LET s == Search(id, {id, IRQ_NULL})
      IN s \in Slots /\ entries[s].id = id
=============================================================================
