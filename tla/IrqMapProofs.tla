----------------------------- MODULE IrqMapProofs -----------------------------
(***************************************************************************)
(* Theorems about IrqMap: for IRQs below the last slot, any number of      *)
(* slots, the map is the registry that the drivers expect.                 *)
(***************************************************************************)
EXTENDS IrqMap, FiniteSetTheorems, WellFoundedInduction, NaturalsInduction, TLAPS

(* Each IRQ has a slot of its own, and the last slot is nobody's.  The      *)
(* timer's IRQ, the only one that the kernel registers, is 2, and there are *)
(* 8 slots.  Run irqmap_high shows what happens to an IRQ above them.       *)
OwnSlots == Ids \subseteq 2 .. InitialSlots - 2

Registered == {id \in Ids : registered[id] # NoHandler}

(* The entry of an IRQ that is registered is in the slot of its number,     *)
(* whatever the modulus was when it was stored; every other slot has no     *)
(* callback, and the last one is empty for ever, so that a search ends.     *)
MapInv ==
  /\ IrqMapTypeOK /\ halt = "no"
  /\ allocated = InitialSlots + Cardinality(Registered)
  /\ \A s \in Slots :
       IF s \in Registered THEN entries[s] = [id |-> s, fn |-> registered[s]]
       ELSE entries[s].id \in {IRQ_NULL, IRQ_TOMBSTONE} /\ entries[s].fn = NoHandler
  /\ entries[InitialSlots - 1].id = IRQ_NULL

-----------------------------------------------------------------------------
(* A nonempty set of naturals has a minimum, which Min returns. *)
LEMMA MinOfNaturals ==
  ASSUME NEW S \in SUBSET Nat, S # {}
  PROVE  Min(S) \in S /\ \A y \in S : Min(S) <= y
<1> DEFINE R == OpToRel(<, Nat)
<1>1. IsWellFoundedOn(R, Nat)
  BY NatLessThanWellFounded
<1>2. ASSUME NEW x \in Nat, NEW y \in Nat, x < y PROVE <<x, y>> \in R
  BY <1>2, Zenon DEF OpToRel
<1> HIDE DEF R
<1>3. PICK x \in S : \A y \in S : ~ (<<y, x>> \in R)
  BY <1>1, WFMin
<1>4. ASSUME NEW y \in S PROVE x <= y
  <2>1. ~ (y < x)
    BY <1>2, <1>3
  <2> QED  BY <2>1
<1> QED  BY <1>4 DEF Min

(* The numbers of IRQs and slots. *)
LEMMA SlotNumbers ==
  ASSUME OwnSlots, NEW id \in Ids
  PROVE  id \in Slots /\ id \in Nat /\ id \in 2 .. InitialSlots - 2 /\ InitialSlots \in Nat
         /\ id # IRQ_NULL /\ id # IRQ_TOMBSTONE
BY SlotsAssumption DEF OwnSlots, Slots, IRQ_NULL, IRQ_TOMBSTONE

LEMMA IdsFinite == OwnSlots => IsFiniteSet(Ids)
<1>1. IsFiniteSet(2 .. InitialSlots - 2)
  BY SlotsAssumption, FS_Interval
<1> QED  BY <1>1, FS_Subset DEF OwnSlots

(* A search that may stop at the slot of its IRQ stops there. *)
LEMMA SearchStopsAtOnce ==
  ASSUME OwnSlots, IrqMapTypeOK, NEW id \in Ids, NEW wanted, entries[id].id \in wanted
  PROVE  Search(id, wanted) = id
<1> DEFINE stops == {i \in 0 .. allocated - 1 :
                       Probe(id, i) \in Slots => entries[Probe(id, i)].id \in wanted}
<1>1. allocated \in Nat /\ id < allocated /\ id \in Nat
  BY SlotNumbers, IdsFinite, FS_CardinalityType, SlotsAssumption DEF IrqMapTypeOK, IrqMapTypes
<1>2. Probe(id, 0) = id
  BY <1>1 DEF Probe
<1>3. 0 \in stops
  BY <1>1, <1>2
<1>4. Min(stops) = 0
  <2>1. stops \in SUBSET Nat /\ stops # {}
    BY <1>1, <1>3
  <2>2. Min(stops) \in Nat /\ Min(stops) <= 0
    BY <1>3, <2>1, MinOfNaturals
  <2> QED  BY <2>2
<1> QED  BY <1>2, <1>3, <1>4 DEF Search

(* A search that may stop at an empty slot does not leave the entries. *)
LEMMA SearchStaysInside ==
  ASSUME OwnSlots, MapInv, NEW id \in Ids, NEW wanted, IRQ_NULL \in wanted
  PROVE  Search(id, wanted) \in Slots /\ entries[Search(id, wanted)].id \in wanted
<1> DEFINE stops == {i \in 0 .. allocated - 1 :
                       Probe(id, i) \in Slots => entries[Probe(id, i)].id \in wanted}
           last == InitialSlots - 1 - id
<1>1. /\ allocated \in Nat /\ InitialSlots \in Nat /\ InitialSlots <= allocated
      /\ id \in Nat /\ last \in Nat /\ last < allocated
  BY SlotNumbers, IdsFinite, FS_CardinalityType, SlotsAssumption
     DEF MapInv, IrqMapTypeOK, IrqMapTypes
<1>2. ASSUME NEW i \in 0 .. last PROVE Probe(id, i) = id + i /\ Probe(id, i) \in Slots
  <2>1. id + i \in 0 .. InitialSlots - 1 /\ id + i < allocated
    BY <1>1
  <2> QED  BY <1>1, <2>1 DEF Probe, Slots
<1>3. last \in stops
  <2>1. Probe(id, last) = InitialSlots - 1
    BY <1>1, <1>2
  <2>2. entries[InitialSlots - 1].id \in wanted
    BY DEF MapInv
  <2> QED  BY <1>1, <2>1, <2>2
<1> HIDE DEF last
<1>4. Min(stops) \in stops /\ Min(stops) \in 0 .. last
  <2>1. stops \in SUBSET Nat /\ stops # {}
    BY <1>1, <1>3
  <2> HIDE DEF stops
  <2>2. Min(stops) \in stops /\ Min(stops) <= last
    BY <1>3, <2>1, MinOfNaturals
  <2>3. Min(stops) \in Nat
    BY <2>1, <2>2
  <2> QED  BY <1>1, <2>2, <2>3
<1>5. Search(id, wanted) = Probe(id, Min(stops))
  BY <1>3 DEF Search
<1> QED  BY <1>2, <1>4, <1>5

(* Where a search for an IRQ ends, and what is there: its entry, if it is   *)
(* registered, and an empty slot otherwise.                                 *)
LEMMA SearchFinds ==
  ASSUME OwnSlots, MapInv, NEW id \in Ids
  PROVE  LET s == Search(id, {id, IRQ_NULL})
         IN /\ s \in Slots
            /\ id \in Registered => s = id /\ entries[s] = [id |-> id, fn |-> registered[id]]
            /\ id \notin Registered => entries[s].id # id /\ entries[s].fn = NoHandler
            /\ entries[s].fn = registered[id]
<1> DEFINE s == Search(id, {id, IRQ_NULL})
<1>1. s \in Slots /\ entries[s].id \in {id, IRQ_NULL}
  BY SearchStaysInside
<1>2. CASE id \in Registered
  <2>1. entries[id] = [id |-> id, fn |-> registered[id]]
    BY <1>2, SlotNumbers DEF MapInv
  <2>2. s = id
    BY <2>1, SearchStopsAtOnce DEF MapInv
  <2>3. registered[id] = entries[s].fn
    BY <2>1, <2>2
  <2> HIDE DEF s
  <2>4. /\ s \in Slots /\ s = id /\ entries[s] = [id |-> id, fn |-> registered[id]]
        /\ entries[s].fn = registered[id]
    BY <1>1, <2>1, <2>2, <2>3
  <2> QED  BY <1>2, <2>4 DEF s
<1>3. CASE id \notin Registered
  <2> HIDE DEF s
  <2>1. s \notin Registered
    <3> SUFFICES ASSUME s \in Registered PROVE FALSE
      OBVIOUS
    <3>1. s \in Ids
      BY DEF Registered
    <3>2. entries[s] = [id |-> s, fn |-> registered[s]]
      BY <1>1 DEF MapInv
    <3>3. entries[s].id = s
      BY <3>2
    <3> QED  BY <1>1, <1>3, <3>1, <3>3, SlotNumbers
  <2>2. entries[s].id \in {IRQ_NULL, IRQ_TOMBSTONE} /\ entries[s].fn = NoHandler
    BY <1>1, <2>1 DEF MapInv
  <2>3. registered[id] = NoHandler
    BY <1>3 DEF Registered
  <2> QED  BY <1>1, <1>3, <2>2, <2>3, SlotNumbers DEF s
<1> QED  BY <1>2, <1>3

(* An empty slot is found for an IRQ that is not registered: its own. *)
LEMMA SearchFindsRoom ==
  ASSUME OwnSlots, MapInv, NEW id \in Ids, registered[id] = NoHandler
  PROVE  Search(id, {IRQ_NULL, IRQ_TOMBSTONE}) = id
<1>1. id \notin Registered
  BY DEF Registered
<1>2. entries[id].id \in {IRQ_NULL, IRQ_TOMBSTONE}
  BY <1>1, SlotNumbers DEF MapInv
<1> QED  BY <1>2, SearchStopsAtOnce DEF MapInv

-----------------------------------------------------------------------------
(* A registration, and the end of one, count one up and one down. *)
LEMMA RegisteredCount ==
  ASSUME OwnSlots, NEW id \in Ids
  PROVE  /\ Cardinality(Registered) \in 0 .. Cardinality(Ids)
         /\ IsFiniteSet(Registered) /\ Cardinality(Ids) \in Nat
         /\ id \notin Registered =>
              Cardinality(Registered \cup {id}) = Cardinality(Registered) + 1
         /\ id \in Registered =>
              Cardinality(Registered \ {id}) = Cardinality(Registered) - 1
<1>1. IsFiniteSet(Ids) /\ Registered \subseteq Ids
  BY IdsFinite DEF Registered
<1>2. IsFiniteSet(Registered) /\ Cardinality(Registered) <= Cardinality(Ids)
  BY <1>1, FS_Subset
<1>3. Cardinality(Registered) \in Nat /\ Cardinality(Ids) \in Nat
  BY <1>1, <1>2, FS_CardinalityType
<1>4. /\ id \notin Registered =>
           Cardinality(Registered \cup {id}) = Cardinality(Registered) + 1
      /\ id \in Registered =>
           Cardinality(Registered \ {id}) = Cardinality(Registered) - 1
  BY <1>2, FS_AddElement, FS_RemoveElement
<1>5. Cardinality(Registered) \in 0 .. Cardinality(Ids)
  BY <1>2, <1>3
<1> QED  BY <1>2, <1>3, <1>4, <1>5

LEMMA MapInit == OwnSlots /\ IrqMapInit => MapInv
<1> SUFFICES ASSUME OwnSlots, IrqMapInit PROVE MapInv
  OBVIOUS
<1>1. Registered = {}
  BY DEF IrqMapInit, Registered
<1>2. Cardinality(Registered) = 0 /\ Cardinality(Ids) \in Nat
  BY <1>1, FS_EmptySet, IdsFinite, FS_CardinalityType
<1>3. IrqMapTypeOK
  BY <1>2, SlotsAssumption DEF IrqMapInit, IrqMapTypeOK, IrqMapTypes, Entry
<1>4. InitialSlots - 1 \in Slots
  BY SlotsAssumption DEF Slots
<1> QED  BY <1>1, <1>2, <1>3, <1>4, SlotsAssumption DEF IrqMapInit, MapInv

(* irq_register finds the slot of its IRQ free. *)
LEMMA RegisterStep ==
  ASSUME OwnSlots, MapInv, NEW id \in Ids, NEW fn \in Handlers, irq_register(id, fn)
  PROVE  MapInv' /\ registered[id] = NoHandler
         /\ registered' = [registered EXCEPT ![id] = fn] /\ fired' = fired
<1>1. /\ registered[id] = NoHandler /\ fn # NoHandler /\ id \in Slots
      /\ registered' = [registered EXCEPT ![id] = fn]
      /\ UNCHANGED <<used, fired>>
  BY HandlersAssumption, SlotNumbers DEF irq_register
<1>2. Search(id, {IRQ_NULL, IRQ_TOMBSTONE}) = id
  BY <1>1, SearchFindsRoom
<1>3. /\ entries' = [entries EXCEPT ![id] = [id |-> id, fn |-> fn]]
      /\ allocated' = allocated + 1 /\ halt' = halt
  BY <1>1, <1>2 DEF irq_register
<1>4. id \notin Registered /\ Registered' = Registered \cup {id}
  BY <1>1 DEF Registered, MapInv, IrqMapTypeOK, IrqMapTypes
<1>5. /\ allocated' = InitialSlots + Cardinality(Registered')
      /\ allocated' \in InitialSlots .. InitialSlots + Cardinality(Ids)
  <2>1. Cardinality(Registered') = Cardinality(Registered) + 1
    BY <1>4, RegisteredCount DEF MapInv
  <2>2. Registered' \subseteq Ids /\ Cardinality(Registered') <= Cardinality(Ids)
    BY FS_Subset, IdsFinite DEF Registered
  <2>3. allocated = InitialSlots + Cardinality(Registered) /\ InitialSlots \in Nat
    BY SlotsAssumption DEF MapInv
  <2>4. Cardinality(Registered) \in Nat /\ Cardinality(Ids) \in Nat
    BY FS_CardinalityType, FS_Subset, IdsFinite DEF Registered
  <2> QED  BY <2>4, <1>3, <2>1, <2>2, <2>3
<1>6. IrqMapTypeOK'
  <2>1. allocated' \in Nat
    BY <1>3 DEF MapInv, IrqMapTypeOK, IrqMapTypes
  <2>2. entries' \in [Slots -> Entry]
    BY <1>1, <1>3 DEF MapInv, IrqMapTypeOK, IrqMapTypes, Entry
  <2> QED  BY <1>1, <1>3, <1>5, <2>1, <2>2 DEF MapInv, IrqMapTypeOK, IrqMapTypes
<1>7. ASSUME NEW s \in Slots
      PROVE  (IF s \in Registered THEN entries[s] = [id |-> s, fn |-> registered[s]]
              ELSE entries[s].id \in {IRQ_NULL, IRQ_TOMBSTONE} /\ entries[s].fn = NoHandler)'
  BY <1>1, <1>3, <1>4 DEF MapInv, IrqMapTypeOK, IrqMapTypes, Registered
<1>8. entries'[InitialSlots - 1].id = IRQ_NULL
  BY <1>3, SlotNumbers DEF MapInv, IrqMapTypeOK, IrqMapTypes
<1> QED  BY <1>1, <1>3, <1>5, <1>6, <1>7, <1>8 DEF MapInv

(* irq_fire calls the handler that is registered, if there is one. *)
LEMMA FireStep ==
  ASSUME OwnSlots, MapInv, NEW id \in Ids \cup {IRQ_NULL}, irq_fire(id)
  PROVE  /\ MapInv' /\ registered' = registered
         /\ fired' = [id |-> id, fn |-> IF id = IRQ_NULL THEN NoHandler ELSE registered[id]]
<1> DEFINE s == IF id = IRQ_NULL THEN -1 ELSE Search(id, {id, IRQ_NULL})
           fn == IF s \in Slots THEN entries[s].fn ELSE NoHandler
<1>1. /\ s \in Slots \cup {-1}
      /\ fn = IF id = IRQ_NULL THEN NoHandler ELSE registered[id]
  <2>1. CASE id = IRQ_NULL
    <3>1. -1 \notin Slots
      BY SlotsAssumption DEF Slots
    <3> QED  BY <2>1, <3>1
  <2>2. CASE id # IRQ_NULL
    BY <2>2, SearchFinds
  <2> QED  BY <2>1, <2>2
<1>2. /\ UNCHANGED <<entries, allocated, used, registered>>
      /\ fired' = [id |-> id, fn |-> fn]
      /\ halt' = IF s \in Slots \cup {-1} THEN halt ELSE "overrun"
  BY DEF irq_fire
<1>3. fn \in Handlers \cup {NoHandler}
  BY <1>1 DEF MapInv, IrqMapTypeOK, IrqMapTypes
<1> HIDE DEF s, fn
<1>4. /\ UNCHANGED <<entries, allocated, used, registered, halt>>
      /\ fired' \in [id : Ids \cup {IRQ_NULL}, fn : Handlers \cup {NoHandler}]
  BY <1>1, <1>2, <1>3
<1>5. MapInv'
  BY <1>4 DEF MapInv, IrqMapTypeOK, IrqMapTypes, Registered
<1> QED  BY <1>1, <1>2, <1>5

(* irq_unregister leaves a tombstone, or nothing when there is no entry. *)
LEMMA UnregisterStep ==
  ASSUME OwnSlots, MapInv, NEW id \in Ids, irq_unregister(id)
  PROVE  MapInv' /\ registered' = [registered EXCEPT ![id] = NoHandler] /\ fired' = fired
<1>1. /\ registered' = [registered EXCEPT ![id] = NoHandler]
      /\ halt' = halt /\ UNCHANGED <<used, fired>>
  BY SearchFinds DEF irq_unregister
<1>2. Registered' = Registered \ {id}
  BY <1>1 DEF Registered, MapInv, IrqMapTypeOK, IrqMapTypes
<1>3. CASE id \in Registered
  <2>1. /\ entries' = [entries EXCEPT ![id] = [id |-> IRQ_TOMBSTONE, fn |-> NoHandler]]
        /\ allocated' = allocated - 1
    <3>1. Search(id, {id, IRQ_NULL}) = id /\ id \in Slots
      BY <1>3, SearchFinds
    <3>2. entries[id] = [id |-> id, fn |-> registered[id]]
      BY <1>3, <3>1 DEF MapInv
    <3>3. entries[id].id = id
      BY <3>2
    <3> QED  BY <3>1, <3>3 DEF irq_unregister
  <2>2. /\ allocated' = InitialSlots + Cardinality(Registered')
        /\ allocated' \in InitialSlots .. InitialSlots + Cardinality(Ids)
    <3>1. Cardinality(Registered') = Cardinality(Registered) - 1
      BY <1>2, <1>3, RegisteredCount DEF MapInv
    <3>2. Cardinality(Registered') \in Nat /\ Cardinality(Registered') <= Cardinality(Ids)
      BY FS_CardinalityType, FS_Subset, IdsFinite DEF Registered
    <3>3. allocated = InitialSlots + Cardinality(Registered) /\ InitialSlots \in Nat
      BY SlotsAssumption DEF MapInv
    <3>4. Cardinality(Registered) \in Nat /\ Cardinality(Ids) \in Nat
      BY FS_CardinalityType, FS_Subset, IdsFinite DEF Registered
    <3> QED  BY <3>4, <2>1, <3>1, <3>2, <3>3
  <2>3. IrqMapTypeOK'
    <3>1. allocated' \in Nat
      BY <2>2, SlotsAssumption, IdsFinite, FS_CardinalityType
    <3>2. entries' \in [Slots -> Entry]
      BY <1>1, <2>1 DEF MapInv, IrqMapTypeOK, IrqMapTypes, Entry
    <3> QED  BY <1>1, <2>1, <2>2, <3>1, <3>2 DEF MapInv, IrqMapTypeOK, IrqMapTypes
  <2>4. ASSUME NEW s \in Slots
        PROVE  (IF s \in Registered THEN entries[s] = [id |-> s, fn |-> registered[s]]
                ELSE entries[s].id \in {IRQ_NULL, IRQ_TOMBSTONE} /\ entries[s].fn = NoHandler)'
    BY <1>1, <1>2, <2>1 DEF MapInv, IrqMapTypeOK, IrqMapTypes, Registered
  <2>5. entries'[InitialSlots - 1].id = IRQ_NULL
    BY <2>1, SlotNumbers DEF MapInv, IrqMapTypeOK, IrqMapTypes
  <2> QED  BY <1>1, <2>2, <2>3, <2>4, <2>5 DEF MapInv
<1>4. CASE id \notin Registered
  <2>1. UNCHANGED <<entries, allocated>>
    BY <1>4, SearchFinds DEF irq_unregister
  <2>2. registered' = registered
    BY <1>1, <1>4 DEF Registered, MapInv, IrqMapTypeOK, IrqMapTypes
  <2> QED  BY <1>1, <2>1, <2>2 DEF MapInv, IrqMapTypeOK, IrqMapTypes, Registered
<1> QED  BY <1>3, <1>4

LEMMA MapStep == OwnSlots /\ MapInv /\ [IrqMapNext]_irq_map => MapInv'
<1> SUFFICES ASSUME OwnSlots, MapInv, [IrqMapNext]_irq_map PROVE MapInv'
  OBVIOUS
<1>1. CASE UNCHANGED irq_map
  BY <1>1 DEF irq_map, MapInv, IrqMapTypeOK, IrqMapTypes, Registered
<1> QED  BY <1>1, RegisterStep, FireStep, UnregisterStep DEF IrqMapNext

LEMMA MapInvariant == ASSUME OwnSlots PROVE IrqMapSpec => []MapInv
BY MapInit, MapStep, PTL DEF IrqMapSpec

-----------------------------------------------------------------------------
(* The map grows by one entry per handler that is registered, and never     *)
(* gives one up that it counts (irq.c:103, 157).                            *)
THEOREM MapTypeCorrect == ASSUME OwnSlots PROVE IrqMapSpec => []IrqMapTypeOK
<1>1. MapInv => IrqMapTypeOK
  BY DEF MapInv
<1> QED  BY MapInvariant, <1>1, PTL

(* No search leaves the entries, and no registration panics or rehashes,    *)
(* whatever sequence of calls there was (irq.c:89, 98-110, 124-139).        *)
THEOREM StaysInsideCorrect == ASSUME OwnSlots PROVE IrqMapSpec => []StaysInside
<1>1. MapInv => StaysInside
  BY SlotsAssumption, IdsFinite, FS_CardinalityType
     DEF MapInv, IrqMapTypeOK, IrqMapTypes, StaysInside, RehashNeeded
<1> QED  BY MapInvariant, <1>1, PTL

(* A search may stop at a NULL slot: no registered IRQ lies beyond it       *)
(* (irq.c:133).                                                             *)
THEOREM NullEndsSearchCorrect == ASSUME OwnSlots PROVE IrqMapSpec => []NullEndsSearch
<1>1. MapInv => NullEndsSearch
  <2> SUFFICES ASSUME MapInv, NEW id \in Ids, registered[id] # NoHandler
               PROVE  LET s == Search(id, {id, IRQ_NULL})
                      IN s \in Slots /\ entries[s].id = id
    BY DEF NullEndsSearch
  <2> DEFINE s == Search(id, {id, IRQ_NULL})
  <2>1. id \in Registered
    BY DEF Registered
  <2>2. s \in Slots /\ entries[s] = [id |-> id, fn |-> registered[id]]
    BY <2>1, SearchFinds
  <2> HIDE DEF s
  <2>3. s \in Slots /\ entries[s].id = id
    BY <2>2
  <2> QED  BY <2>3 DEF s
<1> QED  BY MapInvariant, <1>1, PTL

(* The map is a registry of handlers: what irq_fire calls is what was       *)
(* registered last, although the modulus of the search is not the one of    *)
(* the store (irq.c:93, 103, 122, 148, 157).                                *)
THEOREM ImplementsRegistryCorrect == ASSUME OwnSlots PROVE IrqMapSpec => ImplementsRegistry
<1>1. IrqMapInit => Registry!Init
  BY DEF IrqMapInit, Registry!Init
<1>2. MapInv /\ [IrqMapNext]_irq_map => [Registry!Next]_(Registry!vars)
  <2> SUFFICES ASSUME MapInv, [IrqMapNext]_irq_map PROVE [Registry!Next]_(Registry!vars)
    OBVIOUS
  <2>1. ASSUME NEW id \in Ids, NEW fn \in Handlers, irq_register(id, fn)
        PROVE  Registry!Register(id, fn)
    BY <2>1, RegisterStep DEF Registry!Register
  <2>2. ASSUME NEW id \in Ids \cup {IRQ_NULL}, irq_fire(id) PROVE Registry!Fire(id)
    BY <2>2, FireStep DEF Registry!Fire
  <2>3. ASSUME NEW id \in Ids, irq_unregister(id) PROVE Registry!Unregister(id)
    BY <2>3, UnregisterStep DEF Registry!Unregister
  <2>4. CASE UNCHANGED irq_map
    BY <2>4 DEF irq_map, Registry!vars
  <2> QED  BY <2>1, <2>2, <2>3, <2>4 DEF IrqMapNext, Registry!Next
<1> QED  BY MapInvariant, <1>1, <1>2, PTL DEF IrqMapSpec, ImplementsRegistry, Registry!Spec
=============================================================================
