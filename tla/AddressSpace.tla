---------------------------- MODULE AddressSpace ----------------------------
(***************************************************************************)
(* What the page tables of an address space amount to: a mapping of        *)
(* virtual pages to physical frames.  A page that is mapped stays mapped   *)
(* to its frame: no translation that the processor has cached goes stale.  *)
(***************************************************************************)
CONSTANTS Page,         \* the virtual pages
          Translation,  \* what a page can be mapped to
          Unmapped

VARIABLE mapping

Init == mapping = [v \in Page |-> Unmapped]

Map(v, translation) ==
  /\ mapping[v] = Unmapped
  /\ mapping' = [mapping EXCEPT ![v] = translation]

Next == \E v \in Page, translation \in Translation : Map(v, translation)

Spec == Init /\ [][Next]_mapping
=============================================================================
