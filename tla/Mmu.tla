--------------------------------- MODULE Mmu ---------------------------------
(***************************************************************************)
(* kern/arch/aarch64/mmu.c: mmu_init builds the kernel's page tables and   *)
(* the lists of the physical frames.                                       *)
(*                                                                         *)
(* An address is its page's or frame's number: the kernel is linked so     *)
(* that the low bits of a virtual address of its image are the physical    *)
(* address.  A page table has Fanout entries (512) and a walk four levels, *)
(* the lower half of level 0 for the image and the upper half for the map  *)
(* of the physical memory.  Memory that was never written is zero.  The    *)
(* memory map is the one of aarch64_boot: one area, from frame 0.          *)
(***************************************************************************)
EXTENDS Naturals, FiniteSets, FiniteSetsExt

CONSTANTS
  Fanout,      \* the entries of a page table
  Load,        \* the first frame of the image, after the boot code and data
  Layouts,     \* the numbers of pages of the image's sections
  Ends,        \* the numbers of frames of the memory
  MemMapPages  \* the pages of the array of the struct frames

Sections == <<"text", "rodata", "data">>

ASSUME FanoutAssumption == Fanout \in Nat /\ Fanout > 0 /\ Fanout % 2 = 0
ASSUME LayoutAssumption ==
  /\ Load \in Nat /\ Load >= Fanout \div 2
  /\ Layouts \subseteq [{Sections[k] : k \in 1 .. 3} -> Nat \ {0}]
ASSUME MemoryAssumption ==
  /\ Ends \subseteq Nat \ {0} /\ \E greatest \in Ends : \A e \in Ends : e <= greatest
  /\ MemMapPages \in Nat \ {0}

VARIABLES
  layout,  \* the image, as it was linked
  end,     \* the end of the memory
  memory,  \* memory.table[f] : the page table in frame f; memory.last :
           \* early_page_table_alloc_last; memory.at : the table that the last
           \* walk has reached; memory.halt : "no", or "panic"
  root,    \* k_page_table
  pc,      \* the next step of mmu_init
  page,    \* the page or the frame it is at
  next,    \* the links of the struct frames and of the lists' heads
  prev

lists == <<next, prev>>
vars == <<layout, end, memory, root, pc, page, lists>>

Frame == 0 .. Max(Ends) - 1
NoFrame == Max(Ends)
Index == 0 .. Fanout - 1
(* The pages below an entry of a table of level 0, 1, 2 and 3. *)
Below == <<Fanout * Fanout * Fanout, Fanout * Fanout, Fanout, 1>>
(* The pages of the lower half of the address space. *)
Page == 0 .. (Fanout \div 2) * Below[1] - 1

(* PROT_READ or more, and the flags of a page's entry: AP, UXN and PXN.     *)
Prot == SUBSET {"PROT_READ", "PROT_WRITE", "PROT_EXEC"}
Flags(prot) ==
  [write |-> "PROT_WRITE" \in prot \/ "PROT_READ" \notin prot,
   uxn |-> TRUE,
   pxn |-> "PROT_EXEC" \notin prot]

(* An entry: not valid, a block, or the frame of a table or of a page. *)
NoFlags == [write |-> FALSE, uxn |-> FALSE, pxn |-> FALSE]
Invalid == [kind |-> "invalid", frame |-> 0, flags |-> NoFlags]
TableEntry(f) == [kind |-> "table", frame |-> f, flags |-> NoFlags]
PageEntry(f, prot) == [kind |-> "table", frame |-> f, flags |-> Flags(prot)]
Entry == [kind : {"invalid", "table", "block"}, frame : Frame,
          flags : {NoFlags} \cup {Flags(prot) : prot \in Prot}]

Unmapped == [frame |-> NoFrame]
Translation == [frame : Frame, flags : {Flags(prot) : prot \in Prot}]

-----------------------------------------------------------------------------
(* The first page of each section, and _end. *)
TextEnd(l) == Load + l["text"]
RodataEnd(l) == TextEnd(l) + l["rodata"]
End(l) == RodataEnd(l) + l["data"]

ASSUME AddressAssumption == \A l \in Layouts : End(l) + MemMapPages - 1 \in Page

(* Faulty variant: the first page of .rodata is taken for code. *)
ProtOfOffByOne(l, v) == IF v <= TextEnd(l) THEN {"PROT_EXEC", "PROT_READ"}
                        ELSE IF v < RodataEnd(l) THEN {"PROT_READ"}
                        ELSE {"PROT_READ", "PROT_WRITE"}

(* The protection that mmu_init gives to a page of the image. *)
ProtOf(l, v) == IF v < TextEnd(l) THEN {"PROT_EXEC", "PROT_READ"}
                ELSE IF v < RodataEnd(l) THEN {"PROT_READ"}
                ELSE {"PROT_READ", "PROT_WRITE"}

(* Faulty variant: a bound that is off by one. *)
AllocatePastEnd(m) ==
  IF m.last + 1 <= end THEN [m EXCEPT !.last = @ + 1] ELSE [m EXCEPT !.halt = "panic"]

(* allocate_page_table: the frame is last.  The early source of frames is   *)
(* never taken away, and the cache never used.                              *)
Allocate(m) ==
  IF m.last + 1 < end THEN [m EXCEPT !.last = @ + 1] ELSE [m EXCEPT !.halt = "panic"]

(* Faulty variant: the shift of level 2 is used for level 3. *)
IndexOfShift21(v, level) ==
  (v \div Below[IF level = 3 THEN 3 ELSE level + 1]) % Fanout

(* The index of page v in its table of this level, 0 to 3. *)
IndexOf(v, level) == (v \div Below[level + 1]) % Fanout

WalkOrCreate(m, v, level) ==
  LET i == IndexOf(v, level)
      e == m.table[m.at][i]
      a == Allocate(m)
  IN IF m.halt # "no" THEN m
     ELSE IF e.kind = "invalid"
     THEN IF a.halt # "no" THEN a
          ELSE [a EXCEPT !.table[m.at][i] = TableEntry(a.last), !.at = a.last]
     ELSE [m EXCEPT !.at = e.frame, !.halt = IF e.kind = "table" THEN @ ELSE "panic"]

mmu_map(m, v, f, prot) ==
  LET level1 == WalkOrCreate([m EXCEPT !.at = root], v, 0)
      level2 == WalkOrCreate(level1, v, 1)
      level3 == WalkOrCreate(level2, v, 2)
  IN IF level3.halt # "no" THEN level3
     ELSE [level3 EXCEPT !.table[level3.at][IndexOf(v, 3)] = PageEntry(f, prot)]

(* What the processor finds for page v. *)
Step(f, v, level) ==
  IF f = NoFrame THEN f
  ELSE LET e == memory.table[f][IndexOf(v, level)]
       IN IF e.kind = "invalid" THEN NoFrame ELSE e.frame
Translate(v) ==
  LET level3 == Step(Step(Step(root, v, 0), v, 1), v, 2)
      e == memory.table[level3][IndexOf(v, 3)]
  IN IF level3 = NoFrame \/ e.kind = "invalid" THEN Unmapped
     ELSE [frame |-> e.frame, flags |-> e.flags]

-----------------------------------------------------------------------------
(***************************************************************************)
(* linked_list.h.  A pointer is a frame's number, or one of the three      *)
(* numbers after them: the heads of the lists, and NULL.                   *)
(***************************************************************************)
free_frames == Max(Ends)
page_table_frames == Max(Ends) + 1
Null == Max(Ends) + 2
Nodes == Frame \cup {free_frames, page_table_frames}

(* A store through a null pointer changes no list. *)
Store(field, node, value) == IF node = Null THEN field ELSE [field EXCEPT ![node] = value]

ll_init(l, head) == [next |-> [l.next EXCEPT ![head] = head],
                     prev |-> [l.prev EXCEPT ![head] = head]]

ll_insert(l, head, node) ==
  LET first == l.next[head]
  IN [next |-> [l.next EXCEPT ![node] = first, ![head] = node],
      prev |-> Store([l.prev EXCEPT ![node] = head], first, node)]

(* Faulty variant: the node before is not told. *)
ll_unlink_keeps_previous(l, node) ==
  LET n == l.next[node]
      p == l.prev[node]
  IN [next |-> [l.next EXCEPT ![node] = Null],
      prev |-> [Store(l.prev, n, p) EXCEPT ![node] = Null]]

(* node->next is cleared before it is given to the previous node. *)
ll_unlink(l, node) ==
  LET n == l.next[node]
      p == l.prev[node]
  IN [next |-> Store([l.next EXCEPT ![node] = Null], p, Null),
      prev |-> [Store(l.prev, n, p) EXCEPT ![node] = Null]]

-----------------------------------------------------------------------------
(* Faulty variant: one page is subtracted from _end too often. *)
FirstTableInImage(l) == End(l) - 1

(* mmu_init up to the first table: early_page_table_alloc_last is the last  *)
(* frame of the image, so that the first table is at _end.                  *)
FirstTable(l) == End(l)

Init ==
  /\ layout \in Layouts
  /\ end \in Ends /\ FirstTable(layout) < end
  /\ root = FirstTable(layout)
  /\ memory = [table |-> [f \in Frame |-> [i \in Index |-> Invalid]],
               last |-> root, at |-> root, halt |-> "no"]
  /\ pc = "image" /\ page = Load
  /\ next = [n \in Nodes |-> Null] /\ prev = [n \in Nodes |-> Null]

At(step) == memory.halt = "no" /\ pc = step

(* init_k_map, one page. *)
InitKMap ==
  /\ At("image")
  /\ memory' = mmu_map(memory, page, page, ProtOf(layout, page))
  /\ page' = page + 1
  /\ pc' = IF page + 1 = End(layout) THEN "physmap" ELSE pc
  /\ UNCHANGED <<layout, end, root, lists>>

(* The upper half of level 0 gets the tables that the boot code has filled. *)
MapPhysicalMemory ==
  /\ At("physmap")
  /\ memory' = [memory EXCEPT !.table[root] =
                  [i \in Index |-> IF i < Fanout \div 2 THEN @[i]
                                   ELSE TableEntry(i - Fanout \div 2)]]
  /\ pc' = "mem_map"
  /\ UNCHANGED <<layout, end, root, page, lists>>

(* init_mem_map, one page of the array of struct frames. *)
MapMemMap ==
  /\ At("mem_map")
  /\ LET a == Allocate(memory)
     IN memory' = mmu_map(a, page, a.last, {"PROT_READ", "PROT_WRITE"})
  /\ page' = page + 1
  /\ pc' = IF page + 1 = End(layout) + MemMapPages THEN "lists" ELSE pc
  /\ UNCHANGED <<layout, end, root, lists>>

(* The array is there now, and the list of the free frames is empty. *)
InitFreeList ==
  LET l == ll_init([next |-> next, prev |-> prev], free_frames)
  IN /\ At("lists")
     /\ next' = l.next /\ prev' = l.prev
     /\ pc' = "frames" /\ page' = 0
     /\ UNCHANGED <<layout, end, memory, root>>

(* One frame of the memory is put on it. *)
AddFreeFrame ==
  LET l == ll_insert([next |-> next, prev |-> prev], free_frames, page)
  IN /\ At("frames")
     /\ next' = l.next /\ prev' = l.prev
     /\ page' = IF page + 1 = end THEN 0 ELSE page + 1
     /\ pc' = IF page + 1 = end THEN "walk" ELSE pc
     /\ UNCHANGED <<layout, end, memory, root>>

(* walk_pages, one page: init_own_page of what it is mapped to. *)
WalkPages ==
  LET f == Translate(page).frame
      l == [next |-> next, prev |-> prev]
      o == IF f = NoFrame THEN l ELSE ll_insert(ll_unlink(l, f), page_table_frames, f)
  IN /\ At("walk")
     /\ next' = o.next /\ prev' = o.prev
     /\ page' = page + 1
     /\ pc' = IF page + 1 \in Page THEN pc ELSE "done"
     /\ UNCHANGED <<layout, end, memory, root>>

Next == \/ InitKMap \/ MapPhysicalMemory \/ MapMemMap
        \/ InitFreeList \/ AddFreeFrame \/ WalkPages

Spec == Init /\ [][Next]_vars

-----------------------------------------------------------------------------
(***************************************************************************)
(* Properties                                                              *)
(***************************************************************************)
(* The type invariant: every frame that is allocated for a table or a page  *)
(* lies inside the memory (mmu.c:55-60).                                    *)
TypeOK ==
  /\ layout \in Layouts /\ end \in Ends
  /\ memory \in [table : [Frame -> [Index -> Entry]],
                 last : 0 .. end - 1, at : 0 .. end - 1, halt : {"no", "panic"}]
  /\ root \in Frame
  /\ pc \in {"image", "physmap", "mem_map", "lists", "frames", "walk", "done"}
  /\ page \in Nat
  /\ next \in [Nodes -> Nodes \cup {Null}] /\ prev \in [Nodes -> Nodes \cup {Null}]

(* The tables of the lower half, level by level. *)
Entries(tables, indices) ==
  {e \in tables \X indices : memory.table[e[1]][e[2]].kind # "invalid"}
Reached(entries) == {memory.table[e[1]][e[2]].frame : e \in entries}
Entries0 == Entries({root}, 0 .. (Fanout \div 2) - 1)
Entries1 == Entries(Reached(Entries0), Index)
Entries2 == Entries(Reached(Entries1), Index)
Tables == {root} \cup Reached(Entries0 \cup Entries1 \cup Entries2)
MappedFrames == {Translate(v).frame : v \in Page} \ {NoFrame}

(* The page tables are a tree: each is reached through one entry, and its   *)
(* frame is neither a frame of the boot code, of the image, nor one that is *)
(* mapped, so that no store to a mapped page changes a translation          *)
(* (mmu.c:46-70, 243-251, 290-304).                                         *)
TablesApart ==
  memory.halt = "no" =>
    /\ Cardinality(Tables) = Cardinality(Entries0 \cup Entries1 \cup Entries2) + 1
    /\ Tables \cap (MappedFrames \cup 0 .. End(layout) - 1) = {}

(* When the page tables are built, the image is mapped where it was linked, *)
(* nothing of it writable and executable, and the array of struct frames to *)
(* memory of its own (mmu.c:102-115, 186-189, 253-260).                     *)
KernelMapped ==
  At("lists") =>
    \A v \in Page :
      LET t == Translate(v)
      IN /\ v \in Load .. End(layout) - 1 =>
              /\ t.frame = v
              /\ t.flags.write <=> v >= RodataEnd(layout)
              /\ ~t.flags.pxn <=> v < TextEnd(layout)
         /\ v \in End(layout) .. End(layout) + MemMapPages - 1 =>
              /\ t.frame >= End(layout) /\ t.flags.write /\ t.flags.pxn
              /\ \A w \in Page \ {v} : Translate(w).frame # t.frame

(* A walk finds for every page what mmu_map was last asked to map it to:    *)
(* mapping one page, whatever tables that takes, changes the translation of *)
(* no other, and no page is mapped twice (mmu.c:283-349; the TLB is not     *)
(* invalidated in mmu_map).                                                 *)
AS == INSTANCE AddressSpace WITH mapping <- [v \in Page |-> Translate(v)]
ImplementsAddressSpace == AS!Spec

(* The frames that a walk along the next links finds on a list. *)
Listed(head) ==
  LET from[k \in Nat] == IF k = 0 THEN {head}
                         ELSE from[k - 1] \cup {next[n] : n \in from[k - 1] \ {Null}}
  IN from[Max(Ends)] \ {free_frames, page_table_frames, Null}

(* When mmu_init is done, whoever takes frames from free_frames gets none   *)
(* that a page of the kernel is mapped to: ll_unlink, which leaves the      *)
(* frame that it takes out linked to the list, takes out every one of them  *)
(* all the same (mmu.c:145-166, linked_list.h:11-29).                       *)
MappedNotFree == At("done") => Listed(free_frames) \cap MappedFrames = {}
=============================================================================
