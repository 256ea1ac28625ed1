--------------------------------- MODULE Heap ---------------------------------
(***************************************************************************)
(* kern/mem/mem.c: the bump allocator of the kernel's heap.                *)
(*                                                                         *)
(* kzalloc does not mask interrupts, so each of its accesses to heap_next  *)
(* is a step of its own, and a task can be preempted between two of them.  *)
(***************************************************************************)
EXTENDS Integers, SequencesExt

CONSTANTS
  Task,
  HeapSize,  \* the size of bump_heap, in bytes
  Sizes      \* the sizes that are asked for

ASSUME HeapAssumption == HeapSize \in Nat /\ HeapSize % 16 = 0 /\ Sizes \subseteq Nat

VARIABLES
  heap_next,  \* heap_next, as an offset into bump_heap
  kzalloc,    \* kzalloc[t] : the call that t is in, or NoCall
  blocks,     \* the blocks handed out, in the order of the returns
  requested   \* the bytes asked for by the calls that have returned, in whole
              \* units of 16: no state of the heap

heap == <<heap_next, kzalloc, blocks, requested>>

(* A call's locals, and alone: no other task was in a call at the same time. *)
NoCall == [at |-> "none"]
KzallocCall == [at : {"load", "store"}, size : Sizes, result : Nat, next : Nat, alone : BOOLEAN]

(* Faulty variants: sizes are not rounded, or multiples of 16 are, too. *)
RoundedNot(size) == size
RoundedPastMultiple(size) == size + (16 - (size % 16))

(* "Ensure we're always 16 byte aligned".  size_t wraps at a multiple of 16. *)
Rounded(size) == size + ((16 - size) % 16)

HeapInit ==
  heap_next = 0 /\ kzalloc = [t \in Task |-> NoCall] /\ blocks = <<>> /\ requested = 0

InKzalloc(t, at) == kzalloc[t].at = at
Allocating == {t \in Task : kzalloc[t] # NoCall}

(* Faulty variant: the block is taken from where the bump will lead. *)
KzallocEnterBumped(t, size) ==
  /\ kzalloc' = [u \in Task |->
       IF u = t THEN [at |-> "load", size |-> size, result |-> heap_next + size, next |-> 0,
                      alone |-> Allocating = {}]
       ELSE IF u \in Allocating THEN [kzalloc[u] EXCEPT !.alone = FALSE] ELSE NoCall]
  /\ UNCHANGED <<heap_next, blocks, requested>>

(* result = heap_next. *)
KzallocEnter(t, size) ==
  /\ kzalloc' = [u \in Task |->
       IF u = t THEN [at |-> "load", size |-> size, result |-> heap_next, next |-> 0,
                      alone |-> Allocating = {}]
       ELSE IF u \in Allocating THEN [kzalloc[u] EXCEPT !.alone = FALSE] ELSE NoCall]
  /\ UNCHANGED <<heap_next, blocks, requested>>

(* heap_next += ... loads the pointer again, and stores it. *)
KzallocLoad(t) ==
  /\ InKzalloc(t, "load")
  /\ kzalloc' = [kzalloc EXCEPT ![t].next = heap_next, ![t].at = "store"]
  /\ UNCHANGED <<heap_next, blocks, requested>>

(* What a call asks for, in whole units of 16 bytes. *)
Units(size) == 16 * ((size + 15) \div 16)

(* The store, memset of the block, and the return. *)
KzallocReturn(t) ==
  /\ InKzalloc(t, "store")
  /\ heap_next' = kzalloc[t].next + Rounded(kzalloc[t].size)
  /\ blocks' = Append(blocks, [start |-> kzalloc[t].result, size |-> kzalloc[t].size,
                               alone |-> kzalloc[t].alone])
  /\ kzalloc' = [kzalloc EXCEPT ![t] = NoCall]
  /\ requested' = requested + Units(kzalloc[t].size)

KzallocStep(t) == KzallocLoad(t) \/ KzallocReturn(t)

-----------------------------------------------------------------------------
(* The type invariant: the next block is always aligned (mem.c:63, 69-70). *)
HeapTypeOK ==
  /\ heap_next \in {16 * k : k \in 0 .. heap_next} /\ requested \in Nat
  /\ kzalloc \in [Task -> {NoCall} \cup KzallocCall]
  /\ blocks \in Seq([start : Nat, size : Sizes, alone : BOOLEAN])

Block(k) == blocks[k].start .. blocks[k].start + blocks[k].size - 1
Inside(k) == blocks[k].start + blocks[k].size <= HeapSize
=============================================================================
