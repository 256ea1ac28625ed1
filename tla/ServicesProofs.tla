---------------------------- MODULE ServicesProofs ----------------------------
(***************************************************************************)
(* Theorems about Services and Heap, for every set of tasks, every size of *)
(* the heap, of the FIFO and of the messages, and any number of calls.     *)
(***************************************************************************)
EXTENDS Services, SequenceTheorems, TLAPS

(***************************************************************************)
(* The heap.  Calls that meet leave heap_next behind what they have handed *)
(* out, but never behind a block of a call that was alone: such a block    *)
(* was complete before any call that is in progress read heap_next.        *)
(***************************************************************************)
Aligned(n) == \E k \in Nat : n = 16 * k

BlockEnd(k) == blocks[k].start + blocks[k].size

AllAlone == \A k \in DOMAIN blocks : blocks[k].alone

(* What a call in progress has read, and that a call that is alone has read *)
(* what heap_next still is.                                                 *)
CallInv(t) ==
  /\ kzalloc[t].result <= requested
  /\ InKzalloc(t, "store") => Aligned(kzalloc[t].next) /\ kzalloc[t].next <= requested
  /\ kzalloc[t].alone =>
       /\ Allocating = {t} /\ kzalloc[t].result = heap_next
       /\ InKzalloc(t, "store") => kzalloc[t].next = heap_next

(* A block of a call that was alone ends before everything that was read    *)
(* later, and so before every later block.                                  *)
AloneInv(k) ==
  /\ BlockEnd(k) <= heap_next
  /\ \A t \in Allocating :
       /\ BlockEnd(k) <= kzalloc[t].result
       /\ InKzalloc(t, "store") => BlockEnd(k) <= kzalloc[t].next
  /\ \A j \in DOMAIN blocks : k < j => BlockEnd(k) <= blocks[j].start

(* Without interleavings the heap is used up without gaps. *)
NoGaps ==
  /\ blocks = <<>> => requested = 0
  /\ AllAlone =>
       /\ heap_next = requested
       /\ blocks # <<>> =>
            requested = blocks[Len(blocks)].start + Units(blocks[Len(blocks)].size)

HeapInv ==
  /\ HeapTypeOK
  /\ Aligned(requested) /\ heap_next <= requested
  /\ \A t \in Allocating : CallInv(t)
  /\ \A k \in DOMAIN blocks : BlockEnd(k) <= requested
  /\ \A k \in DOMAIN blocks : blocks[k].alone => AloneInv(k)
  /\ NoGaps

-----------------------------------------------------------------------------
(* What the code rounds a size up to is the whole units of 16 bytes. *)
LEMMA RoundedIsUnits ==
  ASSUME NEW size \in Nat
  PROVE  /\ Rounded(size) = Units(size) /\ Units(size) \in Nat /\ Aligned(Units(size))
         /\ size <= Units(size) /\ Units(size) < size + 16
<1> DEFINE q == (size + 15) \div 16
<1>1. q \in Nat /\ 16 * q <= size + 15 /\ size + 15 < 16 * q + 16
  OBVIOUS
<1>2. (16 - size) % 16 = 16 * q - size
  OBVIOUS
<1> QED  BY <1>1, <1>2 DEF Rounded, Units, Aligned

LEMMA AlignedSum ==
  ASSUME NEW m \in Nat, NEW n \in Nat, Aligned(m), Aligned(n)
  PROVE  Aligned(m + n) /\ (m < n => m + 16 <= n)
<1> PICK j \in Nat, k \in Nat : m = 16 * j /\ n = 16 * k
  BY DEF Aligned
<1>1. m + n = 16 * (j + k) /\ j + k \in Nat
  OBVIOUS
<1> QED  BY <1>1 DEF Aligned

(* The form that HeapTypeOK gives to it. *)
LEMMA AlignedMember ==
  ASSUME NEW n \in Nat
  PROVE  n \in {16 * k : k \in 0 .. n} <=> Aligned(n)
BY DEF Aligned

(* The calls in progress are records with these fields. *)
LEMMA CallType ==
  ASSUME HeapTypeOK, NEW t \in Task
  PROVE  /\ t \in Allocating <=> kzalloc[t] \in KzallocCall
         /\ t \notin Allocating => kzalloc[t] = NoCall
         /\ t \in Allocating =>
              /\ kzalloc[t].at \in {"load", "store"} /\ kzalloc[t].size \in Sizes
              /\ kzalloc[t].result \in Nat /\ kzalloc[t].next \in Nat
              /\ kzalloc[t].alone \in BOOLEAN
         /\ kzalloc[t].at \in {"load", "store"} => t \in Allocating
BY DEF HeapTypeOK, Allocating, KzallocCall, NoCall

LEMMA HeapTypes ==
  ASSUME HeapTypeOK
  PROVE  /\ heap_next \in Nat /\ Aligned(heap_next) /\ requested \in Nat
         /\ Len(blocks) \in Nat /\ DOMAIN blocks = 1 .. Len(blocks)
         /\ \A k \in DOMAIN blocks :
              /\ blocks[k].start \in Nat /\ blocks[k].size \in Nat /\ blocks[k].size \in Sizes
              /\ blocks[k].alone \in BOOLEAN
              /\ BlockEnd(k) \in Nat
<1>1. heap_next \in Nat /\ Aligned(heap_next)
  BY DEF HeapTypeOK, Aligned
<1>2. Len(blocks) \in Nat /\ DOMAIN blocks = 1 .. Len(blocks)
  BY DEF HeapTypeOK
<1> DEFINE B == [start : Nat, size : Sizes, alone : BOOLEAN]
<1>3. ASSUME NEW k \in DOMAIN blocks PROVE blocks[k] \in B
  <2>1. blocks \in Seq(B) /\ k \in 1 .. Len(blocks)
    BY <1>2 DEF HeapTypeOK
  <2> HIDE DEF B
  <2> QED  BY <2>1
<1>4. ASSUME NEW k \in DOMAIN blocks
      PROVE  /\ blocks[k].start \in Nat /\ blocks[k].size \in Nat /\ blocks[k].size \in Sizes
             /\ blocks[k].alone \in BOOLEAN
             /\ BlockEnd(k) \in Nat
  <2>1. /\ blocks[k].start \in Nat /\ blocks[k].size \in Sizes /\ blocks[k].alone \in BOOLEAN
    BY <1>3
  <2>2. blocks[k].size \in Nat
    BY <2>1, HeapAssumption
  <2> QED  BY <2>1, <2>2 DEF BlockEnd
<1> QED  BY <1>1, <1>2, <1>4 DEF HeapTypeOK

-----------------------------------------------------------------------------
LEMMA HeapInitInv == HeapInit => HeapInv
<1> SUFFICES ASSUME HeapInit PROVE HeapInv
  OBVIOUS
<1>1. Allocating = {} /\ blocks = <<>> /\ DOMAIN blocks = {} /\ heap_next = 0 /\ requested = 0
  BY DEF HeapInit, Allocating
<1>2. Aligned(0)
  BY DEF Aligned
<1>3. HeapTypeOK
  <2>1. kzalloc \in [Task -> {NoCall} \cup KzallocCall]
    BY DEF HeapInit
  <2>2. blocks \in Seq([start : Nat, size : Sizes, alone : BOOLEAN])
    BY <1>1
  <2> QED  BY <1>1, <1>2, <2>1, <2>2, AlignedMember DEF HeapTypeOK
<1> QED  BY <1>1, <1>2, <1>3 DEF HeapInv, NoGaps, AllAlone

(* A call that begins reads heap_next, and ends the solitude of the others. *)
LEMMA HeapEnterInv ==
  ASSUME HeapInv, NEW t \in Task, NEW size \in Sizes, KzallocEnter(t, size)
  PROVE  HeapInv'
<1> DEFINE c == [at |-> "load", size |-> size, result |-> heap_next, next |-> 0,
                 alone |-> Allocating = {}]
<1>0. HeapTypeOK
  BY DEF HeapInv
<1>1. heap_next' = heap_next /\ blocks' = blocks /\ requested' = requested
  BY DEF KzallocEnter
<1>2. /\ kzalloc'[t] = c
      /\ \A u \in Task \ {t} :
           kzalloc'[u] = IF u \in Allocating THEN [kzalloc[u] EXCEPT !.alone = FALSE] ELSE NoCall
  BY DEF KzallocEnter
<1>3. c \in KzallocCall
  BY <1>0, HeapTypes DEF KzallocCall
<1>4. ASSUME NEW u \in Task \ {t}, u \in Allocating
      PROVE  /\ kzalloc'[u] \in KzallocCall /\ kzalloc'[u].alone = FALSE
             /\ kzalloc'[u].at = kzalloc[u].at /\ kzalloc'[u].result = kzalloc[u].result
             /\ kzalloc'[u].next = kzalloc[u].next
  <2>1. kzalloc[u] \in KzallocCall
    BY <1>0, <1>4, CallType
  <2>2. kzalloc'[u] = [kzalloc[u] EXCEPT !.alone = FALSE]
    BY <1>2, <1>4
  <2> QED  BY <2>1, <2>2 DEF KzallocCall
<1>5. HeapTypeOK'
  <2>1. \A u \in Task : kzalloc'[u] \in {NoCall} \cup KzallocCall
    BY <1>2, <1>3, <1>4
  <2>2. kzalloc' \in [Task -> {NoCall} \cup KzallocCall]
    BY <2>1 DEF KzallocEnter
  <2> QED  BY <1>0, <1>1, <2>2 DEF HeapTypeOK
<1>6. ASSUME NEW u \in Allocating' PROVE u \in Task /\ (u = t \/ (u # t /\ u \in Allocating))
  BY <1>2, <1>6 DEF Allocating
<1>7. ASSUME NEW u \in Allocating' PROVE CallInv(u)'
  <2>1. CASE u = t
    <3>1. /\ kzalloc'[u].at = "load" /\ kzalloc'[u].result = heap_next
          /\ kzalloc'[u].alone = (Allocating = {})
      BY <1>2, <2>1
    <3>2. kzalloc'[u].alone => Allocating' = {u}
      BY <1>6, <1>7, <3>1, <2>1
    <3> QED  BY <1>1, <3>1, <3>2 DEF HeapInv, CallInv, InKzalloc
  <2>2. CASE u # t
    <3>1. u \in Task \ {t} /\ u \in Allocating /\ CallInv(u)
      BY <1>6, <2>2 DEF HeapInv
    <3> QED  BY <1>1, <1>4, <3>1 DEF CallInv, InKzalloc
  <2> QED  BY <2>1, <2>2
<1>8. ASSUME NEW k \in DOMAIN blocks, blocks[k].alone PROVE AloneInv(k)'
  <2>1. AloneInv(k)
    BY <1>8 DEF HeapInv
  <2>2. ASSUME NEW u \in Allocating'
        PROVE  /\ BlockEnd(k) <= kzalloc'[u].result
               /\ InKzalloc(u, "store")' => BlockEnd(k) <= kzalloc'[u].next
    <3>1. CASE u = t
      <4>1. kzalloc'[u].at = "load" /\ kzalloc'[u].result = heap_next
        BY <1>2, <3>1
      <4> QED  BY <2>1, <4>1 DEF AloneInv, InKzalloc
    <3>2. CASE u # t
      <4>1. u \in Task \ {t} /\ u \in Allocating
        BY <1>6, <3>2
      <4> QED  BY <1>4, <2>1, <4>1 DEF AloneInv, InKzalloc
    <3> QED  BY <3>1, <3>2
  <2> QED  BY <1>1, <2>1, <2>2 DEF AloneInv, BlockEnd
<1> QED  BY <1>1, <1>5, <1>7, <1>8 DEF HeapInv, BlockEnd, NoGaps, AllAlone

(* The second read of heap_next. *)
LEMMA HeapLoadInv ==
  ASSUME HeapInv, NEW t \in Task, KzallocLoad(t)
  PROVE  HeapInv'
<1>0. HeapTypeOK /\ t \in Allocating /\ kzalloc[t] \in KzallocCall
  BY CallType DEF HeapInv, KzallocLoad, InKzalloc
<1>1. heap_next' = heap_next /\ blocks' = blocks /\ requested' = requested
  BY DEF KzallocLoad
<1>2. /\ kzalloc' = [kzalloc EXCEPT ![t] = [kzalloc[t] EXCEPT !.next = heap_next, !.at = "store"]]
  BY <1>0 DEF KzallocLoad, HeapTypeOK, KzallocCall
<1>3. /\ kzalloc'[t] \in KzallocCall /\ kzalloc'[t].at = "store"
      /\ kzalloc'[t].next = heap_next
      /\ kzalloc'[t].result = kzalloc[t].result /\ kzalloc'[t].alone = kzalloc[t].alone
  <2>1. kzalloc'[t] = [kzalloc[t] EXCEPT !.next = heap_next, !.at = "store"]
    BY <1>0, <1>2 DEF HeapTypeOK
  <2> QED  BY <1>0, <2>1, HeapTypes DEF KzallocCall
<1>4. \A u \in Task \ {t} : kzalloc'[u] = kzalloc[u]
  BY <1>0, <1>2 DEF HeapTypeOK
<1>5. HeapTypeOK'
  BY <1>0, <1>1, <1>2, <1>3 DEF HeapTypeOK
<1>6. Allocating' = Allocating
  <2>1. kzalloc'[t] # NoCall
    BY <1>3 DEF NoCall
  <2> QED  BY <1>0, <1>4, <2>1 DEF Allocating
<1>7. ASSUME NEW u \in Allocating PROVE CallInv(u)'
  <2>1. CallInv(u) /\ u \in Task
    BY DEF HeapInv, Allocating
  <2>2. CASE u = t
    <3>1. Aligned(heap_next) /\ heap_next <= requested
      BY <1>0, HeapTypes DEF HeapInv
    <3> QED  BY <1>1, <1>3, <1>6, <2>1, <2>2, <3>1 DEF CallInv, InKzalloc
  <2>3. CASE u # t
    BY <1>1, <1>4, <1>6, <2>1, <2>3 DEF CallInv, InKzalloc
  <2> QED  BY <2>2, <2>3
<1>8. ASSUME NEW k \in DOMAIN blocks, blocks[k].alone PROVE AloneInv(k)'
  <2>1. AloneInv(k)
    BY <1>8 DEF HeapInv
  <2>2. ASSUME NEW u \in Allocating
        PROVE  /\ BlockEnd(k) <= kzalloc'[u].result
               /\ InKzalloc(u, "store")' => BlockEnd(k) <= kzalloc'[u].next
    <3>1. u \in Task
      BY DEF Allocating
    <3> QED  BY <1>3, <1>4, <2>1, <3>1 DEF AloneInv, InKzalloc
  <2> QED  BY <1>1, <1>6, <2>1, <2>2 DEF AloneInv, BlockEnd
<1> QED  BY <1>1, <1>5, <1>6, <1>7, <1>8 DEF HeapInv, BlockEnd, NoGaps, AllAlone

(* The store, and the block that the call returns. *)
LEMMA HeapReturnInv ==
  ASSUME HeapInv, NEW t \in Task, KzallocReturn(t)
  PROVE  HeapInv'
<1> DEFINE size == kzalloc[t].size
           B == [start : Nat, size : Sizes, alone : BOOLEAN]
           b == [start |-> kzalloc[t].result, size |-> size, alone |-> kzalloc[t].alone]
           n == Len(blocks) + 1
<1>0. HeapTypeOK /\ t \in Allocating /\ InKzalloc(t, "store") /\ kzalloc[t] \in KzallocCall
  BY CallType DEF HeapInv, KzallocReturn, InKzalloc
<1>1. /\ size \in Nat /\ size \in Sizes /\ kzalloc[t].result \in Nat /\ kzalloc[t].next \in Nat
      /\ kzalloc[t].alone \in BOOLEAN
  BY <1>0, HeapAssumption, CallType
<1>2. /\ Aligned(kzalloc[t].next) /\ kzalloc[t].next <= requested
      /\ kzalloc[t].result <= requested
      /\ kzalloc[t].alone =>
           Allocating = {t} /\ kzalloc[t].result = heap_next /\ kzalloc[t].next = heap_next
  BY <1>0 DEF HeapInv, CallInv
<1>3. /\ heap_next' = kzalloc[t].next + Units(size) /\ requested' = requested + Units(size)
      /\ blocks' = Append(blocks, b)
      /\ kzalloc' = [kzalloc EXCEPT ![t] = NoCall]
  BY <1>1, RoundedIsUnits DEF KzallocReturn
<1>4. /\ Units(size) \in Nat /\ Aligned(Units(size)) /\ size <= Units(size)
      /\ requested \in Nat /\ Aligned(requested) /\ heap_next \in Nat
  BY <1>0, <1>1, RoundedIsUnits, HeapTypes DEF HeapInv
<1>5. /\ blocks \in Seq(B) /\ b \in B /\ Len(blocks) \in Nat /\ DOMAIN blocks = 1 .. Len(blocks)
  BY <1>0, <1>1, HeapTypes DEF HeapTypeOK
<1>6. /\ blocks' \in Seq(B) /\ Len(blocks') = n /\ DOMAIN blocks' = 1 .. n /\ blocks' # <<>>
      /\ blocks'[n] = b /\ \A k \in DOMAIN blocks : blocks'[k] = blocks[k]
  <2> HIDE DEF B, b
  <2>1. /\ Append(blocks, b) \in Seq(B) /\ Len(Append(blocks, b)) = n
        /\ \A k \in 1 .. Len(blocks) : Append(blocks, b)[k] = blocks[k]
        /\ Append(blocks, b)[n] = b /\ Append(blocks, b) # <<>>
    BY <1>5, AppendProperties
  <2>2. DOMAIN Append(blocks, b) = 1 .. n
    BY <2>1, LenProperties
  <2> QED  BY <1>3, <1>5, <2>1, <2>2
<1>7. /\ b.start = kzalloc[t].result /\ b.size = size /\ b.alone = kzalloc[t].alone
  OBVIOUS
<1> HIDE DEF B, b
<1>8. /\ \A k \in DOMAIN blocks : BlockEnd(k)' = BlockEnd(k) /\ BlockEnd(k) \in Nat
      /\ \A k \in DOMAIN blocks' : k = n => BlockEnd(k)' = kzalloc[t].result + size
      /\ \A k \in DOMAIN blocks' : k \in DOMAIN blocks \/ k = n
      /\ n \notin DOMAIN blocks /\ n \in Nat /\ DOMAIN blocks \subseteq Nat
  <2>1. \A k \in DOMAIN blocks : BlockEnd(k)' = BlockEnd(k) /\ BlockEnd(k) \in Nat
    BY <1>0, <1>6, HeapTypes DEF BlockEnd
  <2>2. \A k \in DOMAIN blocks' : k = n => BlockEnd(k)' = kzalloc[t].result + size
    BY <1>6, <1>7 DEF BlockEnd
  <2>3. /\ \A k \in DOMAIN blocks' : k \in DOMAIN blocks \/ k = n
        /\ n \notin DOMAIN blocks /\ n \in Nat /\ DOMAIN blocks \subseteq Nat
    BY <1>5, <1>6
  <2> QED  BY <2>1, <2>2, <2>3
<1>9. /\ Allocating' = Allocating \ {t}
      /\ \A u \in Allocating \ {t} : kzalloc'[u] = kzalloc[u]
  BY <1>0, <1>3 DEF Allocating, HeapTypeOK
<1>10. HeapTypeOK' /\ Aligned(requested)' /\ heap_next' <= requested'
  <2>1. /\ heap_next' \in Nat /\ Aligned(heap_next)' /\ requested' \in Nat
        /\ Aligned(requested)' /\ heap_next' <= requested'
    <3>1. /\ Aligned(kzalloc[t].next + Units(size)) /\ Aligned(requested + Units(size))
          /\ kzalloc[t].next + Units(size) \in Nat /\ requested + Units(size) \in Nat
          /\ kzalloc[t].next + Units(size) <= requested + Units(size)
      <4> DEFINE next == kzalloc[t].next
                 units == Units(size)
      <4>1. /\ next \in Nat /\ Aligned(next) /\ units \in Nat /\ Aligned(units)
            /\ requested \in Nat /\ Aligned(requested) /\ next <= requested
        BY <1>1, <1>2, <1>4
      <4> HIDE DEF next, units
      <4>2. Aligned(next + units) /\ Aligned(requested + units)
        BY <4>1, AlignedSum
      <4>3. /\ next + units \in Nat /\ requested + units \in Nat
            /\ next + units <= requested + units
        BY <4>1
      <4> QED  BY <4>2, <4>3 DEF next, units
    <3> QED  BY <1>3, <3>1 DEF Aligned
  <2>2. kzalloc' \in [Task -> {NoCall} \cup KzallocCall]
    BY <1>0, <1>3 DEF HeapTypeOK
  <2>3. heap_next' \in {16 * k : k \in 0 .. heap_next'}
    BY <2>1, AlignedMember DEF Aligned
  <2> QED  BY <1>6, <2>1, <2>2, <2>3 DEF HeapTypeOK, B
<1>11. ASSUME NEW u \in Allocating' PROVE CallInv(u)'
  <2>1. u \in Allocating /\ u # t /\ CallInv(u) /\ kzalloc'[u] = kzalloc[u] /\ u \in Task
    BY <1>9, <1>11 DEF HeapInv, Allocating
  <2>2. ~kzalloc[u].alone
    BY <1>0, <2>1, CallType DEF CallInv
  <2>3. /\ kzalloc[u].result \in Nat /\ kzalloc[u].next \in Nat
    BY <1>0, <2>1, CallType
  <2>4. \A i \in Nat : i <= requested => i <= requested'
    BY <1>3, <1>4
  <2> QED  BY <2>1, <2>2, <2>3, <2>4 DEF CallInv, InKzalloc
<1>12. ASSUME NEW k \in DOMAIN blocks' PROVE BlockEnd(k)' <= requested'
  <2>1. CASE k \in DOMAIN blocks
    <3>1. BlockEnd(k) <= requested /\ BlockEnd(k) \in Nat /\ BlockEnd(k)' = BlockEnd(k)
      BY <1>8, <2>1 DEF HeapInv
    <3> HIDE DEF size
    <3> QED  BY <1>3, <1>4, <3>1
  <2>2. CASE k = n
    <3> HIDE DEF size
    <3> QED  BY <1>1, <1>2, <1>3, <1>4, <1>8, <2>2
  <2> QED  BY <1>8, <2>1, <2>2
<1>13. ASSUME NEW k \in DOMAIN blocks', blocks'[k].alone PROVE AloneInv(k)'
  <2>1. CASE k \in DOMAIN blocks
    <3>1. AloneInv(k) /\ blocks[k].alone /\ BlockEnd(k)' = BlockEnd(k) /\ BlockEnd(k) \in Nat
      BY <1>6, <1>8, <1>13, <2>1 DEF HeapInv
    <3>2. BlockEnd(k) <= kzalloc[t].next
      BY <1>0, <3>1 DEF AloneInv
    <3>3. BlockEnd(k)' <= heap_next'
      <4>1. kzalloc[t].next <= heap_next' /\ heap_next' \in Nat
        BY <1>1, <1>3, <1>4
      <4> HIDE DEF size
      <4> QED  BY <1>1, <3>1, <3>2, <4>1
    <3>4. \A u \in Allocating' :
            /\ BlockEnd(k)' <= kzalloc'[u].result
            /\ InKzalloc(u, "store")' => BlockEnd(k)' <= kzalloc'[u].next
      BY <1>9, <3>1 DEF AloneInv, InKzalloc
    <3>5. ASSUME NEW j \in DOMAIN blocks', k < j PROVE BlockEnd(k)' <= blocks'[j].start
      <4>1. CASE j \in DOMAIN blocks
        BY <1>6, <3>1, <3>5, <4>1 DEF AloneInv
      <4>2. CASE j = n
        <5>1. BlockEnd(k) <= kzalloc[t].result
          BY <1>0, <3>1 DEF AloneInv
        <5>2. blocks'[j].start = kzalloc[t].result
          BY <1>6, <1>7, <4>2
        <5> QED  BY <3>1, <5>1, <5>2
      <4> QED  BY <1>8, <4>1, <4>2
    <3> QED  BY <3>3, <3>4, <3>5 DEF AloneInv
  <2>2. CASE k = n
    <3>1. /\ Allocating = {t} /\ kzalloc[t].result = heap_next /\ kzalloc[t].next = heap_next
          /\ blocks'[k].start = heap_next
      BY <1>2, <1>6, <1>7, <1>13, <2>2
    <3>2. BlockEnd(k)' <= heap_next'
      BY <1>1, <1>3, <1>4, <1>8, <2>2, <3>1
    <3>3. Allocating' = {}
      BY <1>9, <3>1
    <3>4. \A j \in DOMAIN blocks' : ~(k < j)
      BY <1>5, <1>6, <2>2
    <3> QED  BY <3>2, <3>3, <3>4 DEF AloneInv
  <2> QED  BY <1>8, <2>1, <2>2
<1>14. NoGaps'
  <2> SUFFICES ASSUME AllAlone'
               PROVE  heap_next' = requested' /\ requested' = blocks'[n].start + Units(blocks'[n].size)
    BY <1>6 DEF NoGaps
  <2>1. AllAlone /\ kzalloc[t].alone
    BY <1>5, <1>6, <1>7, <1>8 DEF AllAlone
  <2>2. heap_next = requested
    BY <2>1 DEF HeapInv, NoGaps
  <2> QED  BY <1>2, <1>3, <1>6, <1>7, <2>1, <2>2
<1> QED  BY <1>10, <1>11, <1>12, <1>13, <1>14 DEF HeapInv

(* The heap goes on, or is left alone. *)
HeapNext ==
  \/ \E t \in Task : \/ \E size \in Sizes : KzallocEnter(t, size)
                     \/ KzallocStep(t)
  \/ UNCHANGED heap

LEMMA HeapStepInv == HeapInv /\ HeapNext => HeapInv'
<1> SUFFICES ASSUME HeapInv, HeapNext PROVE HeapInv'
  OBVIOUS
<1>1. CASE UNCHANGED heap
  BY <1>1 DEF heap, HeapInv, HeapTypeOK, Allocating, CallInv, InKzalloc, AloneInv, BlockEnd,
              NoGaps, AllAlone
<1> QED
  BY <1>1, HeapEnterInv, HeapLoadInv, HeapReturnInv DEF HeapNext, KzallocStep

(* What it is for. *)
LEMMA HeapInvDisjoint == HeapInv => BlocksDisjoint
<1> SUFFICES ASSUME HeapInv, NEW j \in DOMAIN blocks, NEW k \in DOMAIN blocks,
                    j < k, blocks[j].alone
             PROVE  Block(j) \cap Block(k) = {}
  BY DEF BlocksDisjoint
<1>1. AloneInv(j)
  BY DEF HeapInv
<1>2. BlockEnd(j) <= blocks[k].start
  BY <1>1 DEF AloneInv
<1>3. /\ blocks[j].start \in Nat /\ blocks[k].start \in Nat
      /\ blocks[j].size \in Nat /\ blocks[k].size \in Nat
  BY HeapTypes DEF HeapInv
<1> QED  BY <1>2, <1>3 DEF Block, BlockEnd

LEMMA HeapInvBound == HeapInv => HeapBound
<1> SUFFICES ASSUME HeapInv PROVE HeapBound
  OBVIOUS
<1>0. /\ HeapSize \in Nat /\ requested \in Nat /\ Aligned(requested) /\ HeapTypeOK
      /\ DOMAIN blocks = 1 .. Len(blocks) /\ Len(blocks) \in Nat
      /\ \A k \in DOMAIN blocks : BlockEnd(k) \in Nat
  BY HeapTypes, HeapAssumption DEF HeapInv
<1>1. Aligned(HeapSize)
  <2>1. HeapSize = 16 * (HeapSize \div 16) /\ HeapSize \div 16 \in Nat
    BY HeapAssumption
  <2> QED  BY <2>1 DEF Aligned
<1>2. ASSUME requested <= HeapSize, NEW k \in DOMAIN blocks PROVE Inside(k)
  BY <1>0, <1>2 DEF HeapInv, Inside, BlockEnd
<1>3. ASSUME requested > HeapSize, AllAlone PROVE ~Inside(Len(blocks))
  <2> DEFINE last == blocks[Len(blocks)]
  <2>1. blocks # <<>> /\ requested = last.start + Units(last.size)
    BY <1>0, <1>3 DEF HeapInv, NoGaps
  <2>2. Len(blocks) \in DOMAIN blocks
    BY <1>0, <2>1 DEF HeapTypeOK
  <2>3. last.start \in Nat /\ last.size \in Nat
    BY <1>0, <2>2, HeapTypes
  <2> HIDE DEF last
  <2>4. Units(last.size) \in Nat /\ Units(last.size) < last.size + 16
    BY <2>3, RoundedIsUnits
  <2>5. HeapSize + 16 <= requested
    BY <1>0, <1>1, <1>3, AlignedSum
  <2>6. ~(last.start + last.size <= HeapSize)
    BY <1>0, <2>1, <2>3, <2>4, <2>5
  <2> QED  BY <2>6 DEF Inside, last
<1> QED  BY <1>2, <1>3 DEF HeapBound, AllAlone

-----------------------------------------------------------------------------
(***************************************************************************)
(* The console and the end.  Only the running task can have interrupts     *)
(* masked, because a task that has is not preempted.  A task that dies is  *)
(* masked from panic's step 2 on, and so it is alone from there to the     *)
(* end: its message is not cut, and the FIFO cannot fill behind its back.  *)
(***************************************************************************)
Printing(t) == pc[t] \in {"putc", "write"}

(* t is past splhigh in panic, or in the exception path: there is no way    *)
(* back to its own code.                                                    *)
Dying(t) == pc[t] \in {"message", "power", "hang"} \/ (Printing(t) /\ after[t] # "body")

Masks == \A t \in Task : (masked[t] => running = t) /\ (Dying(t) => masked[t])

(* panic's step is advanced by the task that dies only. *)
Steps == step # 0 => Dying(running)

(* What is left to print is the end of one message. *)
MessageRest(t) ==
  LET left == Len(out[t])
  IN /\ left \in 1 .. MessageSize
     /\ \E c \in 0 .. MaxCalls : \A i \in 1 .. left :
          out[t][i] = [task |-> t, call |-> c, at |-> MessageSize - left + i,
                       masked |-> masked[t]]
Rests == \A t \in Task : Printing(t) => MessageRest(t)

(* There is still room when a masked task writes. *)
RoomToWrite ==
  \A t \in Task : pc[t] = "write" =>
    "console" \in installed /\ (masked[t] => queued < FifoSize)

(* The byte that t prints next continues what the FIFO took last. *)
Continues(t) == accepted # <<>> /\ Precedes(Last(accepted), out[t][1])

InOrder ==
  \A t \in Task : Printing(t) /\ masked[t] /\ "console" \in installed /\ out[t][1].at > 1 =>
    Continues(t)

(* A masked message that has begun goes on. *)
GoesOn ==
  accepted # <<>> /\ Last(accepted).masked /\ Last(accepted).at < MessageSize =>
    LET t == Last(accepted).task
    IN /\ t \in Task /\ Printing(t) /\ masked[t] /\ "console" \in installed
       /\ Continues(t)

(* The last byte of a message that t has printed with interrupts masked. *)
EndsWith(t) ==
  /\ accepted # <<>>
  /\ Last(accepted).task = t /\ Last(accepted).masked /\ Last(accepted).at = MessageSize

Ended ==
  \A t \in Task : pc[t] \in {"power", "hang"} /\ "console" \in installed => EndsWith(t)

(* MaskedWhole, without the message that is being printed. *)
Whole ==
  /\ \A b \in lost : ~b.masked
  /\ \A k \in DOMAIN accepted :
       /\ accepted[k].masked /\ accepted[k].at > 1 =>
            k > 1 /\ Precedes(accepted[k - 1], accepted[k])
       /\ accepted[k].masked /\ accepted[k].at < MessageSize /\ k < Len(accepted) =>
            Precedes(accepted[k], accepted[k + 1])

ConsoleInv == Masks /\ Steps /\ Rests /\ RoomToWrite /\ InOrder /\ GoesOn /\ Ended /\ Whole

ServicesInv == TypeOK /\ HeapInv /\ ConsoleInv

-----------------------------------------------------------------------------
(* A message is a sequence of bytes. *)
LEMMA MessageType ==
  ASSUME NEW t \in Task, NEW m \in BOOLEAN, calls \in 0 .. MaxCalls
  PROVE  /\ Message(t, m) \in Seq(Byte) /\ Len(Message(t, m)) = MessageSize
         /\ Message(t, m) # <<>>
         /\ \A i \in 1 .. MessageSize :
              Message(t, m)[i] = [task |-> t, call |-> calls, at |-> i, masked |-> m]
<1>1. MessageSize \in Nat \ {0}
  BY ServicesAssumption
<1>2. \A i \in 1 .. MessageSize :
        [task |-> t, call |-> calls, at |-> i, masked |-> m] \in Byte
  BY DEF Byte
<1>3. Message(t, m) \in [1 .. MessageSize -> Byte]
  BY <1>2 DEF Message
<1>4. Message(t, m) \in Seq(Byte)
  BY <1>1, <1>3, SeqDef
<1>5. Len(Message(t, m)) = MessageSize
  BY <1>1, <1>3, <1>4, LenProperties
<1> QED  BY <1>1, <1>4, <1>5 DEF Message

(* What is left of a message, byte by byte. *)
LEMMA RestType ==
  ASSUME TypeOK, NEW t \in Task, MessageRest(t)
  PROVE  /\ out[t] \in Seq(Byte) /\ out[t] # <<>> /\ Head(out[t]) = out[t][1] /\ out[t][1] \in Byte
         /\ Len(out[t]) \in 1 .. MessageSize
         /\ Tail(out[t]) \in Seq(Byte) /\ Len(Tail(out[t])) = Len(out[t]) - 1
         /\ Tail(out[t]) = <<>> <=> Len(out[t]) = 1
         /\ out[t][1].task = t /\ out[t][1].masked = masked[t]
         /\ out[t][1].at = MessageSize - Len(out[t]) + 1
         /\ \A i \in 1 .. Len(out[t]) - 1 : Tail(out[t])[i] = out[t][i + 1]
         /\ Len(out[t]) > 1 => Precedes(out[t][1], out[t][2])
<1>1. out[t] \in Seq(Byte) /\ Len(out[t]) \in 1 .. MessageSize /\ MessageSize \in Nat
  BY ServicesAssumption DEF TypeOK, MessageRest
<1>2. out[t] # <<>> /\ Head(out[t]) = out[t][1] /\ out[t][1] \in Byte
  BY <1>1
<1>3. /\ Tail(out[t]) \in Seq(Byte) /\ Len(Tail(out[t])) = Len(out[t]) - 1
      /\ \A i \in 1 .. Len(out[t]) - 1 : Tail(out[t])[i] = out[t][i + 1]
  BY <1>1, <1>2, HeadTailProperties
<1>4. Tail(out[t]) = <<>> <=> Len(out[t]) = 1
  <2>1. Tail(out[t]) = <<>> <=> Len(Tail(out[t])) = 0
    BY <1>3, EmptySeq
  <2> QED  BY <1>1, <1>3, <2>1
<1>5. PICK c \in 0 .. MaxCalls : \A i \in 1 .. Len(out[t]) :
        out[t][i] = [task |-> t, call |-> c, at |-> MessageSize - Len(out[t]) + i,
                     masked |-> masked[t]]
  BY DEF MessageRest
<1> DEFINE left == Len(out[t])
           B(n) == [task |-> t, call |-> c, at |-> n, masked |-> masked[t]]
<1>6. \A i \in 1 .. left : out[t][i] = B(MessageSize - left + i)
  BY <1>5
<1>7. left \in 1 .. MessageSize /\ MessageSize \in Nat
  BY <1>1
<1> HIDE DEF B, left
<1>8. out[t][1] = B(MessageSize - left + 1)
  <2>1. 1 \in 1 .. left
    BY <1>7
  <2> QED  BY <1>6, <2>1
<1>9. left > 1 => out[t][2] = B(MessageSize - left + 2)
  <2>1. left > 1 => 2 \in 1 .. left
    BY <1>7
  <2> QED  BY <1>6, <2>1
<1>10. \A n \in Int : Precedes(B(n), B(n + 1))
  BY DEF Precedes, B
<1>11. left > 1 => Precedes(out[t][1], out[t][2])
  <2>1. MessageSize - left + 1 \in Int /\ (MessageSize - left + 1) + 1 = MessageSize - left + 2
    BY <1>7
  <2> QED  BY <1>8, <1>9, <1>10, <2>1
<1>12. /\ out[t][1].task = t /\ out[t][1].masked = masked[t]
       /\ out[t][1].at = MessageSize - left + 1
  BY <1>8 DEF B
<1> QED  BY <1>1, <1>2, <1>3, <1>4, <1>11, <1>12 DEF left

-----------------------------------------------------------------------------
(* The steps keep the types, and are steps of the heap. *)
LEMMA StepHeap == Next => HeapNext
<1> SUFFICES ASSUME Next PROVE HeapNext
  OBVIOUS
<1>1. ASSUME NEW t \in Task, NEW size \in Sizes, Kzalloc(t, size) PROVE HeapNext
  BY <1>1 DEF HeapNext, Kzalloc
<1>2. ASSUME NEW t \in Task, InKzallocStep(t) PROVE HeapNext
  BY <1>2 DEF HeapNext, InKzallocStep
<1>3. ASSUME NEW t \in Task,
             \/ PutcDummy(t) \/ Poll(t) \/ Write(t)
             \/ PanicMask(t) \/ PanicMessage(t) \/ PanicPower(t)
      PROVE  UNCHANGED heap
  BY <1>3 DEF PutcDummy, Poll, Write, NextByte, PanicMask, PanicMessage, PanicPower
<1>4. ASSUME NEW t \in Task,
             \/ StartTask(t) \/ \E m \in BOOLEAN : SetMask(t, m)
             \/ Printk(t) \/ Panic(t) \/ PanicInTrap(t) \/ Exception(t)
      PROVE  UNCHANGED heap
  BY <1>4 DEF StartTask, SetMask, Printk, Panic, PanicInTrap, Exception
<1>5. ASSUME LoadDevices \/ Preempt \/ Transmit \/ PowerOff PROVE UNCHANGED heap
  BY <1>5 DEF LoadDevices, Install, Preempt, Transmit, PowerOff
<1> QED  BY <1>1, <1>2, <1>3, <1>4, <1>5 DEF Next, Continue, HeapNext

LEMMA StepType == ASSUME TypeOK, Rests, Next, HeapTypeOK' PROVE TypeOK'
<1>1. MessageSize \in Nat \ {0} /\ FifoSize \in Nat \ {0} /\ MaxCalls \in Nat \ {0}
  BY ServicesAssumption
<1>2. ASSUME NEW t \in Task, NEW m \in BOOLEAN, NEW then \in {"body", "power", "hang"},
             Prints(t, m, then)
      PROVE  /\ out' \in [Task -> Seq(Byte)] /\ after' \in [Task -> {"body", "power", "hang"}]
             /\ pc' \in [Task -> {"body", "kzalloc", "putc", "write", "splhigh", "message",
                                 "power", "hang"}]
  <2>1. Message(t, m) \in Seq(Byte)
    BY <1>2, MessageType DEF TypeOK
  <2> QED  BY <1>2, <2>1 DEF Prints, TypeOK
<1>3. ASSUME NEW weight \in {2, 3}, Spends(weight) PROVE calls' \in 0 .. MaxCalls
  BY <1>1, <1>3 DEF Spends, TypeOK
<1>4. ASSUME NEW t \in Task, Printk(t) \/ Exception(t) \/ PanicMessage(t) \/ PanicPower(t)
      PROVE  TypeOK'
  <2>1. /\ out' \in [Task -> Seq(Byte)] /\ after' \in [Task -> {"body", "power", "hang"}]
        /\ pc' \in [Task -> {"body", "kzalloc", "putc", "write", "splhigh", "message", "power",
                            "hang"}]
    <3>1. masked[t] \in BOOLEAN
      BY DEF TypeOK
    <3>2. CASE PanicPower(t)
      BY <1>2, <3>2 DEF PanicPower, TypeOK
    <3> QED  BY <1>2, <1>4, <3>1, <3>2 DEF Printk, Exception, PanicMessage
  <2>2. calls' \in 0 .. MaxCalls
    BY <1>3, <1>4 DEF Printk, Exception, PanicMessage, PanicPower, Calls, TypeOK
  <2>3. masked' \in [Task -> BOOLEAN] /\ step' \in 0 .. 4 /\ power' \in {"on", "reset", "off"}
    <3>1. /\ masked' = masked \/ masked' = [masked EXCEPT ![t] = TRUE]
          /\ step' = step \/ step' = 3 \/ step' = 4
          /\ power' = power \/ power' = "reset"
      BY <1>4 DEF Printk, Exception, PanicMessage, PanicPower
    <3>2. masked' \in [Task -> BOOLEAN]
      BY <3>1 DEF TypeOK
    <3>3. step' \in 0 .. 4
      BY <3>1 DEF TypeOK
    <3>4. power' \in {"on", "reset", "off"}
      BY <3>1 DEF TypeOK
    <3> QED  BY <3>2, <3>3, <3>4
  <2>4. UNCHANGED <<scheduling, console, installed>>
    BY <1>4 DEF Printk, Exception, PanicMessage, PanicPower
  <2> QED  BY <2>1, <2>2, <2>3, <2>4 DEF TypeOK, scheduling, console
<1>5. ASSUME NEW t \in Task, PutcDummy(t) \/ Write(t) PROVE TypeOK'
  <2>1. Tail(out[t]) \in Seq(Byte) /\ Head(out[t]) \in Byte
    BY <1>5, RestType DEF PutcDummy, Write, At, Rests, Printing
  <2>2. NextByte(t)
    BY <1>5 DEF PutcDummy, Write
  <2>3. /\ out' \in [Task -> Seq(Byte)]
        /\ pc' \in [Task -> {"body", "kzalloc", "putc", "write", "splhigh", "message", "power",
                            "hang"}]
    BY <2>1, <2>2 DEF NextByte, TypeOK
  <2>4. accepted' \in Seq(Byte) /\ lost' \subseteq Byte
    <3>1. /\ accepted' = accepted \/ accepted' = Append(accepted, Head(out[t]))
          /\ lost' = lost \/ lost' = lost \cup {Head(out[t])}
      BY <1>5 DEF PutcDummy, Write, console
    <3>2. accepted \in Seq(Byte) /\ lost \subseteq Byte
      BY DEF TypeOK
    <3>3. Append(accepted, Head(out[t])) \in Seq(Byte)
      BY ONLY <2>1, <3>2, AppendProperties
    <3> QED  BY ONLY <2>1, <3>1, <3>2, <3>3
  <2>5. queued' \in 0 .. FifoSize
    <3>1. queued' = queued \/ (queued < FifoSize /\ queued' = queued + 1)
      BY <1>5 DEF PutcDummy, Write, console
    <3> QED  BY <1>1, <3>1 DEF TypeOK
  <2>6. UNCHANGED <<scheduling, masked, after, calls, installed, step, power>>
    BY <2>2 DEF NextByte
  <2> QED  BY <2>3, <2>4, <2>5, <2>6 DEF TypeOK, scheduling
<1>6. ASSUME NEW t \in Task,
             \/ \E size \in Sizes : Kzalloc(t, size)
             \/ InKzallocStep(t) \/ Poll(t) \/ PanicMask(t) \/ Panic(t) \/ PanicInTrap(t)
             \/ \E m \in BOOLEAN : SetMask(t, m)
      PROVE  TypeOK'
  <2>1. calls' \in 0 .. MaxCalls
    BY <1>3, <1>6 DEF Kzalloc, InKzallocStep, Poll, PanicMask, Panic, PanicInTrap, SetMask,
      Calls, TypeOK
  <2>2. masked' \in [Task -> BOOLEAN] /\ step' \in 0 .. 4
    <3>1. /\ masked' = masked \/ \E m \in BOOLEAN : masked' = [masked EXCEPT ![t] = m]
          /\ step' = step \/ step' = 2
      BY <1>6 DEF Kzalloc, InKzallocStep, Poll, PanicMask, Panic, PanicInTrap, SetMask
    <3>2. masked' \in [Task -> BOOLEAN]
      BY <3>1 DEF TypeOK
    <3>3. step' \in 0 .. 4
      BY <3>1 DEF TypeOK
    <3> QED  BY <3>2, <3>3
  <2>3. pc' \in [Task -> {"body", "kzalloc", "putc", "write", "splhigh", "message", "power", "hang"}]
    <3>1. PanicPoint[step] \in {"splhigh", "message", "power", "hang"}
      BY DEF PanicPoint, TypeOK
    <3> QED
      BY <1>6, <3>1 DEF Kzalloc, InKzallocStep, Poll, PanicMask, Panic, PanicInTrap, SetMask, TypeOK
  <2>4. UNCHANGED <<scheduling, console, out, after, installed, power>>
    BY <1>6 DEF Kzalloc, InKzallocStep, Poll, PanicMask, Panic, PanicInTrap, SetMask
  <2> QED  BY <2>1, <2>2, <2>3, <2>4 DEF TypeOK, scheduling, console
<1>7. ASSUME NEW t \in Task, StartTask(t) PROVE TypeOK'
  <2>1. running' \in Task /\ ready' \in Seq(Task)
    BY <1>7 DEF StartTask, Scheduler!Start, TypeOK
  <2> QED  BY <1>7, <2>1 DEF StartTask, TypeOK, console, task
<1>8. CASE Preempt
  <2>1. ready \in Seq(Task) /\ running \in Task
    BY DEF TypeOK
  <2>2. running' \in Task /\ ready' \in Seq(Task)
    <3> DEFINE queue == Append(ready, running)
    <3>1. queue \in Seq(Task) /\ queue # <<>>
      BY <2>1, AppendProperties
    <3>2. running' = Head(queue) /\ ready' = Tail(queue)
      BY <1>8 DEF Preempt, Scheduler!Rotate
    <3> HIDE DEF queue
    <3> QED  BY <3>1, <3>2, HeadTailProperties
  <2> QED  BY <1>8, <2>2 DEF Preempt, TypeOK, console, task
<1>9. CASE LoadDevices
  BY <1>9 DEF LoadDevices, Install, TypeOK, scheduling, console, task
<1>10. CASE Transmit
  <2>1. queued' \in 0 .. FifoSize
    BY <1>1, <1>10 DEF Transmit, TypeOK
  <2> QED  BY <1>10, <2>1 DEF Transmit, TypeOK, scheduling, task
<1>11. CASE PowerOff
  BY <1>11 DEF PowerOff, TypeOK, scheduling, console, task
<1> QED
  BY <1>4, <1>5, <1>6, <1>7, <1>8, <1>9, <1>10, <1>11 DEF Next, Continue

-----------------------------------------------------------------------------
(***************************************************************************)
(* The console's part of the invariant, by the kinds of steps.             *)
(***************************************************************************)
(* Nobody is in the middle of a masked message when the running task is not.*)
LEMMA NoneGoesOn ==
  ASSUME ConsoleInv, ~(Printing(running) /\ masked[running])
  PROVE  ~(accepted # <<>> /\ Last(accepted).masked /\ Last(accepted).at < MessageSize)
<1> SUFFICES ASSUME accepted # <<>>, Last(accepted).masked, Last(accepted).at < MessageSize
             PROVE  FALSE
  OBVIOUS
<1> QED  BY DEF ConsoleInv, GoesOn, Masks

(* t goes to a point where it does not print. *)
LEMMA MovesInv ==
  ASSUME TypeOK, ConsoleInv, NEW t \in Task, running = t, ~(Printing(t) /\ masked[t]),
         NEW p \in {"body", "kzalloc", "splhigh", "message", "power", "hang"}, NEW m \in BOOLEAN,
         p \in {"message", "power", "hang"} => m,
         p \in {"power", "hang"} => pc[t] = "power",
         pc' = [pc EXCEPT ![t] = p], masked' = [masked EXCEPT ![t] = m],
         step' # 0 => p \in {"message", "power", "hang"},
         UNCHANGED <<running, out, after, installed, queued, accepted, lost>>
  PROVE  ConsoleInv'
<1>1. /\ pc'[t] = p /\ masked'[t] = m
      /\ \A u \in Task \ {t} : pc'[u] = pc[u] /\ masked'[u] = masked[u] /\ ~masked[u]
  BY DEF TypeOK, ConsoleInv, Masks
<1>2. ~Printing(t)' /\ (Dying(t)' <=> p \in {"message", "power", "hang"})
  BY <1>1 DEF Printing, Dying
<1>3. \A u \in Task \ {t} : (Printing(u)' <=> Printing(u)) /\ (Dying(u)' <=> Dying(u))
  BY <1>1 DEF Printing, Dying
<1>4. Masks' /\ Steps'
  BY <1>1, <1>2, <1>3 DEF ConsoleInv, Masks, Steps
<1>5. Rests' /\ RoomToWrite' /\ InOrder'
  BY <1>1, <1>2, <1>3 DEF ConsoleInv, Rests, MessageRest, RoomToWrite, InOrder
<1>6. GoesOn' /\ Whole'
  BY NoneGoesOn DEF ConsoleInv, GoesOn, Whole
<1>7. Ended'
  BY <1>1 DEF ConsoleInv, Ended, EndsWith
<1> QED  BY <1>4, <1>5, <1>6, <1>7 DEF ConsoleInv

(* t begins a message. *)
LEMMA BeginsInv ==
  ASSUME TypeOK, ConsoleInv, NEW t \in Task, running = t, ~(Printing(t) /\ masked[t]),
         NEW m \in BOOLEAN, NEW then \in {"body", "power", "hang"},
         Prints(t, m, then), masked' = [masked EXCEPT ![t] = m],
         then # "body" => m, step' # 0 => then # "body",
         UNCHANGED <<running, installed, queued, accepted, lost>>
  PROVE  ConsoleInv'
<1>1. /\ pc'[t] = "putc" /\ masked'[t] = m /\ after'[t] = then /\ out'[t] = Message(t, m)
      /\ \A u \in Task \ {t} : /\ pc'[u] = pc[u] /\ masked'[u] = masked[u] /\ ~masked[u]
                               /\ after'[u] = after[u] /\ out'[u] = out[u]
  BY DEF TypeOK, ConsoleInv, Masks, Prints
<1>2. Printing(t)' /\ (Dying(t)' <=> then # "body")
  BY <1>1 DEF Printing, Dying
<1>3. \A u \in Task \ {t} : (Printing(u)' <=> Printing(u)) /\ (Dying(u)' <=> Dying(u))
  BY <1>1 DEF Printing, Dying
<1>4. MessageSize \in Nat \ {0} /\ calls \in 0 .. MaxCalls
  BY ServicesAssumption DEF TypeOK
<1>5. /\ Len(out'[t]) = MessageSize
      /\ \A i \in 1 .. MessageSize :
           out'[t][i] = [task |-> t, call |-> calls, at |-> i, masked |-> m]
  BY <1>1, <1>4, MessageType
<1>6. Masks' /\ Steps'
  BY <1>1, <1>2, <1>3 DEF ConsoleInv, Masks, Steps
<1>7. Rests'
  <2>1. MessageRest(t)'
    <3>1. \A i \in 1 .. MessageSize : MessageSize - MessageSize + i = i
      BY <1>4
    <3> QED  BY <1>1, <1>4, <1>5, <3>1 DEF MessageRest
  <2>2. ASSUME NEW u \in Task \ {t}, Printing(u)' PROVE MessageRest(u)'
    <3>1. MessageRest(u)
      BY <1>3, <2>2 DEF ConsoleInv, Rests
    <3>2. out'[u] = out[u] /\ masked'[u] = masked[u]
      BY <1>1
    <3> QED  BY <3>1, <3>2 DEF MessageRest
  <2> QED  BY <2>1, <2>2 DEF Rests
<1>8. RoomToWrite'
  BY <1>1 DEF ConsoleInv, RoomToWrite
<1>9. InOrder'
  <2>1. 1 \in 1 .. MessageSize
    BY <1>4
  <2>2. out'[t][1] = [task |-> t, call |-> calls, at |-> 1, masked |-> m]
    BY <1>5, <2>1
  <2> QED  BY <1>1, <1>3, <2>2 DEF InOrder
<1>10. GoesOn' /\ Whole'
  BY NoneGoesOn DEF ConsoleInv, GoesOn, Whole
<1>11. Ended'
  BY <1>1 DEF ConsoleInv, Ended, EndsWith
<1> QED  BY <1>6, <1>7, <1>8, <1>9, <1>10, <1>11 DEF ConsoleInv

(* con_putc has returned: what is left is the end of the same message. *)
LEMMA NextByteInv ==
  ASSUME TypeOK, ConsoleInv, NEW t \in Task, running = t, Printing(t), NextByte(t)
  PROVE  /\ Masks' /\ Steps' /\ Rests' /\ RoomToWrite'
         /\ out'[t] = Tail(out[t])
         /\ Printing(t)' <=> Len(out[t]) > 1
         /\ pc'[t] \in {"power", "hang"} => Len(out[t]) = 1 /\ masked[t]
         /\ \A u \in Task \ {t} : pc'[u] = pc[u] /\ ~masked[u]
<1>1. MessageRest(t)
  BY DEF ConsoleInv, Rests
<1>2. /\ Tail(out[t]) = <<>> <=> Len(out[t]) = 1
      /\ Len(out[t]) \in 1 .. MessageSize /\ Len(Tail(out[t])) = Len(out[t]) - 1
      /\ \A i \in 1 .. Len(out[t]) - 1 : Tail(out[t])[i] = out[t][i + 1]
      /\ MessageSize \in Nat
  BY <1>1, RestType, ServicesAssumption
<1>3. /\ pc'[t] = IF Len(out[t]) = 1 THEN after[t] ELSE "putc"
      /\ out'[t] = Tail(out[t]) /\ UNCHANGED <<running, masked, after, installed, step>>
      /\ \A u \in Task \ {t} : pc'[u] = pc[u] /\ out'[u] = out[u] /\ ~masked[u]
  BY <1>2 DEF NextByte, TypeOK, scheduling, ConsoleInv, Masks
<1>4. after[t] \in {"body", "power", "hang"}
  BY DEF TypeOK
<1>5. Printing(t)' <=> Len(out[t]) > 1
  <2> DEFINE left == Len(out[t])
  <2>1. left \in 1 .. MessageSize /\ MessageSize \in Nat
    BY <1>2
  <2> HIDE DEF left
  <2>2. left > 1 <=> left # 1
    BY <2>1
  <2> QED  BY <1>3, <1>4, <2>2 DEF Printing, left
<1>6. Dying(t)' <=> Dying(t)
  BY <1>3, <1>4 DEF Dying, Printing
<1>7. \A u \in Task \ {t} : (Printing(u)' <=> Printing(u)) /\ (Dying(u)' <=> Dying(u))
  BY <1>3 DEF Dying, Printing
<1>8. Masks' /\ Steps'
  BY <1>3, <1>6, <1>7 DEF ConsoleInv, Masks, Steps
<1>9. Rests'
  <2>1. ASSUME Len(out[t]) > 1 PROVE MessageRest(t)'
    <3> DEFINE left == Len(out[t])
               B(c, n) == [task |-> t, call |-> c, at |-> n, masked |-> masked[t]]
    <3>1. PICK c \in 0 .. MaxCalls : \A i \in 1 .. left : out[t][i] = B(c, MessageSize - left + i)
      BY <1>1 DEF MessageRest
    <3>2. left \in 1 .. MessageSize /\ left > 1
      BY <1>2, <2>1
    <3> HIDE DEF B
    <3>3. ASSUME NEW i \in 1 .. left - 1
          PROVE  out'[t][i] = B(c, MessageSize - (left - 1) + i)
      <4>1. out'[t][i] = out[t][i + 1]
        BY <1>2, <1>3
      <4> HIDE DEF left
      <4>2. i + 1 \in 1 .. left /\ MessageSize - (left - 1) + i = MessageSize - left + (i + 1)
        BY <1>2, <3>2
      <4> QED  BY <3>1, <4>1, <4>2
    <3>4. Len(out'[t]) = left - 1 /\ left - 1 \in 1 .. MessageSize
      BY <1>2, <1>3, <2>1
    <3> QED  BY <1>3, <3>3, <3>4 DEF MessageRest, B
  <2>2. ASSUME NEW u \in Task \ {t}, MessageRest(u) PROVE MessageRest(u)'
    <3>1. UNCHANGED <<out[u], masked[u]>>
      BY <1>3
    <3> QED  BY <2>2, <3>1 DEF MessageRest
  <2> QED  BY <1>5, <1>7, <2>1, <2>2 DEF ConsoleInv, Rests
<1>10. RoomToWrite'
  BY <1>3, <1>4 DEF ConsoleInv, RoomToWrite
<1>11. pc'[t] \in {"power", "hang"} => Len(out[t]) = 1 /\ masked[t]
  <2>1. pc'[t] \in {"power", "hang"} => Dying(t)
    BY <1>6 DEF Dying
  <2> QED  BY <1>3, <2>1 DEF ConsoleInv, Masks
<1> QED  BY <1>3, <1>5, <1>8, <1>9, <1>10, <1>11

(* Before the console is installed, nothing is sent. *)
LEMMA PutcDummyInv ==
  ASSUME TypeOK, ConsoleInv, NEW t \in Task, PutcDummy(t)
  PROVE  ConsoleInv'
<1>1. /\ running = t /\ Printing(t) /\ NextByte(t) /\ "console" \notin installed
      /\ UNCHANGED <<installed, queued, accepted, lost>>
  BY DEF PutcDummy, At, Printing, NextByte, console
<1>2. Masks' /\ Steps' /\ Rests' /\ RoomToWrite'
  BY <1>1, NextByteInv
<1>3. InOrder' /\ Ended'
  BY <1>1 DEF InOrder, Ended
<1>4. GoesOn' /\ Whole'
  BY <1>1 DEF ConsoleInv, GoesOn, Whole
<1> QED  BY <1>2, <1>3, <1>4 DEF ConsoleInv

(* The transmitter is ready. *)
LEMMA PollInv ==
  ASSUME TypeOK, ConsoleInv, NEW t \in Task, Poll(t)
  PROVE  ConsoleInv'
<1>1. /\ running = t /\ pc[t] = "putc" /\ "console" \in installed /\ queued < FifoSize
      /\ UNCHANGED <<running, masked, out, after, installed, step, queued, accepted, lost>>
  BY DEF Poll, At, scheduling, console
<1>2. /\ pc'[t] = "write" /\ \A u \in Task \ {t} : pc'[u] = pc[u]
  BY DEF Poll, TypeOK
<1>3. \A u \in Task : (Printing(u)' <=> Printing(u)) /\ (Dying(u)' <=> Dying(u))
  BY <1>1, <1>2 DEF Printing, Dying
<1>4. Masks' /\ Steps'
  BY <1>1, <1>3 DEF ConsoleInv, Masks, Steps, TypeOK
<1>5. Rests' /\ RoomToWrite' /\ InOrder' /\ Ended'
  BY <1>1, <1>2, <1>3 DEF ConsoleInv, Rests, MessageRest, RoomToWrite, InOrder, Continues,
    Ended, EndsWith
<1>6. GoesOn' /\ Whole'
  BY <1>1, <1>3 DEF ConsoleInv, GoesOn, Continues, Whole
<1> QED  BY <1>4, <1>5, <1>6 DEF ConsoleInv

(* The byte is sent: with interrupts masked there is room for it, and it    *)
(* follows the byte before it in the message.                               *)
LEMMA WriteInv ==
  ASSUME TypeOK, ConsoleInv, NEW t \in Task, Write(t)
  PROVE  ConsoleInv'
<1> DEFINE b == out[t][1]
<1>1. /\ running = t /\ pc[t] = "write" /\ Printing(t) /\ NextByte(t) /\ "console" \in installed
      /\ UNCHANGED <<masked, installed, running>>
  BY DEF Write, At, Printing, NextByte, ConsoleInv, RoomToWrite, scheduling
<1>2. MessageRest(t)
  BY <1>1 DEF ConsoleInv, Rests
<1>3. /\ Head(out[t]) = b /\ b.task = t /\ b.masked = masked[t]
      /\ b.at = MessageSize - Len(out[t]) + 1 /\ Len(out[t]) \in 1 .. MessageSize
      /\ Len(out[t]) > 1 => Precedes(b, Tail(out[t])[1])
      /\ MessageSize \in Nat
  <2>1. Len(out[t]) > 1 => 1 \in 1 .. Len(out[t]) - 1
    BY <1>2, RestType
  <2> QED  BY <1>2, <2>1, RestType, ServicesAssumption
<1>4. /\ Masks' /\ Steps' /\ Rests' /\ RoomToWrite'
      /\ out'[t] = Tail(out[t]) /\ (Printing(t)' <=> Len(out[t]) > 1)
      /\ pc'[t] \in {"power", "hang"} => Len(out[t]) = 1 /\ masked[t]
      /\ \A u \in Task \ {t} : pc'[u] = pc[u] /\ ~masked[u]
  BY <1>1, NextByteInv
<1>5. \A u \in Task \ {t} : pc'[u] \notin {"power", "hang"}
  BY <1>4 DEF ConsoleInv, Masks, Dying
<1> HIDE DEF b
<1>6. /\ Len(out[t]) > 1 <=> b.at < MessageSize
      /\ Len(out[t]) = 1 <=> b.at = MessageSize
  <2> DEFINE left == Len(out[t])
             at == b.at
  <2>1. left \in 1 .. MessageSize /\ MessageSize \in Nat /\ at = MessageSize - left + 1
    BY <1>3
  <2> HIDE DEF left, at
  <2>2. (left > 1 <=> at < MessageSize) /\ (left = 1 <=> at = MessageSize)
    BY <2>1
  <2> QED  BY <2>2 DEF left, at
<1>7. CASE queued < FifoSize
  <2>1. accepted' = Append(accepted, b) /\ lost' = lost
    BY <1>3, <1>7 DEF Write
  <2>2. accepted \in Seq(Byte) /\ Len(accepted) \in Nat
    BY DEF TypeOK
  <2>3. /\ Len(accepted') = Len(accepted) + 1 /\ accepted' # <<>>
        /\ accepted'[Len(accepted) + 1] = b
        /\ \A k \in 1 .. Len(accepted) : accepted'[k] = accepted[k]
        /\ DOMAIN accepted = 1 .. Len(accepted) /\ DOMAIN accepted' = 1 .. Len(accepted) + 1
    BY <2>1, <2>2
  <2>4. Last(accepted') = b
    BY <2>3 DEF Last
  <2>5. masked[t] /\ Len(out[t]) > 1 => Continues(t)'
    BY <1>3, <1>4, <2>3, <2>4 DEF Continues
  <2>6. InOrder'
    BY <1>1, <1>4, <2>5 DEF InOrder
  <2>7. GoesOn'
    BY <1>1, <1>3, <1>4, <1>6, <2>4, <2>5 DEF GoesOn
  <2>8. Ended'
    BY <1>1, <1>3, <1>4, <1>5, <1>6, <2>3, <2>4 DEF Ended, EndsWith
  <2>9. masked[t] /\ b.at > 1 => accepted # <<>> /\ Precedes(accepted[Len(accepted)], b)
    BY <1>1 DEF ConsoleInv, InOrder, Continues, Last, b
  <2>10. accepted # <<>> /\ accepted[Len(accepted)].masked
           /\ accepted[Len(accepted)].at < MessageSize =>
         Precedes(accepted[Len(accepted)], b)
    BY <1>1 DEF ConsoleInv, GoesOn, Masks, Continues, Last, b
  <2>11. Whole'
    <3>1. \A x \in lost' : ~x.masked
      BY <2>1 DEF ConsoleInv, Whole
    <3>2. ASSUME NEW k \in DOMAIN accepted', accepted'[k].masked, accepted'[k].at > 1
          PROVE  k > 1 /\ Precedes(accepted'[k - 1], accepted'[k])
      <4>1. CASE k = Len(accepted) + 1
        <5>1. accepted # <<>> /\ Precedes(accepted[Len(accepted)], b)
          BY <1>3, <2>3, <2>9, <3>2, <4>1
        <5>2. Len(accepted) \in 1 .. Len(accepted) /\ k - 1 = Len(accepted) /\ k > 1
          BY <2>2, <4>1, <5>1, EmptySeq
        <5> QED  BY <2>3, <4>1, <5>1, <5>2
      <4>2. CASE k # Len(accepted) + 1
        <5>1. k \in DOMAIN accepted /\ k \in 1 .. Len(accepted)
          BY <2>2, <2>3, <4>2
        <5>2. k > 1 /\ Precedes(accepted[k - 1], accepted[k])
          BY <2>3, <3>2, <5>1 DEF ConsoleInv, Whole
        <5>3. k - 1 \in 1 .. Len(accepted)
          BY <2>2, <5>1, <5>2
        <5> QED  BY <2>3, <5>1, <5>2, <5>3
      <4> QED  BY <4>1, <4>2
    <3>3. ASSUME NEW k \in DOMAIN accepted', accepted'[k].masked,
                 accepted'[k].at < MessageSize, k < Len(accepted')
          PROVE  Precedes(accepted'[k], accepted'[k + 1])
      <4>0. k \in 1 .. Len(accepted) /\ k \in DOMAIN accepted /\ accepted'[k] = accepted[k]
        BY <2>2, <2>3, <3>3
      <4>1. CASE k = Len(accepted)
        <5>1. accepted # <<>>
          BY <4>0
        <5> QED  BY <2>3, <2>10, <3>3, <4>0, <4>1, <5>1
      <4>2. CASE k # Len(accepted)
        <5>1. k < Len(accepted) /\ k + 1 \in 1 .. Len(accepted)
          BY <2>2, <4>0, <4>2
        <5> QED  BY <2>3, <3>3, <4>0, <5>1 DEF ConsoleInv, Whole
      <4> QED  BY <4>1, <4>2
    <3> QED  BY <3>1, <3>2, <3>3 DEF Whole
  <2> QED  BY <1>4, <2>6, <2>7, <2>8, <2>11 DEF ConsoleInv
<1>8. CASE ~(queued < FifoSize)
  <2>1. accepted' = accepted /\ lost' = lost \cup {b} /\ ~masked[t]
    BY <1>1, <1>3, <1>8 DEF Write, ConsoleInv, RoomToWrite
  <2>2. InOrder' /\ Ended'
    BY <1>1, <1>4, <1>5, <2>1 DEF InOrder, Ended
  <2>3. GoesOn' /\ Whole'
    <3>1. ~(accepted # <<>> /\ Last(accepted).masked /\ Last(accepted).at < MessageSize)
      BY <1>1, <2>1, NoneGoesOn
    <3> QED  BY <1>3, <2>1, <3>1 DEF ConsoleInv, GoesOn, Whole
  <2> QED  BY <1>4, <2>2, <2>3 DEF ConsoleInv
<1> QED  BY <1>7, <1>8

(* Only the boot task installs devices, and only the task that runs can be  *)
(* printing with interrupts masked.                                         *)
LEMMA InstallInv ==
  ASSUME TypeOK, ConsoleInv, LoadDevices
  PROVE  ConsoleInv'
<1>1. /\ running = Main /\ pc[Main] = "body"
      /\ UNCHANGED <<running, masked, pc, out, after, step, queued, accepted, lost>>
      /\ installed \subseteq installed'
  BY DEF LoadDevices, Install, At, scheduling, console, task
<1>2. ~Printing(Main) /\ ~Dying(Main) /\ Main \in Task
  BY <1>1, ServicesAssumption DEF Dying, Printing
<1>3. \A u \in Task : ~(Printing(u) /\ masked[u]) /\ ~Dying(u)
  BY <1>1, <1>2 DEF ConsoleInv, Masks
<1>4. \A u \in Task : (Printing(u)' <=> Printing(u)) /\ (Dying(u)' <=> Dying(u))
  BY <1>1 DEF Dying, Printing
<1>5. Masks' /\ Steps' /\ Rests' /\ RoomToWrite'
  BY <1>1, <1>2, <1>4 DEF ConsoleInv, Masks, Steps, Rests, MessageRest, RoomToWrite
<1>6. InOrder' /\ Ended'
  BY <1>1, <1>3, <1>4 DEF InOrder, Ended, Dying
<1>7. GoesOn' /\ Whole'
  BY <1>1, <1>2, NoneGoesOn DEF ConsoleInv, GoesOn, Whole
<1> QED  BY <1>5, <1>6, <1>7 DEF ConsoleInv

(* A task that has interrupts masked is not preempted. *)
LEMMA PreemptInv ==
  ASSUME TypeOK, ConsoleInv, Preempt
  PROVE  ConsoleInv'
<1>1. /\ ~masked[running]
      /\ UNCHANGED <<masked, pc, out, after, installed, step, queued, accepted, lost>>
  BY DEF Preempt, Interruptible, console, task
<1>2. \A u \in Task : ~masked[u] /\ ~Dying(u)
  BY <1>1 DEF ConsoleInv, Masks
<1>3. step = 0 /\ running \in Task
  BY <1>2 DEF ConsoleInv, Steps, TypeOK
<1>4. \A u \in Task : (Printing(u)' <=> Printing(u)) /\ (Dying(u)' <=> Dying(u))
  BY <1>1 DEF Dying, Printing
<1>5. Masks' /\ Steps' /\ Rests' /\ RoomToWrite'
  BY <1>1, <1>2, <1>3, <1>4 DEF ConsoleInv, Masks, Steps, Rests, MessageRest, RoomToWrite
<1>6. InOrder' /\ Ended'
  BY <1>1, <1>2, <1>4 DEF InOrder, Ended, Dying
<1>7. GoesOn' /\ Whole'
  BY <1>1, <1>2, NoneGoesOn DEF ConsoleInv, GoesOn, Whole
<1> QED  BY <1>5, <1>6, <1>7 DEF ConsoleInv

(* Nothing of the console, but that there may be more room. *)
LEMMA RoomInv ==
  ASSUME TypeOK, ConsoleInv, queued' \in Int, queued' <= queued,
         UNCHANGED <<running, masked, pc, out, after, installed, step, accepted, lost>>
  PROVE  ConsoleInv'
<1>1. \A u \in Task : (Printing(u)' <=> Printing(u)) /\ (Dying(u)' <=> Dying(u))
  BY DEF Dying, Printing
<1>2. Masks' /\ Steps' /\ Rests'
  BY <1>1 DEF ConsoleInv, Masks, Steps, Rests, MessageRest, TypeOK
<1>3. RoomToWrite'
  <2>1. queued < FifoSize => queued' < FifoSize
    BY ServicesAssumption DEF TypeOK
  <2> QED  BY <2>1 DEF ConsoleInv, RoomToWrite
<1>4. InOrder' /\ Ended' /\ GoesOn' /\ Whole'
  BY <1>1 DEF ConsoleInv, InOrder, Ended, EndsWith, GoesOn, Continues, Whole
<1> QED  BY <1>2, <1>3, <1>4 DEF ConsoleInv

(* No step of panic is taken before a task dies. *)
LEMMA NotDying ==
  ASSUME ConsoleInv, NEW t \in Task, running = t,
         pc[t] \in {"body", "kzalloc", "splhigh"} \/ ~masked[t]
  PROVE  step = 0 /\ ~(Printing(t) /\ masked[t])
BY DEF ConsoleInv, Steps, Masks, Dying, Printing

(* The invariant is one. *)
LEMMA ServicesInit == Init => ServicesInv
<1> SUFFICES ASSUME Init PROVE ServicesInv
  OBVIOUS
<1>1. HeapInv
  BY HeapInitInv DEF Init
<1>2. TypeOK
  <2>1. HeapTypeOK
    BY <1>1 DEF HeapInv
  <2>2. out \in [Task -> Seq(Byte)] /\ accepted \in Seq(Byte) /\ ready \in Seq(Task)
    BY EmptySeq DEF Init
  <2>3. calls \in 0 .. MaxCalls /\ queued \in 0 .. FifoSize
    BY ServicesAssumption DEF Init
  <2> QED  BY <2>1, <2>2, <2>3, ServicesAssumption DEF Init, TypeOK
<1>3. \A t \in Task : ~Printing(t) /\ ~Dying(t)
  BY DEF Init, Printing, Dying
<1>4. ConsoleInv
  BY <1>3 DEF Init, ConsoleInv, Masks, Steps, Rests, RoomToWrite, InOrder, GoesOn, Ended, Whole
<1> QED  BY <1>1, <1>2, <1>4 DEF ServicesInv

LEMMA TaskInv ==
  ASSUME TypeOK, ConsoleInv, NEW t \in Task,
         \/ \E m \in BOOLEAN : SetMask(t, m)
         \/ \E size \in Sizes : Kzalloc(t, size)
         \/ Printk(t) \/ Panic(t) \/ PanicInTrap(t) \/ Exception(t)
         \/ Continue(t)
  PROVE  ConsoleInv'
<1>1. masked[t] \in BOOLEAN /\ masked = [masked EXCEPT ![t] = masked[t]]
  BY DEF TypeOK
<1>2. PanicPoint[0] = "splhigh"
  BY DEF PanicPoint
<1>3. ASSUME NEW m \in BOOLEAN, SetMask(t, m) PROVE ConsoleInv'
  <2>1. pc' = [pc EXCEPT ![t] = "body"]
    BY <1>3 DEF SetMask, At, TypeOK
  <2> QED  BY <1>3, <2>1, NotDying, MovesInv DEF SetMask, At, scheduling, console
<1>4. ASSUME NEW size \in Sizes, Kzalloc(t, size) PROVE ConsoleInv'
  BY <1>1, <1>4, NotDying, MovesInv DEF Kzalloc, Calls, At, scheduling, console
<1>5. ASSUME Printk(t) PROVE ConsoleInv'
  BY <1>1, <1>5, NotDying, BeginsInv DEF Printk, Calls, At, scheduling, console
<1>6. ASSUME Panic(t) PROVE ConsoleInv'
  BY <1>1, <1>2, <1>6, NotDying, MovesInv DEF Panic, Calls, At, scheduling, console
<1>7. ASSUME PanicInTrap(t) PROVE ConsoleInv'
  BY <1>2, <1>7, NotDying, MovesInv DEF PanicInTrap, Interruptible, scheduling, console
<1>8. ASSUME Exception(t) PROVE ConsoleInv'
  BY <1>8, NotDying, BeginsInv DEF Exception, Calls, At, scheduling, console
<1>9. ASSUME InKzallocStep(t) PROVE ConsoleInv'
  <2>1. pc' = [pc EXCEPT ![t] = "body"] \/ pc' = [pc EXCEPT ![t] = "kzalloc"]
    BY <1>9 DEF InKzallocStep, At
  <2> QED
    BY <1>1, <1>9, <2>1, NotDying, MovesInv DEF InKzallocStep, At, scheduling, console
<1>10. ASSUME PanicMask(t) PROVE ConsoleInv'
  BY <1>10, NotDying, MovesInv DEF PanicMask, At, scheduling, console
<1>11. ASSUME PanicMessage(t) \/ PanicPower(t)
       PROVE  running = t /\ ~Printing(t) /\ masked[t] = TRUE
  BY <1>1, <1>11 DEF PanicMessage, PanicPower, At, Printing, ConsoleInv, Masks, Dying
<1>12. ASSUME PanicMessage(t) PROVE ConsoleInv'
  BY <1>1, <1>11, <1>12, BeginsInv DEF PanicMessage, scheduling, console
<1>13. ASSUME PanicPower(t) PROVE ConsoleInv'
  <2>1. CASE "power" \in installed
    BY <1>1, <1>11, <1>13, <2>1, MovesInv DEF PanicPower, At, scheduling, console
  <2>2. CASE "power" \notin installed
    BY <1>1, <1>11, <1>13, <2>2, BeginsInv DEF PanicPower, scheduling, console
  <2> QED  BY <2>1, <2>2
<1> QED
  BY <1>3, <1>4, <1>5, <1>6, <1>7, <1>8, <1>9, <1>10, <1>12, <1>13, PutcDummyInv, PollInv, WriteInv
  DEF Continue

LEMMA ServicesStep == ServicesInv /\ [Next]_vars => ServicesInv'
<1> SUFFICES ASSUME ServicesInv, [Next]_vars PROVE ServicesInv'
  OBVIOUS
<1>1. TypeOK /\ HeapInv /\ ConsoleInv
  BY DEF ServicesInv
<1>2. CASE UNCHANGED vars
  <2>1. HeapInv'
    BY <1>1, <1>2, HeapStepInv DEF HeapNext, vars
  <2>2. TypeOK'
    BY <1>1, <1>2, <2>1 DEF TypeOK, HeapInv, vars, scheduling, console, task
  <2>3. ConsoleInv'
    BY <1>1, <1>2, RoomInv DEF vars, scheduling, console, task, TypeOK
  <2> QED  BY <2>1, <2>2, <2>3 DEF ServicesInv
<1>3. CASE Next
  <2>1. HeapInv'
    BY <1>1, <1>3, StepHeap, HeapStepInv
  <2>2. TypeOK'
    BY <1>1, <1>3, <2>1, StepType DEF ConsoleInv, HeapInv
  <2>3. queued \in Int /\ queued <= queued /\ queued - 1 \in Int /\ queued - 1 <= queued
    BY <1>1 DEF TypeOK
  <2>4. ASSUME NEW t \in Task, StartTask(t) PROVE ConsoleInv'
    BY <1>1, <2>3, <2>4, RoomInv DEF StartTask, Scheduler!Start, console, task
  <2>5. ASSUME Transmit PROVE ConsoleInv'
    BY <1>1, <2>3, <2>5, RoomInv DEF Transmit, scheduling, task
  <2>6. ASSUME PowerOff PROVE ConsoleInv'
    BY <1>1, <2>3, <2>6, RoomInv DEF PowerOff, scheduling, console, task
  <2>7. ASSUME LoadDevices \/ Preempt PROVE ConsoleInv'
    BY <1>1, <2>7, InstallInv, PreemptInv
  <2>8. ASSUME NEW t \in Task,
               \/ \E m \in BOOLEAN : SetMask(t, m)
               \/ \E size \in Sizes : Kzalloc(t, size)
               \/ Printk(t) \/ Panic(t) \/ PanicInTrap(t) \/ Exception(t)
               \/ Continue(t)
        PROVE  ConsoleInv'
    BY <1>1, <2>8, TaskInv
  <2>9. ConsoleInv'
    BY <1>3, <2>4, <2>5, <2>6, <2>7, <2>8 DEF Next
  <2> QED  BY <2>1, <2>2, <2>9 DEF ServicesInv
<1> QED  BY <1>2, <1>3

LEMMA Invariant == Spec => []ServicesInv
BY ServicesInit, ServicesStep, PTL DEF Spec

-----------------------------------------------------------------------------
(***************************************************************************)
(* The theorems.                                                           *)
(***************************************************************************)
(* Everything has its type; the heap goes on at a multiple of 16 (mem.c:63, *)
(* 69-70), and the FIFO never holds more than it can.                       *)
THEOREM ServicesTypeCorrect == Spec => []TypeOK
<1>1. ServicesInv => TypeOK
  BY DEF ServicesInv
<1> QED  BY <1>1, Invariant, PTL

(* The block of a call that was alone is given to nobody else, whatever     *)
(* later calls do to heap_next (mem.c:67-74).                               *)
THEOREM BlocksDisjointCorrect == Spec => []BlocksDisjoint
<1>1. ServicesInv => BlocksDisjoint
  BY HeapInvDisjoint DEF ServicesInv
<1> QED  BY <1>1, Invariant, PTL

(* The heap lasts as long as what was asked for fits in it, and is overrun  *)
(* without a word from then on (mem.c:64-73).                               *)
THEOREM HeapBoundCorrect == Spec => []HeapBound
<1>1. ServicesInv => HeapBound
  BY HeapInvBound DEF ServicesInv
<1> QED  BY <1>1, Invariant, PTL

(* A message that is printed with interrupts masked is sent whole and in    *)
(* one piece, whatever the tasks do (printk.c:6-15, rpi4os_uart.c:97-100).  *)
THEOREM MaskedWholeCorrect == Spec => []MaskedWhole
<1>1. ServicesInv => MaskedWhole
  <2> SUFFICES ASSUME ServicesInv PROVE MaskedWhole
    OBVIOUS
  <2>1. Whole /\ GoesOn /\ Rests /\ TypeOK
    BY DEF ServicesInv, ConsoleInv
  <2>2. ASSUME NEW k \in DOMAIN accepted, accepted[k].masked, accepted[k].at < MessageSize,
               ~(k < Len(accepted))
        PROVE  out[accepted[k].task] # <<>>
    <3>1. k = Len(accepted) /\ accepted # <<>>
      BY <2>1, <2>2 DEF TypeOK
    <3>2. Last(accepted) = accepted[k]
      BY <3>1 DEF Last
    <3>3. Last(accepted).task \in Task /\ Printing(Last(accepted).task)
      BY <2>1, <2>2, <3>1, <3>2 DEF GoesOn
    <3>4. MessageRest(Last(accepted).task)
      BY <2>1, <3>3 DEF Rests
    <3>5. out[Last(accepted).task] # <<>>
      BY <2>1, <3>3, <3>4, RestType
    <3> QED  BY <3>2, <3>5
  <2> QED  BY <2>1, <2>2 DEF MaskedWhole, Whole
<1> QED  BY <1>1, Invariant, PTL

(* The first task that dies is the last one that runs, alone in panic's     *)
(* steps, and the end of its message is the last thing that is printed      *)
(* (panic.c:16-54, trap.c:20-90).                                           *)
THEOREM LastWordsCorrect == Spec => []LastWords
<1>1. ServicesInv => LastWords
  <2> SUFFICES ASSUME ServicesInv, NEW t \in Task, pc[t] = "hang"
               PROVE  /\ running = t /\ masked[t]
                      /\ \A u \in Task \ {t} : pc[u] \notin {"message", "power", "hang"}
                      /\ "console" \in installed => EndsWith(t)
    BY DEF LastWords, EndsWith
  <2>1. Masks /\ Ended
    BY DEF ServicesInv, ConsoleInv
  <2>2. \A u \in Task : pc[u] \in {"message", "power", "hang"} => running = u /\ masked[u]
    BY <2>1 DEF Masks, Dying
  <2> QED  BY <2>1, <2>2 DEF Ended
<1> QED  BY <1>1, Invariant, PTL
=============================================================================
