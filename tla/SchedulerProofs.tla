--------------------------- MODULE SchedulerProofs ---------------------------
(***************************************************************************)
(* The task lists under the switch: every task is where it belongs, the    *)
(* kernel never halts, and the lists implement the round-robin queue.      *)
(* First, what the operations of TaskLists do to well formed lists:        *)
(* linking at the tail appends, linking at the head prepends, and          *)
(* unlinking the head removes it.  None disturbs the other list or a task  *)
(* on no list.                                                             *)
(***************************************************************************)
EXTENDS TasksProofs, FiniteSetTheorems, WellFoundedInduction

-----------------------------------------------------------------------------
(* Queues are the sequences of distinct tasks, of any length. *)
Distinct(q) == \A i, j \in 1 .. Len(q) : q[i] = q[j] => i = j

LEMMA QueueIsDistinctSeq ==
  ASSUME NEW q \in Queues
  PROVE  q \in Seq(Task) /\ Distinct(q)
<1>1. PICK S \in SUBSET Task : q \in SetToSeqs(S)
  BY DEF Queues, SetToAllKPermutations
<1>2. Cardinality(S) \in Nat
  BY TaskAssumption, FS_Subset, FS_CardinalityType
<1>3. /\ q \in [1 .. Cardinality(S) -> S]
      /\ \A i, j \in 1 .. Cardinality(S) : i # j => q[i] # q[j]
  BY <1>1 DEF SetToSeqs
<1>4. q \in Seq(Task) /\ Len(q) = Cardinality(S)
  BY <1>2, <1>3
<1> QED  BY <1>3, <1>4 DEF Distinct

LEMMA DistinctSeqIsQueue ==
  ASSUME NEW q \in Seq(Task), Distinct(q)
  PROVE  q \in Queues
<1> DEFINE S == ToSet(q)
<1>1. Len(q) \in Nat /\ DOMAIN q = 1 .. Len(q) /\ q \in [1 .. Len(q) -> Task]
  BY LenProperties
<1>2. q \in [1 .. Len(q) -> S] /\ S \in SUBSET Task
  BY <1>1 DEF ToSet
<1>3. q \in Bijection(1 .. Len(q), S)
  <2>1. \A i, j \in 1 .. Len(q) : q[i] = q[j] => i = j
    BY DEF Distinct
  <2>2. \A s \in S : \E i \in 1 .. Len(q) : q[i] = s
    BY <1>1 DEF ToSet
  <2> QED
    BY <1>2, <2>1, <2>2
       DEF Bijection, Injection, Surjection, IsInjective
<1>4. IsFiniteSet(1 .. Len(q)) /\ Cardinality(1 .. Len(q)) = Len(q)
  BY <1>1, FS_Interval
<1>5. Cardinality(S) = Len(q)
  <2>1. ExistsBijection(1 .. Len(q), S)
    BY <1>3 DEF ExistsBijection
  <2> QED  BY <1>4, <2>1, FS_Bijection
<1>6. \A i, j \in 1 .. Cardinality(S) : i # j => q[i] # q[j]
  BY <1>5 DEF Distinct
<1>7. q \in SetToSeqs(S)
  BY <1>2, <1>5, <1>6 DEF SetToSeqs
<1> QED  BY <1>2, <1>7 DEF Queues, SetToAllKPermutations

(* Appending, prepending and removing the head stay among the queues. *)
LEMMA QueueOps ==
  ASSUME NEW q \in Queues
  PROVE  /\ <<>> \in Queues
         /\ \A t \in Task \ ToSet(q) :
              /\ Append(q, t) \in Queues /\ <<t>> \o q \in Queues
              /\ ToSet(Append(q, t)) = ToSet(q) \cup {t}
              /\ ToSet(<<t>> \o q) = ToSet(q) \cup {t}
         /\ q # <<>> =>
              /\ Tail(q) \in Queues /\ Head(q) \in ToSet(q)
              /\ ToSet(Tail(q)) = ToSet(q) \ {Head(q)}
<1>1. q \in Seq(Task) /\ Distinct(q) /\ Len(q) \in Nat /\ DOMAIN q = 1 .. Len(q)
  BY QueueIsDistinctSeq, LenProperties
<1>2. <<>> \in Queues
  <2>1. <<>> \in Seq(Task) /\ Distinct(<<>>)
    BY DEF Distinct
  <2> QED  BY <2>1, DistinctSeqIsQueue
<1>3. ASSUME NEW t \in Task \ ToSet(q)
      PROVE  Append(q, t) \in Queues /\ ToSet(Append(q, t)) = ToSet(q) \cup {t}
  <2> DEFINE r == Append(q, t)
  <2>1. /\ r \in Seq(Task) /\ Len(r) = Len(q) + 1 /\ DOMAIN r = 1 .. Len(q) + 1
        /\ \A i \in 1 .. Len(q) + 1 : r[i] = IF i <= Len(q) THEN q[i] ELSE t
    BY <1>1
  <2> HIDE DEF r
  <2>2. \A i \in 1 .. Len(q) : q[i] # t
    BY <1>1, <1>3 DEF ToSet
  <2>3. Distinct(r)
    BY <1>1, <2>1, <2>2 DEF Distinct
  <2>4. ToSet(r) = ToSet(q) \cup {t}
    BY <1>1, <2>1 DEF ToSet
  <2> QED  BY <2>1, <2>3, <2>4, DistinctSeqIsQueue DEF r
<1>4. ASSUME NEW t \in Task \ ToSet(q)
      PROVE  <<t>> \o q \in Queues /\ ToSet(<<t>> \o q) = ToSet(q) \cup {t}
  <2> DEFINE r == <<t>> \o q
  <2>1. /\ r \in Seq(Task) /\ Len(r) = Len(q) + 1 /\ DOMAIN r = 1 .. Len(q) + 1
        /\ \A i \in 1 .. Len(q) + 1 : r[i] = IF i = 1 THEN t ELSE q[i - 1]
    BY <1>1
  <2> HIDE DEF r
  <2>2. \A i \in 1 .. Len(q) : q[i] # t
    BY <1>1, <1>4 DEF ToSet
  <2>3. Distinct(r)
    BY <1>1, <2>1, <2>2 DEF Distinct
  <2>4. ToSet(r) = ToSet(q) \cup {t}
    <3>1. ASSUME NEW i \in 1 .. Len(q) PROVE q[i] \in ToSet(r)
      <4>1. i + 1 \in 1 .. Len(q) + 1 /\ r[i + 1] = q[i]
        BY <1>1, <2>1
      <4> QED  BY <2>1, <4>1 DEF ToSet
    <3>2. t \in ToSet(r)
      BY <1>1, <2>1 DEF ToSet
    <3>3. ASSUME NEW i \in 1 .. Len(q) + 1 PROVE r[i] \in ToSet(q) \cup {t}
      BY <1>1, <2>1 DEF ToSet
    <3> QED  BY <1>1, <2>1, <3>1, <3>2, <3>3 DEF ToSet
  <2> QED  BY <2>1, <2>3, <2>4, DistinctSeqIsQueue DEF r
<1>5. ASSUME q # <<>>
      PROVE  /\ Tail(q) \in Queues /\ Head(q) \in ToSet(q)
             /\ ToSet(Tail(q)) = ToSet(q) \ {Head(q)}
  <2> DEFINE r == Tail(q)
  <2>1. /\ r \in Seq(Task) /\ Len(r) = Len(q) - 1 /\ DOMAIN r = 1 .. Len(q) - 1
        /\ \A i \in 1 .. Len(q) - 1 : r[i] = q[i + 1]
        /\ Head(q) = q[1] /\ Len(q) > 0
    BY <1>1, <1>5
  <2> HIDE DEF r
  <2>2. Distinct(r)
    BY <1>1, <2>1 DEF Distinct
  <2>3. Head(q) \in ToSet(q)
    BY <1>1, <2>1 DEF ToSet
  <2>4. ToSet(r) = ToSet(q) \ {Head(q)}
    <3>1. ASSUME NEW i \in 2 .. Len(q) PROVE q[i] \in ToSet(r)
      <4>1. i - 1 \in 1 .. Len(q) - 1 /\ r[i - 1] = q[i]
        BY <1>1, <2>1
      <4> QED  BY <2>1, <4>1 DEF ToSet
    <3>2. ASSUME NEW i \in 1 .. Len(q) - 1
          PROVE  r[i] \in ToSet(q) /\ r[i] # q[1]
      BY <1>1, <2>1 DEF ToSet, Distinct
    <3> QED  BY <1>1, <2>1, <3>1, <3>2 DEF ToSet
  <2> QED  BY <2>1, <2>2, <2>3, <2>4, DistinctSeqIsQueue DEF r
<1> QED  BY <1>2, <1>3, <1>4, <1>5

-----------------------------------------------------------------------------
(* A task on no list has nothing to be unlinked from. *)
LEMMA UnlinkNothing ==
  ASSUME NEW L \in Links, NEW t \in Task, Unlinked(L, t)
  PROVE  UnlinkFrom(L, t, "none") = L
<1>1. L.next[t] = NULL /\ L.prev[t] = NULL
  BY DEF Unlinked
<1>2. \A x \in Task : x # NULL
  BY TaskAssumption
<1>3. UnlinkFrom(L, t, "none").next = L.next /\ UnlinkFrom(L, t, "none").prev = L.prev
  BY <1>1, <1>2 DEF UnlinkFrom, Links
<1>4. UnlinkFrom(L, t, "none").head = L.head /\ UnlinkFrom(L, t, "none").tail = L.tail
  BY DEF UnlinkFrom, Links, Lists
<1> QED  BY <1>3, <1>4 DEF UnlinkFrom, Links

(* What an operation on list l and the tasks S leaves alone. *)
Frames(L, M, l, S) ==
  /\ \A k \in Lists \ {l} : \A z \in Queues :
       IsList(L, k, z) /\ ToSet(z) \cap S = {} => IsList(M, k, z)
  /\ \A u \in Task \ S : Unlinked(L, u) => Unlinked(M, u)

LEMMA FramesFromLinks ==
  ASSUME NEW L, NEW M, NEW l \in Lists, NEW S,
         \A k \in Lists \ {l} : M.head[k] = L.head[k] /\ M.tail[k] = L.tail[k],
         \A u \in Task \ S : M.next[u] = L.next[u] /\ M.prev[u] = L.prev[u]
  PROVE  Frames(L, M, l, S)
<1>1. ASSUME NEW k \in Lists \ {l}, NEW z \in Queues,
             IsList(L, k, z), ToSet(z) \cap S = {}
      PROVE  IsList(M, k, z)
  <2>1. z \in Seq(Task) /\ \A i \in 1 .. Len(z) : z[i] \in Task \ S
    <3>1. z \in Seq(Task) /\ DOMAIN z = 1 .. Len(z) /\ Len(z) \in Nat
      BY QueueIsDistinctSeq, LenProperties
    <3>2. \A i \in 1 .. Len(z) : z[i] \in Task /\ z[i] \in ToSet(z)
      BY <3>1 DEF ToSet
    <3> QED  BY <1>1, <3>1, <3>2
  <2> QED  BY <1>1, <2>1 DEF IsList
<1>2. ASSUME NEW u \in Task \ S, Unlinked(L, u) PROVE Unlinked(M, u)
  BY <1>2 DEF Unlinked
<1> QED  BY <1>1, <1>2 DEF Frames

(* task_list_move_tail appends, and its assertion holds. *)
LEMMA MoveTailAppends ==
  ASSUME NEW L \in Links, NEW l \in Lists, NEW q \in Queues, IsList(L, l, q),
         NEW t \in Task \ ToSet(q), Unlinked(L, t)
  PROVE  LET M == MoveTail(L, t, l)
         IN  /\ IsList(M, l, Append(q, t))
             /\ Frames(L, M, l, ToSet(q) \cup {t})
             /\ M.next[t] = NULL
<1> DEFINE M == MoveTail(L, t, l)
           e == L.tail[l]
           n == Len(q)
           r == Append(q, t)
<1>1. /\ q \in Seq(Task) /\ n \in Nat /\ DOMAIN q = 1 .. n
      /\ \A i, j \in 1 .. n : q[i] = q[j] => i = j
      /\ \A i \in 1 .. n : q[i] \in Task /\ q[i] # t /\ q[i] # NULL /\ q[i] \in ToSet(q)
      /\ q = <<>> <=> n = 0
  <2>1. q \in Seq(Task) /\ Distinct(q) /\ n \in Nat /\ DOMAIN q = 1 .. n
    BY QueueIsDistinctSeq, LenProperties
  <2> QED  BY <2>1, TaskAssumption DEF Distinct, ToSet
<1>2. M = LinkTail(L, t, l)
  BY UnlinkNothing DEF MoveTail
<1>3. t # NULL /\ L.next[t] = NULL /\ L.prev[t] = NULL
  BY TaskAssumption DEF Unlinked
<1>4. /\ M.prev = [L.prev EXCEPT ![t] = e]
      /\ M.next = [x \in Task |-> IF x = e THEN t ELSE L.next[x]]
      /\ M.tail = [L.tail EXCEPT ![l] = t]
      /\ M.head = [k \in Lists |-> IF k = l /\ e = NULL THEN t ELSE L.head[k]]
  BY <1>2 DEF LinkTail
<1>5. /\ L.head[l] = IF n = 0 THEN NULL ELSE q[1]
      /\ e = IF n = 0 THEN NULL ELSE q[n]
      /\ \A i \in 1 .. n : /\ L.next[q[i]] = IF i = n THEN NULL ELSE q[i + 1]
                           /\ L.prev[q[i]] = IF i = 1 THEN NULL ELSE q[i - 1]
  BY <1>1 DEF IsList
<1>6. /\ r \in Seq(Task) /\ Len(r) = n + 1 /\ r # <<>>
      /\ \A i \in 1 .. n : r[i] = q[i]
      /\ r[n + 1] = t
  BY <1>1
<1>7. /\ L.next \in [Task -> Pointer] /\ L.prev \in [Task -> Pointer]
      /\ L.head \in [Lists -> Pointer] /\ L.tail \in [Lists -> Pointer]
  BY DEF Links
<1> HIDE DEF M, r, n, e
<1>8. M.head[l] = r[1] /\ M.tail[l] = r[n + 1]
  BY <1>1, <1>4, <1>5, <1>6, <1>7
<1>9. ASSUME NEW i \in 1 .. n + 1
      PROVE  /\ M.next[r[i]] = IF i = n + 1 THEN NULL ELSE r[i + 1]
             /\ M.prev[r[i]] = IF i = 1 THEN NULL ELSE r[i - 1]
  <2>1. CASE i = n + 1
    BY <1>1, <1>3, <1>4, <1>5, <1>6, <1>7, <2>1
  <2>2. CASE i \in 1 .. n
    <3>1. r[i] = q[i] /\ i # n + 1 /\ e = q[n] /\ n \in 1 .. n
      BY <1>1, <1>5, <1>6, <2>2
    <3>2. M.next[r[i]] = IF i = n THEN t ELSE L.next[q[i]]
      BY <1>1, <1>4, <1>7, <2>2, <3>1
    <3>3. M.next[r[i]] = r[i + 1]
      BY <1>1, <1>5, <1>6, <2>2, <3>2
    <3>4. M.prev[r[i]] = L.prev[q[i]]
      BY <1>1, <1>4, <1>7, <2>2, <3>1
    <3>5. M.prev[r[i]] = IF i = 1 THEN NULL ELSE r[i - 1]
      BY <1>1, <1>5, <1>6, <2>2, <3>4
    <3> QED  BY <3>1, <3>3, <3>5
  <2> QED  BY <1>1, <2>1, <2>2
<1>10. IsList(M, l, r)
  BY <1>6, <1>8, <1>9 DEF IsList
<1>11. Frames(L, M, l, ToSet(q) \cup {t})
  <2>1. \A k \in Lists \ {l} : M.head[k] = L.head[k] /\ M.tail[k] = L.tail[k]
    BY <1>4, <1>7
  <2>2. \A u \in Task \ (ToSet(q) \cup {t}) : M.next[u] = L.next[u] /\ M.prev[u] = L.prev[u]
    <3>1. e \in ToSet(q) \/ e = NULL
      BY <1>1, <1>5
    <3> QED  BY <1>4, <1>7, <3>1, TaskAssumption
  <2> QED  BY <2>1, <2>2, FramesFromLinks
<1>12. M.next[t] = NULL
  BY <1>1, <1>3, <1>4, <1>5, <1>7
<1> QED  BY <1>10, <1>11, <1>12 DEF M, r

(* task_list_move_head prepends, and its assertion holds. *)
LEMMA MoveHeadPrepends ==
  ASSUME NEW L \in Links, NEW l \in Lists, NEW q \in Queues, IsList(L, l, q),
         NEW t \in Task \ ToSet(q), Unlinked(L, t)
  PROVE  LET M == MoveHead(L, t, l)
         IN  /\ IsList(M, l, <<t>> \o q)
             /\ Frames(L, M, l, ToSet(q) \cup {t})
             /\ M.prev[t] = NULL
<1> DEFINE M == MoveHead(L, t, l)
           h == L.head[l]
           n == Len(q)
           r == <<t>> \o q
<1>1. /\ q \in Seq(Task) /\ n \in Nat /\ DOMAIN q = 1 .. n
      /\ \A i, j \in 1 .. n : q[i] = q[j] => i = j
      /\ \A i \in 1 .. n : q[i] \in Task /\ q[i] # t /\ q[i] # NULL /\ q[i] \in ToSet(q)
      /\ q = <<>> <=> n = 0
  <2>1. q \in Seq(Task) /\ Distinct(q) /\ n \in Nat /\ DOMAIN q = 1 .. n
    BY QueueIsDistinctSeq, LenProperties
  <2> QED  BY <2>1, TaskAssumption DEF Distinct, ToSet
<1>2. M = LinkHead(L, t, l)
  BY UnlinkNothing DEF MoveHead
<1>3. t # NULL /\ L.next[t] = NULL /\ L.prev[t] = NULL
  BY TaskAssumption DEF Unlinked
<1>4. /\ M.next = [L.next EXCEPT ![t] = h]
      /\ M.prev = [x \in Task |-> IF x = h THEN t ELSE L.prev[x]]
      /\ M.head = [L.head EXCEPT ![l] = t]
      /\ M.tail = [k \in Lists |-> IF k = l /\ h = NULL THEN t ELSE L.tail[k]]
  BY <1>2 DEF LinkHead
<1>5. /\ h = IF n = 0 THEN NULL ELSE q[1]
      /\ L.tail[l] = IF n = 0 THEN NULL ELSE q[n]
      /\ \A i \in 1 .. n : /\ L.next[q[i]] = IF i = n THEN NULL ELSE q[i + 1]
                           /\ L.prev[q[i]] = IF i = 1 THEN NULL ELSE q[i - 1]
  BY <1>1 DEF IsList
<1>6. /\ r \in Seq(Task) /\ Len(r) = n + 1 /\ r # <<>>
      /\ \A i \in 2 .. n + 1 : r[i] = q[i - 1]
      /\ r[1] = t
  BY <1>1
<1>7. /\ L.next \in [Task -> Pointer] /\ L.prev \in [Task -> Pointer]
      /\ L.head \in [Lists -> Pointer] /\ L.tail \in [Lists -> Pointer]
  BY DEF Links
<1> HIDE DEF M, r, n, h
<1>8. M.head[l] = r[1] /\ M.tail[l] = r[n + 1]
  <2>1. CASE n = 0
    BY <1>1, <1>4, <1>5, <1>6, <1>7, <2>1
  <2>2. CASE n > 0
    <3>1. h # NULL /\ L.tail[l] = q[n]
      BY <1>1, <1>5, <2>2
    <3>2. r[n + 1] = q[n]
      BY <1>1, <1>6, <2>2
    <3> QED  BY <1>4, <1>6, <1>7, <3>1, <3>2
  <2> QED  BY <1>1, <2>1, <2>2
<1>9. ASSUME NEW i \in 1 .. n + 1
      PROVE  /\ M.next[r[i]] = IF i = n + 1 THEN NULL ELSE r[i + 1]
             /\ M.prev[r[i]] = IF i = 1 THEN NULL ELSE r[i - 1]
  <2>1. CASE i = 1
    BY <1>1, <1>3, <1>4, <1>5, <1>6, <1>7, <2>1
  <2>2. CASE i \in 2 .. n + 1
    <3>1. i - 1 \in 1 .. n /\ r[i] = q[i - 1] /\ i # 1
      BY <1>1, <1>6, <2>2
    <3>2. M.next[r[i]] = L.next[q[i - 1]]
      BY <1>1, <1>4, <1>7, <3>1
    <3>3. L.next[q[i - 1]] = IF i = n + 1 THEN NULL ELSE r[i + 1]
      BY <1>1, <1>5, <1>6, <2>2, <3>1
    <3>4. M.prev[r[i]] = r[i - 1]
      BY <1>1, <1>4, <1>5, <1>6, <1>7, <2>2, <3>1
    <3> QED  BY <3>1, <3>2, <3>3, <3>4
  <2> QED  BY <1>1, <2>1, <2>2
<1>10. IsList(M, l, r)
  BY <1>6, <1>8, <1>9 DEF IsList
<1>11. Frames(L, M, l, ToSet(q) \cup {t})
  <2>1. \A k \in Lists \ {l} : M.head[k] = L.head[k] /\ M.tail[k] = L.tail[k]
    BY <1>4, <1>7
  <2>2. \A u \in Task \ (ToSet(q) \cup {t}) : M.next[u] = L.next[u] /\ M.prev[u] = L.prev[u]
    <3>1. h \in ToSet(q) \/ h = NULL
      BY <1>1, <1>5
    <3> QED  BY <1>4, <1>7, <3>1, TaskAssumption
  <2> QED  BY <2>1, <2>2, FramesFromLinks
<1>12. M.prev[t] = NULL
  BY <1>1, <1>3, <1>4, <1>5, <1>7
<1> QED  BY <1>10, <1>11, <1>12 DEF M, r

(* task_unlink_from of the head leaves the tail of the queue. *)
LEMMA UnlinkHeadRemoves ==
  ASSUME NEW L \in Links, NEW l \in Lists, NEW q \in Queues, IsList(L, l, q), q # <<>>
  PROVE  LET M == UnlinkFrom(L, Head(q), l)
         IN  /\ IsList(M, l, Tail(q))
             /\ Frames(L, M, l, ToSet(q))
             /\ Unlinked(M, Head(q))
<1> DEFINE t == Head(q)
           M == UnlinkFrom(L, t, l)
           n == Len(q)
           r == Tail(q)
<1>1. /\ q \in Seq(Task) /\ n \in Nat /\ DOMAIN q = 1 .. n /\ n > 0 /\ t = q[1]
      /\ \A i, j \in 1 .. n : q[i] = q[j] => i = j
      /\ \A i \in 1 .. n : q[i] \in Task /\ q[i] # NULL /\ q[i] \in ToSet(q)
  <2>1. /\ q \in Seq(Task) /\ Distinct(q) /\ n \in Nat /\ DOMAIN q = 1 .. n
        /\ n > 0 /\ t = q[1]
    BY QueueIsDistinctSeq, LenProperties
  <2> QED  BY <2>1, TaskAssumption DEF Distinct, ToSet
<1>2. /\ r \in Seq(Task) /\ Len(r) = n - 1 /\ \A i \in 1 .. n - 1 : r[i] = q[i + 1]
      /\ r = <<>> <=> n = 1
  BY <1>1
<1>3. /\ L.head[l] = q[1] /\ L.tail[l] = q[n]
      /\ \A i \in 1 .. n : /\ L.next[q[i]] = IF i = n THEN NULL ELSE q[i + 1]
                           /\ L.prev[q[i]] = IF i = 1 THEN NULL ELSE q[i - 1]
  BY <1>1 DEF IsList
<1>4. /\ L.next \in [Task -> Pointer] /\ L.prev \in [Task -> Pointer]
      /\ L.head \in [Lists -> Pointer] /\ L.tail \in [Lists -> Pointer]
  BY DEF Links
<1> DEFINE s == L.next[t]
<1>5. s = (IF n = 1 THEN NULL ELSE q[2]) /\ L.prev[t] = NULL
  <2>1. 1 \in 1 .. n /\ 1 + 1 = 2
    BY <1>1
  <2>2. /\ L.next[q[1]] = IF 1 = n THEN NULL ELSE q[2]
        /\ L.prev[q[1]] = NULL
    BY <1>3, <2>1
  <2> QED  BY <1>1, <2>2
<1>6. /\ M.next = [x \in Task |-> IF x = t THEN NULL ELSE L.next[x]]
      /\ M.prev = [x \in Task |-> IF x = t THEN NULL ELSE IF x = s THEN NULL ELSE L.prev[x]]
      /\ M.head = [k \in Lists |-> IF k = l THEN s ELSE L.head[k]]
      /\ M.tail = [k \in Lists |-> IF k = l /\ L.tail[k] = t THEN NULL ELSE L.tail[k]]
  <2>1. \A x \in Task : x # L.prev[t]
    BY <1>5, TaskAssumption
  <2>2. L.head[l] = t /\ s = L.next[t]
    BY <1>1, <1>3
  <2> QED  BY ONLY <1>5, <2>1, <2>2 DEF UnlinkFrom, M
<1> HIDE DEF M, r, n, t, s
<1>7. /\ M.head[l] = IF r = <<>> THEN NULL ELSE r[1]
      /\ M.tail[l] = IF r = <<>> THEN NULL ELSE r[n - 1]
  <2>1. CASE n = 1
    BY <1>1, <1>2, <1>3, <1>4, <1>5, <1>6, <2>1
  <2>2. CASE n > 1
    <3>1. M.head[l] = q[2] /\ M.tail[l] = q[n]
      BY <1>1, <1>3, <1>4, <1>5, <1>6, <2>2
    <3>2. r[1] = q[2] /\ r[n - 1] = q[n]
      BY <1>1, <1>2, <2>2
    <3> QED  BY <1>2, <2>2, <3>1, <3>2
  <2> QED  BY <1>1, <2>1, <2>2
<1>8. ASSUME NEW i \in 1 .. n - 1
      PROVE  /\ M.next[r[i]] = IF i = n - 1 THEN NULL ELSE r[i + 1]
             /\ M.prev[r[i]] = IF i = 1 THEN NULL ELSE r[i - 1]
  <2>1. i \in 1 .. n /\ i + 1 \in 1 .. n /\ r[i] = q[i + 1] /\ q[i + 1] # t
    BY <1>1, <1>2
  <2>2. M.next[q[i + 1]] = L.next[q[i + 1]]
    BY <1>1, <1>6, <2>1
  <2>3. M.prev[q[i + 1]] = IF i = 1 THEN NULL ELSE q[i]
    BY <1>1, <1>3, <1>5, <1>6, <2>1
  <2> QED  BY <1>1, <1>2, <1>3, <2>1, <2>2, <2>3
<1>9. IsList(M, l, r)
  BY <1>2, <1>7, <1>8 DEF IsList
<1>10. Frames(L, M, l, ToSet(q))
  <2>1. \A k \in Lists \ {l} : M.head[k] = L.head[k] /\ M.tail[k] = L.tail[k]
    BY <1>4, <1>6
  <2>2. \A u \in Task \ ToSet(q) : M.next[u] = L.next[u] /\ M.prev[u] = L.prev[u]
    <3>1. t \in ToSet(q) /\ (s \in ToSet(q) \/ s = NULL)
      BY <1>1, <1>5
    <3> QED  BY <1>4, <1>6, <3>1, TaskAssumption
  <2> QED  BY <2>1, <2>2, FramesFromLinks
<1>11. Unlinked(M, t)
  BY <1>1, <1>6 DEF Unlinked
<1> QED  BY <1>9, <1>10, <1>11 DEF M, r, t

-----------------------------------------------------------------------------
(* The least element of a set of numbers: induction over the positions of a *)
(* queue is the absence of a first position that is a counterexample.       *)
LEMMA LeastNumber ==
  ASSUME NEW T \in SUBSET Nat, T # {}
  PROVE  \E x \in T : \A y \in T : x <= y
<1> DEFINE R == OpToRel(<, Nat)
<1>1. IsWellFoundedOn(R, Nat)
  BY NatLessThanWellFounded
<1>2. ASSUME NEW x \in Nat, NEW y \in Nat, x < y PROVE <<x, y>> \in R
  BY <1>2, Zenon DEF OpToRel
<1> HIDE DEF R
<1>3. PICK x \in T : \A y \in T : ~ (<<y, x>> \in R)
  BY <1>1, WFMin
<1>4. ASSUME NEW y \in T PROVE x <= y
  <2>1. ~ (y < x)
    BY <1>2, <1>3
  <2> QED  BY <2>1
<1> QED  BY <1>4

(* A list holds one queue only: the links determine it. *)
LEMMA ListPrefix ==
  ASSUME NEW L, NEW l, NEW q \in Queues, NEW r \in Queues,
         IsList(L, l, q), IsList(L, l, r)
  PROVE  \A i \in 1 .. Len(q) : i \in 1 .. Len(r) /\ q[i] = r[i]
<1> DEFINE T == {i \in 1 .. Len(q) : ~ (i \in 1 .. Len(r) /\ q[i] = r[i])}
<1>1. /\ q \in Seq(Task) /\ r \in Seq(Task) /\ Len(q) \in Nat /\ Len(r) \in Nat
      /\ \A i \in 1 .. Len(q) : q[i] # NULL
      /\ q = <<>> <=> Len(q) = 0
      /\ r = <<>> <=> Len(r) = 0
  BY QueueIsDistinctSeq, LenProperties, TaskAssumption
<1>2. ASSUME T # {} PROVE FALSE
  <2>1. T \in SUBSET Nat
    BY <1>1
  <2>2. PICK i \in T : \A j \in T : i <= j
    BY <1>2, <2>1, LeastNumber
  <2>3. CASE i = 1
    <3>1. L.head[l] = q[1] /\ q[1] # NULL
      BY <1>1, <2>3, <2>2 DEF IsList
    <3>2. r # <<>> /\ r[1] = q[1]
      BY <3>1 DEF IsList
    <3> QED  BY <1>1, <2>2, <2>3, <3>2
  <2>4. CASE i > 1
    <3> DEFINE j == i - 1
    <3>1. j \in 1 .. Len(q) /\ j # Len(q) /\ j + 1 = i /\ j \notin T
      BY <1>1, <2>2, <2>4
    <3>2. j \in 1 .. Len(r) /\ q[j] = r[j]
      BY <3>1
    <3>3. L.next[q[j]] = q[i] /\ q[i] # NULL
      BY <1>1, <2>2, <3>1 DEF IsList
    <3>4. L.next[r[j]] = IF j = Len(r) THEN NULL ELSE r[i]
      BY <3>1, <3>2 DEF IsList
    <3>5. j # Len(r) /\ r[i] = q[i]
      BY <3>2, <3>3, <3>4
    <3> QED  BY <1>1, <2>2, <3>1, <3>2, <3>5
  <2> QED  BY <1>1, <2>2, <2>3, <2>4
<1> QED  BY <1>2

LEMMA ListUnique ==
  ASSUME NEW L, NEW l, NEW q \in Queues, IsList(L, l, q)
  PROVE  Contents(L, l) = q
<1>1. \E r \in Queues : IsList(L, l, r)
  OBVIOUS
<1>2. ASSUME NEW r \in Queues, IsList(L, l, r) PROVE r = q
  <2>1. /\ \A i \in 1 .. Len(q) : i \in 1 .. Len(r) /\ q[i] = r[i]
        /\ \A i \in 1 .. Len(r) : i \in 1 .. Len(q)
    BY <1>2, ListPrefix
  <2>2. q \in Seq(Task) /\ r \in Seq(Task) /\ Len(q) \in Nat /\ Len(r) \in Nat
    BY QueueIsDistinctSeq, LenProperties
  <2>3. Len(q) = Len(r)
    BY <2>1, <2>2
  <2> QED  BY <2>1, <2>2, <2>3, SeqEqual
<1> QED  BY <1>1, <1>2 DEF Contents

-----------------------------------------------------------------------------
(* The same for both lists at once. *)
LEMMA RepresentsAppend ==
  ASSUME NEW L \in Links, NEW q \in Queues, NEW z \in Queues, Represents(L, q, z),
         NEW t \in Task \ (ToSet(q) \cup ToSet(z))
  PROVE  /\ Represents(MoveTail(L, t, "TS_READY"), Append(q, t), z)
         /\ MoveTail(L, t, "TS_READY").next[t] = NULL
         /\ Represents(MoveTail(L, t, "TS_ZOMBIE"), q, Append(z, t))
         /\ MoveTail(L, t, "TS_ZOMBIE").next[t] = NULL
<1>1. /\ IsList(L, "TS_READY", q) /\ IsList(L, "TS_ZOMBIE", z)
      /\ ToSet(q) \cap ToSet(z) = {} /\ Unlinked(L, t)
      /\ \A u \in Task \ (ToSet(q) \cup ToSet(z)) : Unlinked(L, u)
  BY DEF Represents
<1>2. /\ ToSet(Append(q, t)) = ToSet(q) \cup {t}
      /\ ToSet(Append(z, t)) = ToSet(z) \cup {t}
  BY QueueOps
<1>3. Represents(MoveTail(L, t, "TS_READY"), Append(q, t), z)
      /\ MoveTail(L, t, "TS_READY").next[t] = NULL
  <2> DEFINE M == MoveTail(L, t, "TS_READY")
  <2>1. /\ IsList(M, "TS_READY", Append(q, t)) /\ M.next[t] = NULL
        /\ Frames(L, M, "TS_READY", ToSet(q) \cup {t})
    BY <1>1, MoveTailAppends DEF Lists
  <2> HIDE DEF M
  <2>2. IsList(M, "TS_ZOMBIE", z)
    BY <1>1, <2>1 DEF Frames, Lists
  <2>3. \A u \in Task \ (ToSet(Append(q, t)) \cup ToSet(z)) : Unlinked(M, u)
    BY <1>1, <1>2, <2>1 DEF Frames
  <2> QED  BY <1>1, <1>2, <2>1, <2>2, <2>3 DEF Represents, M
<1>4. Represents(MoveTail(L, t, "TS_ZOMBIE"), q, Append(z, t))
      /\ MoveTail(L, t, "TS_ZOMBIE").next[t] = NULL
  <2> DEFINE M == MoveTail(L, t, "TS_ZOMBIE")
  <2>1. /\ IsList(M, "TS_ZOMBIE", Append(z, t)) /\ M.next[t] = NULL
        /\ Frames(L, M, "TS_ZOMBIE", ToSet(z) \cup {t})
    BY <1>1, MoveTailAppends DEF Lists
  <2> HIDE DEF M
  <2>2. IsList(M, "TS_READY", q)
    BY <1>1, <2>1 DEF Frames, Lists
  <2>3. \A u \in Task \ (ToSet(q) \cup ToSet(Append(z, t))) : Unlinked(M, u)
    BY <1>1, <1>2, <2>1 DEF Frames
  <2> QED  BY <1>1, <1>2, <2>1, <2>2, <2>3 DEF Represents, M
<1> QED  BY <1>3, <1>4

LEMMA RepresentsPrepend ==
  ASSUME NEW L \in Links, NEW q \in Queues, NEW z \in Queues, Represents(L, q, z),
         NEW t \in Task \ (ToSet(q) \cup ToSet(z))
  PROVE  /\ Represents(MoveHead(L, t, "TS_READY"), <<t>> \o q, z)
         /\ MoveHead(L, t, "TS_READY").prev[t] = NULL
<1>1. /\ IsList(L, "TS_READY", q) /\ IsList(L, "TS_ZOMBIE", z)
      /\ ToSet(q) \cap ToSet(z) = {} /\ Unlinked(L, t)
      /\ \A u \in Task \ (ToSet(q) \cup ToSet(z)) : Unlinked(L, u)
  BY DEF Represents
<1>2. ToSet(<<t>> \o q) = ToSet(q) \cup {t}
  BY QueueOps
<1> DEFINE M == MoveHead(L, t, "TS_READY")
<1>3. /\ IsList(M, "TS_READY", <<t>> \o q) /\ M.prev[t] = NULL
      /\ Frames(L, M, "TS_READY", ToSet(q) \cup {t})
  BY <1>1, MoveHeadPrepends DEF Lists
<1> HIDE DEF M
<1>4. IsList(M, "TS_ZOMBIE", z)
  BY <1>1, <1>3 DEF Frames, Lists
<1>5. \A u \in Task \ (ToSet(<<t>> \o q) \cup ToSet(z)) : Unlinked(M, u)
  BY <1>1, <1>2, <1>3 DEF Frames
<1> QED  BY <1>1, <1>2, <1>3, <1>4, <1>5 DEF Represents, M

LEMMA RepresentsRemove ==
  ASSUME NEW L \in Links, NEW q \in Queues, NEW z \in Queues, Represents(L, q, z),
         q # <<>>
  PROVE  /\ Represents(UnlinkFrom(L, Head(q), "TS_READY"), Tail(q), z)
         /\ L.head["TS_READY"] = Head(q)
<1>1. /\ IsList(L, "TS_READY", q) /\ IsList(L, "TS_ZOMBIE", z)
      /\ ToSet(q) \cap ToSet(z) = {}
      /\ \A u \in Task \ (ToSet(q) \cup ToSet(z)) : Unlinked(L, u)
  BY DEF Represents
<1>2. Head(q) \in ToSet(q) /\ ToSet(Tail(q)) = ToSet(q) \ {Head(q)}
  BY QueueOps
<1> DEFINE M == UnlinkFrom(L, Head(q), "TS_READY")
<1>3. /\ IsList(M, "TS_READY", Tail(q)) /\ Unlinked(M, Head(q))
      /\ Frames(L, M, "TS_READY", ToSet(q))
  BY <1>1, UnlinkHeadRemoves DEF Lists
<1> HIDE DEF M
<1>4. IsList(M, "TS_ZOMBIE", z)
  BY <1>1, <1>3 DEF Frames, Lists
<1>5. \A u \in Task \ (ToSet(Tail(q)) \cup ToSet(z)) : Unlinked(M, u)
  BY <1>1, <1>2, <1>3 DEF Frames
<1>6. L.head["TS_READY"] = Head(q)
  BY <1>1 DEF IsList
<1> QED  BY <1>1, <1>2, <1>3, <1>4, <1>5, <1>6 DEF Represents, M

-----------------------------------------------------------------------------
(***************************************************************************)
(* The invariant.                                                          *)
(***************************************************************************)
(* Main, which never exits, is always there to be switched to. *)
MainRuns == Main = curtask \/ Runnable(Main)

SchedInv ==
  /\ LevelInv
  /\ NeverHalts
  /\ MainRuns
  /\ \E q, z \in Queues : Listed(q, z)

(* The sequences that a switch leaves. *)
Queue(into, q) == IF into = "TS_READY" THEN Append(q, curtask) ELSE q
Zombies(into, z) == IF into = "TS_READY" THEN z ELSE Append(z, curtask)

-----------------------------------------------------------------------------
(* A switch rotates the queue, or moves the running task to the zombies,    *)
(* and no check of it fails.                                                *)
LEMMA SwitchLists ==
  ASSUME SchedInv, NEW q \in Queues, NEW z \in Queues, Listed(q, z),
         NEW into \in Lists, NEW l \in Level, NEW below \in Seq(Frame),
         MiSwitch(into, l, below), stack[curtask] = <<>>,
         into = "TS_ZOMBIE" => curtask # Main,
         NEW a, a = Queue(into, q), NEW b, b = Zombies(into, z)
  PROVE  /\ a # <<>> /\ a \in Queues /\ b \in Queues
         /\ curtask' = Head(a)
         /\ Listed(Tail(a), b)'
         /\ halt' = halt /\ MainRuns'
<1> DEFINE s == <<Suspended(into, l)>> \o below \o stack[curtask]
           D == Descheduled(into)
<1>1. /\ links \in Links /\ curtask \in Task /\ stack \in [Task -> Seq(Frame)]
      /\ Represents(links, q, z)
      /\ ToSet(q) = {t \in Task : Runnable(t)} /\ ToSet(z) = {t \in Task : Exited(t)}
      /\ MainRuns
  BY DEF SchedInv, LevelInv, TypeOK, Listed
<1>2. curtask \notin ToSet(q) /\ curtask \notin ToSet(z)
  BY <1>1 DEF Runnable, Listed
<1>3. /\ a \in Queues /\ b \in Queues
      /\ ToSet(a) = ToSet(q) \cup (IF into = "TS_READY" THEN {curtask} ELSE {})
      /\ ToSet(b) = ToSet(z) \cup (IF into = "TS_READY" THEN {} ELSE {curtask})
  BY <1>1, <1>2, QueueOps DEF Queue, Zombies
<1>4. a # <<>>
  <2>1. CASE into = "TS_READY"
    <3>1. curtask \in ToSet(a)
      BY <1>3, <2>1
    <3> QED  BY <3>1 DEF ToSet
  <2>2. CASE into = "TS_ZOMBIE"
    <3>1. Main \in ToSet(a)
      BY <1>1, <1>3, <2>2, MainAssumption DEF MainRuns
    <3> QED  BY <3>1 DEF ToSet
  <2> QED  BY <2>1, <2>2 DEF Lists
<1>5. D \in Links /\ Represents(D, a, b) /\ D.next[curtask] = NULL
  <2>1. curtask \in Task \ (ToSet(q) \cup ToSet(z))
    BY <1>1, <1>2
  <2>2. D \in Links
    BY <1>1, LinksType DEF Descheduled
  <2> QED  BY <1>1, <2>1, <2>2, RepresentsAppend DEF Descheduled, Queue, Zombies, Lists
<1>6. Head(a) \in ToSet(a) /\ Tail(a) \in Queues /\ ToSet(Tail(a)) = ToSet(a) \ {Head(a)}
  BY <1>3, <1>4, QueueOps
<1>7. Successor = Head(a)
  <2>1. CASE q = <<>>
    <3>1. links.head["TS_READY"] = NULL
      BY <1>1, <2>1 DEF Represents, IsList
    <3>2. into = "TS_READY"
      BY <1>4, <2>1 DEF Queue
    <3>3. a = Append(<<>>, curtask)
      BY <2>1, <3>2 DEF Queue
    <3>4. Append(<<>>, curtask) = <<curtask>>
      OBVIOUS
    <3> QED  BY <3>1, <3>3, <3>4 DEF Successor, Scheduler
  <2>2. CASE q # <<>>
    <3>1. links.head["TS_READY"] = Head(q)
      BY <1>1, <2>2, RepresentsRemove
    <3>2. Head(q) # NULL
      <4>1. Head(q) \in ToSet(q)
        BY <2>2, QueueOps
      <4> QED  BY <1>1, <4>1, TaskAssumption
    <3>3. Head(a) = Head(q)
      <4>1. q \in Seq(Task)
        BY QueueIsDistinctSeq
      <4> QED  BY <2>2, <4>1 DEF Queue
    <3> QED  BY <3>1, <3>2, <3>3 DEF Successor, Scheduler
  <2> QED  BY <2>1, <2>2
<1>8. s \in Seq(Frame) /\ s # <<>> /\ Head(s) = Suspended(into, l)
  <2>1. Suspended(into, l) \in Frame
    BY DEF Suspended, Frame, SwitchFrame
  <2>2. <<Suspended(into, l)>> \o below \in Seq(Frame)
    BY <2>1, ConcatProperties
  <2>3. s = <<Suspended(into, l)>> \o below
    BY <2>2, ConcatEmptySeq
  <2>4. Len(<<Suspended(into, l)>> \o below) = 1 + Len(below) /\ Len(below) \in Nat
        /\ (<<Suspended(into, l)>> \o below)[1] = Suspended(into, l)
    BY <2>1, ConcatProperties
  <2> QED  BY <2>2, <2>3, <2>4
<1>9. /\ stack' = [stack EXCEPT ![curtask] = s]
      /\ curtask' = Head(a)
      /\ links' = UnlinkFrom(D, Head(a), "TS_READY")
  BY <1>7 DEF MiSwitch
<1> HIDE DEF s, D
<1>10. ASSUME NEW t \in Task
       PROVE  /\ Exited(t)' <=> Exited(t) \/ (t = curtask /\ into = "TS_ZOMBIE")
              /\ Runnable(t)' <=> t \in ToSet(a) /\ t # Head(a)
  <2>1. CASE t = curtask
    <3>1. stack'[t] = s
      BY <1>1, <1>9, <2>1
    <3>2. Exited(t)' <=> into = "TS_ZOMBIE"
      BY <1>8, <3>1 DEF Exited, Top, Suspended
    <3>3. ~ Exited(t)
      BY <2>1 DEF Exited
    <3>4. t \in ToSet(a) <=> into = "TS_READY"
      BY <1>2, <1>3, <2>1
    <3>5. Runnable(t)' <=> t # Head(a) /\ ~ Exited(t)'
      BY <1>8, <1>9, <3>1 DEF Runnable
    <3> QED  BY <2>1, <3>2, <3>3, <3>4, <3>5 DEF Lists
  <2>2. CASE t # curtask
    <3>1. stack'[t] = stack[t]
      BY <1>1, <1>9, <2>2
    <3>2. Exited(t)' <=> Exited(t)
      BY <3>1 DEF Exited, Top
    <3>3. t \in ToSet(a) <=> stack[t] # <<>> /\ ~ Exited(t)
      BY <1>1, <1>3, <2>2 DEF Runnable
    <3>4. Runnable(t)' <=> stack[t] # <<>> /\ t # Head(a) /\ ~ Exited(t)
      BY <1>9, <3>1, <3>2 DEF Runnable
    <3> QED  BY <2>2, <3>2, <3>3, <3>4
  <2> QED  BY <2>1, <2>2
<1>11. Represents(links', Tail(a), b)
  BY <1>3, <1>4, <1>5, <1>9, RepresentsRemove
<1>12. ToSet(Tail(a)) = {t \in Task : Runnable(t)'}
  <2>1. ToSet(a) \subseteq Task
    BY <1>1, <1>3
  <2> QED  BY <1>6, <1>10, <2>1
<1>13. ToSet(b) = {t \in Task : Exited(t)'}
  BY <1>1, <1>3, <1>10 DEF Lists
<1>14. curtask' \notin ToSet(b)
  BY <1>5, <1>6, <1>9 DEF Represents
<1>15. Listed(Tail(a), b)'
  BY <1>11, <1>12, <1>13, <1>14 DEF Listed
<1>16. halt' = halt
  <2>1. stack'[Successor] # <<>>
    <3>1. Head(a) \in Task /\ Head(a) \in ToSet(a)
      BY <1>1, <1>3, <1>6
    <3>2. CASE Head(a) = curtask
      BY <1>1, <1>7, <1>8, <1>9, <3>2
    <3>3. CASE Head(a) # curtask
      BY <1>1, <1>3, <1>7, <1>9, <3>1, <3>3 DEF Runnable
    <3> QED  BY <3>2, <3>3
  <2> QED  BY <1>5, <2>1 DEF MiSwitch, D
<1>17. MainRuns'
  <2>1. Main \in ToSet(a)
    BY <1>1, <1>3, MainAssumption DEF MainRuns, Lists
  <2> QED  BY <1>9, <1>10, <2>1, MainAssumption DEF MainRuns
<1> QED  BY <1>3, <1>4, <1>9, <1>15, <1>16, <1>17

-----------------------------------------------------------------------------
(* The other steps on a stack: they return from the running task's frame.   *)
LEMMA ReturnLists ==
  ASSUME SchedInv, NEW q \in Queues, NEW z \in Queues, Listed(q, z),
         UNCHANGED <<links, curtask>>, stack' = Pop(curtask),
         stack[curtask] # <<>>
  PROVE  Listed(q, z)' /\ MainRuns'
<1>1. /\ curtask \in Task /\ level[curtask] \in Level
      /\ stack[curtask] \in Contexts(level[curtask])
      /\ stack \in [Task -> Seq(Frame)]
  BY DEF SchedInv, LevelInv, TypeOK, SavedContexts
<1>2. stack' = [stack EXCEPT ![curtask] = Tail(stack[curtask])]
  BY DEF Pop
<1>3. /\ stack[curtask] \in Seq(Frame) /\ Head(stack[curtask]) \in Frame
  BY <1>1, HeadTailProperties
<1>4. stack'[curtask] = <<>> \/ stack'[curtask] = <<Interrupt(0)>>
  <2>1. \/ Head(stack[curtask]).at = "mi_task_startup"
        \/ Head(stack[curtask]).at = "aarch64_trapentry"
        \/ Head(stack[curtask]).at = "mi_switch"
    BY <1>3 DEF Frame, SwitchFrame, TrapFrame, Startup
  <2>2. Tail(stack[curtask]) = <<>> \/ Tail(stack[curtask]) = <<Interrupt(0)>>
    BY <1>1, <2>1, ContextShapes
  <2> QED  BY <1>1, <1>2, <2>2
<1>5. ~ Exited(curtask)'
  <2>1. CASE stack'[curtask] = <<>>
    BY <2>1 DEF Exited
  <2>2. CASE stack'[curtask] = <<Interrupt(0)>>
    BY <2>2 DEF Exited, Top, Interrupt
  <2> QED  BY <1>4, <2>1, <2>2
<1>6. ~ Exited(curtask)
  BY <1>1 DEF Listed
<1>7. ASSUME NEW t \in Task
      PROVE  (Exited(t)' <=> Exited(t)) /\ (Runnable(t)' <=> Runnable(t))
  <2>1. CASE t = curtask
    BY <1>5, <1>6, <2>1 DEF Runnable
  <2>2. CASE t # curtask
    <3>1. stack'[t] = stack[t]
      BY <1>1, <1>2, <2>2
    <3> QED  BY <2>2, <3>1 DEF Runnable, Exited, Top
  <2> QED  BY <2>1, <2>2
<1> QED  BY <1>7, MainAssumption DEF SchedInv, MainRuns, Listed

(* A task is started: it is the first of the queue. *)
LEMMA StartLists ==
  ASSUME SchedInv, NEW q \in Queues, NEW z \in Queues, Listed(q, z),
         NEW t \in Task, TaskStart(t)
  PROVE  /\ t \notin {curtask} \cup ToSet(q) \cup ToSet(z)
         /\ <<t>> \o q \in Queues /\ Listed(<<t>> \o q, z)'
         /\ halt' = halt /\ MainRuns'
<1>1. /\ links \in Links /\ curtask \in Task /\ stack \in [Task -> Seq(Frame)]
      /\ Represents(links, q, z)
      /\ ToSet(q) = {u \in Task : Runnable(u)} /\ ToSet(z) = {u \in Task : Exited(u)}
      /\ curtask \notin ToSet(z)
  BY DEF SchedInv, LevelInv, TypeOK, Listed
<1>2. /\ t # curtask /\ stack[t] = <<>>
      /\ links' = MoveHead(links, t, "TS_READY")
      /\ stack' = [stack EXCEPT ![t] = <<Startup>>]
      /\ curtask' = curtask
      /\ halt' = IF links'.prev[t] = NULL THEN halt ELSE "panic"
  BY DEF TaskStart, New
<1>3. t \notin ToSet(q) /\ t \notin ToSet(z)
  BY <1>1, <1>2 DEF Runnable, Exited
<1>4. /\ Represents(links', <<t>> \o q, z) /\ halt' = halt
      /\ <<t>> \o q \in Queues /\ ToSet(<<t>> \o q) = ToSet(q) \cup {t}
  <2>1. t \in Task \ (ToSet(q) \cup ToSet(z))
    BY <1>3
  <2>2. /\ Represents(MoveHead(links, t, "TS_READY"), <<t>> \o q, z)
        /\ MoveHead(links, t, "TS_READY").prev[t] = NULL
    BY <1>1, <2>1, RepresentsPrepend
  <2>3. <<t>> \o q \in Queues /\ ToSet(<<t>> \o q) = ToSet(q) \cup {t}
    BY <2>1, QueueOps
  <2> QED  BY <1>2, <2>2, <2>3
<1>5. ASSUME NEW u \in Task
      PROVE  /\ Exited(u)' <=> Exited(u)
             /\ Runnable(u)' <=> Runnable(u) \/ u = t
  <2>1. CASE u = t
    <3>1. stack'[t] = <<Startup>>
      BY <1>1, <1>2
    <3>2. ~ Exited(t) /\ ~ Exited(t)' /\ Runnable(t)'
      BY <1>2, <3>1 DEF Exited, Runnable, Top, Startup
    <3> QED  BY <2>1, <3>2
  <2>2. CASE u # t
    <3>1. stack'[u] = stack[u]
      BY <1>1, <1>2, <2>2
    <3> QED  BY <1>2, <2>2, <3>1 DEF Exited, Runnable, Top
  <2> QED  BY <2>1, <2>2
<1>6. Listed(<<t>> \o q, z)'
  BY <1>1, <1>2, <1>4, <1>5 DEF Listed
<1>7. MainRuns'
  BY <1>2, <1>5, MainAssumption DEF SchedInv, MainRuns
<1> QED  BY <1>2, <1>3, <1>4, <1>6, <1>7

-----------------------------------------------------------------------------
LEMMA SchedInit == Init => Listed(<<>>, <<>>) /\ <<>> \in Queues /\ SchedInv
<1> SUFFICES ASSUME Init PROVE Listed(<<>>, <<>>) /\ <<>> \in Queues /\ SchedInv
  OBVIOUS
<1>1. <<>> \in Queues
  <2>1. <<>> \in Seq(Task) /\ Distinct(<<>>)
    BY DEF Distinct
  <2> QED  BY <2>1, DistinctSeqIsQueue
<1>2. ToSet(<<>>) = {}
  BY DEF ToSet
<1>3. \A t \in Task : stack[t] = <<>> /\ links = NoLinks /\ curtask = Main
  BY DEF Init
<1>4. Represents(links, <<>>, <<>>)
  BY <1>2, MainAssumption DEF Init, Represents, IsList, NoLinks, Unlinked, Lists
<1>5. Listed(<<>>, <<>>)
  BY <1>2, <1>3, <1>4 DEF Listed, Runnable, Exited
<1>6. NeverHalts /\ MainRuns
  BY DEF Init, NeverHalts, MainRuns
<1> QED  BY <1>1, <1>5, <1>6, LevelInit DEF SchedInv

(* A step leaves the queues as the step of the abstract queue does. *)
LEMMA SchedStep ==
  ASSUME SchedInv, [Next]_vars, NEW q \in Queues, NEW z \in Queues, Listed(q, z)
  PROVE  /\ NeverHalts' /\ MainRuns'
         /\ \/ curtask' = curtask /\ Listed(q, z)'
            \/ \E t \in Task :
                 /\ t \notin {curtask} \cup ToSet(q) \cup ToSet(z)
                 /\ curtask' = curtask
                 /\ <<t>> \o q \in Queues /\ Listed(<<t>> \o q, z)'
            \/ \E a, b \in Queues :
                 /\ a # <<>> /\ curtask' = Head(a) /\ Listed(Tail(a), b)'
                 /\ \/ a = Append(q, curtask) /\ b = z
                    \/ a = q /\ b = Append(z, curtask)
<1> DEFINE Kept == curtask' = curtask /\ Listed(q, z)'
           Started == \E t \in Task :
                 /\ t \notin {curtask} \cup ToSet(q) \cup ToSet(z)
                 /\ curtask' = curtask
                 /\ <<t>> \o q \in Queues /\ Listed(<<t>> \o q, z)'
           Rotated == \E a, b \in Queues :
                 /\ a # <<>> /\ curtask' = Head(a) /\ Listed(Tail(a), b)'
                 /\ \/ a = Append(q, curtask) /\ b = z
                    \/ a = q /\ b = Append(z, curtask)
<1> SUFFICES NeverHalts' /\ MainRuns' /\ (Kept \/ Started \/ Rotated)
  OBVIOUS
<1>0. halt = "no" /\ MainRuns /\ TypeOK
  BY DEF SchedInv, NeverHalts, LevelInv
<1>1. ASSUME UNCHANGED <<links, curtask, stack, halt>>
      PROVE  NeverHalts' /\ MainRuns' /\ Kept
  BY <1>0, <1>1 DEF NeverHalts, MainRuns, Listed, Runnable, Exited, Top
<1>2. ASSUME NEW into \in Lists, NEW l \in Level, NEW below \in Seq(Frame),
             MiSwitch(into, l, below), stack[curtask] = <<>>,
             into = "TS_ZOMBIE" => curtask # Main
      PROVE  NeverHalts' /\ MainRuns' /\ Rotated
  <2>1. PICK a : a = Queue(into, q)
    OBVIOUS
  <2>2. PICK b : b = Zombies(into, z)
    OBVIOUS
  <2>3. /\ a # <<>> /\ a \in Queues /\ b \in Queues /\ curtask' = Head(a)
        /\ Listed(Tail(a), b)' /\ halt' = halt /\ MainRuns'
    BY <1>2, <2>1, <2>2, SwitchLists
  <2>4. \/ a = Append(q, curtask) /\ b = z
        \/ a = q /\ b = Append(z, curtask)
    BY <2>1, <2>2 DEF Queue, Zombies
  <2> QED  BY <1>0, <2>3, <2>4 DEF NeverHalts
<1>3. ASSUME NEW s \in Level, SetLevel(s)
      PROVE  NeverHalts' /\ MainRuns' /\ Kept
  BY <1>1, <1>3 DEF SetLevel
<1>4. ASSUME NEW t \in Task, TaskNew(t)
      PROVE  NeverHalts' /\ MainRuns' /\ Kept
  BY <1>1, <1>4 DEF TaskNew
<1>5. ASSUME NEW t \in Task, TaskStart(t)
      PROVE  NeverHalts' /\ MainRuns' /\ Started
  <2>1. curtask' = curtask
    BY <1>5 DEF TaskStart
  <2> QED  BY <1>0, <1>5, <2>1, StartLists DEF NeverHalts
<1>6. CASE TaskYield
  <2>1. MiSwitch("TS_READY", curspl, <<>>) /\ stack[curtask] = <<>>
    BY <1>6 DEF TaskYield, InBody
  <2>2. "TS_READY" \in Lists /\ curspl \in Level /\ <<>> \in Seq(Frame)
    BY <1>0 DEF TypeOK, Lists
  <2> QED  BY <1>2, <2>1, <2>2
<1>7. CASE TaskExit
  <2>1. MiSwitch("TS_ZOMBIE", curspl, <<>>) /\ stack[curtask] = <<>> /\ curtask # Main
    BY <1>7 DEF TaskExit, InBody
  <2>2. "TS_ZOMBIE" \in Lists /\ curspl \in Level /\ <<>> \in Seq(Frame)
    BY <1>0 DEF TypeOK, Lists
  <2> QED  BY <1>2, <2>1, <2>2
<1>8. CASE MiTaskStartup
  <2>1. /\ UNCHANGED <<links, curtask, halt>> /\ stack' = Pop(curtask)
        /\ stack[curtask] # <<>>
    BY <1>8 DEF MiTaskStartup, In
  <2> QED  BY <1>0, <2>1, ReturnLists DEF NeverHalts
<1>9. CASE SwitchReturn
  <2>1. /\ UNCHANGED <<links, curtask>> /\ stack' = Pop(curtask)
        /\ stack[curtask] # <<>> /\ Top(curtask).at = "mi_switch"
        /\ halt' = IF Top(curtask).into = "TS_ZOMBIE" THEN "wild" ELSE halt
    BY <1>9 DEF SwitchReturn, In
  <2>2. ~ Exited(curtask)
    BY <1>0 DEF Listed, TypeOK
  <2>3. halt' = halt
    BY <2>1, <2>2 DEF Exited
  <2> QED  BY <1>0, <2>1, <2>3, ReturnLists DEF NeverHalts
<1>10. CASE TimerExpire
  BY <1>1, <1>10 DEF TimerExpire
<1>11. CASE TimerIrq
  <2>1. MiSwitch("TS_READY", TrapLevel, <<Interrupt(spl[curtask])>>)
    BY <1>11 DEF TimerIrq
  <2>2. stack[curtask] = <<>>
    BY <1>11 DEF TimerIrq, Interrupted, SchedInv, LevelInv, InterruptLevels, InBody
  <2>3. TrapLevel \in Level /\ "TS_READY" \in Lists
    BY DEF TrapLevel, Level, Lists
  <2>4. <<Interrupt(spl[curtask])>> \in Seq(Frame)
    BY <1>0 DEF TypeOK, Frame, TrapFrame, Interrupt
  <2> QED  BY <1>2, <2>1, <2>2, <2>3, <2>4
<1>12. CASE TrapReturn
  <2>1. /\ UNCHANGED <<links, curtask, halt>> /\ stack' = Pop(curtask)
        /\ stack[curtask] # <<>>
    BY <1>12 DEF TrapReturn, In
  <2> QED  BY <1>0, <2>1, ReturnLists DEF NeverHalts
<1>13. CASE UNCHANGED vars
  BY <1>1, <1>13 DEF vars
<1> HIDE DEF Kept, Started, Rotated
<1> QED
  BY <1>3, <1>4, <1>5, <1>6, <1>7, <1>8, <1>9, <1>10, <1>11, <1>12, <1>13 DEF Next

LEMMA SchedInductive == SchedInv /\ [Next]_vars => SchedInv'
<1> SUFFICES ASSUME SchedInv, [Next]_vars PROVE SchedInv'
  OBVIOUS
<1>1. LevelInv'
  BY LevelStep DEF SchedInv
<1>2. PICK q \in Queues, z \in Queues : Listed(q, z)
  BY DEF SchedInv
<1>3. NeverHalts' /\ MainRuns' /\ \E r, y \in Queues : Listed(r, y)'
  <2>1. \A a \in Queues : a # <<>> => Tail(a) \in Queues
    BY QueueOps
  <2>2. /\ NeverHalts' /\ MainRuns'
        /\ \/ Listed(q, z)'
           \/ \E t \in Task : <<t>> \o q \in Queues /\ Listed(<<t>> \o q, z)'
           \/ \E a, b \in Queues : a # <<>> /\ Listed(Tail(a), b)'
    BY <1>2, SchedStep
  <2> QED  BY ONLY <1>2, <2>1, <2>2
<1> QED  BY <1>1, <1>3 DEF SchedInv

(* Every task is on the list it belongs to, once, whatever the interleaving *)
(* of starts, yields, exits and preemptions (task.h:23-33).                 *)
THEOREM EachTaskListedCorrect == Spec => []EachTaskListed
<1>1. SchedInv => EachTaskListed
  BY DEF SchedInv, EachTaskListed
<1> QED  BY SchedInit, SchedInductive, <1>1, PTL DEF Spec

(* The assertions of the lists hold, a switch always finds a saved context, *)
(* and task_exit does not return (task.c:62, 80, 159, 209).                 *)
THEOREM NeverHaltsCorrect == Spec => []NeverHalts
<1>1. SchedInv => NeverHalts
  BY DEF SchedInv
<1> QED  BY SchedInit, SchedInductive, <1>1, PTL DEF Spec

-----------------------------------------------------------------------------
(* The queues of the abstract specification are those that are listed. *)
LEMMA ListedContents ==
  ASSUME NEW q \in Queues, NEW z \in Queues, Listed(q, z)
  PROVE  Contents(links, "TS_READY") = q /\ Contents(links, "TS_ZOMBIE") = z
  BY ListUnique DEF Listed, Represents

LEMMA RefineInit == Init => RR!Init
<1> SUFFICES ASSUME Init PROVE RR!Init
  OBVIOUS
<1>1. Contents(links, "TS_READY") = <<>> /\ Contents(links, "TS_ZOMBIE") = <<>>
  BY SchedInit, ListedContents
<1> QED  BY <1>1 DEF RR!Init, Init

LEMMA RefineStep == SchedInv /\ [Next]_vars => [RR!Next]_(RR!vars)
<1> SUFFICES ASSUME SchedInv, [Next]_vars PROVE [RR!Next]_(RR!vars)
  OBVIOUS
<1>1. PICK q \in Queues, z \in Queues : Listed(q, z)
  BY DEF SchedInv
<1>2. Contents(links, "TS_READY") = q /\ Contents(links, "TS_ZOMBIE") = z
  BY <1>1, ListedContents
<1>3. ASSUME NEW r \in Queues, NEW y \in Queues, Listed(r, y)'
      PROVE  Contents(links, "TS_READY")' = r /\ Contents(links, "TS_ZOMBIE")' = y
  BY <1>3, ListUnique DEF Listed, Represents
<1>4. CASE curtask' = curtask /\ Listed(q, z)'
  BY <1>1, <1>2, <1>3, <1>4 DEF RR!vars
<1>5. ASSUME NEW t \in Task, t \notin {curtask} \cup ToSet(q) \cup ToSet(z),
             curtask' = curtask, <<t>> \o q \in Queues, Listed(<<t>> \o q, z)'
      PROVE  RR!Next
  <2>1. /\ Contents(links, "TS_READY")' = <<t>> \o q
        /\ Contents(links, "TS_ZOMBIE")' = z
    BY <1>3, <1>5
  <2>2. RR!Start(t)
    BY <1>2, <1>5, <2>1 DEF RR!Start, RR!Known, RR!ToSet, ToSet
  <2> QED  BY <2>2 DEF RR!Next
<1>6. ASSUME NEW a \in Queues, NEW b \in Queues,
             a # <<>>, curtask' = Head(a), Listed(Tail(a), b)',
             \/ a = Append(q, curtask) /\ b = z
             \/ a = q /\ b = Append(z, curtask)
      PROVE  RR!Next
  <2>1. /\ Contents(links, "TS_READY")' = Tail(a)
        /\ Contents(links, "TS_ZOMBIE")' = b
    BY <1>3, <1>6, QueueOps
  <2>2. CASE a = Append(q, curtask) /\ b = z
    <3>1. RR!Rotate
      BY <1>2, <1>6, <2>1, <2>2 DEF RR!Rotate
    <3> QED  BY <3>1 DEF RR!Next
  <2>3. CASE a = q /\ b = Append(z, curtask)
    <3>1. RR!Exit
      BY <1>2, <1>6, <2>1, <2>3 DEF RR!Exit
    <3> QED  BY <3>1 DEF RR!Next
  <2> QED  BY <1>6, <2>2, <2>3
<1>7. \/ curtask' = curtask /\ Listed(q, z)'
      \/ \E t \in Task :
           /\ t \notin {curtask} \cup ToSet(q) \cup ToSet(z)
           /\ curtask' = curtask
           /\ <<t>> \o q \in Queues /\ Listed(<<t>> \o q, z)'
      \/ \E a, b \in Queues :
           /\ a # <<>> /\ curtask' = Head(a) /\ Listed(Tail(a), b)'
           /\ \/ a = Append(q, curtask) /\ b = z
              \/ a = q /\ b = Append(z, curtask)
  BY <1>1, SchedStep
<1> QED  BY <1>4, <1>5, <1>6, <1>7

(* The intrusive lists and the switch implement the round-robin queue. *)
THEOREM ImplementsRoundRobinCorrect == Spec => ImplementsRoundRobin
<1>1. Init => RR!Init
  BY RefineInit
<1>2. SchedInv /\ [Next]_vars => [RR!Next]_(RR!vars)
  BY RefineStep
<1> QED
  BY SchedInit, SchedInductive, <1>1, <1>2, PTL DEF Spec, ImplementsRoundRobin, RR!Spec
=============================================================================
