----------------------------- MODULE TaskLists -----------------------------
(***************************************************************************)
(* The intrusive doubly linked task lists of kern/task/task.c.             *)
(*                                                                         *)
(* A task owns one pair of links (list_next, list_prev) and is therefore   *)
(* on at most one list.  All the links of the system, with the heads and   *)
(* tails of tasks_ready and tasks_zombie, form one record, and each        *)
(* operation of the C code is an operator from records to records, with    *)
(* the pointer assignments it makes and no more: what they amount to on a  *)
(* well formed list is for the properties to say.                          *)
(***************************************************************************)
EXTENDS Naturals, SequencesExt

CONSTANTS Task,  \* the struct tasks the heap can provide
          NULL   \* the null pointer

ASSUME TaskAssumption == IsFiniteSet(Task) /\ NULL \notin Task

(* tasks_ready and tasks_zombie, by the state whose tasks they hold. *)
Lists == {"TS_READY", "TS_ZOMBIE"}

Pointer == Task \cup {NULL}

Links == [next : [Task -> Pointer], prev : [Task -> Pointer],
          head : [Lists -> Pointer], tail : [Lists -> Pointer]]

(* Zeroed links, and lists initialised with { 0 }. *)
NoLinks == [next |-> [t \in Task |-> NULL], prev |-> [t \in Task |-> NULL],
            head |-> [l \in Lists |-> NULL], tail |-> [l \in Lists |-> NULL]]

-----------------------------------------------------------------------------
(* Faulty variant: the list's tail is left at the task that goes. *)
UnlinkFromKeepsTail(L, t, l) ==
  LET n == L.next[t]
      p == L.prev[t]
  IN [next |-> [x \in Task |-> IF x = t THEN NULL ELSE IF x = p THEN n ELSE L.next[x]],
      prev |-> [x \in Task |-> IF x = t THEN NULL ELSE IF x = n THEN p ELSE L.prev[x]],
      head |-> [k \in Lists |-> IF k = l /\ L.head[k] = t THEN n ELSE L.head[k]],
      tail |-> L.tail]

(* task_unlink_from(t, l); "none" is a NULL task_list. *)
UnlinkFrom(L, t, l) ==
  LET n == L.next[t]
      p == L.prev[t]
  IN [next |-> [x \in Task |-> IF x = t THEN NULL ELSE IF x = p THEN n ELSE L.next[x]],
      prev |-> [x \in Task |-> IF x = t THEN NULL ELSE IF x = n THEN p ELSE L.prev[x]],
      head |-> [k \in Lists |-> IF k = l /\ L.head[k] = t THEN n ELSE L.head[k]],
      tail |-> [k \in Lists |-> IF k = l /\ L.tail[k] = t THEN p ELSE L.tail[k]]]

(* The body of task_list_move_head after the unlinking. *)
LinkHead(L, t, l) ==
  LET h == L.head[l]
  IN [next |-> [L.next EXCEPT ![t] = h],
      prev |-> [x \in Task |-> IF x = h THEN t ELSE L.prev[x]],
      head |-> [L.head EXCEPT ![l] = t],
      tail |-> [k \in Lists |-> IF k = l /\ h = NULL THEN t ELSE L.tail[k]]]

(* The body of task_list_move_tail after the unlinking. *)
LinkTail(L, t, l) ==
  LET e == L.tail[l]
  IN [prev |-> [L.prev EXCEPT ![t] = e],
      next |-> [x \in Task |-> IF x = e THEN t ELSE L.next[x]],
      tail |-> [L.tail EXCEPT ![l] = t],
      head |-> [k \in Lists |-> IF k = l /\ e = NULL THEN t ELSE L.head[k]]]

(* Every call in the kernel passes from = NULL. *)
MoveHead(L, t, to) == LinkHead(UnlinkFrom(L, t, "none"), t, to)
MoveTail(L, t, to) == LinkTail(UnlinkFrom(L, t, "none"), t, to)

-----------------------------------------------------------------------------
(***************************************************************************)
(* What the links of a list stand for.                                     *)
(***************************************************************************)
Queues == SetToAllKPermutations(Task)

(* The links of list l are those of a doubly linked list that holds q. *)
IsList(L, l, q) ==
  /\ L.head[l] = IF q = <<>> THEN NULL ELSE q[1]
  /\ L.tail[l] = IF q = <<>> THEN NULL ELSE q[Len(q)]
  /\ \A i \in 1 .. Len(q) :
       /\ L.next[q[i]] = IF i = Len(q) THEN NULL ELSE q[i + 1]
       /\ L.prev[q[i]] = IF i = 1 THEN NULL ELSE q[i - 1]

(* A task on no list. *)
Unlinked(L, t) == L.next[t] = NULL /\ L.prev[t] = NULL

(* The list's contents, from its head. *)
Contents(L, l) == CHOOSE q \in Queues : IsList(L, l, q)

(* tasks_ready holds q, tasks_zombie holds z, no task is on both, and a     *)
(* task on neither has no links.                                            *)
Represents(L, q, z) ==
  /\ IsList(L, "TS_READY", q)
  /\ IsList(L, "TS_ZOMBIE", z)
  /\ ToSet(q) \cap ToSet(z) = {}
  /\ \A t \in Task \ (ToSet(q) \cup ToSet(z)) : Unlinked(L, t)
=============================================================================
