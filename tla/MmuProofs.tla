------------------------------ MODULE MmuProofs ------------------------------
(***************************************************************************)
(* Theorems about Mmu, for page tables of any size, every layout of the    *)
(* image that fits into the address space, and every size of the memory.   *)
(***************************************************************************)
EXTENDS Mmu, FiniteSetTheorems, WellFoundedInduction, NaturalsInduction, TLAPS

(***************************************************************************)
(* The numbers.                                                            *)
(***************************************************************************)
LEMMA Division ==
  ASSUME NEW v \in Nat, NEW d \in Nat \ {0}
  PROVE  v \div d \in Nat /\ v % d \in 0 .. d - 1 /\ v = d * (v \div d) + (v % d)
OBVIOUS

LEMMA DivisionUnique ==
  ASSUME NEW v \in Nat, NEW d \in Nat \ {0}, NEW q \in Nat, NEW r \in 0 .. d - 1, v = d * q + r
  PROVE  v \div d = q /\ v % d = r
<1> DEFINE p == v \div d
           s == v % d
<1>1. p \in Nat /\ s \in 0 .. d - 1 /\ v = d * p + s
  OBVIOUS
<1> HIDE DEF p, s
<1>2. ASSUME NEW a \in Nat, NEW b \in Nat, a < b PROVE d * a + d <= d * b
  <2>1. PICK c \in Nat : b = a + 1 + c
    <3>1. b - a - 1 \in Nat /\ b = a + 1 + (b - a - 1)
      BY <1>2
    <3> QED  BY <3>1
  <2>2. d * b = d * a + d + d * c /\ d * c \in Nat
    BY <2>1
  <2> QED  BY <2>2
<1>3. ~ (p < q)
  BY <1>1, <1>2
<1>4. ~ (q < p)
  BY <1>1, <1>2
<1>5. p = q
  BY <1>1, <1>3, <1>4
<1> QED  BY <1>1, <1>5 DEF p, s

LEMMA DivisionOfDivision ==
  ASSUME NEW v \in Nat, NEW a \in Nat \ {0}, NEW b \in Nat \ {0}
  PROVE  v \div (a * b) = (v \div a) \div b
<1> DEFINE q == v \div a
           r == v % a
           p == q \div b
           s == q % b
<1>1. q \in Nat /\ r \in 0 .. a - 1 /\ v = a * q + r
  OBVIOUS
<1>2. p \in Nat /\ s \in 0 .. b - 1 /\ q = b * p + s
  BY <1>1
<1> HIDE DEF q, r, p, s
<1>3. v = (a * b) * p + (a * s + r)
  BY <1>1, <1>2
<1>4. a * s + r \in 0 .. (a * b) - 1
  <2>1. PICK c \in Nat : b = s + 1 + c
    <3>1. b - s - 1 \in Nat /\ b = s + 1 + (b - s - 1)
      BY <1>2
    <3> QED  BY <3>1
  <2>2. a * b = a * s + a + a * c /\ a * c \in Nat /\ a * s \in Nat
    BY <2>1, <1>2
  <2> QED  BY <2>2, <1>1
<1>5. a * b \in Nat \ {0}
  OBVIOUS
<1>6. v \div (a * b) = p
  BY <1>1, <1>2, <1>3, <1>4, <1>5, DivisionUnique
<1> QED  BY <1>6 DEF p, q

Indices(level) == IF level = 0 THEN 0 .. (Fanout \div 2) - 1 ELSE Index

(* The index of a page at a level is the index of what is left of it at the *)
(* level below.                                                             *)
LEMMA IndexSteps ==
  ASSUME NEW v \in Nat
  PROVE  /\ IndexOf(v, 3) = v % Fanout
         /\ IndexOf(v, 2) = (v \div Fanout) % Fanout
         /\ IndexOf(v, 1) = ((v \div Fanout) \div Fanout) % Fanout
         /\ IndexOf(v, 0) = (((v \div Fanout) \div Fanout) \div Fanout) % Fanout
<1>1. Fanout \in Nat \ {0} /\ Fanout * Fanout \in Nat \ {0}
  BY FanoutAssumption
<1>2. v \div (Fanout * Fanout) = (v \div Fanout) \div Fanout
  BY <1>1, DivisionOfDivision
<1>3. v \div (Fanout * Fanout * Fanout) = (v \div (Fanout * Fanout)) \div Fanout
  BY <1>1, DivisionOfDivision
<1>4. Below[1] = Fanout * Fanout * Fanout /\ Below[2] = Fanout * Fanout
      /\ Below[3] = Fanout /\ Below[4] = 1
  BY DEF Below
<1>5. v \div 1 = v
  OBVIOUS
<1> QED  BY <1>2, <1>3, <1>4, <1>5 DEF IndexOf

LEMMA IndexRange ==
  ASSUME NEW v \in Page
  PROVE  /\ v \in Nat /\ IndexOf(v, 0) \in Indices(0)
         /\ \A level \in 0 .. 3 : IndexOf(v, level) \in Index
         /\ IndexOf(v, 0) = ((v \div Fanout) \div Fanout) \div Fanout
<1> DEFINE half == Fanout \div 2
           b == Fanout * Fanout * Fanout
           q == v \div b
<1>1. Fanout \in Nat \ {0} /\ Fanout * Fanout \in Nat \ {0} /\ b \in Nat \ {0}
  BY FanoutAssumption
<1>2. half \in Nat /\ half < Fanout /\ Fanout = 2 * half
  BY FanoutAssumption
<1>3. Below[1] = b
  BY DEF Below
<1>4. v \in Nat /\ v < half * b
  <2>1. half * b \in Nat
    BY <1>1, <1>2
  <2> QED  BY <2>1, <1>3 DEF Page
<1>5. q = ((v \div Fanout) \div Fanout) \div Fanout
  <2>1. v \div (Fanout * Fanout) = (v \div Fanout) \div Fanout
    BY <1>1, <1>4, DivisionOfDivision
  <2>2. b = (Fanout * Fanout) * Fanout
    OBVIOUS
  <2>3. v \div ((Fanout * Fanout) * Fanout) = (v \div (Fanout * Fanout)) \div Fanout
    BY <1>1, <1>4, DivisionOfDivision
  <2> QED  BY <2>1, <2>2, <2>3
<1>6. q \in Nat /\ q < half
  <2> DEFINE r == v % b
  <2>1. q \in Nat /\ r \in Nat /\ v = b * q + r
    BY <1>1, <1>4
  <2> HIDE DEF q, r, half, b
  <2>2. ASSUME half <= q PROVE FALSE
    <3>1. PICK c \in Nat : q = half + c
      <4>1. q - half \in Nat /\ q = half + (q - half)
        BY <2>1, <2>2, <1>2
      <4> QED  BY <4>1
    <3>2. b * q = half * b + b * c /\ b * c \in Nat /\ half * b \in Nat
      BY <3>1, <1>1, <1>2
    <3> QED  BY <3>2, <2>1, <1>4
  <2> QED  BY <2>1, <2>2, <1>2
<1>7. q % Fanout = q
  <2> HIDE DEF q, half
  <2>1. q = Fanout * 0 + q /\ q \in 0 .. Fanout - 1
    BY <1>1, <1>2, <1>6
  <2> QED  BY <2>1, <1>1, DivisionUnique
<1>8. IndexOf(v, 0) = q
  BY <1>3, <1>7 DEF IndexOf
<1>9. \A level \in 0 .. 3 : IndexOf(v, level) \in Index
  <2>1. ASSUME NEW n \in Nat PROVE n % Fanout \in Index
    BY <1>1 DEF Index
  <2>2. (v \div Fanout) \in Nat /\ ((v \div Fanout) \div Fanout) \in Nat
        /\ (((v \div Fanout) \div Fanout) \div Fanout) \in Nat
    BY <1>1, <1>4
  <2>3. \A level \in 0 .. 3 : level = 0 \/ level = 1 \/ level = 2 \/ level = 3
    OBVIOUS
  <2> HIDE DEF q, half, b
  <2> QED  BY <2>1, <2>2, <2>3, <1>4, IndexSteps
<1> HIDE DEF q, half, b
<1>10. IndexOf(v, 0) \in Indices(0)
  <2>1. q \in 0 .. (Fanout \div 2) - 1
    BY <1>6, <1>2 DEF half
  <2> QED  BY <2>1, <1>8 DEF Indices
<1> QED  BY <1>4, <1>5, <1>8, <1>9, <1>10

(* A page is found through its own indices only. *)
LEMMA IndexUnique ==
  ASSUME NEW v \in Page, NEW w \in Page, \A level \in 0 .. 3 : IndexOf(v, level) = IndexOf(w, level)
  PROVE  v = w
<1> DEFINE F == Fanout
<1>1. F \in Nat \ {0}
  BY FanoutAssumption
<1> HIDE DEF F
<1>2. v \in Nat /\ w \in Nat
  BY IndexRange
<1>3. ASSUME NEW a \in Nat, NEW b \in Nat, a % F = b % F, a \div F = b \div F PROVE a = b
  <2>1. a = F * (a \div F) + (a % F)
    BY <1>1, Division
  <2>2. b = F * (b \div F) + (b % F)
    BY <1>1, Division
  <2> QED  BY <2>1, <2>2, <1>3
<1>4. /\ v \div F \in Nat /\ w \div F \in Nat
      /\ (v \div F) \div F \in Nat /\ (w \div F) \div F \in Nat
  BY <1>1, <1>2
<1>5. ((v \div F) \div F) \div F = ((w \div F) \div F) \div F
  BY IndexRange DEF F
<1>6. /\ v % F = w % F /\ (v \div F) % F = (w \div F) % F
      /\ ((v \div F) \div F) % F = ((w \div F) \div F) % F
  BY <1>2, IndexSteps DEF F
<1>7. (v \div F) \div F = (w \div F) \div F
  BY <1>3, <1>4, <1>5, <1>6
<1>8. v \div F = w \div F
  BY <1>3, <1>4, <1>6, <1>7
<1> QED  BY <1>2, <1>3, <1>6, <1>8

LEMMA Bounds ==
  ASSUME NEW e \in Ends
  PROVE  /\ e \in Nat /\ e > 0 /\ Max(Ends) \in Nat /\ e <= Max(Ends)
         /\ Frame = 0 .. Max(Ends) - 1 /\ 0 .. e - 1 \subseteq Frame
         /\ NoFrame = Max(Ends) /\ NoFrame \notin Frame /\ Frame \subseteq Nat
<1>1. Max(Ends) \in Ends /\ \A x \in Ends : Max(Ends) >= x
  <2>1. \E g \in Ends : \A x \in Ends : g >= x
    BY MemoryAssumption
  <2> QED  BY <2>1 DEF Max
<1> DEFINE max == Max(Ends)
<1>2. max \in Ends /\ max >= e
  BY <1>1
<1>3. Frame = 0 .. max - 1 /\ NoFrame = max
  BY DEF Frame, NoFrame
<1> HIDE DEF max
<1>5. max \in Nat /\ e \in Nat /\ e > 0 /\ e <= max
  BY <1>2, MemoryAssumption
<1>4. 0 .. e - 1 \subseteq Frame /\ NoFrame \notin Frame /\ Frame \subseteq Nat
  BY <1>3, <1>5
<1> QED  BY <1>3, <1>4, <1>5 DEF max

LEMMA LayoutBounds ==
  ASSUME NEW l \in Layouts
  PROVE  /\ Load \in Nat /\ TextEnd(l) \in Nat /\ RodataEnd(l) \in Nat /\ End(l) \in Nat
         /\ Load >= Fanout \div 2 /\ Load < TextEnd(l) /\ TextEnd(l) < RodataEnd(l)
         /\ RodataEnd(l) < End(l) /\ MemMapPages \in Nat \ {0}
         /\ \A v \in Load .. End(l) + MemMapPages - 1 : v \in Page
<1>1. l \in [{Sections[k] : k \in 1 .. 3} -> Nat \ {0}]
  BY LayoutAssumption
<1>2. Sections[1] = "text" /\ Sections[2] = "rodata" /\ Sections[3] = "data"
  BY DEF Sections
<1>3. l["text"] \in Nat \ {0} /\ l["rodata"] \in Nat \ {0} /\ l["data"] \in Nat \ {0}
  BY <1>1, <1>2
<1>4. /\ Load \in Nat /\ TextEnd(l) \in Nat /\ RodataEnd(l) \in Nat /\ End(l) \in Nat
      /\ Load < TextEnd(l) /\ TextEnd(l) < RodataEnd(l) /\ RodataEnd(l) < End(l)
  BY <1>3, LayoutAssumption DEF TextEnd, RodataEnd, End
<1>5. MemMapPages \in Nat \ {0}
  BY MemoryAssumption
<1>6. \A v \in Load .. End(l) + MemMapPages - 1 : v \in Page
  <2> DEFINE top == (Fanout \div 2) * Below[1] - 1
             last == End(l) + MemMapPages - 1
  <2>1. last \in 0 .. top /\ Page = 0 .. top
    BY AddressAssumption DEF Page
  <2>2. last \in Nat
    BY <1>4, <1>5
  <2> HIDE DEF top, last
  <2>3. ASSUME NEW v \in Load .. last PROVE v \in 0 .. top
    <3>1. top \in Int
      BY <2>1, FanoutAssumption DEF top, Below
    <3> QED  BY <2>1, <2>2, <1>4, <3>1
  <2> QED  BY <2>3, <2>1 DEF last
<1> QED  BY <1>4, <1>5, <1>6, LayoutAssumption

-----------------------------------------------------------------------------
(***************************************************************************)
(* The tree of the page tables.                                            *)
(***************************************************************************)
Memory == [table : [Frame -> [Index -> Entry]],
           last : 0 .. end - 1, at : 0 .. end - 1, halt : {"no", "panic"}]

(* What the walk of Translate finds in memory m, level by level. *)
In(m, f, v, k) ==
  IF f = NoFrame THEN f
  ELSE LET e == m.table[f][IndexOf(v, k)]
       IN IF e.kind = "invalid" THEN NoFrame ELSE e.frame
Table1(m, v) == In(m, root, v, 0)
Table2(m, v) == In(m, Table1(m, v), v, 1)
Table3(m, v) == In(m, Table2(m, v), v, 2)
Leaf(m, v) == m.table[Table3(m, v)][IndexOf(v, 3)]
Translated(m, v) ==
  IF Table3(m, v) = NoFrame \/ Leaf(m, v).kind = "invalid" THEN Unmapped
  ELSE [frame |-> Leaf(m, v).frame, flags |-> Leaf(m, v).flags]

(* Each frame is a table of one level, 0 to 3, or none; a table but the     *)
(* root is reached through one entry only, up; the frames that are no       *)
(* tables hold no valid entry.                                              *)
Linked(m, level, up, f, k) ==
  \A i \in Indices(k) :
    LET e == m.table[f][i]
    IN e.kind # "invalid" => /\ e.kind = "table"
                             /\ level[e.frame] = k + 1 /\ up[e.frame] = <<f, i>>
Mapping(m, level, f) ==
  \A i \in Index :
    LET e == m.table[f][i]
    IN e.kind # "invalid" => e.frame < root \/ (level[e.frame] = 4 /\ e.frame <= m.last)
Tree(m, level, up) ==
  /\ root \in 0 .. m.last
  /\ level \in [Frame -> 0 .. 4] /\ up \in [Frame -> Nat \X Nat]
  /\ \A f \in Frame : level[f] = 0 <=> f = root
  /\ \A f \in Frame : level[f] \in 1 .. 3 => f \in root + 1 .. m.last
  /\ \A f \in Frame, k \in 0 .. 2 : level[f] = k => Linked(m, level, up, f, k)
  /\ \A f \in Frame : level[f] = 3 => Mapping(m, level, f)
  /\ \A f \in Frame : level[f] = 4 => \A i \in Index : m.table[f][i].kind = "invalid"

(* m and n translate every page alike. *)
SameTranslations(m, n) == \A w \in Page : Translated(n, w) = Translated(m, w)

LEMMA MemoryTypes ==
  ASSUME end \in Ends, NEW m \in Memory, NEW f \in Frame, NEW i \in Index
  PROVE  /\ m.table \in [Frame -> [Index -> Entry]] /\ m.last \in 0 .. end - 1
         /\ m.at \in Frame /\ m.last \in Frame
         /\ m.table[f][i] \in Entry /\ m.table[f][i].frame \in Frame
         /\ m.table[f][i].flags \in {NoFlags} \cup {Flags(prot) : prot \in Prot}
<1>1. m.table \in [Frame -> [Index -> Entry]] /\ m.last \in 0 .. end - 1 /\ m.at \in 0 .. end - 1
  BY DEF Memory
<1>2. m.table[f][i] \in Entry
  BY <1>1
<1> QED  BY <1>1, <1>2, Bounds DEF Entry

LEMMA TreeBounds ==
  ASSUME end \in Ends, NEW m \in Memory, NEW level, NEW up, Tree(m, level, up)
  PROVE  /\ root \in Nat /\ m.last \in Nat /\ root <= m.last /\ m.last < end
         /\ root \in Frame /\ m.last \in Frame /\ level[root] = 0
         /\ \A f \in Frame : f > m.last => level[f] = 4
<1>1. m.last \in 0 .. end - 1 /\ root \in 0 .. m.last /\ end \in Nat
  BY Bounds DEF Memory, Tree
<1>2. root \in 0 .. end - 1
  BY <1>1
<1>3. root \in Frame /\ m.last \in Frame /\ Frame \subseteq Nat
  BY <1>1, <1>2, Bounds
<1>4. ASSUME NEW f \in Frame, f > m.last PROVE level[f] = 4
  <2>1. f \notin root + 1 .. m.last /\ f # root
    BY <1>1, <1>3, <1>4
  <2> QED  BY <2>1 DEF Tree
<1> QED  BY <1>1, <1>3, <1>4 DEF Tree

(* Walking along a tree. *)
LEMMA Paths ==
  ASSUME end \in Ends, NEW m \in Memory, NEW level, NEW up, Tree(m, level, up), NEW v \in Page
  PROVE  /\ Table1(m, v) # NoFrame =>
              /\ Table1(m, v) \in Frame /\ level[Table1(m, v)] = 1
              /\ up[Table1(m, v)] = <<root, IndexOf(v, 0)>>
         /\ Table2(m, v) # NoFrame =>
              /\ Table1(m, v) # NoFrame
              /\ Table2(m, v) \in Frame /\ level[Table2(m, v)] = 2
              /\ up[Table2(m, v)] = <<Table1(m, v), IndexOf(v, 1)>>
         /\ Table3(m, v) # NoFrame =>
              /\ Table2(m, v) # NoFrame
              /\ Table3(m, v) \in Frame /\ level[Table3(m, v)] = 3
              /\ up[Table3(m, v)] = <<Table2(m, v), IndexOf(v, 2)>>
<1>1. ASSUME NEW f \in Frame, NEW k \in 0 .. 2, level[f] = k, In(m, f, v, k) # NoFrame
      PROVE  /\ In(m, f, v, k) \in Frame /\ level[In(m, f, v, k)] = k + 1
             /\ up[In(m, f, v, k)] = <<f, IndexOf(v, k)>>
  <2>1. IndexOf(v, k) \in Index /\ IndexOf(v, k) \in Indices(k)
    BY IndexRange DEF Indices
  <2>2. f # NoFrame
    BY Bounds
  <2>3. In(m, f, v, k) = m.table[f][IndexOf(v, k)].frame
        /\ m.table[f][IndexOf(v, k)].kind # "invalid"
    BY <1>1, <2>2 DEF In
  <2>4. Linked(m, level, up, f, k)
    BY <1>1 DEF Tree
  <2> QED  BY <2>1, <2>3, <2>4, MemoryTypes DEF Linked
<1>2. root \in Frame /\ level[root] = 0
  <2>1. root \in Frame
    BY Bounds DEF Tree, Memory
  <2> QED  BY <2>1 DEF Tree
<1>3. ASSUME NEW f, NEW k, In(m, f, v, k) # NoFrame PROVE f # NoFrame
  BY <1>3 DEF In
<1>4. Table1(m, v) # NoFrame =>
        /\ Table1(m, v) \in Frame /\ level[Table1(m, v)] = 1
        /\ up[Table1(m, v)] = <<root, IndexOf(v, 0)>>
  BY <1>1, <1>2 DEF Table1
<1>5. Table2(m, v) # NoFrame =>
        /\ Table1(m, v) # NoFrame
        /\ Table2(m, v) \in Frame /\ level[Table2(m, v)] = 2
        /\ up[Table2(m, v)] = <<Table1(m, v), IndexOf(v, 1)>>
  BY <1>1, <1>3, <1>4 DEF Table2
<1>6. Table3(m, v) # NoFrame =>
        /\ Table2(m, v) # NoFrame
        /\ Table3(m, v) \in Frame /\ level[Table3(m, v)] = 3
        /\ up[Table3(m, v)] = <<Table2(m, v), IndexOf(v, 2)>>
  BY <1>1, <1>3, <1>5 DEF Table3
<1> QED  BY <1>4, <1>5, <1>6

(***************************************************************************)
(* mmu_map.                                                                *)
(***************************************************************************)
(* The first entry that a walk has to make leads to a new table: g[i] of m *)
(* is invalid, and n is m with a new table f behind it.                    *)
Grown(m, n, g, i, f) ==
  /\ f = m.last + 1 /\ n.last = f
  /\ n.table = [m.table EXCEPT ![g][i] = TableEntry(f)]

LEMMA Walk ==
  ASSUME end \in Ends, NEW m \in Memory, m.halt = "no", NEW level, NEW up, Tree(m, level, up),
         NEW v \in Page, NEW k \in 0 .. 2, level[m.at] = k
  PROVE  LET n == WalkOrCreate(m, v, k)
             i == IndexOf(v, k)
             e == m.table[m.at][i]
         IN /\ n \in Memory
            /\ \/ /\ n.halt = "panic" /\ n.table = m.table /\ n.last = m.last
               \/ /\ n.halt = "no" /\ e.kind # "invalid"
                  /\ n.table = m.table /\ n.last = m.last /\ n.at = e.frame
                  /\ level[n.at] = k + 1
               \/ /\ n.halt = "no" /\ e.kind = "invalid"
                  /\ Grown(m, n, m.at, i, m.last + 1) /\ n.at = m.last + 1
<1> DEFINE n == WalkOrCreate(m, v, k)
           i == IndexOf(v, k)
           e == m.table[m.at][i]
           f == m.last + 1
<1>1. i \in Index /\ i \in Indices(k) /\ m.at \in Frame
  BY IndexRange, Bounds DEF Memory, Indices
<1>2. e \in Entry
  BY <1>1, MemoryTypes
<1>3. m.last \in Nat /\ m.last < end /\ end \in Nat
  BY Bounds DEF Memory
<1>4. CASE e.kind # "invalid"
  <2>1. e.kind = "table" /\ level[e.frame] = k + 1
    BY SMTT(30), <1>1, <1>4 DEF Tree, Linked
  <2>2. e.frame \in Frame
    BY <1>2 DEF Entry
  <2>3. e.frame \in root + 1 .. m.last
    BY <2>1, <2>2 DEF Tree
  <2>4. e.frame \in 0 .. end - 1
    BY <2>3, <1>3 DEF Tree
  <2>5. n = [m EXCEPT !.at = e.frame, !.halt = "no"]
    BY <1>4, <2>1 DEF WalkOrCreate
  <2>6. n \in Memory
    BY <2>4, <2>5 DEF Memory
  <2>7. n.halt = "no" /\ n.table = m.table /\ n.last = m.last /\ n.at = e.frame
    BY <2>5 DEF Memory
  <2> QED  BY <1>4, <2>1, <2>6, <2>7
<1>5. CASE e.kind = "invalid" /\ ~ (f < end)
  <2> DEFINE a == [m EXCEPT !.halt = "panic"]
  <2>3. Allocate(m) = a /\ a.halt # "no"
    BY <1>5 DEF Allocate, Memory
  <2>1. n = a
    BY <1>5, <2>3 DEF WalkOrCreate
  <2>2. n \in Memory /\ n.halt = "panic" /\ n.table = m.table /\ n.last = m.last
    BY <2>1 DEF Memory
  <2> QED  BY <2>2
<1>6. CASE e.kind = "invalid" /\ f < end
  <2> DEFINE a == [m EXCEPT !.last = f]
  <2>1. a = [table |-> m.table, last |-> f, at |-> m.at, halt |-> "no"]
    BY DEF Memory
  <2>2. Allocate(m) = a
    BY <1>6, <1>3 DEF Allocate, Memory
  <2>3. n = [a EXCEPT !.table[m.at][i] = TableEntry(f), !.at = f]
    BY <1>6, <2>1, <2>2 DEF WalkOrCreate
  <2> HIDE DEF a, i, n
  <2>4. n = [table |-> [m.table EXCEPT ![m.at][i] = TableEntry(f)],
             last |-> f, at |-> f, halt |-> "no"]
    BY <2>1, <2>3
  <2>10. f \in 0 .. end - 1
    BY <1>3, <1>6
  <2>5. f \in 0 .. end - 1 /\ f \in Frame
    BY <2>10, Bounds
  <2>6. TableEntry(f) \in Entry
    BY <2>5 DEF TableEntry, Entry
  <2>7. [m.table EXCEPT ![m.at][i] = TableEntry(f)] \in [Frame -> [Index -> Entry]]
    BY <2>6, <1>1 DEF Memory
  <2>8. n \in Memory
    BY <2>4, <2>5, <2>7 DEF Memory
  <2>9. Grown(m, n, m.at, i, f) /\ n.halt = "no" /\ n.at = f
    BY <2>4 DEF Grown
  <2> QED  BY <1>6, <2>8, <2>9 DEF n, i
<1> QED  BY <1>4, <1>5, <1>6

(* Such a table keeps the tree: it is in a frame that was no table.         *)
LEMMA GrownTree ==
  ASSUME end \in Ends, NEW m \in Memory, NEW n \in Memory, NEW level, NEW up, Tree(m, level, up),
         NEW g \in Frame, NEW k \in 0 .. 2, level[g] = k, NEW i \in Index, Grown(m, n, g, i, m.last + 1)
  PROVE  Tree(n, [level EXCEPT ![m.last + 1] = k + 1], [up EXCEPT ![m.last + 1] = <<g, i>>])
<1> DEFINE f == m.last + 1
           newLevel == [level EXCEPT ![f] = k + 1]
           newUp == [up EXCEPT ![f] = <<g, i>>]
<1>1. m.last \in Nat /\ f \in Frame /\ n.last = f /\ g \in Nat /\ i \in Nat /\ root \in Nat
  BY Bounds DEF Memory, Grown, Index, Tree
<1>2. level[f] = 4 /\ root # f /\ f # g
  BY <1>1 DEF Tree
<1>3. newLevel \in [Frame -> 0 .. 4] /\ newUp \in [Frame -> Nat \X Nat]
  BY <1>1 DEF Tree
<1>4. \A h \in Frame : newLevel[h] = IF h = f THEN k + 1 ELSE level[h]
  BY <1>1 DEF Tree
<1>5. \A h \in Frame : newUp[h] = IF h = f THEN <<g, i>> ELSE up[h]
  BY <1>1 DEF Tree
<1>6. \A h \in Frame, j \in Index :
        n.table[h][j] = IF h = g /\ j = i THEN TableEntry(f) ELSE m.table[h][j]
  BY DEF Grown, Memory
<1>7. \A h \in Frame, j \in Index : m.table[h][j].frame \in Frame
  BY MemoryTypes
<1> HIDE DEF f, newLevel, newUp
<1>8. \A k2 \in 0 .. 2 : Indices(k2) \subseteq Index
  BY FanoutAssumption DEF Indices, Index
<1>9. root \in 0 .. n.last
  BY <1>1 DEF Tree, f
<1>10. \A h \in Frame : newLevel[h] = 0 <=> h = root
  BY <1>2, <1>4 DEF Tree
<1>11. \A h \in Frame : newLevel[h] \in 1 .. 3 => h \in root + 1 .. n.last
  <2>1. f \in root + 1 .. n.last
    BY <1>1 DEF f, Tree
  <2>2. \A h \in root + 1 .. m.last : h \in root + 1 .. n.last
    BY <1>1 DEF f
  <2> QED  BY <2>1, <2>2, <1>4 DEF Tree
<1>12. ASSUME NEW h \in Frame, NEW k2 \in 0 .. 2, newLevel[h] = k2
       PROVE  Linked(n, newLevel, newUp, h, k2)
  <2> SUFFICES ASSUME NEW j \in Indices(k2), n.table[h][j].kind # "invalid"
               PROVE  /\ n.table[h][j].kind = "table"
                      /\ newLevel[n.table[h][j].frame] = k2 + 1
                      /\ newUp[n.table[h][j].frame] = <<h, j>>
    BY DEF Linked
  <2>0. j \in Index
    BY <1>8
  <2>1. CASE h = f
    <3>1. m.table[h][j].kind = "invalid"
      BY <2>1, <2>0, <1>1, <1>2 DEF Tree
    <3> QED  BY <3>1, <2>1, <2>0, <1>2, <1>6
  <2>2. CASE h = g /\ j = i
    <3>1. n.table[h][j].kind = "table" /\ n.table[h][j].frame = f
      BY <2>2, <1>6 DEF TableEntry
    <3>2. k2 = k
      BY <2>2, <1>2, <1>4, <1>12
    <3> QED  BY <3>1, <3>2, <2>2, <1>1, <1>4, <1>5
  <2>3. CASE h # f /\ ~ (h = g /\ j = i)
    <3> DEFINE e == m.table[h][j]
    <3>1. n.table[h][j] = e
      BY <2>0, <2>3, <1>6
    <3>2. level[h] = k2
      BY <2>3, <1>4, <1>12
    <3>5. Linked(m, level, up, h, k2)
      BY <3>2 DEF Tree
    <3>3. e.kind = "table" /\ level[e.frame] = k2 + 1 /\ up[e.frame] = <<h, j>>
      BY <3>1, <3>5 DEF Linked
    <3>4. e.frame \in Frame /\ e.frame # f
      BY <3>3, <2>0, <1>2, <1>7
    <3> QED  BY <3>1, <3>3, <3>4, <1>4, <1>5
  <2> QED  BY <2>1, <2>2, <2>3
<1>13. ASSUME NEW h \in Frame, newLevel[h] = 3 PROVE Mapping(n, newLevel, h)
  <2> SUFFICES ASSUME NEW j \in Index, n.table[h][j].kind # "invalid"
               PROVE  LET x == n.table[h][j].frame
                      IN x < root \/ (newLevel[x] = 4 /\ x <= n.last)
    BY DEF Mapping
  <2>1. CASE h = f
    <3>1. m.table[h][j].kind = "invalid"
      BY <2>1, <1>1, <1>2 DEF Tree
    <3> QED  BY <3>1, <2>1, <1>2, <1>6
  <2>2. CASE h # f
    <3> DEFINE x == m.table[h][j].frame
    <3>1. level[h] = 3 /\ h # g
      BY <2>2, <1>4, <1>13
    <3>2. n.table[h][j] = m.table[h][j]
      BY <3>1, <1>6
    <3>3. x < root \/ (level[x] = 4 /\ x <= m.last)
      BY <3>1, <3>2 DEF Tree, Mapping
    <3>4. x \in Frame /\ x \in Nat
      BY <1>7, Bounds
    <3>5. x < root \/ (newLevel[x] = 4 /\ x <= n.last)
      BY <3>3, <3>4, <1>1, <1>4 DEF f
    <3> QED  BY <3>2, <3>5
  <2> QED  BY <2>1, <2>2
<1>14. ASSUME NEW h \in Frame, newLevel[h] = 4, NEW j \in Index
       PROVE  n.table[h][j].kind = "invalid"
  <2>1. h # f /\ level[h] = 4
    BY <1>4, <1>14
  <2>2. h # g
    BY <2>1
  <2> QED  BY <2>1, <2>2, <1>6 DEF Tree
<1>15. Tree(n, newLevel, newUp)
  BY <1>3, <1>9, <1>10, <1>11, <1>12, <1>13, <1>14 DEF Tree
<1> QED  BY <1>15 DEF newLevel, newUp, f
(* It is empty, so that nothing new is found behind it.                     *)
LEMMA GrownPaths ==
  ASSUME end \in Ends, NEW m \in Memory, NEW n \in Memory, NEW level, NEW up, Tree(m, level, up),
         NEW g \in Frame, NEW k \in 0 .. 2, level[g] = k, NEW i \in Index,
         m.table[g][i].kind = "invalid", Grown(m, n, g, i, m.last + 1)
  PROVE  /\ SameTranslations(m, n)
         /\ \A w \in Page : /\ k >= 1 => Table1(n, w) = Table1(m, w)
                            /\ k >= 2 => Table2(n, w) = Table2(m, w)
<1> DEFINE f == m.last + 1
<1>0. f \in 0 .. end - 1 /\ f > m.last
  BY TreeBounds DEF Memory, Grown
<1>1. f \in Frame /\ root \in Frame /\ f # NoFrame /\ g # NoFrame /\ root # NoFrame
  <2>1. f \in Frame
    BY <1>0, Bounds
  <2> QED  BY <2>1, TreeBounds, Bounds
<1>2. level[f] = 4 /\ level[root] = 0
  BY <1>0, <1>1, TreeBounds
<1>3. \A h \in Frame, j \in Index :
        n.table[h][j] = IF h = g /\ j = i THEN TableEntry(f) ELSE m.table[h][j]
  BY DEF Grown, Memory
<1> HIDE DEF f
<1> SUFFICES ASSUME NEW w \in Page
             PROVE  /\ Translated(n, w) = Translated(m, w)
                    /\ k >= 1 => Table1(n, w) = Table1(m, w)
                    /\ k >= 2 => Table2(n, w) = Table2(m, w)
  BY DEF SameTranslations
<1> DEFINE t1 == Table1(m, w)
           t2 == Table2(m, w)
           t3 == Table3(m, w)
<1>4. \A l \in 0 .. 3 : IndexOf(w, l) \in Index
  BY IndexRange
<1>5. /\ t1 # NoFrame => t1 \in Frame /\ level[t1] = 1
      /\ t2 # NoFrame => t2 \in Frame /\ level[t2] = 2
      /\ t3 # NoFrame => t3 \in Frame /\ level[t3] = 3
  BY Paths
<1>6. ASSUME NEW h \in Frame \cup {NoFrame}, NEW l \in 0 .. 2, ~ (h = g /\ IndexOf(w, l) = i)
      PROVE  In(n, h, w, l) = In(m, h, w, l)
  BY <1>3, <1>4, <1>6 DEF In
<1>7. ASSUME NEW l \in 0 .. 2, IndexOf(w, l) = i
      PROVE  In(n, g, w, l) = f /\ In(m, g, w, l) = NoFrame
  BY <1>1, <1>3, <1>7 DEF In, TableEntry
<1>8. ASSUME NEW j \in Index PROVE n.table[f][j].kind = "invalid"
  <2>1. f # g /\ m.table[f][j].kind = "invalid"
    BY <1>1, <1>2 DEF Tree
  <2> QED  BY <2>1, <1>1, <1>3
<1>9. ASSUME NEW l \in 0 .. 2 PROVE In(n, f, w, l) = NoFrame
  BY <1>1, <1>4, <1>8 DEF In
<1>10. ASSUME NEW v, NEW l \in 0 .. 2 PROVE In(n, NoFrame, w, l) = NoFrame /\ In(m, NoFrame, w, l) = NoFrame
  BY DEF In
(* Where the third table is the same, the translation is. *)
<1>11. ASSUME Table3(n, w) = t3 PROVE Translated(n, w) = Translated(m, w)
  <2>1. CASE t3 = NoFrame
    BY <2>1, <1>11 DEF Translated
  <2>2. CASE t3 # NoFrame
    <3>1. t3 \in Frame /\ t3 # g
      BY <2>2, <1>5
    <3>2. Leaf(n, w) = Leaf(m, w)
      BY <3>1, <1>3, <1>4, <1>11 DEF Leaf
    <3> QED  BY <3>2, <1>11 DEF Translated
  <2> QED  BY <2>1, <2>2
(* Where the walk ended at the entry, it finds nothing behind it either. *)
<1>12. ASSUME Table3(n, w) \in {f, NoFrame}, t3 = NoFrame PROVE Translated(n, w) = Translated(m, w)
  <2>1. CASE Table3(n, w) = f
    BY <2>1, <1>4, <1>8, <1>12 DEF Translated, Leaf
  <2>2. CASE Table3(n, w) = NoFrame
    BY <2>2, <1>12 DEF Translated
  <2> QED  BY <2>1, <2>2, <1>12
<1>13. CASE k = 0
  <2>1. g = root
    BY <1>13 DEF Tree
  <2>2. CASE IndexOf(w, 0) = i
    <3>1. Table1(n, w) = f /\ t1 = NoFrame
      BY <2>1, <2>2, <1>7 DEF Table1
    <3>2. Table2(n, w) = NoFrame /\ t2 = NoFrame
      BY <3>1, <1>9 DEF Table2, In
    <3>3. Table3(n, w) = NoFrame /\ t3 = NoFrame
      BY <3>2 DEF Table3, In
    <3> QED  BY <3>3, <1>12, <1>13
  <2>3. CASE IndexOf(w, 0) # i
    <3>1. Table1(n, w) = t1
      BY <2>3, <1>1, <1>6 DEF Table1
    <3>2. t1 \in Frame \cup {NoFrame} /\ t1 # g
      BY <1>1, <1>5, <1>13
    <3>3. Table2(n, w) = t2
      BY <3>1, <3>2, <1>6 DEF Table2
    <3>4. t2 \in Frame \cup {NoFrame} /\ t2 # g
      BY <1>1, <1>5, <1>13
    <3>5. Table3(n, w) = t3
      BY <3>3, <3>4, <1>6 DEF Table3
    <3> QED  BY <3>5, <1>11, <1>13
  <2> QED  BY <2>2, <2>3
<1>14. CASE k = 1
  <2>1. Table1(n, w) = t1
    BY <1>1, <1>2, <1>6, <1>14 DEF Table1
  <2>2. CASE t1 = g /\ IndexOf(w, 1) = i
    <3>1. Table2(n, w) = f /\ t2 = NoFrame
      BY <2>1, <2>2, <1>7 DEF Table2
    <3>2. Table3(n, w) = NoFrame /\ t3 = NoFrame
      BY <3>1, <1>9 DEF Table3, In
    <3> QED  BY <2>1, <3>2, <1>12, <1>14
  <2>3. CASE ~ (t1 = g /\ IndexOf(w, 1) = i)
    <3>1. t1 \in Frame \cup {NoFrame}
      BY <1>5
    <3>2. Table2(n, w) = t2
      BY <2>1, <2>3, <3>1, <1>6 DEF Table2
    <3>3. t2 \in Frame \cup {NoFrame} /\ t2 # g
      BY <1>1, <1>5, <1>14
    <3>4. Table3(n, w) = t3
      BY <3>2, <3>3, <1>6 DEF Table3
    <3> QED  BY <2>1, <3>4, <1>11, <1>14
  <2> QED  BY <2>2, <2>3
<1>15. CASE k = 2
  <2>1. Table1(n, w) = t1
    BY <1>1, <1>2, <1>6, <1>15 DEF Table1
  <2>2. t1 \in Frame \cup {NoFrame} /\ t1 # g
    BY <1>1, <1>5, <1>15
  <2>3. Table2(n, w) = t2
    BY <2>1, <2>2, <1>6 DEF Table2
  <2>4. CASE t2 = g /\ IndexOf(w, 2) = i
    <3>1. Table3(n, w) = f /\ t3 = NoFrame
      BY <2>3, <2>4, <1>7 DEF Table3
    <3> QED  BY <2>1, <2>3, <3>1, <1>12
  <2>5. CASE ~ (t2 = g /\ IndexOf(w, 2) = i)
    <3>1. t2 \in Frame \cup {NoFrame}
      BY <1>5
    <3>2. Table3(n, w) = t3
      BY <2>3, <2>5, <3>1, <1>6 DEF Table3
    <3> QED  BY <2>1, <2>3, <3>2, <1>11
  <2> QED  BY <2>4, <2>5
<1>16. k = 0 \/ k = 1 \/ k = 2
  OBVIOUS
<1> QED  BY <1>13, <1>14, <1>15, <1>16
(* Only the tables and the last frame matter to the tree.                   *)
LEMMA SameTables ==
  ASSUME NEW m, NEW n, n.table = m.table, NEW v
  PROVE  /\ Table1(n, v) = Table1(m, v) /\ Table2(n, v) = Table2(m, v)
         /\ Table3(n, v) = Table3(m, v) /\ Translated(n, v) = Translated(m, v)
<1>1. ASSUME NEW f, NEW k PROVE In(n, f, v, k) = In(m, f, v, k)
  BY DEF In
<1>2. Table1(n, v) = Table1(m, v)
  BY <1>1 DEF Table1
<1>3. Table2(n, v) = Table2(m, v)
  BY <1>1, <1>2 DEF Table2
<1>4. Table3(n, v) = Table3(m, v)
  BY <1>1, <1>3 DEF Table3
<1>5. Leaf(n, v) = Leaf(m, v)
  BY <1>4 DEF Leaf
<1> QED  BY <1>2, <1>3, <1>4, <1>5 DEF Translated

LEMMA SameTree ==
  ASSUME NEW m, NEW n, n.table = m.table, n.last = m.last, NEW level, NEW up, Tree(m, level, up)
  PROVE  Tree(n, level, up)
<1>1. \A f, k : Linked(n, level, up, f, k) <=> Linked(m, level, up, f, k)
  BY DEF Linked
<1>2. \A f : Mapping(n, level, f) <=> Mapping(m, level, f)
  BY DEF Mapping
<1> QED  BY <1>1, <1>2 DEF Tree

(* The table of page v at a level. *)
TableOf(m, v, k) ==
  IF k = 0 THEN root ELSE IF k = 1 THEN Table1(m, v) ELSE IF k = 2 THEN Table2(m, v) ELSE Table3(m, v)

(* n is m with more tables: it maps the same pages to the same frames. *)
Extends(m, n, level, newLevel, newUp) ==
  /\ n \in Memory /\ m.last <= n.last
  /\ SameTranslations(m, n)
  /\ Tree(n, newLevel, newUp)
  /\ \A g \in Frame : g <= m.last => newLevel[g] = level[g]

LEMMA WalkStep ==
  ASSUME end \in Ends, NEW m \in Memory, m.halt = "no", NEW level, NEW up, Tree(m, level, up),
         NEW v \in Page, NEW k \in 0 .. 2, level[m.at] = k, m.at = TableOf(m, v, k),
         NEW n, n = WalkOrCreate(m, v, k)
  PROVE  \E newLevel, newUp :
           /\ Extends(m, n, level, newLevel, newUp)
           /\ n.halt = "no" => newLevel[n.at] = k + 1 /\ n.at = TableOf(n, v, k + 1)
<1> DEFINE i == IndexOf(v, k)
           e == m.table[m.at][i]
           f == m.last + 1
<1>1. m.at \in Frame /\ i \in Index /\ m.at # NoFrame
  BY IndexRange, Bounds DEF Memory
<1>2. m.last \in Nat
  BY TreeBounds
<1>3. ASSUME NEW x PROVE TableOf(x, v, k + 1) = In(x, TableOf(x, v, k), v, k)
  <2>1. k = 0 \/ k = 1 \/ k = 2
    OBVIOUS
  <2> QED  BY <2>1 DEF TableOf, Table1, Table2, Table3
<1>4. n \in Memory
  BY Walk
<1>5. CASE n.halt = "panic" /\ n.table = m.table /\ n.last = m.last
  <2>1. SameTranslations(m, n)
    BY <1>5, SameTables DEF SameTranslations
  <2>2. Tree(n, level, up)
    BY <1>5, SameTree
  <2>3. Extends(m, n, level, level, up)
    BY <1>2, <1>4, <1>5, <2>1, <2>2 DEF Extends
  <2> QED  BY <2>3, <1>5
<1>6. CASE /\ n.halt = "no" /\ e.kind # "invalid"
           /\ n.table = m.table /\ n.last = m.last /\ n.at = e.frame /\ level[n.at] = k + 1
  <2>1. SameTranslations(m, n)
    BY <1>6, SameTables DEF SameTranslations
  <2>2. Tree(n, level, up)
    BY <1>6, SameTree
  <2>3. Extends(m, n, level, level, up)
    BY <1>2, <1>4, <1>6, <2>1, <2>2 DEF Extends
  <2>4. TableOf(n, v, k) = m.at
    BY <1>6, SameTables DEF TableOf
  <2>5. n.at = TableOf(n, v, k + 1)
    BY <1>1, <1>3, <1>6, <2>4 DEF In
  <2> QED  BY <2>3, <2>5, <1>6
<1>7. CASE n.halt = "no" /\ e.kind = "invalid" /\ Grown(m, n, m.at, i, f) /\ n.at = f
  <2> DEFINE newLevel == [level EXCEPT ![f] = k + 1]
             newUp == [up EXCEPT ![f] = <<m.at, i>>]
  <2>1. Tree(n, newLevel, newUp)
    BY <1>1, <1>4, <1>7, GrownTree
  <2>2. /\ SameTranslations(m, n)
        /\ \A w \in Page : /\ k >= 1 => Table1(n, w) = Table1(m, w)
                           /\ k >= 2 => Table2(n, w) = Table2(m, w)
    BY <1>1, <1>4, <1>7, GrownPaths
  <2>3. level \in [Frame -> 0 .. 4] /\ Frame \subseteq Nat /\ f \in Frame /\ n.last = f
    BY SMTT(30), <1>4, <1>7, TreeBounds, Bounds DEF Tree, Grown, Memory
  <2>4. \A g \in Frame : g <= m.last => newLevel[g] = level[g]
    BY <2>3, <1>2
  <2>5. newLevel[f] = k + 1
    BY <2>3
  <2>6. Extends(m, n, level, newLevel, newUp)
    BY <2>1, <2>2, <2>3, <2>4, <1>2, <1>4 DEF Extends
  <2>7. TableOf(n, v, k) = m.at
    <3>1. k = 0 \/ k = 1 \/ k = 2
      OBVIOUS
    <3> QED  BY <3>1, <2>2 DEF TableOf
  <2>8. n.table[m.at][i] = TableEntry(f)
    BY <1>1, <1>7 DEF Grown, Memory
  <2>9. n.at = TableOf(n, v, k + 1)
    BY <2>7, <2>8, <1>1, <1>3, <1>7 DEF In, TableEntry
  <2> QED  BY <2>5, <2>6, <2>9, <1>7
<1> QED
  <2>1. \/ <1>5!1 \/ <1>6!1 \/ <1>7!1
    BY Walk
  <2> QED  BY <2>1, <1>5, <1>6, <1>7
(* The entry of a page that is written translates this page and no other,   *)
(* as there is one way to it.                                               *)
LEMMA StorePage ==
  ASSUME end \in Ends, NEW m \in Memory, NEW level, NEW up, Tree(m, level, up),
         NEW v \in Page, m.at = Table3(m, v), level[m.at] = 3,
         NEW x \in Frame, x < root \/ (level[x] = 4 /\ x <= m.last), NEW prot \in Prot,
         NEW n, n = [m EXCEPT !.table[m.at][IndexOf(v, 3)] = PageEntry(x, prot)]
  PROVE  /\ n \in Memory /\ n.last = m.last /\ n.halt = m.halt /\ Tree(n, level, up)
         /\ Translated(n, v) = [frame |-> x, flags |-> Flags(prot)]
         /\ \A w \in Page \ {v} : Translated(n, w) = Translated(m, w)
<1> DEFINE i == IndexOf(v, 3)
           e == PageEntry(x, prot)
<1>1. m.at \in Frame /\ i \in Index /\ m.at # NoFrame
  BY IndexRange, Bounds DEF Memory
<1>2. e \in Entry /\ e.kind = "table" /\ e.frame = x /\ e.flags = Flags(prot)
  BY DEF Entry, PageEntry
<1> HIDE DEF e
<1>3. n = [table |-> [m.table EXCEPT ![m.at][i] = e], last |-> m.last, at |-> m.at, halt |-> m.halt]
  BY DEF Memory, e
<1>4. n \in Memory /\ n.last = m.last /\ n.halt = m.halt
  <2> DEFINE tables == [m.table EXCEPT ![m.at][i] = e]
  <2>1. tables \in [Frame -> [Index -> Entry]]
    BY <1>1, <1>2 DEF Memory
  <2>2. m.last \in 0 .. end - 1 /\ m.at \in 0 .. end - 1 /\ m.halt \in {"no", "panic"}
    BY DEF Memory
  <2>3. n = [table |-> tables, last |-> m.last, at |-> m.at, halt |-> m.halt]
    BY <1>3
  <2> HIDE DEF tables
  <2>4. [table |-> tables, last |-> m.last, at |-> m.at, halt |-> m.halt] \in Memory
    BY <2>1, <2>2 DEF Memory
  <2> QED  BY <2>3, <2>4
<1>5. \A h \in Frame, j \in Index :
        n.table[h][j] = IF h = m.at /\ j = i THEN e ELSE m.table[h][j]
  BY <1>1, <1>3 DEF Memory
<1> HIDE DEF i
<1>6. Tree(n, level, up)
  <2>1. ASSUME NEW h \in Frame, NEW k \in 0 .. 2, level[h] = k PROVE Linked(n, level, up, h, k)
    <3>1. h # m.at
      BY <2>1
    <3>2. Indices(k) \subseteq Index
      BY FanoutAssumption DEF Indices, Index
    <3>3. Linked(m, level, up, h, k)
      BY <2>1 DEF Tree
    <3> QED  BY <3>1, <3>2, <3>3, <1>5 DEF Linked
  <2>2. ASSUME NEW h \in Frame, level[h] = 3 PROVE Mapping(n, level, h)
    <3>1. Mapping(m, level, h)
      BY <2>2 DEF Tree
    <3> QED  BY <3>1, <1>2, <1>4, <1>5 DEF Mapping
  <2>3. ASSUME NEW h \in Frame, level[h] = 4, NEW j \in Index PROVE n.table[h][j].kind = "invalid"
    <3>1. h # m.at
      BY <2>3
    <3> QED  BY <3>1, <2>3, <1>5 DEF Tree
  <2> QED  BY <2>1, <2>2, <2>3, <1>4 DEF Tree
<1>7. ASSUME NEW w \in Page
      PROVE  /\ Table1(n, w) = Table1(m, w) /\ Table2(n, w) = Table2(m, w)
             /\ Table3(n, w) = Table3(m, w)
  <2>1. ASSUME NEW h \in Frame \cup {NoFrame}, h # m.at, NEW k \in 0 .. 2
        PROVE  In(n, h, w, k) = In(m, h, w, k)
    BY <2>1, <1>5, IndexRange DEF In
  <2>2. root \in Frame /\ root # m.at
    BY TreeBounds
  <2>3. Table1(n, w) = Table1(m, w)
    BY <2>1, <2>2 DEF Table1
  <2>4. Table1(m, w) \in Frame \cup {NoFrame} /\ Table1(m, w) # m.at
    BY <1>1, Paths
  <2>5. Table2(n, w) = Table2(m, w)
    BY <2>1, <2>3, <2>4 DEF Table2
  <2>6. Table2(m, w) \in Frame \cup {NoFrame} /\ Table2(m, w) # m.at
    BY <1>1, Paths
  <2>7. Table3(n, w) = Table3(m, w)
    BY <2>1, <2>5, <2>6 DEF Table3
  <2> QED  BY <2>3, <2>5, <2>7
<1>8. Translated(n, v) = [frame |-> x, flags |-> Flags(prot)]
  <2>1. Leaf(n, v) = e
    BY <1>1, <1>5, <1>7 DEF Leaf, i
  <2> QED  BY <2>1, <1>1, <1>2, <1>7 DEF Translated
<1>9. ASSUME NEW w \in Page \ {v} PROVE Translated(n, w) = Translated(m, w)
  <2>1. CASE Table3(m, w) = NoFrame
    BY <2>1, <1>7 DEF Translated
  <2>2. CASE Table3(m, w) # NoFrame
    <3>1. Table3(m, w) \in Frame /\ IndexOf(w, 3) \in Index
      BY <2>2, Paths, IndexRange
    <3>2. ~ (Table3(m, w) = m.at /\ IndexOf(w, 3) = i)
      <4> SUFFICES ASSUME Table3(m, w) = Table3(m, v), IndexOf(w, 3) = IndexOf(v, 3) PROVE FALSE
        BY DEF i
      <4>1. Table2(m, w) = Table2(m, v) /\ IndexOf(w, 2) = IndexOf(v, 2) /\ Table2(m, v) # NoFrame
        BY <2>2, Paths
      <4>2. Table1(m, w) = Table1(m, v) /\ IndexOf(w, 1) = IndexOf(v, 1) /\ Table1(m, v) # NoFrame
        BY <4>1, Paths
      <4>3. IndexOf(w, 0) = IndexOf(v, 0)
        BY <4>2, Paths
      <4>4. \A k \in 0 .. 3 : k = 0 \/ k = 1 \/ k = 2 \/ k = 3
        OBVIOUS
      <4>5. \A k \in 0 .. 3 : IndexOf(w, k) = IndexOf(v, k)
        BY <4>1, <4>2, <4>3, <4>4
      <4> QED  BY <4>5, IndexUnique
    <3>3. Leaf(n, w) = Leaf(m, w)
      BY <3>1, <3>2, <1>5, <1>7 DEF Leaf
    <3> QED  BY <3>3, <1>7 DEF Translated
  <2> QED  BY <2>1, <2>2
<1> QED  BY <1>4, <1>6, <1>8, <1>9

LEMMA MapPage ==
  ASSUME end \in Ends, NEW m \in Memory, m.halt = "no", NEW level, NEW up, Tree(m, level, up),
         NEW v \in Page, NEW x \in Frame, x < root \/ (level[x] = 4 /\ x <= m.last),
         NEW prot \in Prot, NEW n, n = mmu_map(m, v, x, prot)
  PROVE  /\ n \in Memory /\ m.last <= n.last
         /\ \E newLevel, newUp : Tree(n, newLevel, newUp)
         /\ n.halt # "no" => SameTranslations(m, n)
         /\ n.halt = "no" =>
              /\ Translated(n, v) = [frame |-> x, flags |-> Flags(prot)]
              /\ \A w \in Page \ {v} : Translated(n, w) = Translated(m, w)
<1> DEFINE m0 == [m EXCEPT !.at = root]
           m1 == WalkOrCreate(m0, v, 0)
           m2 == WalkOrCreate(m1, v, 1)
           m3 == WalkOrCreate(m2, v, 2)
           stored == [m3 EXCEPT !.table[m3.at][IndexOf(v, 3)] = PageEntry(x, prot)]
<1>1. n = IF m3.halt # "no" THEN m3 ELSE stored
  BY DEF mmu_map
<1>2. /\ m0 \in Memory /\ m0.table = m.table /\ m0.last = m.last /\ m0.halt = "no"
      /\ m0.at = root /\ m.last \in Nat
  <2>1. root \in 0 .. end - 1 /\ m.last \in Nat
    BY TreeBounds, Bounds
  <2> QED  BY <2>1 DEF Memory
<1>3. SameTranslations(m, m0) /\ Tree(m0, level, up) /\ level[root] = 0
  BY <1>2, SameTables, SameTree, TreeBounds DEF SameTranslations
<1>4. ASSUME NEW a, NEW k, a.halt # "no" PROVE WalkOrCreate(a, v, k) = a
  BY <1>4 DEF WalkOrCreate
<1> HIDE DEF m0, m1, m2, m3, stored
<1>5. PICK l1, u1 : /\ Extends(m0, m1, level, l1, u1)
                    /\ m1.halt = "no" => l1[m1.at] = 1 /\ m1.at = Table1(m1, v)
  <2>1. m0.at = TableOf(m0, v, 0)
    BY <1>2 DEF TableOf
  <2>2. \E l1, u1 : /\ Extends(m0, m1, level, l1, u1)
                    /\ m1.halt = "no" => l1[m1.at] = 0 + 1 /\ m1.at = TableOf(m1, v, 0 + 1)
    BY <2>1, <1>2, <1>3, WalkStep DEF m1
  <2>3. TableOf(m1, v, 0 + 1) = Table1(m1, v)
    BY DEF TableOf
  <2> QED  BY <2>2, <2>3
<1>6. ASSUME NEW f \in Frame, NEW g \in Nat, f <= g PROVE f \in Nat
  BY Bounds
<1>7. PICK l2, u2 : /\ m2 \in Memory /\ m.last <= m2.last /\ SameTranslations(m0, m2) /\ Tree(m2, l2, u2)
                    /\ \A g \in Frame : g <= m.last => l2[g] = level[g]
                    /\ m2.halt = "no" => l2[m2.at] = 2 /\ m2.at = Table2(m2, v)
  <2>1. CASE m1.halt # "no"
    <3>1. m2 = m1
      BY <2>1, <1>4 DEF m2
    <3> QED  BY <3>1, <2>1, <1>2, <1>5 DEF Extends
  <2>2. CASE m1.halt = "no"
    <3>1. m1.at = TableOf(m1, v, 1) /\ l1[m1.at] = 1 /\ m1 \in Memory /\ Tree(m1, l1, u1)
      BY <2>2, <1>5 DEF TableOf, Extends
    <3>2. PICK l2, u2 : /\ Extends(m1, m2, l1, l2, u2)
                        /\ m2.halt = "no" => l2[m2.at] = 1 + 1 /\ m2.at = TableOf(m2, v, 1 + 1)
      BY <2>2, <3>1, WalkStep DEF m2
    <3>3. TableOf(m2, v, 1 + 1) = Table2(m2, v)
      BY DEF TableOf
    <3>4. m1.last \in Nat /\ m2.last \in Nat /\ m.last <= m1.last /\ m1.last <= m2.last
      <4>1. m2 \in Memory /\ Tree(m2, l2, u2)
        BY <3>2 DEF Extends
      <4> QED  BY <3>1, <3>2, <4>1, <1>2, <1>5, TreeBounds DEF Extends
    <3>5. \A g \in Frame : g <= m.last => l2[g] = level[g]
      <4> SUFFICES ASSUME NEW g \in Frame, g <= m.last PROVE l2[g] = level[g]
        OBVIOUS
      <4>1. g \in Nat
        BY Bounds
      <4>2. g <= m1.last
        BY <4>1, <3>4, <1>2
      <4> QED  BY <4>2, <3>2, <1>2, <1>5 DEF Extends
    <3>6. SameTranslations(m0, m2)
      BY <3>2, <1>5 DEF Extends, SameTranslations
    <3> QED  BY <3>2, <3>3, <3>4, <3>5, <3>6, <1>2 DEF Extends
  <2> QED  BY <2>1, <2>2
<1>8. PICK l3, u3 : /\ m3 \in Memory /\ m.last <= m3.last /\ SameTranslations(m0, m3) /\ Tree(m3, l3, u3)
                    /\ \A g \in Frame : g <= m.last => l3[g] = level[g]
                    /\ m3.halt = "no" => l3[m3.at] = 3 /\ m3.at = Table3(m3, v)
  <2>1. CASE m2.halt # "no"
    <3>1. m3 = m2
      BY <2>1, <1>4 DEF m3
    <3> QED  BY <3>1, <2>1, <1>2, <1>7
  <2>2. CASE m2.halt = "no"
    <3>1. m2.at = TableOf(m2, v, 2) /\ l2[m2.at] = 2
      BY <2>2, <1>7 DEF TableOf
    <3>2. PICK l3, u3 : /\ Extends(m2, m3, l2, l3, u3)
                        /\ m3.halt = "no" => l3[m3.at] = 2 + 1 /\ m3.at = TableOf(m3, v, 2 + 1)
      BY <2>2, <3>1, <1>7, WalkStep DEF m3
    <3>3. TableOf(m3, v, 2 + 1) = Table3(m3, v)
      BY DEF TableOf
    <3>4. m2.last \in Nat /\ m3.last \in Nat /\ m.last <= m2.last /\ m2.last <= m3.last
      <4>1. m3 \in Memory /\ Tree(m3, l3, u3)
        BY <3>2 DEF Extends
      <4> QED  BY <3>2, <4>1, <1>7, TreeBounds DEF Extends
    <3>5. \A g \in Frame : g <= m.last => l3[g] = level[g]
      <4> SUFFICES ASSUME NEW g \in Frame, g <= m.last PROVE l3[g] = level[g]
        OBVIOUS
      <4>1. g \in Nat
        BY Bounds
      <4>2. g <= m2.last
        BY <4>1, <3>4, <1>2
      <4> QED  BY <4>2, <3>2, <1>7 DEF Extends
    <3>6. SameTranslations(m0, m3)
      BY <3>2, <1>7 DEF Extends, SameTranslations
    <3> QED  BY <3>2, <3>3, <3>4, <3>5, <3>6, <1>2 DEF Extends
  <2> QED  BY <2>1, <2>2
<1>9. SameTranslations(m, m3)
  BY <1>3, <1>8 DEF SameTranslations
<1>10. CASE m3.halt # "no"
  BY <1>1, <1>8, <1>9, <1>10
<1>11. CASE m3.halt = "no"
  <2>1. n = stored
    BY <1>1, <1>11
  <2>2. x < root \/ (l3[x] = 4 /\ x <= m3.last)
    <3>1. x \in Nat /\ m.last \in Nat /\ m3.last \in Nat
      BY <1>2, <1>8, Bounds, TreeBounds
    <3> QED  BY <3>1, <1>8
  <2>3. /\ n \in Memory /\ n.last = m3.last /\ n.halt = m3.halt /\ Tree(n, l3, u3)
        /\ Translated(n, v) = [frame |-> x, flags |-> Flags(prot)]
        /\ \A w \in Page \ {v} : Translated(n, w) = Translated(m3, w)
    BY <2>1, <2>2, <1>8, <1>11, StorePage DEF stored
  <2> QED  BY <2>3, <1>8, <1>9, <1>11 DEF SameTranslations
<1> QED  BY <1>10, <1>11

-----------------------------------------------------------------------------
(***************************************************************************)
(* The invariant.                                                          *)
(***************************************************************************)
ReadWrite == {"PROT_READ", "PROT_WRITE"}

(* The pages from Load up to this one are mapped. *)
Bound == IF pc \in {"image", "physmap", "mem_map"} THEN page ELSE End(layout) + MemMapPages

Counters ==
  /\ pc = "image" => page \in Load .. End(layout) - 1
  /\ pc = "physmap" => page = End(layout)
  /\ pc = "mem_map" => page \in End(layout) .. End(layout) + MemMapPages - 1
  /\ pc = "frames" => page \in 0 .. end - 1
  /\ pc = "walk" => page \in Page

(* The image is mapped where it was linked, and what comes after it to      *)
(* frames behind its own, in the order of the pages.                        *)
MappedTo(m, v, t) ==
  IF v < End(layout) THEN t = [frame |-> v, flags |-> Flags(ProtOf(layout, v))]
  ELSE t.frame \in root .. m.last /\ t.flags = Flags(ReadWrite)
Mapped ==
  /\ \A v \in Page : v \notin Load .. Bound - 1 => Translated(memory, v) = Unmapped
  /\ \A v \in Load .. Bound - 1 : MappedTo(memory, v, Translated(memory, v))
  /\ \A v, w \in Load .. Bound - 1 :
       v < w => Translated(memory, v).frame < Translated(memory, w).frame

HasTree == \E level, up : Tree(memory, level, up)

MmuInv ==
  /\ TypeOK /\ root = End(layout) /\ root < end
  /\ memory.halt = "no" => HasTree /\ Counters /\ Mapped

LEMMA TranslateIs ==
  ASSUME NEW v
  PROVE  Translate(v) = Translated(memory, v)
<1>1. ASSUME NEW f, NEW k PROVE Step(f, v, k) = In(memory, f, v, k)
  BY DEF Step, In
<1>2. Step(Step(Step(root, v, 0), v, 1), v, 2) = Table3(memory, v)
  BY <1>1 DEF Table1, Table2, Table3
<1> QED  BY <1>2 DEF Translate, Translated, Leaf

(* What a page is mapped to, as far as the types go. *)
LEMMA TranslatedType ==
  ASSUME end \in Ends, root \in Frame, NEW m \in Memory, NEW v \in Page
  PROVE  Translated(m, v).frame \in Frame \cup {NoFrame}
<1>1. ASSUME NEW f \in Frame \cup {NoFrame}, NEW k \in 0 .. 3
      PROVE  In(m, f, v, k) \in Frame \cup {NoFrame}
  BY MemoryTypes, IndexRange DEF In
<1>2. Table1(m, v) \in Frame \cup {NoFrame}
  BY <1>1 DEF Table1
<1>3. Table2(m, v) \in Frame \cup {NoFrame}
  BY <1>1, <1>2 DEF Table2
<1>4. Table3(m, v) \in Frame \cup {NoFrame}
  BY <1>1, <1>3 DEF Table3
<1>5. CASE Table3(m, v) = NoFrame \/ Leaf(m, v).kind = "invalid"
  BY <1>5 DEF Translated, Unmapped
<1>6. CASE ~ (Table3(m, v) = NoFrame \/ Leaf(m, v).kind = "invalid")
  <2>1. Table3(m, v) \in Frame
    BY <1>4, <1>6
  <2>2. Leaf(m, v).frame \in Frame
    BY <2>1, MemoryTypes, IndexRange DEF Leaf
  <2> QED  BY <2>2, <1>6 DEF Translated
<1> QED  BY <1>5, <1>6

LEMMA FreshTree ==
  ASSUME end \in Ends, NEW m \in Memory, root = m.last,
         \A f \in Frame, i \in Index : m.table[f][i].kind = "invalid"
  PROVE  \E level, up : Tree(m, level, up)
<1> DEFINE level == [f \in Frame |-> IF f = root THEN 0 ELSE 4]
           up == [f \in Frame |-> <<0, 0>>]
<1>1. root \in 0 .. m.last /\ root \in Nat
  BY Bounds DEF Memory
<1>2. level \in [Frame -> 0 .. 4] /\ up \in [Frame -> Nat \X Nat]
  OBVIOUS
<1>3. \A f \in Frame : level[f] \in {0, 4} /\ (level[f] = 0 <=> f = root)
  OBVIOUS
<1> HIDE DEF level, up
<1>4. ASSUME NEW f \in Frame, NEW k \in 0 .. 2 PROVE Linked(m, level, up, f, k)
  <2>1. Indices(k) \subseteq Index
    BY FanoutAssumption DEF Indices, Index
  <2> QED  BY <2>1 DEF Linked
<1>5. Tree(m, level, up)
  BY <1>1, <1>2, <1>3, <1>4 DEF Tree
<1> QED  BY <1>5

LEMMA MmuInit == Init => MmuInv
<1> SUFFICES ASSUME Init PROVE MmuInv
  OBVIOUS
<1> USE DEF Init
<1>1. end \in Ends /\ layout \in Layouts /\ root = End(layout) /\ root \in Nat /\ root < end
  BY LayoutBounds DEF FirstTable
<1>2. end \in Nat /\ root \in 0 .. end - 1 /\ root \in Frame /\ 0 \in Frame
  <2>1. end \in Nat /\ root \in 0 .. end - 1 /\ 0 \in 0 .. end - 1
    BY <1>1, Bounds
  <2> QED  BY <2>1, <1>1, Bounds
<1>3. Invalid \in Entry /\ Invalid.kind = "invalid"
  BY <1>2 DEF Invalid, Entry
<1>4. memory \in Memory /\ memory.last = root /\ memory.halt = "no"
      /\ \A f \in Frame, i \in Index : memory.table[f][i].kind = "invalid"
  BY <1>2, <1>3 DEF Memory
<1>5. HasTree
  BY <1>1, <1>4, FreshTree DEF HasTree
<1>6. TypeOK
  <2>1. page \in Nat /\ pc = "image"
    BY LayoutAssumption
  <2>2. next \in [Nodes -> Nodes \cup {Null}] /\ prev \in [Nodes -> Nodes \cup {Null}]
    OBVIOUS
  <2> QED  BY <2>1, <2>2, <1>1, <1>2, <1>4 DEF TypeOK, Memory
<1>7. Counters
  BY <1>1, LayoutBounds DEF Counters
<1>8. Mapped
  <2>1. Load .. Bound - 1 = {}
    BY LayoutAssumption DEF Bound
  <2>2. ASSUME NEW v \in Page PROVE Translated(memory, v) = Unmapped
    <3>1. Table1(memory, v) = NoFrame
      BY <1>2, <1>4, IndexRange DEF Table1, In
    <3>2. Table3(memory, v) = NoFrame
      BY <3>1 DEF Table2, Table3, In
    <3> QED  BY <3>2 DEF Translated
  <2> QED  BY <2>1, <2>2 DEF Mapped
<1> QED  BY <1>1, <1>5, <1>6, <1>7, <1>8 DEF MmuInv

(* A step that maps one page that was not mapped, or none. *)
MapsOne(m, n) ==
  \/ SameTranslations(m, n)
  \/ \E v \in Page, t \in Translation :
       /\ Translated(m, v) = Unmapped /\ Translated(n, v) = t
       /\ \A w \in Page \ {v} : Translated(n, w) = Translated(m, w)

LEMMA Primes ==
  ASSUME root' = root
  PROVE  /\ \A v : Translated(memory, v)' = Translated(memory', v)
         /\ (\E level, up : Tree(memory', level, up)) => HasTree'
<1>1. \A v : Translated(memory, v)' = Translated(memory', v)
  <2> SUFFICES ASSUME NEW v PROVE Translated(memory, v)' = Translated(memory', v)
    OBVIOUS
  <2>1. Table1(memory, v)' = Table1(memory', v)
    BY DEF Table1, In
  <2>2. Table2(memory, v)' = Table2(memory', v)
    BY <2>1 DEF Table2, In
  <2>3. Table3(memory, v)' = Table3(memory', v)
    BY <2>2 DEF Table3, In
  <2>4. Leaf(memory, v)' = Leaf(memory', v)
    BY <2>3 DEF Leaf
  <2> QED  BY <2>3, <2>4 DEF Translated
<1>2. \A level, up : Tree(memory', level, up) => Tree(memory, level, up)'
  BY DEF Tree, Linked, Mapping
<1>3. (\E level, up : Tree(memory', level, up)) => HasTree'
  BY <1>2, Zenon DEF HasTree
<1> QED  BY <1>1, <1>3

LEMMA ProtTypes ==
  ASSUME NEW l, NEW v
  PROVE  ProtOf(l, v) \in Prot /\ ReadWrite \in Prot
BY DEF ProtOf, ReadWrite, Prot

(* One more page is mapped. *)
LEMMA MappedStep ==
  ASSUME MmuInv, memory.halt = "no", memory' \in Memory,
         pc \in {"image", "mem_map"}, root' = root, layout' = layout,
         Bound = page, Bound' = page + 1, page \in Load .. End(layout) + MemMapPages - 1,
         memory.last <= memory'.last,
         MappedTo(memory', page, Translated(memory', page)),
         \A v \in Load .. page - 1 :
           Translated(memory, v).frame < Translated(memory', page).frame,
         \A w \in Page \ {page} : Translated(memory', w) = Translated(memory, w)
  PROVE  Mapped'
<1>1. Load \in Nat /\ page \in Nat /\ End(layout) \in Nat
      /\ \A v \in Load .. page : v \in Page /\ v \in Nat
  <2>1. layout \in Layouts
    BY DEF MmuInv, TypeOK
  <2>2. Load \in Nat /\ End(layout) \in Nat /\ MemMapPages \in Nat
        /\ \A v \in Load .. End(layout) + MemMapPages - 1 : v \in Page
    BY <2>1, LayoutBounds
  <2> QED  BY <2>2
<1>2. Mapped
  BY DEF MmuInv
<1>3. \A v : Translated(memory, v)' = Translated(memory', v)
  BY Primes
<1>4. ASSUME NEW v \in Page, v \notin Load .. page PROVE Translated(memory', v) = Unmapped
  <2>1. v # page /\ v \notin Load .. Bound - 1
    BY <1>1, <1>4
  <2> QED  BY <2>1, <1>2 DEF Mapped
<1>5. ASSUME NEW v \in Load .. page - 1
      PROVE  MappedTo(memory', v, Translated(memory', v)) /\ Translated(memory', v) = Translated(memory, v)
  <2>1. v # page /\ v \in Page
    BY <1>1
  <2>2. Translated(memory', v) = Translated(memory, v)
    BY <2>1
  <2>3. MappedTo(memory, v, Translated(memory, v))
    BY <1>2 DEF Mapped
  <2>4. root \in Nat /\ memory.last \in Nat /\ memory'.last \in Nat
    <3>1. end \in Ends /\ root \in Frame /\ memory \in Memory
      BY DEF MmuInv, TypeOK, Memory
    <3> QED  BY <3>1, Bounds DEF Memory
  <2>5. \A x \in root .. memory.last : x \in root .. memory'.last
    BY <2>4
  <2>6. MappedTo(memory', v, Translated(memory, v))
    BY <2>3, <2>5 DEF MappedTo
  <2> QED  BY <2>2, <2>6
<1>6. ASSUME NEW v \in Load .. page PROVE v = page \/ v \in Load .. page - 1
  BY <1>1
<1>7. ASSUME NEW v \in Load .. page, NEW w \in Load .. page, v < w
      PROVE  Translated(memory', v).frame < Translated(memory', w).frame
  <2>1. v \in Load .. page - 1
    BY <1>1, <1>7
  <2>2. CASE w = page
    BY <2>1, <2>2, <1>5
  <2>3. CASE w \in Load .. page - 1
    BY <2>1, <2>3, <1>2, <1>5, <1>7 DEF Mapped
  <2> QED  BY <2>2, <2>3, <1>6
<1>8. Load .. Bound' - 1 = Load .. page
  BY <1>1
<1>9. \A v \in Load .. page : MappedTo(memory', v, Translated(memory', v))
  BY <1>5, <1>6
<1>10. \A v, t : MappedTo(memory, v, t)' = MappedTo(memory', v, t')
  BY DEF MappedTo
<1> QED  BY <1>3, <1>4, <1>7, <1>8, <1>9, <1>10 DEF Mapped

(* The numbers that the step lemmas need. *)
LEMMA InvBounds ==
  ASSUME MmuInv
  PROVE  /\ layout \in Layouts /\ end \in Ends /\ end \in Nat /\ memory \in Memory
         /\ root = End(layout) /\ root \in Nat /\ root < end /\ root \in Frame
         /\ Load \in Nat /\ MemMapPages \in Nat \ {0} /\ Load < End(layout)
         /\ memory.last \in Nat /\ 0 \in Page
         /\ \A v \in Load .. End(layout) + MemMapPages - 1 : v \in Page /\ v \in Nat
         /\ \A f \in 0 .. end - 1 : f \in Frame
<1>1. /\ layout \in Layouts /\ end \in Ends /\ memory \in Memory /\ root \in Frame
      /\ root = End(layout) /\ root < end
  BY DEF MmuInv, TypeOK, Memory
<1>2. /\ Load \in Nat /\ End(layout) \in Nat /\ MemMapPages \in Nat \ {0} /\ Load < End(layout)
      /\ \A v \in Load .. End(layout) + MemMapPages - 1 : v \in Page
  <2>1. /\ Load \in Nat /\ TextEnd(layout) \in Nat /\ RodataEnd(layout) \in Nat /\ End(layout) \in Nat
        /\ Load < TextEnd(layout) /\ TextEnd(layout) < RodataEnd(layout)
        /\ RodataEnd(layout) < End(layout) /\ MemMapPages \in Nat \ {0}
        /\ \A v \in Load .. End(layout) + MemMapPages - 1 : v \in Page
    BY <1>1, LayoutBounds
  <2> QED  BY <2>1
<1>3. end \in Nat /\ \A f \in 0 .. end - 1 : f \in Frame
  BY <1>1, Bounds
<1>4. memory.last \in Nat
  BY <1>1, <1>3 DEF Memory
<1>5. 0 \in Page /\ \A v \in Page : v \in Nat
  <2>1. Load \in Page
    BY <1>2
  <2> DEFINE top == (Fanout \div 2) * Below[1] - 1
  <2>2. top \in Int
    BY FanoutAssumption DEF Below
  <2> HIDE DEF top
  <2> QED  BY <2>1, <2>2, <1>2 DEF Page, top
<1> QED  BY <1>1, <1>2, <1>3, <1>4, <1>5

LEMMA InitKMapStep ==
  ASSUME MmuInv, InitKMap
  PROVE  MmuInv' /\ MapsOne(memory, memory')
<1> DEFINE prot == ProtOf(layout, page)
           t == [frame |-> page, flags |-> Flags(prot)]
<1>1. memory.halt = "no" /\ pc = "image" /\ page \in Load .. End(layout) - 1
      /\ HasTree /\ Mapped
  BY DEF MmuInv, InitKMap, At, Counters
<1>2. UNCHANGED <<layout, end, root, next, prev>> /\ page' = page + 1
      /\ memory' = mmu_map(memory, page, page, prot)
      /\ pc' = IF page + 1 = End(layout) THEN "physmap" ELSE "image"
  BY <1>1 DEF InitKMap, lists
<1>3. page \in Nat /\ page \in Page /\ page \in Frame /\ page < root /\ prot \in Prot
      /\ page \in Load .. End(layout) + MemMapPages - 1
  <2>1. page \in Nat /\ page < root /\ page \in Load .. End(layout) + MemMapPages - 1
        /\ page \in 0 .. end - 1
    BY <1>1, InvBounds
  <2> QED  BY <2>1, InvBounds, ProtTypes
<1> HIDE DEF prot
<1>4. PICK level, up : Tree(memory, level, up)
  BY <1>1 DEF HasTree
<1>5. /\ memory' \in Memory /\ memory.last <= memory'.last
      /\ \E newLevel, newUp : Tree(memory', newLevel, newUp)
      /\ memory'.halt # "no" => SameTranslations(memory, memory')
      /\ memory'.halt = "no" =>
           /\ Translated(memory', page) = t
           /\ \A w \in Page \ {page} : Translated(memory', w) = Translated(memory, w)
  BY <1>1, <1>2, <1>3, <1>4, InvBounds, MapPage
<1>6. HasTree'
  BY <1>2, <1>5, Primes
<1>7. TypeOK'
  <2>1. page' \in Nat /\ pc' \in {"image", "physmap"}
    BY <1>2, <1>3
  <2>2. layout \in Layouts /\ end \in Ends /\ root \in Frame
        /\ next \in [Nodes -> Nodes \cup {Null}] /\ prev \in [Nodes -> Nodes \cup {Null}]
    BY DEF MmuInv, TypeOK
  <2> QED  BY <2>1, <2>2, <1>2, <1>5 DEF TypeOK, Memory
<1>8. Translated(memory, page) = Unmapped
  <2>1. page \notin Load .. Bound - 1
    BY <1>1, <1>3 DEF Bound
  <2> QED  BY <2>1, <1>1, <1>3 DEF Mapped
<1>9. MapsOne(memory, memory')
  <2>1. CASE memory'.halt # "no"
    BY <2>1, <1>5 DEF MapsOne
  <2>2. CASE memory'.halt = "no"
    <3>1. t \in Translation
      BY <1>3 DEF Translation
    <3> QED  BY <3>1, <2>2, <1>3, <1>5, <1>8 DEF MapsOne
  <2> QED  BY <2>1, <2>2
<1>10. ASSUME memory'.halt = "no" PROVE Counters' /\ Mapped'
  <2>1. Counters'
    BY <1>1, <1>2, <1>3, InvBounds DEF Counters
  <2>2. Bound = page /\ Bound' = page + 1
    BY <1>1, <1>2 DEF Bound
  <2>3. MappedTo(memory', page, Translated(memory', page))
    BY <1>3, <1>5, <1>10, InvBounds DEF MappedTo, prot
  <2>4. ASSUME NEW v \in Load .. page - 1
        PROVE  Translated(memory, v).frame < Translated(memory', page).frame
    <3>1. v \in Load .. Bound - 1 /\ v < End(layout) /\ v < page
      BY <1>1, <1>3, <2>2, InvBounds
    <3>2. Translated(memory, v).frame = v
      BY <3>1, <1>1 DEF Mapped, MappedTo
    <3> QED  BY <3>1, <3>2, <1>5, <1>10
  <2>5. Mapped'
    BY <2>2, <2>3, <2>4, <1>1, <1>2, <1>3, <1>5, <1>10, MappedStep
  <2> QED  BY <2>1, <2>5
<1> QED  BY <1>2, <1>6, <1>7, <1>9, <1>10, InvBounds DEF MmuInv

LEMMA MapMemMapStep ==
  ASSUME MmuInv, MapMemMap
  PROVE  MmuInv' /\ MapsOne(memory, memory')
<1> DEFINE a == Allocate(memory)
           x == memory.last + 1
           t == [frame |-> x, flags |-> Flags(ReadWrite)]
<1>1. memory.halt = "no" /\ pc = "mem_map"
      /\ page \in End(layout) .. End(layout) + MemMapPages - 1 /\ HasTree /\ Mapped
  BY DEF MmuInv, MapMemMap, At, Counters
<1>2. UNCHANGED <<layout, end, root, next, prev>> /\ page' = page + 1
      /\ memory' = mmu_map(a, page, a.last, ReadWrite)
      /\ pc' = IF page + 1 = End(layout) + MemMapPages THEN "lists" ELSE "mem_map"
  BY <1>1 DEF MapMemMap, lists, ReadWrite
<1>3. page \in Nat /\ page \in Page /\ root <= page /\ ReadWrite \in Prot
      /\ page \in Load .. End(layout) + MemMapPages - 1
  <2>1. page \in Nat /\ root <= page /\ page \in Load .. End(layout) + MemMapPages - 1
    BY <1>1, InvBounds
  <2> QED  BY <2>1, InvBounds, ProtTypes
<1>4. PICK level, up : Tree(memory, level, up)
  BY <1>1 DEF HasTree
<1>5. root <= memory.last
  BY <1>4, InvBounds, TreeBounds
<1>6. \/ a = [memory EXCEPT !.halt = "panic"]
      \/ a = [memory EXCEPT !.last = x] /\ x < end
  BY DEF Allocate
<1> HIDE DEF a, x
<1>7. /\ memory' \in Memory /\ memory.last <= memory'.last
      /\ \E newLevel, newUp : Tree(memory', newLevel, newUp)
      /\ memory'.halt # "no" => SameTranslations(memory, memory')
      /\ memory'.halt = "no" =>
           /\ x \in Frame /\ x <= memory'.last
           /\ Translated(memory', page) = t
           /\ \A w \in Page \ {page} : Translated(memory', w) = Translated(memory, w)
  <2>1. CASE a = [memory EXCEPT !.halt = "panic"]
    <3> DEFINE n == [a EXCEPT !.at = root]
    <3>1. n \in Memory /\ n.table = memory.table /\ n.last = memory.last /\ n.halt = "panic"
      <4>1. root \in 0 .. end - 1 /\ memory \in Memory
        BY InvBounds
      <4> QED  BY <4>1, <2>1 DEF Memory
    <3>2. memory' = n
      <4> DEFINE w3 == WalkOrCreate(WalkOrCreate(WalkOrCreate(n, page, 0), page, 1), page, 2)
      <4>1. w3.halt # "no" => memory' = w3
        BY <1>2 DEF mmu_map
      <4> HIDE DEF n
      <4>2. \A k : WalkOrCreate(n, page, k) = n
        BY <3>1 DEF WalkOrCreate
      <4>3. w3 = n
        BY <4>2
      <4> QED  BY <4>1, <4>3, <3>1
    <3> HIDE DEF n
    <3>3. SameTranslations(memory, n) /\ Tree(n, level, up)
      BY <3>1, <1>4, SameTables, SameTree DEF SameTranslations
    <3> QED  BY <3>1, <3>2, <3>3, InvBounds
  <2>2. CASE a = [memory EXCEPT !.last = x] /\ x < end
    <3>1. x \in Nat /\ x > memory.last /\ x \in 0 .. end - 1 /\ x \in Frame
      <4>1. x \in Nat /\ x > memory.last /\ x \in 0 .. end - 1
        BY <2>2, InvBounds DEF x
      <4> QED  BY <4>1, InvBounds
    <3>2. a \in Memory /\ a.table = memory.table /\ a.last = x /\ a.halt = "no"
      <4>1. memory \in Memory
        BY InvBounds
      <4> QED  BY <4>1, <2>2, <3>1, <1>1 DEF Memory
    <3>3. level[x] = 4
      BY <3>1, <1>4, InvBounds, TreeBounds
    <3>4. Tree(a, level, up)
      <4>1. \A f \in root + 1 .. memory.last : f \in root + 1 .. x
        BY <3>1, InvBounds
      <4>2. root \in 0 .. x
        BY <1>5, <3>1, InvBounds
      <4>3. ASSUME NEW f \in Frame, level[f] = 3 PROVE Mapping(a, level, f)
        <5>1. Mapping(memory, level, f)
          BY <4>3, <1>4 DEF Tree
        <5>2. \A i \in Index : memory.table[f][i].frame \in Nat
          BY MemoryTypes, InvBounds, Bounds
        <5>3. \A z \in Nat : z <= memory.last => z <= x
          BY <3>1, InvBounds
        <5> QED  BY <5>1, <5>2, <5>3, <3>2 DEF Mapping
      <4>4. \A f, k : Linked(memory, level, up, f, k) => Linked(a, level, up, f, k)
        BY <3>2 DEF Linked
      <4> QED  BY <4>1, <4>2, <4>3, <4>4, <3>2, <1>4 DEF Tree
    <3>5. /\ memory' \in Memory /\ a.last <= memory'.last
          /\ \E newLevel, newUp : Tree(memory', newLevel, newUp)
          /\ memory'.halt # "no" => SameTranslations(a, memory')
          /\ memory'.halt = "no" =>
               /\ Translated(memory', page) = t
               /\ \A w \in Page \ {page} : Translated(memory', w) = Translated(a, w)
      <4>1. x <= a.last
        BY <3>1, <3>2
      <4>2. memory' = mmu_map(a, page, x, ReadWrite)
        BY <1>2, <3>2
      <4> QED  BY <4>1, <4>2, <3>1, <3>2, <3>3, <3>4, <1>3, InvBounds, MapPage
    <3>6. \A w : Translated(a, w) = Translated(memory, w)
      BY <3>2, SameTables
    <3>7. memory'.last \in Nat
      BY <3>5, InvBounds DEF Memory
    <3> QED  BY <3>1, <3>2, <3>5, <3>6, <3>7, InvBounds DEF SameTranslations
  <2> QED  BY <2>1, <2>2, <1>6
<1>8. HasTree'
  BY <1>2, <1>7, Primes
<1>9. TypeOK'
  <2>1. page' \in Nat /\ pc' \in {"mem_map", "lists"}
    BY <1>2, <1>3
  <2>2. layout \in Layouts /\ end \in Ends /\ root \in Frame
        /\ next \in [Nodes -> Nodes \cup {Null}] /\ prev \in [Nodes -> Nodes \cup {Null}]
    BY DEF MmuInv, TypeOK
  <2> QED  BY <2>1, <2>2, <1>2, <1>7 DEF TypeOK, Memory
<1>10. Bound = page
  BY <1>1 DEF Bound
<1>11. Translated(memory, page) = Unmapped
  <2>1. page \notin Load .. Bound - 1
    BY <1>3, <1>10
  <2> QED  BY <2>1, <1>1, <1>3 DEF Mapped
<1>12. MapsOne(memory, memory')
  <2>1. CASE memory'.halt # "no"
    BY <2>1, <1>7 DEF MapsOne
  <2>2. CASE memory'.halt = "no"
    <3>1. t \in Translation
      BY <2>2, <1>3, <1>7 DEF Translation
    <3> QED  BY <3>1, <2>2, <1>3, <1>7, <1>11 DEF MapsOne
  <2> QED  BY <2>1, <2>2
<1>13. ASSUME memory'.halt = "no" PROVE Counters' /\ Mapped'
  <2>1. Counters'
    BY <1>1, <1>2, <1>3, InvBounds DEF Counters
  <2>2. Bound' = page + 1
    BY <1>1, <1>2 DEF Bound
  <2>3. x \in Nat /\ x = memory.last + 1 /\ memory'.last \in Nat
    BY <1>7, InvBounds DEF x, Memory
  <2>4. MappedTo(memory', page, Translated(memory', page))
    <3>1. ~ (page < End(layout))
      BY <1>3, InvBounds
    <3>2. x \in root .. memory'.last
      BY <2>3, <1>5, <1>7, <1>13, InvBounds
    <3> QED  BY <3>1, <3>2, <1>7, <1>13 DEF MappedTo
  <2>5. ASSUME NEW v \in Load .. page - 1
        PROVE  Translated(memory, v).frame < Translated(memory', page).frame
    <3>1. v \in Load .. Bound - 1 /\ v \in Nat
      BY <1>10, InvBounds
    <3>2. MappedTo(memory, v, Translated(memory, v))
      BY <3>1, <1>1 DEF Mapped
    <3>3. Translated(memory, v).frame < x
      <4>1. CASE v < End(layout)
        BY <4>1, <3>1, <3>2, <2>3, <1>5, InvBounds DEF MappedTo
      <4>2. CASE ~ (v < End(layout))
        BY <4>2, <3>2, <2>3, InvBounds DEF MappedTo
      <4> QED  BY <4>1, <4>2
    <3> QED  BY <3>3, <1>7, <1>13
  <2>6. Mapped'
    BY <2>2, <2>4, <2>5, <1>1, <1>2, <1>3, <1>7, <1>10, <1>13, MappedStep
  <2> QED  BY <2>1, <2>6
<1> QED  BY <1>2, <1>8, <1>9, <1>12, <1>13, InvBounds DEF MmuInv

LEMMA MapPhysicalMemoryStep ==
  ASSUME MmuInv, MapPhysicalMemory
  PROVE  MmuInv' /\ MapsOne(memory, memory')
<1> DEFINE half == Fanout \div 2
           tables == [memory.table EXCEPT ![root] =
                        [i \in Index |-> IF i < half THEN @[i] ELSE TableEntry(i - half)]]
<1>1. memory.halt = "no" /\ pc = "physmap" /\ page = End(layout) /\ HasTree /\ Mapped
  BY DEF MmuInv, MapPhysicalMemory, At, Counters
<1>2. UNCHANGED <<layout, end, root, page, next, prev>> /\ pc' = "mem_map"
      /\ memory' = [memory EXCEPT !.table = tables]
  BY DEF MapPhysicalMemory, lists
<1>3. half \in Nat /\ Fanout = 2 * half /\ \A i \in Index : i \in Nat /\ i < 2 * half
  BY FanoutAssumption DEF Index
<1>4. ASSUME NEW i \in Index, ~ (i < half) PROVE TableEntry(i - half) \in Entry
  <2>1. i - half \in 0 .. end - 1
    <3>1. layout \in Layouts /\ Load \in Nat /\ Load < end
      BY InvBounds
    <3>2. half <= Load
      BY LayoutAssumption
    <3> HIDE DEF half
    <3> QED  BY <3>1, <3>2, <1>3, <1>4, InvBounds
  <2>2. i - half \in Frame
    BY <2>1, InvBounds
  <2> QED  BY <2>2 DEF TableEntry, Entry
<1> HIDE DEF half
<1>5. memory \in Memory /\ root \in Frame
  BY InvBounds
<1>6. /\ tables \in [Frame -> [Index -> Entry]]
      /\ \A f \in Frame, i \in Index : f # root \/ i < half => tables[f][i] = memory.table[f][i]
  <2>1. memory.table \in [Frame -> [Index -> Entry]]
    BY <1>5 DEF Memory
  <2> QED  BY <2>1, <1>4, <1>5
<1> HIDE DEF tables
<1>7. memory' \in Memory /\ memory'.table = tables /\ memory'.last = memory.last
      /\ memory'.halt = "no"
  BY <1>1, <1>2, <1>5, <1>6 DEF Memory
<1>8. PICK level, up : Tree(memory, level, up)
  BY <1>1 DEF HasTree
<1>9. Tree(memory', level, up)
  <2>1. ASSUME NEW f \in Frame, NEW k \in 0 .. 2, level[f] = k PROVE Linked(memory', level, up, f, k)
    <3>1. Linked(memory, level, up, f, k)
      BY <2>1, <1>8 DEF Tree
    <3>2. CASE f = root
      <4>1. k = 0
        BY <3>2, <2>1, <1>8 DEF Tree
      <4>2. \A i \in Indices(k) : i \in Index /\ i < half
        BY <4>1, <1>3 DEF Indices, Index, half
      <4> QED  BY <4>2, <3>1, <1>6, <1>7, <2>1 DEF Linked
    <3>3. CASE f # root
      <4>1. Indices(k) \subseteq Index
        BY FanoutAssumption DEF Indices, Index
      <4> QED  BY <4>1, <3>1, <3>3, <1>6, <1>7 DEF Linked
    <3> QED  BY <3>2, <3>3
  <2>2. ASSUME NEW f \in Frame, level[f] = 3 PROVE Mapping(memory', level, f)
    <3>1. f # root /\ Mapping(memory, level, f)
      BY <2>2, <1>8 DEF Tree
    <3> QED  BY <3>1, <1>6, <1>7 DEF Mapping
  <2>3. ASSUME NEW f \in Frame, level[f] = 4, NEW i \in Index PROVE memory'.table[f][i].kind = "invalid"
    <3>1. f # root
      BY <2>3, <1>8 DEF Tree
    <3> QED  BY <3>1, <2>3, <1>6, <1>7, <1>8 DEF Tree
  <2> QED  BY <2>1, <2>2, <2>3, <1>7, <1>8 DEF Tree
<1>10. SameTranslations(memory, memory')
  <2> SUFFICES ASSUME NEW w \in Page PROVE Translated(memory', w) = Translated(memory, w)
    BY DEF SameTranslations
  <2>1. ASSUME NEW f \in Frame \cup {NoFrame}, NEW k \in 0 .. 3, f # root \/ IndexOf(w, k) < half
        PROVE  In(memory', f, w, k) = In(memory, f, w, k)
    BY <2>1, <1>6, <1>7, IndexRange DEF In
  <2>2. IndexOf(w, 0) < half
    BY <1>3, IndexRange DEF Indices, half
  <2>3. Table1(memory', w) = Table1(memory, w)
    BY <2>1, <2>2, <1>5 DEF Table1
  <2>4. level[root] = 0 /\ root # NoFrame
    BY <1>8, InvBounds, TreeBounds, Bounds
  <2>5. Table1(memory, w) \in Frame \cup {NoFrame} /\ Table1(memory, w) # root
    BY <2>4, <1>5, <1>8, InvBounds, Paths
  <2>6. Table2(memory', w) = Table2(memory, w)
    BY <2>1, <2>3, <2>5 DEF Table2
  <2>7. Table2(memory, w) \in Frame \cup {NoFrame} /\ Table2(memory, w) # root
    BY <2>4, <1>5, <1>8, InvBounds, Paths
  <2>8. Table3(memory', w) = Table3(memory, w)
    BY <2>1, <2>6, <2>7 DEF Table3
  <2>9. CASE Table3(memory, w) = NoFrame
    BY <2>8, <2>9 DEF Translated
  <2>10. CASE Table3(memory, w) # NoFrame
    <3>1. Table3(memory, w) \in Frame /\ Table3(memory, w) # root /\ IndexOf(w, 3) \in Index
      BY <2>4, <2>10, <1>5, <1>8, InvBounds, Paths, IndexRange
    <3>2. Leaf(memory', w) = Leaf(memory, w)
      BY <3>1, <2>8, <1>6, <1>7 DEF Leaf
    <3> QED  BY <3>2, <2>8 DEF Translated
  <2> QED  BY <2>9, <2>10
<1>11. HasTree'
  BY <1>2, <1>9, Primes
<1>12. TypeOK'
  <2>1. layout \in Layouts /\ end \in Ends /\ root \in Frame /\ page \in Nat
        /\ next \in [Nodes -> Nodes \cup {Null}] /\ prev \in [Nodes -> Nodes \cup {Null}]
    BY DEF MmuInv, TypeOK
  <2> QED  BY <2>1, <1>2, <1>7 DEF TypeOK, Memory
<1>13. Counters'
  BY <1>1, <1>2, InvBounds DEF Counters
<1>14. Mapped'
  <2>1. Bound' = Bound
    BY <1>1, <1>2 DEF Bound
  <2>2. \A v : Translated(memory, v)' = Translated(memory', v)
    BY <1>2, Primes
  <2>3. \A v, t : MappedTo(memory, v, t)' = MappedTo(memory, v, t')
    BY <1>2, <1>7 DEF MappedTo
  <2>4. \A v \in Load .. Bound - 1 : v \in Page
    BY <1>1, InvBounds DEF Bound
  <2>5. \A v \in Page : Translated(memory, v)' = Translated(memory, v)
    BY <2>2, <1>10 DEF SameTranslations
  <2> QED  BY <2>1, <2>3, <2>4, <2>5, <1>1 DEF Mapped
<1> QED  BY <1>2, <1>10, <1>11, <1>12, <1>13, <1>14, InvBounds DEF MmuInv, MapsOne

-----------------------------------------------------------------------------
(***************************************************************************)
(* The lists of frames.                                                    *)
(***************************************************************************)
IsLinks(l) ==
  l.next \in [Nodes -> Nodes \cup {Null}] /\ l.prev \in [Nodes -> Nodes \cup {Null}]

LEMMA ListTypes ==
  /\ free_frames \in Nodes /\ page_table_frames \in Nodes
  /\ \A l : IsLinks(l) =>
       /\ \A h \in Nodes : IsLinks(ll_init(l, h))
       /\ \A h, n \in Nodes : IsLinks(ll_insert(l, h, n))
       /\ \A n \in Nodes : IsLinks(ll_unlink(l, n))
<1>1. free_frames \in Nodes /\ page_table_frames \in Nodes
  BY DEF Nodes
<1>2. ASSUME NEW g \in [Nodes -> Nodes \cup {Null}], NEW n \in Nodes \cup {Null},
             NEW x \in Nodes \cup {Null}
      PROVE  Store(g, n, x) \in [Nodes -> Nodes \cup {Null}]
  BY DEF Store
<1>3. ASSUME NEW l, IsLinks(l), NEW h \in Nodes PROVE IsLinks(ll_init(l, h))
  BY <1>3 DEF IsLinks, ll_init
<1>4. ASSUME NEW l, IsLinks(l), NEW h \in Nodes, NEW n \in Nodes PROVE IsLinks(ll_insert(l, h, n))
  <2> DEFINE first == l.next[h]
             p == [l.prev EXCEPT ![n] = h]
  <2>1. first \in Nodes \cup {Null} /\ p \in [Nodes -> Nodes \cup {Null}]
    BY <1>4 DEF IsLinks
  <2>2. Store(p, first, n) \in [Nodes -> Nodes \cup {Null}]
    BY <2>1, <1>2
  <2>3. [l.next EXCEPT ![n] = first, ![h] = n] \in [Nodes -> Nodes \cup {Null}]
    BY <2>1, <1>4 DEF IsLinks
  <2> QED  BY <2>2, <2>3 DEF IsLinks, ll_insert
<1>5. ASSUME NEW l, IsLinks(l), NEW n \in Nodes PROVE IsLinks(ll_unlink(l, n))
  <2> DEFINE a == l.next[n]
             b == l.prev[n]
             nx == [l.next EXCEPT ![n] = Null]
  <2>1. a \in Nodes \cup {Null} /\ b \in Nodes \cup {Null} /\ nx \in [Nodes -> Nodes \cup {Null}]
    BY <1>5 DEF IsLinks
  <2>2. Store(nx, b, Null) \in [Nodes -> Nodes \cup {Null}]
    BY <2>1, <1>2
  <2>3. Store(l.prev, a, b) \in [Nodes -> Nodes \cup {Null}]
    BY <2>1, <1>2, <1>5 DEF IsLinks
  <2>4. [Store(l.prev, a, b) EXCEPT ![n] = Null] \in [Nodes -> Nodes \cup {Null}]
    BY <2>3
  <2> QED  BY <2>2, <2>4 DEF IsLinks, ll_unlink
<1> QED  BY <1>1, <1>3, <1>4, <1>5

(* The steps of mmu_init that change the lists leave the page tables alone. *)
LEMMA ListsStep ==
  ASSUME MmuInv, memory.halt = "no", UNCHANGED <<layout, end, memory, root>>,
         Bound' = Bound, TypeOK', Counters'
  PROVE  MmuInv' /\ MapsOne(memory, memory')
<1>1. HasTree' /\ Mapped'
  <2>1. HasTree'
    BY Primes DEF MmuInv, HasTree
  <2>2. \A v : Translated(memory, v)' = Translated(memory, v)
    BY Primes
  <2>3. \A v, t : MappedTo(memory, v, t)' = MappedTo(memory, v, t')
    BY DEF MappedTo
  <2> QED  BY <2>1, <2>2, <2>3 DEF MmuInv, Mapped
<1> QED  BY <1>1 DEF MmuInv, MapsOne, SameTranslations

LEMMA MmuStep == MmuInv /\ [Next]_vars => MmuInv' /\ MapsOne(memory, memory')
<1> SUFFICES ASSUME MmuInv, [Next]_vars PROVE MmuInv' /\ MapsOne(memory, memory')
  OBVIOUS
<1> DEFINE l == [next |-> next, prev |-> prev]
<1>1. IsLinks(l) /\ pc \in {"image", "physmap", "mem_map", "lists", "frames", "walk", "done"}
      /\ page \in Nat
  BY DEF MmuInv, TypeOK, IsLinks
<1>2. CASE InitKMap
  BY <1>2, InitKMapStep
<1>3. CASE MapPhysicalMemory
  BY <1>3, MapPhysicalMemoryStep
<1>4. CASE MapMemMap
  BY <1>4, MapMemMapStep
<1>5. ASSUME UNCHANGED <<layout, end, memory, root>>, page' \in Nat,
             pc' \in {"frames", "walk", "done"},
             NEW o, IsLinks(o), next' = o.next, prev' = o.prev
      PROVE  TypeOK'
  BY <1>5 DEF MmuInv, TypeOK, IsLinks
<1>6. CASE InitFreeList
  <2>1. /\ UNCHANGED <<layout, end, memory, root>> /\ memory.halt = "no" /\ pc = "lists"
        /\ next' = ll_init(l, free_frames).next /\ prev' = ll_init(l, free_frames).prev
        /\ pc' = "frames" /\ page' = 0
    BY <1>6 DEF InitFreeList, At
  <2>2. TypeOK'
    BY <2>1, <1>1, <1>5, ListTypes
  <2>3. Bound' = Bound /\ Counters'
    BY <2>1, InvBounds DEF Bound, Counters
  <2> QED  BY <2>1, <2>2, <2>3, ListsStep
<1>7. CASE AddFreeFrame
  <2>1. /\ UNCHANGED <<layout, end, memory, root>> /\ memory.halt = "no" /\ pc = "frames"
        /\ next' = ll_insert(l, free_frames, page).next /\ prev' = ll_insert(l, free_frames, page).prev
        /\ page' = IF page + 1 = end THEN 0 ELSE page + 1
        /\ pc' = IF page + 1 = end THEN "walk" ELSE "frames"
    BY <1>7 DEF AddFreeFrame, At
  <2>2. page \in 0 .. end - 1
    BY <2>1 DEF MmuInv, Counters
  <2>3. page \in Nodes
    BY <2>2, InvBounds DEF Nodes
  <2>4. TypeOK'
    BY SMTT(30), <2>1, <2>3, <1>1, <1>5, ListTypes
  <2>5. Bound' = Bound
    BY <2>1 DEF Bound
  <2>6. Counters'
    BY <2>1, <2>2, InvBounds DEF Counters
  <2> QED  BY <2>1, <2>4, <2>5, <2>6, ListsStep
<1>8. CASE WalkPages
  <2> DEFINE f == Translate(page).frame
             o == IF f = NoFrame THEN l ELSE ll_insert(ll_unlink(l, f), page_table_frames, f)
  <2>1. /\ UNCHANGED <<layout, end, memory, root>> /\ memory.halt = "no" /\ pc = "walk"
        /\ next' = o.next /\ prev' = o.prev /\ page' = page + 1
        /\ pc' = IF page + 1 \in Page THEN pc ELSE "done"
    BY <1>8 DEF WalkPages, At
  <2>2. IsLinks(o)
    <3>1. CASE f \in Frame
      <4>1. f \in Nodes
        BY <3>1 DEF Nodes
      <4> QED  BY <4>1, <1>1, ListTypes
    <3>2. CASE f = NoFrame
      BY <3>2, <1>1
    <3>3. page \in Page
      BY <2>1 DEF MmuInv, Counters
    <3>4. f \in Frame \cup {NoFrame}
      BY <3>3, TranslateIs, TranslatedType, InvBounds
    <3> QED  BY <3>1, <3>2, <3>4
  <2>3. TypeOK'
    BY <2>1, <2>2, <1>1, <1>5
  <2>4. Bound' = Bound /\ Counters'
    BY <2>1, <1>1 DEF Bound, Counters
  <2> QED  BY <2>1, <2>3, <2>4, ListsStep
<1>9. CASE UNCHANGED vars
  <2>1. UNCHANGED <<layout, end, memory, root, pc, page, next, prev>>
    BY <1>9 DEF vars, lists
  <2>2. TypeOK'
    BY <2>1 DEF MmuInv, TypeOK
  <2>3. CASE memory.halt = "no"
    <3>1. Counters' /\ Bound' = Bound
      BY <2>1, <2>3 DEF MmuInv, Counters, Bound
    <3> QED  BY <2>1, <2>2, <2>3, <3>1, ListsStep
  <2>4. CASE memory.halt # "no"
    BY <2>1, <2>2, <2>4 DEF MmuInv, MapsOne, SameTranslations
  <2> QED  BY <2>3, <2>4
<1> QED  BY <1>2, <1>3, <1>4, <1>6, <1>7, <1>8, <1>9 DEF Next

LEMMA MmuInvariant == Spec => []MmuInv
<1>1. Init => MmuInv
  BY MmuInit
<1>2. MmuInv /\ [Next]_vars => MmuInv'
  BY MmuStep
<1> QED  BY <1>1, <1>2, PTL DEF Spec

(* Every variable keeps its type; in particular the frame of each table and *)
(* of each page that is mapped lies inside the memory.                      *)
THEOREM MmuTypeCorrect == Spec => []TypeOK
<1>1. MmuInv => TypeOK
  BY DEF MmuInv
<1> QED  BY <1>1, MmuInvariant, PTL

(* The entries lead to frames of a level, each with its entry above it.     *)
AllUp(entries, level, up, k) ==
  \A e \in entries : /\ e \in Frame \X Index
                     /\ memory.table[e[1]][e[2]].frame \in Frame
                     /\ level[memory.table[e[1]][e[2]].frame] = k
                     /\ up[memory.table[e[1]][e[2]].frame] = e

(* The entries of the tables, and the frames that they lead to.             *)
LEMMA EntriesUp ==
  ASSUME MmuInv, NEW level, NEW up, Tree(memory, level, up), NEW k \in 0 .. 2,
         NEW T \in SUBSET Frame, \A f \in T : level[f] = k
  PROVE  AllUp(Entries(T, Indices(k)), level, up, k + 1)
<1> SUFFICES ASSUME NEW e \in Entries(T, Indices(k))
             PROVE  /\ e \in Frame \X Index
                    /\ memory.table[e[1]][e[2]].frame \in Frame
                    /\ level[memory.table[e[1]][e[2]].frame] = k + 1
                    /\ up[memory.table[e[1]][e[2]].frame] = e
  BY DEF AllUp
<1>1. /\ e[1] \in T /\ e[2] \in Indices(k) /\ e = <<e[1], e[2]>>
      /\ memory.table[e[1]][e[2]].kind # "invalid"
  BY DEF Entries
<1>2. e[2] \in Index /\ e[1] \in Frame
  BY <1>1, FanoutAssumption DEF Indices, Index
<1>3. Linked(memory, level, up, e[1], k)
  BY <1>1, <1>2 DEF Tree
<1>4. memory.table[e[1]][e[2]].frame \in Frame
  BY <1>2, MemoryTypes, InvBounds
<1>5. level[memory.table[e[1]][e[2]].frame] = k + 1 /\ up[memory.table[e[1]][e[2]].frame] = <<e[1], e[2]>>
  BY <1>1, <1>3 DEF Linked
<1> QED  BY <1>1, <1>2, <1>4, <1>5

LEMMA MmuInvTablesApart == MmuInv => TablesApart
<1> SUFFICES ASSUME MmuInv, memory.halt = "no"
             PROVE  /\ Cardinality(Tables) = Cardinality(Entries0 \cup Entries1 \cup Entries2) + 1
                    /\ Tables \cap (MappedFrames \cup 0 .. End(layout) - 1) = {}
  BY DEF TablesApart
<1> DEFINE E == Entries0 \cup Entries1 \cup Entries2
           target(e) == memory.table[e[1]][e[2]].frame
<1>1. PICK level, up : Tree(memory, level, up)
  BY DEF MmuInv, HasTree
<1>2. Indices(0) = 0 .. (Fanout \div 2) - 1 /\ Indices(1) = Index /\ Indices(2) = Index
  BY DEF Indices
<1>3. root \in Frame /\ level[root] = 0 /\ root \in Nat /\ Frame \subseteq Nat /\ end \in Ends
      /\ memory \in Memory
  BY <1>1, InvBounds, Bounds, TreeBounds
<1>4. \A e \in Entries0 : e \in Frame \X Index /\ target(e) \in Frame /\ level[target(e)] = 1
                          /\ up[target(e)] = e
  <2>1. \A f \in {root} : level[f] = 0
    BY ONLY <1>3
  <2>2. Entries0 = Entries({root}, Indices(0)) /\ {root} \in SUBSET Frame
    BY <1>2, <1>3 DEF Entries0
  <2>3. AllUp(Entries0, level, up, 0 + 1)
    BY ONLY <2>1, <2>2, <1>1, MmuInv, EntriesUp
  <2> QED  BY ONLY <2>3 DEF AllUp, target
<1>5. \A e \in Entries1 : e \in Frame \X Index /\ target(e) \in Frame /\ level[target(e)] = 2
                          /\ up[target(e)] = e
  <2>1. Reached(Entries0) \in SUBSET Frame /\ \A f \in Reached(Entries0) : level[f] = 1
    BY <1>4 DEF Reached
  <2>2. Entries1 = Entries(Reached(Entries0), Indices(1))
    BY <1>2 DEF Entries1
  <2>3. AllUp(Entries1, level, up, 1 + 1)
    BY ONLY <2>1, <2>2, <1>1, MmuInv, EntriesUp
  <2> QED  BY ONLY <2>3 DEF AllUp, target
<1>6. \A e \in Entries2 : e \in Frame \X Index /\ target(e) \in Frame /\ level[target(e)] = 3
                          /\ up[target(e)] = e
  <2>1. Reached(Entries1) \in SUBSET Frame /\ \A f \in Reached(Entries1) : level[f] = 2
    BY <1>5 DEF Reached
  <2>2. Entries2 = Entries(Reached(Entries1), Indices(2))
    BY <1>2 DEF Entries2
  <2>3. AllUp(Entries2, level, up, 2 + 1)
    BY ONLY <2>1, <2>2, <1>1, MmuInv, EntriesUp
  <2> QED  BY ONLY <2>3 DEF AllUp, target
<1>7. \A e \in E : e \in Frame \X Index /\ target(e) \in Frame /\ level[target(e)] \in 1 .. 3
                   /\ up[target(e)] = e
  <2> SUFFICES ASSUME NEW e \in E
               PROVE  /\ e \in Frame \X Index /\ target(e) \in Frame
                      /\ level[target(e)] \in 1 .. 3 /\ up[target(e)] = e
    OBVIOUS
  <2> HIDE DEF target
  <2>1. e \in Entries0 \/ e \in Entries1 \/ e \in Entries2
    OBVIOUS
  <2>2. /\ e \in Frame \X Index /\ target(e) \in Frame /\ up[target(e)] = e
        /\ level[target(e)] = 1 \/ level[target(e)] = 2 \/ level[target(e)] = 3
    BY ONLY <2>1, <1>4, <1>5, <1>6
  <2> QED  BY ONLY <2>2
<1>8. Tables = Reached(E) \cup {root} /\ Reached(E) = {target(e) : e \in E}
  BY DEF Tables, Reached
<1> HIDE DEF E, target
<1>9. IsFiniteSet(E)
  <2>1. IsFiniteSet(Frame) /\ IsFiniteSet(Index)
    BY <1>3, FanoutAssumption, Bounds, FS_Interval DEF Index
  <2>2. IsFiniteSet(Frame \X Index)
    BY <2>1, FS_Product
  <2> QED  BY <2>2, <1>7, FS_Subset
<1>10. Cardinality(Reached(E)) = Cardinality(E) /\ IsFiniteSet(Reached(E))
  <2> DEFINE b == [e \in E |-> target(e)]
  <2>1. b \in [E -> Reached(E)]
    BY <1>8
  <2>2. \A x, y \in E : b[x] = b[y] => x = y
    BY <1>7
  <2>3. \A t \in Reached(E) : \E e \in E : b[e] = t
    BY <1>8
  <2> HIDE DEF b
  <2>4. b \in Bijection(E, Reached(E))
    BY <2>1, <2>2, <2>3 DEF Bijection, Injection, Surjection, IsInjective
  <2>5. ExistsBijection(E, Reached(E))
    BY <2>4 DEF ExistsBijection
  <2> QED  BY <2>5, <1>9, FS_Bijection
<1>11. Cardinality(Tables) = Cardinality(E) + 1
  <2>1. root \notin Reached(E)
    BY <1>3, <1>7, <1>8
  <2> QED  BY <2>1, <1>8, <1>10, FS_AddElement
<1>12. ASSUME NEW f \in Tables
       PROVE  f \in Frame /\ level[f] \in 0 .. 3 /\ f >= root
  <2>1. f \in Frame /\ level[f] \in 0 .. 3
    BY <1>3, <1>7, <1>8
  <2>2. f = root \/ f \in root + 1 .. memory.last
    BY <2>1, <1>1 DEF Tree
  <2> QED  BY <2>1, <2>2, <1>3
<1>13. ASSUME NEW v \in Page, Translate(v).frame # NoFrame
       PROVE  Translate(v).frame < root \/ level[Translate(v).frame] = 4
  <2>1. Translate(v) = Translated(memory, v) /\ Translated(memory, v) # Unmapped
    BY <1>13, TranslateIs DEF Unmapped
  <2>2. Table3(memory, v) # NoFrame /\ Leaf(memory, v).kind # "invalid"
        /\ Translate(v).frame = Leaf(memory, v).frame
    BY <2>1 DEF Translated
  <2>3. Table3(memory, v) \in Frame /\ level[Table3(memory, v)] = 3 /\ IndexOf(v, 3) \in Index
    BY <2>2, <1>1, <1>3, Paths, IndexRange
  <2>4. Mapping(memory, level, Table3(memory, v))
    BY <2>3, <1>1 DEF Tree
  <2> QED  BY <2>2, <2>3, <2>4 DEF Leaf, Mapping
<1>14. ASSUME NEW f \in Tables PROVE f \notin MappedFrames /\ f \notin 0 .. End(layout) - 1
  <2>1. f \notin 0 .. End(layout) - 1
    BY <1>3, <1>12, InvBounds
  <2>3. level[f] # 4 /\ ~ (f < root)
    <3>1. f \in Frame /\ level[f] \in 0 .. 3 /\ f >= root
      BY <1>12
    <3>2. f \in Nat /\ root \in Nat
      BY <3>1, <1>3
    <3> QED  BY <3>1, <3>2
  <2>2. f \notin MappedFrames
    <3> SUFFICES ASSUME NEW v \in Page, f = Translate(v).frame, f # NoFrame PROVE FALSE
      BY DEF MappedFrames
    <3> QED  BY <2>3, <1>13
  <2> QED  BY <2>1, <2>2
<1> QED  BY <1>11, <1>14 DEF E

(* The page tables form a tree in frames of their own, in every step of     *)
(* mmu_init.                                                                *)
THEOREM TablesApartCorrect == Spec => []TablesApart
BY MmuInvariant, MmuInvTablesApart, PTL

LEMMA FlagsOfKernel ==
  /\ Flags({"PROT_EXEC", "PROT_READ"}) = [write |-> FALSE, uxn |-> TRUE, pxn |-> FALSE]
  /\ Flags({"PROT_READ"}) = [write |-> FALSE, uxn |-> TRUE, pxn |-> TRUE]
  /\ Flags({"PROT_READ", "PROT_WRITE"}) = [write |-> TRUE, uxn |-> TRUE, pxn |-> TRUE]
BY DEF Flags

LEMMA MmuInvKernelMapped == MmuInv => KernelMapped
<1> SUFFICES ASSUME MmuInv, At("lists"), NEW v \in Page
             PROVE  LET t == Translate(v)
                    IN /\ v \in Load .. End(layout) - 1 =>
                            /\ t.frame = v
                            /\ t.flags.write <=> v >= RodataEnd(layout)
                            /\ ~t.flags.pxn <=> v < TextEnd(layout)
                       /\ v \in End(layout) .. End(layout) + MemMapPages - 1 =>
                            /\ t.frame >= End(layout) /\ t.flags.write /\ t.flags.pxn
                            /\ \A w \in Page \ {v} : Translate(w).frame # t.frame
  BY DEF KernelMapped
<1> DEFINE t == Translate(v)
           top == End(layout) + MemMapPages
<1>1. Mapped /\ Bound = top
  BY DEF MmuInv, At, Bound
<1>2. \A w : Translate(w) = Translated(memory, w)
  BY TranslateIs
<1>3. /\ layout \in Layouts /\ Load \in Nat /\ End(layout) \in Nat /\ MemMapPages \in Nat \ {0}
      /\ Load < End(layout) /\ root = End(layout) /\ memory.last \in Nat /\ memory.last < end
      /\ end \in Ends /\ end \in Nat
  BY InvBounds DEF Memory
<1>4. TextEnd(layout) \in Nat /\ RodataEnd(layout) \in Nat /\ TextEnd(layout) < RodataEnd(layout)
  BY <1>3, LayoutBounds
<1>5. ASSUME v \in Load .. End(layout) - 1
      PROVE  /\ t.frame = v
             /\ t.flags.write <=> v >= RodataEnd(layout)
             /\ ~t.flags.pxn <=> v < TextEnd(layout)
  <2>1. t = [frame |-> v, flags |-> Flags(ProtOf(layout, v))]
    BY <1>1, <1>2, <1>3, <1>5 DEF Mapped, MappedTo
  <2>2. v \in Nat
    BY <1>3, <1>5
  <2>3. CASE v < TextEnd(layout)
    <3>1. ProtOf(layout, v) = {"PROT_EXEC", "PROT_READ"} /\ ~ (v >= RodataEnd(layout))
      BY <2>2, <2>3, <1>4 DEF ProtOf
    <3>2. t.frame = v /\ t.flags.write = FALSE /\ t.flags.pxn = FALSE
      BY <2>1, <3>1, FlagsOfKernel
    <3> QED  BY <2>3, <3>1, <3>2
  <2>4. CASE ~ (v < TextEnd(layout)) /\ v < RodataEnd(layout)
    <3>1. ProtOf(layout, v) = {"PROT_READ"} /\ ~ (v >= RodataEnd(layout))
      BY <2>2, <2>4, <1>4 DEF ProtOf
    <3>2. t.frame = v /\ t.flags.write = FALSE /\ t.flags.pxn = TRUE
      BY <2>1, <3>1, FlagsOfKernel
    <3> QED  BY <2>4, <3>1, <3>2
  <2>5. CASE ~ (v < TextEnd(layout)) /\ ~ (v < RodataEnd(layout))
    <3>1. ProtOf(layout, v) = {"PROT_READ", "PROT_WRITE"} /\ v >= RodataEnd(layout)
      BY <2>2, <2>5, <1>4 DEF ProtOf
    <3>2. t.frame = v /\ t.flags.write = TRUE /\ t.flags.pxn = TRUE
      BY <2>1, <3>1, FlagsOfKernel
    <3> QED  BY <2>5, <3>1, <3>2
  <2> QED  BY <2>3, <2>4, <2>5
<1>6. ASSUME v \in End(layout) .. End(layout) + MemMapPages - 1
      PROVE  /\ t.frame >= End(layout) /\ t.flags.write /\ t.flags.pxn
             /\ \A w \in Page \ {v} : Translate(w).frame # t.frame
  <2>1. v \in Load .. Bound - 1 /\ v \in Nat /\ ~ (v < End(layout))
    BY <1>1, <1>3, <1>6
  <2>2. t.frame \in root .. memory.last /\ t.flags = Flags(ReadWrite)
    BY <2>1, <1>1, <1>2 DEF Mapped, MappedTo
  <2>3. t.frame >= End(layout) /\ t.flags.write /\ t.flags.pxn
    <3>1. t.flags.write = TRUE /\ t.flags.pxn = TRUE
      BY <2>2, FlagsOfKernel DEF ReadWrite
    <3> QED  BY <3>1, <2>2, <1>3
  <2>4. ASSUME NEW w \in Page \ {v} PROVE Translate(w).frame # t.frame
    <3>1. CASE w \notin Load .. Bound - 1
      <4>1. Translate(w).frame = NoFrame
        BY <3>1, <1>1, <1>2 DEF Mapped, Unmapped
      <4>2. memory.last < NoFrame /\ NoFrame \in Nat
        BY <1>3, Bounds
      <4> QED  BY <4>1, <4>2, <2>2, <1>3
    <3>2. CASE w \in Load .. Bound - 1
      <4> DEFINE n(x) == Translated(memory, x).frame
      <4>1. w \in Nat /\ (w < v \/ v < w)
        BY <3>2, <2>1, <1>1, <1>3
      <4>2. n(v) \in Nat /\ (n(w) < n(v) \/ n(v) < n(w))
        BY <3>2, <4>1, <2>1, <2>2, <1>1, <1>2, <1>3 DEF Mapped
      <4>3. n(w) \in Nat
        <5>1. MappedTo(memory, w, Translated(memory, w))
          BY <3>2, <1>1 DEF Mapped
        <5> QED  BY <5>1, <4>1, <1>3 DEF MappedTo
      <4> HIDE DEF n
      <4>4. n(w) # n(v)
        BY <4>2, <4>3
      <4> QED  BY <4>4, <1>2 DEF n
    <3> QED  BY <3>1, <3>2
  <2> QED  BY <2>3, <2>4
<1> QED  BY <1>5, <1>6, Zenon

(* When its page tables are built, the kernel is mapped where it was        *)
(* linked, with the right protections.                                      *)
THEOREM KernelMappedCorrect == Spec => []KernelMapped
BY MmuInvariant, MmuInvKernelMapped, PTL

LEMMA AddressSpaceInit == Init => AS!Init
<1> SUFFICES ASSUME Init PROVE AS!Init
  OBVIOUS
<1>1. MmuInv /\ Mapped /\ Bound = Load /\ Load \in Nat
  BY MmuInit, LayoutAssumption DEF Init, MmuInv, Bound
<1>2. Load .. Bound - 1 = {}
  BY <1>1
<1>3. \A v \in Page : Translate(v) = Unmapped
  BY <1>1, <1>2, TranslateIs DEF Mapped
<1> QED  BY <1>3 DEF AS!Init

LEMMA AddressSpaceStep ==
  ASSUME MmuInv, [Next]_vars
  PROVE  [AS!Next]_([v \in Page |-> Translate(v)])
<1> DEFINE old == [v \in Page |-> Translate(v)]
<1>1. root' = root
  BY DEF Next, InitKMap, MapPhysicalMemory, MapMemMap, InitFreeList, AddFreeFrame, WalkPages, vars
<1>2. MapsOne(memory, memory')
  BY MmuStep
<1>3. \A v \in Page : Translate(v) = Translated(memory, v)
  BY TranslateIs
<1>4. \A v \in Page : Translate(v)' = Translated(memory', v)
  <2>1. \A v : Translated(memory, v)' = Translated(memory', v)
    BY <1>1, Primes
  <2>2. \A v : Translate(v)' = Translated(memory, v)'
    BY DEF Translate, Step, Translated, Leaf, Table1, Table2, Table3, In
  <2> QED  BY <2>1, <2>2
<1>5. CASE SameTranslations(memory, memory')
  <2>1. old' = old
    BY <1>3, <1>4, <1>5 DEF SameTranslations
  <2> QED  BY <2>1
<1>6. CASE \E v \in Page, t \in Translation :
             /\ Translated(memory, v) = Unmapped /\ Translated(memory', v) = t
             /\ \A w \in Page \ {v} : Translated(memory', w) = Translated(memory, w)
  <2>1. PICK v \in Page, t \in Translation :
             /\ Translated(memory, v) = Unmapped /\ Translated(memory', v) = t
             /\ \A w \in Page \ {v} : Translated(memory', w) = Translated(memory, w)
    BY <1>6
  <2>2. old[v] = Unmapped
    BY <2>1, <1>3
  <2>3. old' = [old EXCEPT ![v] = t]
    BY <2>1, <1>3, <1>4
  <2>4. AS!Map(v, t)
    BY <2>2, <2>3 DEF AS!Map
  <2> QED  BY <2>4 DEF AS!Next
<1> QED  BY <1>2, <1>5, <1>6 DEF MapsOne

(* The page tables implement the address space: each step maps one page     *)
(* that was not mapped, or none.                                            *)
THEOREM ImplementsAddressSpaceCorrect == Spec => ImplementsAddressSpace
<1>1. Init => AS!Init
  BY AddressSpaceInit
<1>2. MmuInv /\ [Next]_vars => [AS!Next]_([v \in Page |-> Translate(v)])
  BY AddressSpaceStep
<1> QED  BY <1>1, <1>2, MmuInvariant, PTL DEF Spec, ImplementsAddressSpace, AS!Spec

-----------------------------------------------------------------------------
(***************************************************************************)
(* The lists when the frames are taken out.                                *)
(***************************************************************************)
(* The frame of a page. *)
FrameOf(v) == Translated(memory, v).frame

(* The frames from this one up are on free_frames, which holds the frames   *)
(* below p, with the greatest at its head.                                  *)
Above(p, f) == IF f + 1 = p THEN free_frames ELSE f + 1
Free(p, from) == \A f \in from .. p - 1 : prev[f] = Above(p, f) /\ next[Above(p, f)] = f

(* The pages from Load up to this one have had their frames moved.          *)
Moved == IF page < Bound THEN page ELSE Bound

(* Nothing is moved yet. *)
Complete == Free(end, 0) /\ next[page_table_frames] = Null

(* The list of the free frames ends above the frame that was moved last,    *)
(* and page_table_frames holds the moved ones, the last one first.          *)
Cut(c) ==
  /\ Free(end, FrameOf(c) + 1) /\ next[Above(end, FrameOf(c))] = Null
  /\ next[page_table_frames] = FrameOf(c) /\ next[FrameOf(Load)] = Null
  /\ \A v \in Load + 1 .. c : next[FrameOf(v)] = FrameOf(v - 1)

ListsInv ==
  /\ pc \in {"image", "physmap", "mem_map", "lists"} => next[page_table_frames] = Null
  /\ pc = "frames" =>
       /\ Free(page, 0) /\ next[page_table_frames] = Null
       /\ page = 0 => next[free_frames] = free_frames
  /\ pc \in {"walk", "done"} => IF Moved <= Load THEN Complete ELSE Cut(Moved - 1)
  /\ pc = "done" => page >= Bound

(* What is mapped in the last phases. *)
LEMMA MovedFrames ==
  ASSUME MmuInv, memory.halt = "no", pc \notin {"image", "physmap", "mem_map"}
  PROVE  /\ Bound = End(layout) + MemMapPages /\ Load < Bound - 1 /\ Bound \in Nat
         /\ FrameOf(Load) = Load
         /\ \A v \in Load .. Bound - 1 :
              v \in Nat /\ v \in Page /\ FrameOf(v) \in 0 .. end - 1 /\ FrameOf(v) \in Nat
              /\ FrameOf(v) # NoFrame
         /\ \A v, w \in Load .. Bound - 1 : v < w => FrameOf(v) < FrameOf(w)
         /\ \A v \in Page \ (Load .. Bound - 1) : FrameOf(v) = NoFrame
         /\ \A v : Translate(v).frame = FrameOf(v)
<1>1. Mapped /\ Bound = End(layout) + MemMapPages
  BY DEF MmuInv, Bound
<1>2. /\ End(layout) \in Nat /\ Load \in Nat /\ MemMapPages \in Nat \ {0} /\ Load < End(layout)
      /\ root = End(layout) /\ root < end /\ end \in Nat /\ memory.last \in Nat
      /\ memory.last < end /\ end \in Ends
      /\ \A v \in Load .. End(layout) + MemMapPages - 1 : v \in Page /\ v \in Nat
  BY InvBounds DEF Memory
<1>3. Bound \in Nat /\ Load < Bound - 1
  BY <1>1, <1>2
<1>4. NoFrame \in Nat /\ end <= NoFrame
  BY <1>2, Bounds
<1>5. ASSUME NEW v \in Load .. Bound - 1
      PROVE  /\ v \in Nat /\ v \in Page /\ FrameOf(v) \in 0 .. end - 1 /\ FrameOf(v) \in Nat
             /\ v < End(layout) => FrameOf(v) = v
  <2>1. MappedTo(memory, v, Translated(memory, v)) /\ v \in Nat /\ v \in Page
    BY <1>1, <1>2, <1>5 DEF Mapped
  <2>2. CASE v < End(layout)
    BY <2>1, <2>2, <1>2 DEF MappedTo, FrameOf
  <2>3. CASE ~ (v < End(layout))
    BY <2>1, <2>3, <1>2 DEF MappedTo, FrameOf
  <2> QED  BY <2>1, <2>2, <2>3
<1>6. \A v \in Load .. Bound - 1 : FrameOf(v) # NoFrame
  BY <1>2, <1>4, <1>5
<1>7. FrameOf(Load) = Load
  BY <1>2, <1>3, <1>5
<1>8. \A v \in Page \ (Load .. Bound - 1) : FrameOf(v) = NoFrame
  BY <1>1 DEF Mapped, FrameOf, Unmapped
<1>9. \A v, w \in Load .. Bound - 1 : v < w => FrameOf(v) < FrameOf(w)
  BY <1>1 DEF Mapped, FrameOf
<1>10. \A v : Translate(v).frame = FrameOf(v)
  BY TranslateIs DEF FrameOf
<1> QED  BY <1>1, <1>3, <1>5, <1>6, <1>7, <1>8, <1>9, <1>10

(* The pointers are apart. *)
LEMMA Pointers ==
  ASSUME end \in Ends
  PROVE  /\ end \in Nat /\ end <= free_frames
         /\ free_frames \in Nat /\ page_table_frames = free_frames + 1 /\ Null = free_frames + 2
         /\ Nodes = 0 .. free_frames + 1
         /\ \A f \in 0 .. end - 1 : Above(end, f) \in Nodes \ {f, page_table_frames, Null}
<1>1. /\ end \in Nat /\ end <= Max(Ends) /\ Max(Ends) \in Nat /\ Frame = 0 .. Max(Ends) - 1
  BY Bounds
<1>2. /\ end \in Nat /\ end <= free_frames /\ free_frames \in Nat
      /\ page_table_frames = free_frames + 1 /\ Null = free_frames + 2
      /\ Frame = 0 .. free_frames - 1
  BY <1>1 DEF free_frames, page_table_frames, Null
<1>3. Nodes = 0 .. free_frames + 1
  BY <1>2 DEF Nodes
<1> QED  BY <1>2, <1>3 DEF Above

(* A frame that is taken out and put on the other list. *)
LEMMA MoveFrame ==
  ASSUME end \in Ends, NEW l, IsLinks(l), NEW g \in 0 .. end - 1, l.prev[g] = Above(end, g)
  PROVE  LET o == ll_insert(ll_unlink(l, g), page_table_frames, g)
         IN /\ \A x \in Nodes :
                 o.next[x] = IF x = page_table_frames THEN g
                             ELSE IF x = g THEN l.next[page_table_frames]
                             ELSE IF x = Above(end, g) THEN Null ELSE l.next[x]
            /\ \A x \in Nodes \ {g, l.next[g], l.next[page_table_frames]} : o.prev[x] = l.prev[x]
<1> DEFINE T == page_table_frames
           p == Above(end, g)
           n == l.next[g]
           u == ll_unlink(l, g)
           o == ll_insert(u, T, g)
           S == Nodes \cup {Null}
<1>1. g \in Nodes /\ T \in Nodes /\ g # T /\ p \in Nodes /\ p # g /\ p # T /\ p # Null
      /\ Null \notin Nodes
  BY Pointers
<1>2. l.next \in [Nodes -> S] /\ l.prev \in [Nodes -> S]
  BY DEF IsLinks
<1> HIDE DEF T, p
<1>3. /\ u.next = [[l.next EXCEPT ![g] = Null] EXCEPT ![p] = Null]
      /\ u.prev = [Store(l.prev, n, p) EXCEPT ![g] = Null]
  BY <1>1 DEF ll_unlink, Store, p
<1>4. u.next \in [Nodes -> S]
      /\ \A x \in Nodes : u.next[x] = IF x = g \/ x = p THEN Null ELSE l.next[x]
  BY <1>1, <1>2, <1>3
<1>5. u.prev \in [Nodes -> S] /\ \A x \in Nodes \ {g, n} : u.prev[x] = l.prev[x]
  <2>1. /\ Store(l.prev, n, p) \in [Nodes -> S]
        /\ \A x \in Nodes \ {n} : Store(l.prev, n, p)[x] = l.prev[x]
    BY <1>1, <1>2 DEF Store
  <2> QED  BY <2>1, <1>1, <1>3
<1> DEFINE first == u.next[T]
<1>6. first = l.next[T] /\ first \in S
  BY <1>1, <1>2, <1>4
<1> HIDE DEF u
<1>7. /\ o.next = [[u.next EXCEPT ![g] = first] EXCEPT ![T] = g]
      /\ o.prev = Store([u.prev EXCEPT ![g] = T], first, g)
  BY <1>1 DEF ll_insert
<1>8. \A x \in Nodes : o.next[x] = IF x = T THEN g ELSE IF x = g THEN l.next[T]
                                   ELSE IF x = p THEN Null ELSE l.next[x]
  BY <1>1, <1>4, <1>6, <1>7
<1>9. \A x \in Nodes \ {g, n, l.next[T]} : o.prev[x] = l.prev[x]
  <2>1. /\ [u.prev EXCEPT ![g] = T] \in [Nodes -> S]
        /\ \A x \in Nodes \ {g} : [u.prev EXCEPT ![g] = T][x] = u.prev[x]
    BY <1>1, <1>5
  <2>2. \A x \in Nodes \ {g, first} : o.prev[x] = u.prev[x]
    BY <2>1, <1>1, <1>7 DEF Store
  <2> QED  BY <2>2, <1>5, <1>6
<1> QED  BY <1>8, <1>9 DEF T, p, u

(* A frame that is put at the head of the list of the free frames. *)
LEMMA AddFrame ==
  ASSUME end \in Ends, NEW l, IsLinks(l), NEW g \in 0 .. end - 1,
         l.next[free_frames] \in Nodes \ {g}
  PROVE  LET o == ll_insert(l, free_frames, g)
             first == l.next[free_frames]
         IN /\ \A x \in Nodes :
                 o.next[x] = IF x = free_frames THEN g ELSE IF x = g THEN first ELSE l.next[x]
            /\ \A x \in Nodes :
                 o.prev[x] = IF x = first THEN g ELSE IF x = g THEN free_frames ELSE l.prev[x]
<1> DEFINE H == free_frames
           first == l.next[H]
           o == ll_insert(l, H, g)
           S == Nodes \cup {Null}
<1>1. g \in Nodes /\ H \in Nodes /\ g # H /\ Null \notin Nodes
  BY Pointers
<1>2. l.next \in [Nodes -> S] /\ l.prev \in [Nodes -> S] /\ first \in Nodes /\ first # g
  BY DEF IsLinks
<1> HIDE DEF H
<1>3. /\ o.next = [[l.next EXCEPT ![g] = first] EXCEPT ![H] = g]
      /\ o.prev = [[l.prev EXCEPT ![g] = H] EXCEPT ![first] = g]
  BY <1>1, <1>2 DEF ll_insert, Store
<1>4. \A x \in Nodes : o.next[x] = IF x = H THEN g ELSE IF x = g THEN first ELSE l.next[x]
  BY <1>1, <1>2, <1>3
<1>5. \A x \in Nodes : o.prev[x] = IF x = first THEN g ELSE IF x = g THEN H ELSE l.prev[x]
  BY <1>1, <1>2, <1>3
<1> QED  BY <1>4, <1>5 DEF H

-----------------------------------------------------------------------------
LEMMA ListsInit == Init => ListsInv
BY ListTypes DEF Init, ListsInv

(* Each frame of the memory goes to the head. *)
LEMMA AddFreeFrameLists ==
  ASSUME MmuInv, ListsInv, AddFreeFrame
  PROVE  ListsInv'
<1> DEFINE l == [next |-> next, prev |-> prev]
           H == free_frames
<1>1. /\ end' = end /\ memory.halt = "no" /\ pc = "frames"
      /\ next' = ll_insert(l, H, page).next /\ prev' = ll_insert(l, H, page).prev
      /\ page' = IF page + 1 = end THEN 0 ELSE page + 1
      /\ pc' = IF page + 1 = end THEN "walk" ELSE "frames"
      /\ UNCHANGED <<memory, root, layout>>
  BY DEF AddFreeFrame, At
<1>2. page \in 0 .. end - 1 /\ end \in Ends /\ end \in Nat /\ IsLinks(l)
  BY <1>1, InvBounds DEF MmuInv, Counters, TypeOK, IsLinks
<1>3. /\ Free(page, 0) /\ next[page_table_frames] = Null
      /\ page = 0 => next[H] = H
  BY <1>1 DEF ListsInv
<1>4. next[H] = IF page = 0 THEN H ELSE page - 1
  <2>1. CASE page # 0
    <3>1. page - 1 \in 0 .. page - 1 /\ Above(page, page - 1) = H
      BY <1>2, <2>1 DEF Above
    <3> QED  BY <3>1, <1>2, <1>3, <2>1 DEF Free
  <2> QED  BY <2>1, <1>3
<1>5. next[H] \in Nodes \ {page}
  BY <1>2, <1>4, Pointers
<1>6. /\ \A x \in Nodes : next'[x] = IF x = H THEN page ELSE IF x = page THEN next[H] ELSE next[x]
      /\ \A x \in Nodes : prev'[x] = IF x = next[H] THEN page ELSE IF x = page THEN H ELSE prev[x]
  BY <1>1, <1>2, <1>5, AddFrame
<1>7. /\ page_table_frames \in Nodes \ {H, page} /\ H \in Nodes
      /\ \A f \in 0 .. page : f \in Nodes /\ f # H
  BY <1>2, Pointers
<1>8. next'[page_table_frames] = Null
  BY <1>3, <1>6, <1>7
<1>9. ASSUME NEW f \in 0 .. page
      PROVE  prev'[f] = Above(page + 1, f) /\ next'[Above(page + 1, f)] = f
  <2>1. CASE f = page
    <3>1. Above(page + 1, f) = H
      BY <2>1 DEF Above
    <3> QED  BY <3>1, <2>1, <1>2, <1>4, <1>5, <1>6, <1>7
  <2>2. CASE f = page - 1
    <3>1. Above(page + 1, f) = page /\ page # 0
      BY <2>2, <1>2 DEF Above
    <3> QED  BY <3>1, <2>2, <1>2, <1>4, <1>6, <1>7
  <2>3. CASE f < page - 1
    <3>1. /\ f \in 0 .. page - 1 /\ Above(page + 1, f) = f + 1 /\ Above(page, f) = f + 1
          /\ f + 1 \in 0 .. page /\ f + 1 # page /\ f # page
      BY <2>3, <1>2 DEF Above
    <3>2. prev[f] = f + 1 /\ next[f + 1] = f
      BY <3>1, <1>3 DEF Free
    <3> QED  BY <3>1, <3>2, <2>3, <1>2, <1>4, <1>6, <1>7
  <2> QED  BY <2>1, <2>2, <2>3, <1>2
<1>10. CASE page + 1 = end
  <2>1. pc' = "walk" /\ page' = 0
    BY <1>1, <1>10
  <2>2. Free(end, 0)'
    BY <1>1, <1>2, <1>9, <1>10 DEF Free, Above, free_frames
  <2>3. Moved' <= Load
    <3>1. Bound' \in Nat /\ Load \in Nat
      BY <1>1, <2>1, InvBounds DEF Bound
    <3> QED  BY <3>1, <2>1 DEF Moved
  <2> QED  BY <2>1, <2>2, <2>3, <1>8 DEF ListsInv, Complete
<1>11. CASE page + 1 # end
  <2>1. pc' = "frames" /\ page' = page + 1 /\ page' # 0
    BY <1>1, <1>2, <1>11
  <2>2. Free(page, 0)'
    BY <1>2, <1>9, <2>1 DEF Free, Above, free_frames
  <2> QED  BY <2>1, <2>2, <1>8 DEF ListsInv
<1> QED  BY <1>10, <1>11

(* The frame of each mapped page is moved to the other list. *)
LEMMA WalkPagesLists ==
  ASSUME MmuInv, ListsInv, WalkPages
  PROVE  ListsInv'
<1> DEFINE l == [next |-> next, prev |-> prev]
           T == page_table_frames
           g == FrameOf(page)
           o == ll_insert(ll_unlink(l, g), T, g)
<1>1. /\ end' = end /\ memory.halt = "no" /\ pc = "walk" /\ page' = page + 1
      /\ pc' = IF page + 1 \in Page THEN "walk" ELSE "done"
      /\ UNCHANGED <<memory, root, layout>>
      /\ page \in Page /\ end \in Ends /\ end \in Nat /\ IsLinks(l) /\ page \in Nat
  BY InvBounds DEF WalkPages, At, MmuInv, Counters, TypeOK, IsLinks
<1>2. /\ Load < Bound - 1 /\ Bound \in Nat /\ Load \in Nat /\ Bound - 1 \in Page
      /\ FrameOf(Load) = Load
      /\ \A v \in Load .. Bound - 1 :
           v \in Nat /\ FrameOf(v) \in 0 .. end - 1 /\ FrameOf(v) \in Nat /\ FrameOf(v) # NoFrame
      /\ \A v, w \in Load .. Bound - 1 : v < w => FrameOf(v) < FrameOf(w)
      /\ \A v \in Page \ (Load .. Bound - 1) : FrameOf(v) = NoFrame
  BY <1>1, MovedFrames, InvBounds
<1>3. Bound' = Bound /\ \A v : FrameOf(v)' = FrameOf(v)
  <2>1. Bound' = Bound
    BY <1>1 DEF Bound
  <2>2. \A v : Translated(memory, v)' = Translated(memory, v)
    BY <1>1, Primes
  <2> QED  BY <2>1, <2>2 DEF FrameOf
<1>4. IF g = NoFrame THEN next' = next /\ prev' = prev ELSE next' = o.next /\ prev' = o.prev
  <2>1. Translate(page).frame = g
    BY TranslateIs DEF FrameOf
  <2> QED  BY <2>1 DEF WalkPages
<1>5. pc' = "done" => page' >= Bound'
  <2> DEFINE top == (Fanout \div 2) * Below[1] - 1
  <2>1. top \in Int
    BY FanoutAssumption DEF Below
  <2>2. Page = 0 .. top
    BY DEF Page
  <2> HIDE DEF top
  <2>3. page + 1 \notin Page => page + 1 > top
    BY <1>1, <2>1, <2>2
  <2> QED  BY <1>1, <1>2, <1>3, <2>1, <2>2, <2>3
<1>6. IF Moved <= Load THEN Complete ELSE Cut(Moved - 1)
  BY <1>1 DEF ListsInv
<1>7. CASE page \notin Load .. Bound - 1
  <2>1. next' = next /\ prev' = prev
    BY <1>1, <1>2, <1>4, <1>7
  <2>2. (Moved <= Load /\ Moved' <= Load) \/ Moved' = Moved
    BY <1>1, <1>2, <1>3, <1>7 DEF Moved
  <2>3. Complete => Complete'
    BY <1>1, <2>1 DEF Complete, Free, Above, free_frames, page_table_frames, Null
  <2>4. Moved' = Moved /\ Cut(Moved - 1) => Cut(Moved - 1)'
    BY <1>1, <1>3, <2>1 DEF Cut, Free, Above, free_frames, page_table_frames, Null
  <2>5. IF Moved' <= Load THEN Complete' ELSE Cut(Moved - 1)'
    BY <1>6, <2>2, <2>3, <2>4
  <2> QED  BY <1>1, <1>5, <2>5 DEF ListsInv
<1>8. CASE page \in Load .. Bound - 1
  <2> DEFINE c == page - 1
             first == next[T]
  <2>1. Moved = page /\ Moved' = page + 1 /\ ~ (Moved' <= Load) /\ Moved' - 1 = page
    BY <1>1, <1>2, <1>3, <1>8 DEF Moved
  <2>2. g \in 0 .. end - 1 /\ g \in Nat /\ g # NoFrame
    BY <1>2, <1>8
  <2>3. page # Load => /\ c \in Load .. Bound - 1 /\ FrameOf(c) < g /\ FrameOf(c) \in Nat
                       /\ Cut(c)
    BY <1>2, <1>6, <1>8, <2>1
  <2>4. page = Load => g = Load /\ g > 0 /\ Complete
    <3>1. Load > 0
      BY <1>2, LayoutAssumption, FanoutAssumption
    <3> QED  BY <3>1, <1>2, <1>6, <2>1
  <2>5. \A f \in g .. end - 1 : prev[f] = Above(end, f) /\ next[Above(end, f)] = f
    <3>1. CASE page = Load
      BY <3>1, <2>2, <2>4 DEF Complete, Free
    <3>2. CASE page # Load
      BY <3>2, <2>2, <2>3 DEF Cut, Free
    <3> QED  BY <3>1, <3>2
  <2>6. prev[g] = Above(end, g)
    BY <2>2, <2>5, <1>1
  <2>7. next[g] \notin g + 1 .. end - 1
    <3>1. ASSUME g - 1 \in 0 .. end - 1, next[Above(end, g - 1)] = g - 1
          PROVE  next[g] = g - 1
      <4>1. Above(end, g - 1) = g
        BY <2>2, <1>1 DEF Above
      <4> QED  BY <4>1, <3>1
    <3>2. CASE page = Load
      BY <3>1, <3>2, <1>1, <2>2, <2>4 DEF Complete, Free
    <3>3. CASE page # Load /\ FrameOf(c) = g - 1
      <4>1. next[Above(end, g - 1)] = Null
        BY <3>3, <2>3 DEF Cut
      <4>2. Above(end, g - 1) = g
        BY <2>2, <1>1 DEF Above
      <4> QED  BY <4>1, <4>2, <1>1, Pointers
    <3>4. CASE page # Load /\ FrameOf(c) # g - 1
      <4>1. g - 1 \in FrameOf(c) + 1 .. end - 1 /\ g - 1 \in 0 .. end - 1
        BY <3>4, <1>1, <2>2, <2>3
      <4>2. next[Above(end, g - 1)] = g - 1
        BY <3>4, <4>1, <2>3 DEF Cut, Free
      <4> QED  BY <4>1, <4>2, <3>1, <1>1, <2>2
    <3> QED  BY <3>2, <3>3, <3>4
  <2>8. first = IF page = Load THEN Null ELSE FrameOf(c)
    BY <2>3, <2>4 DEF Complete, Cut
  <2>9. first \notin g + 1 .. end - 1
    BY <2>2, <2>3, <2>8, <1>1, Pointers
  <2>10. /\ \A x \in Nodes : next'[x] = IF x = T THEN g ELSE IF x = g THEN first
                                        ELSE IF x = Above(end, g) THEN Null ELSE next[x]
         /\ \A x \in Nodes \ {g, next[g], first} : prev'[x] = prev[x]
    <3>1. next' = o.next /\ prev' = o.prev
      BY <1>4, <2>2
    <3>2. l.next = next /\ l.prev = prev
      OBVIOUS
    <3> HIDE DEF l
    <3> QED  BY <3>1, <3>2, <1>1, <2>2, <2>6, MoveFrame
  <2>11. /\ T \in Nodes /\ T # g /\ Above(end, g) \in Nodes \ {g, T}
         /\ \A f \in 0 .. end - 1 : f \in Nodes /\ f # T /\ f # free_frames
    BY <1>1, <2>2, Pointers
  <2>12. ASSUME NEW f \in g + 1 .. end - 1
         PROVE  prev'[f] = Above(end, f) /\ next'[Above(end, f)] = f
    <3>1. /\ f \in 0 .. end - 1 /\ f \in g .. end - 1 /\ f # g /\ f \in Nodes
          /\ Above(end, g) = g + 1
      BY <1>1, <2>2, <2>11 DEF Above
    <3>2. Above(end, f) \in Nodes \ {T, g, g + 1}
      BY <1>1, <2>2, Pointers DEF Above
    <3>3. prev'[f] = prev[f]
      BY <3>1, <2>7, <2>9, <2>10
    <3>4. next'[Above(end, f)] = next[Above(end, f)]
      BY <3>1, <3>2, <2>10
    <3> QED  BY <3>1, <3>3, <3>4, <2>5
  <2>13. next'[Above(end, g)] = Null /\ next'[T] = g
    BY <2>10, <2>11
  <2>14. ASSUME NEW v \in Load .. page - 1
         PROVE  /\ FrameOf(v) \in Nodes /\ next'[FrameOf(v)] = next[FrameOf(v)]
    <3>1. /\ v \in Load .. Bound - 1 /\ v < page
      BY <1>2, <1>8
    <3>2. FrameOf(v) \in 0 .. end - 1 /\ FrameOf(v) < g /\ FrameOf(v) \in Nat
      BY <3>1, <1>2, <1>8
    <3>3. FrameOf(v) # Above(end, g)
      BY <3>2, <1>1, <2>2, <2>11 DEF Above
    <3> QED  BY <3>2, <3>3, <2>2, <2>10, <2>11
  <2>15. next'[FrameOf(Load)] = Null
    <3>1. CASE page = Load
      BY <3>1, <2>8, <2>10, <2>11, <2>2
    <3>2. CASE page # Load
      <4>1. Load \in Load .. page - 1
        BY <3>2, <1>2, <1>8
      <4> QED  BY <4>1, <3>2, <2>3, <2>14 DEF Cut
    <3> QED  BY <3>1, <3>2
  <2>16. ASSUME NEW v \in Load + 1 .. page
         PROVE  next'[FrameOf(v)] = FrameOf(v - 1)
    <3>1. CASE v = page
      <4>1. page # Load
        BY <3>1, <1>2
      <4> QED  BY <3>1, <4>1, <2>2, <2>8, <2>10, <2>11
    <3>2. CASE v # page
      <4>1. v \in Load .. page - 1 /\ v \in Load + 1 .. c /\ page # Load
        BY <3>2, <1>2, <1>8
      <4>2. next[FrameOf(v)] = FrameOf(v - 1)
        BY <4>1, <2>3 DEF Cut
      <4> QED  BY <4>1, <4>2, <2>14
    <3> QED  BY <3>1, <3>2
  <2>17. Cut(Moved - 1)'
    <3>1. /\ end' = end /\ (Moved - 1)' = page
          /\ \A v : FrameOf(v)' = FrameOf(v)
      BY <1>1, <1>3, <2>1
    <3>2. Free(end, FrameOf(Moved - 1) + 1)'
      BY <3>1, <2>12 DEF Free, Above, free_frames
    <3>3. /\ next'[Above(end, FrameOf(Moved - 1))'] = Null
          /\ next'[T] = FrameOf(Moved - 1)'
      BY <3>1, <2>13 DEF Above, free_frames
    <3> QED  BY <3>1, <3>2, <3>3, <2>15, <2>16 DEF Cut, Null, page_table_frames
  <2> QED  BY <1>1, <1>5, <2>1, <2>17 DEF ListsInv
<1> QED  BY <1>7, <1>8

LEMMA ListsInvStep == MmuInv /\ ListsInv /\ memory.halt = "no" /\ [Next]_vars => ListsInv'
<1> SUFFICES ASSUME MmuInv, ListsInv, memory.halt = "no", [Next]_vars PROVE ListsInv'
  OBVIOUS
<1>1. CASE InitKMap \/ MapPhysicalMemory \/ MapMemMap
  <2>1. next' = next /\ pc \in {"image", "physmap", "mem_map"}
        /\ pc' \in {"image", "physmap", "mem_map", "lists"}
    BY <1>1 DEF InitKMap, MapPhysicalMemory, MapMemMap, At, lists
  <2> QED  BY ONLY <2>1, ListsInv DEF ListsInv, page_table_frames, Null
<1>2. CASE InitFreeList
  <2>1. /\ pc = "lists" /\ pc' = "frames" /\ page' = 0
        /\ next' = [next EXCEPT ![free_frames] = free_frames]
    BY <1>2 DEF InitFreeList, At, ll_init
  <2>2. /\ next \in [Nodes -> Nodes \cup {Null}]
        /\ free_frames \in Nodes /\ page_table_frames \in Nodes
        /\ page_table_frames # free_frames
    <3>1. TypeOK /\ end \in Ends
      BY DEF MmuInv, TypeOK
    <3>2. next \in [Nodes -> Nodes \cup {Null}]
      BY <3>1 DEF TypeOK
    <3>3. free_frames \in Nodes /\ page_table_frames \in Nodes
      BY ListTypes
    <3>4. page_table_frames # free_frames
      <4>1. free_frames \in Nat /\ page_table_frames = free_frames + 1
        BY <3>1, Pointers
      <4> QED  BY ONLY <4>1
    <3> QED  BY <3>2, <3>3, <3>4
  <2>3. next[page_table_frames] = Null
    BY <2>1 DEF ListsInv
  <2>4. next'[page_table_frames] = Null /\ next'[free_frames] = free_frames
    BY <2>1, <2>2, <2>3
  <2>5. Free(page, 0)'
    BY <2>1 DEF Free
  <2> QED  BY <2>1, <2>4, <2>5 DEF ListsInv, page_table_frames, free_frames, Null
<1>3. CASE AddFreeFrame
  BY <1>3, AddFreeFrameLists
<1>4. CASE WalkPages
  BY <1>4, WalkPagesLists
<1>5. CASE UNCHANGED vars
  <2>1. UNCHANGED <<layout, end, memory, root, pc, page, next, prev>>
    BY <1>5 DEF vars, lists
  <2>2. Bound' = Bound /\ Moved' = Moved
    BY <2>1 DEF Bound, Moved
  <2>3. \A v : FrameOf(v)' = FrameOf(v)
    BY <2>1, Primes DEF FrameOf
  <2>4. (Complete => Complete') /\ (Cut(Moved - 1) => Cut(Moved - 1)')
    BY <2>1, <2>2, <2>3
       DEF Complete, Cut, Free, Above, free_frames, page_table_frames, Null
  <2>5. Free(page, 0) => Free(page, 0)'
    BY <2>1 DEF Free, Above, free_frames
  <2> QED  BY <2>1, <2>2, <2>4, <2>5 DEF ListsInv, free_frames, page_table_frames, Null
<1> QED  BY <1>1, <1>2, <1>3, <1>4, <1>5 DEF Next

LEMMA ListsInvariant == Spec => [](MmuInv /\ (memory.halt = "no" => ListsInv))
<1> DEFINE I == MmuInv /\ (memory.halt = "no" => ListsInv)
<1>1. Init => I
  BY MmuInit, ListsInit
<1>2. I /\ [Next]_vars => I'
  <2> SUFFICES ASSUME I, [Next]_vars PROVE I'
    OBVIOUS
  <2>1. MmuInv'
    BY MmuStep
  <2>2. memory'.halt = "no" => memory.halt = "no"
    BY DEF Next, InitKMap, MapPhysicalMemory, MapMemMap, InitFreeList, AddFreeFrame, WalkPages,
           At, vars
  <2>3. memory'.halt = "no" => ListsInv'
    BY <2>2, ListsInvStep
  <2> QED  BY <2>1, <2>3
<1> QED  BY <1>1, <1>2, PTL DEF Spec

-----------------------------------------------------------------------------
(***************************************************************************)
(* What a walk along the links finds.                                      *)
(***************************************************************************)
(* A nonempty set of numbers has a least one.                               *)
LEMMA LeastNumber ==
  ASSUME NEW S \in SUBSET Nat, S # {}
  PROVE  \E n \in S : \A m \in S : n <= m
<1> DEFINE R == OpToRel(<, Nat)
<1>1. IsWellFoundedOn(R, Nat)
  BY NatLessThanWellFounded
<1>2. ASSUME NEW x \in Nat, NEW y \in Nat, x < y PROVE <<x, y>> \in R
  BY <1>2, Zenon DEF OpToRel
<1> HIDE DEF R
<1>3. PICK x \in S : \A y \in S : ~ (<<y, x>> \in R)
  BY <1>1, WFMin
<1>4. ASSUME NEW y \in S PROVE x <= y
  <2>1. ~ (y < x)
    BY <1>2, <1>3
  <2> QED  BY <2>1
<1> QED  BY <1>4

(* Listed, for a list whose nodes are known one after the other. *)
LEMMA ListedIs ==
  ASSUME Max(Ends) \in Nat, NEW head, NEW at \in [Nat -> Nodes \cup {Null}], at[0] = head,
         \A k \in Nat : at[k + 1] = IF at[k] = Null THEN Null ELSE next[at[k]]
  PROVE  Listed(head) = {at[k] : k \in 0 .. Max(Ends)} \ {free_frames, page_table_frames, Null}
<1> DEFINE F(f, k) == IF k = 0 THEN {head} ELSE f[k - 1] \cup {next[n] : n \in f[k - 1] \ {Null}}
           IsFrom(f) == f = [k \in Nat |-> F(f, k)]
           from == CHOOSE f : IsFrom(f)
           g == [k \in Nat |-> {at[j] : j \in 0 .. k}]
<1>1. Listed(head) = from[Max(Ends)] \ {free_frames, page_table_frames, Null}
  BY DEF Listed
<1>2. ASSUME NEW k \in Nat, k # 0
      PROVE  g[k] = g[k - 1] \cup {next[n] : n \in g[k - 1] \ {Null}}
  <2>1. k - 1 \in Nat /\ g[k - 1] = {at[j] : j \in 0 .. k - 1} /\ g[k] = {at[j] : j \in 0 .. k}
    BY <1>2
  <2>2. ASSUME NEW j \in 0 .. k PROVE at[j] \in g[k - 1] \cup {next[n] : n \in g[k - 1] \ {Null}}
    <3>1. CASE j < k
      BY <3>1, <2>1
    <3>2. CASE j = k /\ at[k - 1] = Null
      <4>1. at[(k - 1) + 1] = Null /\ (k - 1) + 1 = k
        BY <3>2, <2>1
      <4>2. at[j] = at[k - 1]
        BY <4>1, <3>2
      <4> QED  BY <4>2, <2>1
    <3>3. CASE j = k /\ at[k - 1] # Null
      <4>1. at[(k - 1) + 1] = next[at[k - 1]] /\ (k - 1) + 1 = k
        BY <3>3, <2>1
      <4>2. at[k - 1] \in g[k - 1] \ {Null}
        BY <3>3, <2>1
      <4>3. at[j] = next[at[k - 1]]
        BY <4>1, <3>3
      <4> HIDE DEF g
      <4> QED  BY <4>2, <4>3
    <3> QED  BY <3>1, <3>2, <3>3, <1>2
  <2>3. ASSUME NEW n \in g[k - 1] \ {Null} PROVE next[n] \in g[k]
    <3>1. PICK j \in 0 .. k - 1 : n = at[j]
      BY <2>1, <2>3
    <3>2. at[j + 1] = next[n] /\ j + 1 \in 0 .. k
      BY <3>1, <2>1, <2>3
    <3> QED  BY <3>2, <2>1
  <2>4. g[k - 1] \subseteq g[k]
    BY <2>1
  <2>5. g[k] \subseteq g[k - 1] \cup {next[n] : n \in g[k - 1] \ {Null}}
    BY <2>1, <2>2
  <2> HIDE DEF g
  <2> QED  BY <2>3, <2>4, <2>5
<1>3. g[0] = {head}
  BY SMT
<1>4. IsFrom(g)
  <2>1. \A k \in Nat : g[k] = F(g, k)
    BY <1>2, <1>3
  <2>2. g = [k \in Nat |-> g[k]]
    OBVIOUS
  <2> HIDE DEF g, F
  <2> QED  BY <2>1, <2>2
<1>5. IsFrom(from)
  BY <1>4
<1>6. \A k \in Nat : from[k] = F(from, k)
  <2> HIDE DEF from, F
  <2>1. from = [k \in Nat |-> F(from, k)]
    BY <1>5
  <2> QED  BY <2>1
<1> HIDE DEF from, g
<1>7. \A k \in Nat : from[k] = g[k]
  <2> DEFINE S == {k \in Nat : from[k] # g[k]}
  <2> SUFFICES ASSUME S # {} PROVE FALSE
    OBVIOUS
  <2>1. PICK k \in S : \A m \in S : k <= m
    BY LeastNumber
  <2>2. k \in Nat /\ from[k] # g[k]
    BY <2>1
  <2>3. k # 0
    BY <1>3, <1>6, <2>2
  <2>4. k - 1 \in Nat /\ k - 1 \notin S
    BY <2>1, <2>2, <2>3
  <2>5. from[k - 1] = g[k - 1]
    BY <2>4
  <2>6. from[k] = from[k - 1] \cup {next[n] : n \in from[k - 1] \ {Null}}
    BY <1>6, <2>2, <2>3
  <2>7. g[k] = g[k - 1] \cup {next[n] : n \in g[k - 1] \ {Null}}
    BY <1>2, <2>2, <2>3
  <2> QED  BY <2>2, <2>5, <2>6, <2>7
<1> QED  BY <1>1, <1>7 DEF g

(* At the end the two lists are known frame by frame. *)
LEMMA ListsAtEnd ==
  ASSUME MmuInv, ListsInv, At("done")
  PROVE  /\ Listed(page_table_frames) = MappedFrames
         /\ Listed(free_frames) = Max(MappedFrames) + 1 .. end - 1
         /\ Max(MappedFrames) \in Nat /\ end \in Nat
         /\ \A f \in MappedFrames : f \in Nat /\ f <= Max(MappedFrames)
<1> DEFINE B == Bound
           G == FrameOf(B - 1)
           M == Max(Ends)
           T == page_table_frames
           H == free_frames
           S == Nodes \cup {Null}
<1>1. /\ Load < B - 1 /\ B \in Nat /\ Load \in Nat
      /\ FrameOf(Load) = Load
      /\ \A v \in Load .. B - 1 :
           v \in Nat /\ v \in Page /\ FrameOf(v) \in 0 .. end - 1 /\ FrameOf(v) \in Nat
           /\ FrameOf(v) # NoFrame
      /\ \A v, w \in Load .. B - 1 : v < w => FrameOf(v) < FrameOf(w)
      /\ \A v \in Page \ (Load .. B - 1) : FrameOf(v) = NoFrame
      /\ \A v : Translate(v).frame = FrameOf(v)
  BY MovedFrames, InvBounds DEF At
<1>2. /\ end \in Ends /\ end \in Nat /\ M \in Nat /\ end <= M /\ M = H /\ T = H + 1 /\ Null = H + 2
      /\ Nodes = 0 .. H + 1 /\ page \in Nat
  BY InvBounds, Bounds, Pointers DEF MmuInv, TypeOK, free_frames
<1>3. Cut(B - 1)
  <2>1. Moved = B /\ ~ (Moved <= Load)
    BY <1>1, <1>2 DEF ListsInv, At, Moved
  <2> QED  BY <2>1 DEF ListsInv, At
<1>4. /\ \A f \in G + 1 .. end - 1 : next[Above(end, f)] = f
      /\ next[Above(end, G)] = Null /\ next[T] = G /\ next[FrameOf(Load)] = Null
      /\ \A v \in Load + 1 .. B - 1 : next[FrameOf(v)] = FrameOf(v - 1)
  BY <1>3 DEF Cut, Free
<1>5. MappedFrames = {FrameOf(v) : v \in Load .. B - 1}
  <2>1. MappedFrames = {FrameOf(v) : v \in Page} \ {NoFrame}
    BY <1>1 DEF MappedFrames
  <2> QED  BY <2>1, <1>1
<1>6. G \in 0 .. end - 1 /\ G \in Nat
  BY <1>1
<1>7. Max(MappedFrames) = G /\ \A f \in MappedFrames : f \in Nat /\ f <= G
  <2>1. G \in MappedFrames
    BY <1>1, <1>5
  <2>2. ASSUME NEW f \in MappedFrames PROVE f \in Nat /\ G >= f
    <3>1. PICK v \in Load .. B - 1 : f = FrameOf(v)
      BY <1>5
    <3>2. v = B - 1 \/ v < B - 1
      BY <1>1
    <3> QED  BY <3>1, <3>2, <1>1
  <2>3. \E x \in MappedFrames : \A y \in MappedFrames : x >= y
    BY <2>1, <2>2
  <2> HIDE DEF G
  <2>4. Max(MappedFrames) \in MappedFrames /\ \A y \in MappedFrames : Max(MappedFrames) >= y
    BY <2>3 DEF Max
  <2> QED  BY <2>1, <2>2, <2>4
<1>8. B - Load <= M
  <2> DEFINE Low == {v \in Load .. B - 1 : FrameOf(v) < v}
  <2>1. Low = {}
    <3> SUFFICES ASSUME Low # {} PROVE FALSE
      OBVIOUS
    <3>1. PICK v \in Low : \A m \in Low : v <= m
      BY <1>1, LeastNumber
    <3>2. v \in Load .. B - 1 /\ FrameOf(v) < v /\ v # Load
      BY <3>1, <1>1
    <3>3. v - 1 \in Load .. B - 1 /\ v - 1 \notin Low
      BY <3>1, <3>2, <1>1
    <3> QED  BY <3>2, <3>3, <1>1
  <2>2. ~ (G < B - 1)
    BY <2>1, <1>1
  <2> QED  BY <2>2, <1>1, <1>2, <1>6
<1> HIDE DEF B, G, M, T, H
<1>9. Listed(H) = G + 1 .. end - 1
  <2> DEFINE n == end - (G + 1)
             at == [k \in Nat |-> IF k = 0 THEN H ELSE IF k <= n THEN end - k ELSE Null]
  <2>1. n \in Nat /\ n <= M
    BY <1>2, <1>6
  <2>2. at \in [Nat -> S]
    BY <1>2, <1>6, <2>1
  <2>3. ASSUME NEW k \in Nat PROVE at[k + 1] = IF at[k] = Null THEN Null ELSE next[at[k]]
    <3>1. CASE k < n
      <4>1. end - (k + 1) \in G + 1 .. end - 1 /\ at[k + 1] = end - (k + 1)
        BY <3>1, <1>2, <1>6, <2>1
      <4>2. at[k] = Above(end, end - (k + 1)) /\ at[k] # Null
        BY <3>1, <1>2, <1>6, <2>1 DEF Above, H
      <4> QED  BY <4>1, <4>2, <1>4
    <3>2. CASE k = n
      <4>1. at[k] = Above(end, G) /\ at[k] # Null /\ at[k + 1] = Null
        BY <3>2, <1>2, <1>6, <2>1 DEF Above, H
      <4> QED  BY <4>1, <1>4
    <3>3. CASE k > n
      BY <3>3, <2>1
    <3> QED  BY <3>1, <3>2, <3>3, <2>1
  <2>4. at[0] = H
    BY SMT
  <2> HIDE DEF at
  <2>5. Listed(H) = {at[k] : k \in 0 .. M} \ {H, T, Null}
    <3>1. \A k \in Nat : at[k + 1] = IF at[k] = Null THEN Null ELSE next[at[k]]
      BY <2>3
    <3>2. Max(Ends) \in Nat
      BY <1>2 DEF M
    <3>3. Listed(H) = {at[k] : k \in 0 .. Max(Ends)} \ {free_frames, page_table_frames, Null}
      BY <2>2, <2>4, <3>1, <3>2, ListedIs
    <3> QED  BY <3>3 DEF M, T, H
  <2>6. ASSUME NEW k \in 0 .. M
        PROVE  at[k] \in {H, T, Null} \/ at[k] \in G + 1 .. end - 1
    BY <1>2, <1>6, <2>1 DEF at
  <2>7. ASSUME NEW f \in G + 1 .. end - 1
        PROVE  f \in {at[k] : k \in 0 .. M} \ {H, T, Null}
    <3>1. end - f \in 0 .. M /\ at[end - f] = f
      BY <1>2, <1>6, <2>1 DEF at
    <3> QED  BY <3>1, <1>2, <1>6
  <2> QED  BY <2>5, <2>6, <2>7
<1>10. Listed(T) = MappedFrames
  <2> DEFINE n == B - Load
             at == [k \in Nat |-> IF k = 0 THEN T ELSE IF k <= n THEN FrameOf(B - k) ELSE Null]
  <2>1. n \in Nat /\ n <= M /\ \A k \in 1 .. n : B - k \in Load .. B - 1
    BY <1>1, <1>8
  <2>2. \A v \in Load .. B - 1 : FrameOf(v) \in Nodes \ {H, T, Null}
    BY <1>1, <1>2
  <2>3. at \in [Nat -> S]
    <3>1. \A k \in Nat : k # 0 /\ k <= n => FrameOf(B - k) \in Nodes
      BY <2>1, <2>2
    <3> QED  BY <3>1, <1>2
  <2>4. ASSUME NEW k \in Nat PROVE at[k + 1] = IF at[k] = Null THEN Null ELSE next[at[k]]
    <3>1. CASE k = 0
      <4>1. at[k] = T /\ T # Null /\ at[k + 1] = FrameOf(B - 1)
        BY <3>1, <1>1, <1>2, <2>1
      <4> QED  BY <4>1, <1>4 DEF G
    <3>2. CASE k # 0 /\ k < n
      <4>1. B - k \in Load + 1 .. B - 1 /\ (B - k) - 1 = B - (k + 1)
        BY <3>2, <1>1
      <4>2. at[k] = FrameOf(B - k) /\ at[k + 1] = FrameOf(B - (k + 1)) /\ at[k] # Null
        BY <3>2, <2>1, <2>2
      <4>3. next[FrameOf(B - k)] = FrameOf((B - k) - 1)
        BY <4>1, <1>4
      <4> QED  BY <4>1, <4>2, <4>3
    <3>3. CASE k # 0 /\ k = n
      <4>1. B - k = Load
        BY <3>3, <1>1
      <4>2. at[k] = FrameOf(B - k) /\ at[k] # Null /\ at[k + 1] = Null
        BY <3>3, <2>1, <2>2
      <4> QED  BY <4>1, <4>2, <1>4
    <3>4. CASE k > n
      BY <3>4, <2>1
    <3> QED  BY <3>1, <3>2, <3>3, <3>4, <2>1
  <2>5. at[0] = T
    BY SMT
  <2> HIDE DEF at
  <2>6. Listed(T) = {at[k] : k \in 0 .. M} \ {H, T, Null}
    <3>1. \A k \in Nat : at[k + 1] = IF at[k] = Null THEN Null ELSE next[at[k]]
      BY <2>4
    <3>2. Max(Ends) \in Nat
      BY <1>2 DEF M
    <3>3. Listed(T) = {at[k] : k \in 0 .. Max(Ends)} \ {free_frames, page_table_frames, Null}
      BY <2>3, <2>5, <3>1, <3>2, ListedIs
    <3> QED  BY <3>3 DEF M, T, H
  <2>7. ASSUME NEW k \in 0 .. M
        PROVE  at[k] \in {H, T, Null} \/ at[k] \in MappedFrames
    <3>1. CASE k \in 1 .. n
      BY <3>1, <1>5, <2>1 DEF at
    <3>2. CASE k \notin 1 .. n
      BY <3>2, <2>1 DEF at
    <3> QED  BY <3>1, <3>2
  <2>8. ASSUME NEW f \in MappedFrames PROVE f \in {at[k] : k \in 0 .. M} \ {H, T, Null}
    <3>1. PICK v \in Load .. B - 1 : f = FrameOf(v)
      BY <1>5
    <3>2. B - v \in 1 .. n /\ B - (B - v) = v
      BY <1>1
    <3>3. at[B - v] = FrameOf(v) /\ B - v \in 0 .. M
      BY <3>2, <2>1, <1>2 DEF at
    <3> QED  BY <3>1, <3>3, <2>2
  <2> QED  BY <2>6, <2>7, <2>8
<1> QED  BY <1>2, <1>6, <1>7, <1>9, <1>10 DEF T, H

(* When mmu_init is done, no frame that a page is mapped to is free, for    *)
(* every image and memory (mmu.c:145-166, linked_list.h:11-29): all those   *)
(* that are still on free_frames lie above them.                            *)
THEOREM MappedNotFreeCorrect == Spec => []MappedNotFree
<1>1. MmuInv /\ (memory.halt = "no" => ListsInv) => MappedNotFree
  <2> SUFFICES ASSUME MmuInv, ListsInv, At("done")
               PROVE  Listed(free_frames) \cap MappedFrames = {}
    BY DEF MappedNotFree, At
  <2> DEFINE m == Max(MappedFrames)
  <2>1. /\ m \in Nat /\ end \in Nat /\ Listed(free_frames) = m + 1 .. end - 1
        /\ \A f \in MappedFrames : f \in Nat /\ f <= m
    BY ListsAtEnd
  <2> HIDE DEF m
  <2> QED  BY <2>1
<1> QED  BY <1>1, ListsInvariant, PTL
=============================================================================
