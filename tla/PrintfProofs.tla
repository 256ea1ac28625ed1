----------------------------- MODULE PrintfProofs -----------------------------
(***************************************************************************)
(* Theorems about Printf: for every buffer, every width of a word and      *)
(* every format, what is pushed into the buffer comes out of it, the       *)
(* buffer is never filled further than its last but one byte, a conversion *)
(* prints what C says of its directive, and a format all of whose          *)
(* directives agree with C comes out as C says.                            *)
(***************************************************************************)
EXTENDS Printf, SequenceTheorems, FiniteSetTheorems, WellFoundedInduction, NaturalsInduction, TLAPS

(* A nonempty set of numbers has a least one.                               *)
LEMMA LeastNumber ==
  ASSUME NEW S \in SUBSET Nat, S # {}
  PROVE  \E n \in S : \A m \in S : n <= m
<1> DEFINE R == OpToRel(<, Nat)
<1>1. IsWellFoundedOn(R, Nat)
  BY NatLessThanWellFounded
<1>2. ASSUME NEW x \in Nat, NEW y \in Nat, x < y PROVE <<x, y>> \in R
  BY <1>2, Zenon DEF OpToRel
<1> HIDE DEF R
<1>3. PICK x \in S : \A y \in S : ~ (<<y, x>> \in R)
  BY <1>1, WFMin
<1>4. ASSUME NEW y \in S PROVE x <= y
  <2>1. ~ (y < x)
    BY <1>2, <1>3
  <2> QED  BY <2>1
<1> QED  BY <1>4

-----------------------------------------------------------------------------
(***************************************************************************)
(* Sequences of anything.                                                  *)
(***************************************************************************)
IsSeq(s) == \E S : s \in Seq(S)

LEMMA Empty == IsSeq(<<>>) /\ Len(<<>>) = 0
<1>1. <<>> \in Seq({})
  OBVIOUS
<1> QED  BY <1>1 DEF IsSeq

LEMMA Singleton == ASSUME NEW c PROVE IsSeq(<<c>>) /\ Len(<<c>>) = 1
<1>1. <<c>> \in Seq({c})
  OBVIOUS
<1> QED  BY <1>1 DEF IsSeq

LEMMA Lengths == ASSUME NEW s, IsSeq(s) PROVE Len(s) \in Nat
BY DEF IsSeq

LEMMA Appended ==
  ASSUME NEW s, NEW c, IsSeq(s)
  PROVE  IsSeq(Append(s, c)) /\ Len(Append(s, c)) = Len(s) + 1 /\ Append(s, c) = s \o <<c>>
<1>1. PICK S : s \in Seq(S)
  BY DEF IsSeq
<1>2. s \in Seq(S \cup {c}) /\ c \in S \cup {c}
  BY <1>1
<1>3. /\ Append(s, c) \in Seq(S \cup {c}) /\ Len(Append(s, c)) = Len(s) + 1
      /\ Append(s, c) = s \o <<c>>
  BY <1>2, AppendProperties, AppendIsConcat
<1> QED  BY <1>3 DEF IsSeq

LEMMA Concatenated ==
  ASSUME NEW s, NEW t, IsSeq(s), IsSeq(t)
  PROVE  IsSeq(s \o t) /\ Len(s \o t) = Len(s) + Len(t) /\ s \o <<>> = s
<1>1. PICK S : s \in Seq(S)
  BY DEF IsSeq
<1>2. PICK T : t \in Seq(T)
  BY DEF IsSeq
<1>3. s \in Seq(S \cup T) /\ t \in Seq(S \cup T)
  BY <1>1, <1>2
<1>4. s \o t \in Seq(S \cup T) /\ Len(s \o t) = Len(s) + Len(t)
  BY <1>3, ConcatProperties
<1>5. s \o <<>> = s
  BY <1>1, ConcatEmptySeq
<1> QED  BY <1>4, <1>5 DEF IsSeq

LEMMA Associative ==
  ASSUME NEW s, NEW t, NEW u, IsSeq(s), IsSeq(t), IsSeq(u)
  PROVE  (s \o t) \o u = s \o (t \o u)
<1>1. PICK S : s \in Seq(S)
  BY DEF IsSeq
<1>2. PICK T : t \in Seq(T)
  BY DEF IsSeq
<1>3. PICK U : u \in Seq(U)
  BY DEF IsSeq
<1> DEFINE V == S \cup T \cup U
<1>4. s \in Seq(V) /\ t \in Seq(V) /\ u \in Seq(V)
  BY <1>1, <1>2, <1>3
<1> HIDE DEF V
<1> QED  BY <1>4, ConcatAssociative

LEMMA Repeated == ASSUME NEW c, NEW n \in Nat PROVE IsSeq(Repeat(c, n)) /\ Len(Repeat(c, n)) = n
<1>1. [i \in 1 .. n |-> c] \in Seq({c}) /\ Len([i \in 1 .. n |-> c]) = n
  OBVIOUS
<1>2. Repeat(c, n) \in Seq({c}) /\ Len(Repeat(c, n)) = n
  BY <1>1 DEF Repeat
<1> QED  BY <1>2 DEF IsSeq

(* The first k elements of a sequence, one by one. *)
First(s, k) == SubSeq(s, 1, k)

LEMMA FirstElements ==
  ASSUME NEW s, IsSeq(s)
  PROVE  /\ First(s, 0) = <<>> /\ First(s, Len(s)) = s
         /\ \A k \in 1 .. Len(s) : First(s, k) = First(s, k - 1) \o <<s[k]>>
         /\ \A k \in 0 .. Len(s) : IsSeq(First(s, k))
<1>1. PICK S : s \in Seq(S)
  BY DEF IsSeq
<1>2. First(s, 0) = <<>> /\ First(s, Len(s)) = s
  BY <1>1, SubSeqEmpty, SubSeqFull DEF First
<1>3. \A k \in 0 .. Len(s) : First(s, k) \in Seq(S) /\ Len(First(s, k)) = k
  BY <1>1, SubSeqProperties DEF First
<1>4. ASSUME NEW k \in 1 .. Len(s) PROVE First(s, k) = First(s, k - 1) \o <<s[k]>>
  <2>1. k - 1 \in 0 .. Len(s) /\ (k - 1) + 1 = k
    BY <1>1
  <2>2. First(s, (k - 1) + 1) = Append(First(s, k - 1), s[(k - 1) + 1])
    BY <1>1, <2>1 DEF First
  <2> QED  BY <2>1, <2>2, <1>3, Appended DEF IsSeq
<1> QED  BY <1>2, <1>3, <1>4 DEF IsSeq

LEMMA OneMore ==
  ASSUME NEW s, IsSeq(s), NEW t, IsSeq(t), NEW k \in 1 .. Len(t)
  PROVE  (s \o First(t, k - 1)) \o <<t[k]>> = s \o First(t, k)
<1> DEFINE f == First(t, k - 1)
           e == <<t[k]>>
<1>1. First(t, k) = f \o e /\ IsSeq(f) /\ IsSeq(e)
  BY FirstElements, Singleton, Lengths
<1> HIDE DEF f, e
<1>2. PICK S : s \in Seq(S)
  BY DEF IsSeq
<1>3. PICK F : f \in Seq(F)
  BY <1>1 DEF IsSeq
<1>4. PICK E : e \in Seq(E)
  BY <1>1 DEF IsSeq
<1> DEFINE V == S \cup F \cup E
<1>5. s \in Seq(V) /\ f \in Seq(V) /\ e \in Seq(V)
  BY <1>2, <1>3, <1>4
<1> HIDE DEF V
<1>6. (s \o f) \o e = s \o (f \o e)
  BY SMTT(30), <1>5, ConcatAssociative
<1> QED  BY <1>1, <1>6 DEF f, e

-----------------------------------------------------------------------------
(***************************************************************************)
(* The buffer.                                                             *)
(***************************************************************************)
LEMMA Division ==
  ASSUME NEW v \in Nat, NEW d \in Nat \ {0}
  PROVE  v \div d \in Nat /\ v % d \in 0 .. d - 1 /\ v = d * (v \div d) + (v % d)
OBVIOUS

LEMMA DivisionUnique ==
  ASSUME NEW v \in Nat, NEW d \in Nat \ {0}, NEW q \in Nat, NEW r \in 0 .. d - 1, v = d * q + r
  PROVE  v \div d = q /\ v % d = r
<1> DEFINE p == v \div d
           s == v % d
<1>1. p \in Nat /\ s \in 0 .. d - 1 /\ v = d * p + s
  OBVIOUS
<1> HIDE DEF p, s
<1>2. ASSUME NEW a \in Nat, NEW b \in Nat, a < b PROVE d * a + d <= d * b
  <2>1. PICK c \in Nat : b = a + 1 + c
    <3>1. b - a - 1 \in Nat /\ b = a + 1 + (b - a - 1)
      BY <1>2
    <3> QED  BY <3>1
  <2>2. d * b = d * a + d + d * c /\ d * c \in Nat
    BY <2>1
  <2> QED  BY <2>2
<1>3. ~ (p < q)
  BY <1>1, <1>2
<1>4. ~ (q < p)
  BY <1>1, <1>2
<1>5. p = q
  BY <1>1, <1>3, <1>4
<1> QED  BY <1>1, <1>5 DEF p, s

LEMMA WrapType == ASSUME NEW n \in Int PROVE Wrap(n) \in Word /\ Wrap(n) \in Nat
<1>1. SizeRange \in Nat \ {0}
  BY RangeAssumption
<1>2. n % SizeRange \in 0 .. SizeRange - 1
  BY <1>1
<1> QED  BY <1>1, <1>2 DEF Wrap, Word

LEMMA WrapSum ==
  ASSUME NEW n \in Nat, NEW m \in Nat
  PROVE  Wrap(Wrap(n) + m) = Wrap(n + m)
<1>1. SizeRange \in Nat \ {0}
  BY RangeAssumption
<1> DEFINE q == n \div SizeRange
           r == n % SizeRange
           p == (r + m) \div SizeRange
           s == (r + m) % SizeRange
<1>2. q \in Nat /\ r \in 0 .. SizeRange - 1 /\ n = SizeRange * q + r
  BY <1>1, Division
<1>3. r + m \in Nat
  BY <1>1, <1>2
<1>4. p \in Nat /\ s \in 0 .. SizeRange - 1 /\ r + m = SizeRange * p + s
  BY <1>1, <1>3, Division
<1> HIDE DEF q, p
<1>5. n + m = SizeRange * (q + p) + s /\ q + p \in Nat /\ n + m \in Nat
  <2> HIDE DEF r, s
  <2>1. n + m = (SizeRange * q) + (SizeRange * p) + s
    BY <1>1, <1>2, <1>4
  <2> QED  BY <2>1, <1>1, <1>2, <1>4
<1>6. (n + m) % SizeRange = s
  <2> HIDE DEF r, s
  <2> QED  BY <1>1, <1>4, <1>5, DivisionUnique
<1> QED  BY <1>6 DEF Wrap

(* The buffer has room for a character and the terminator, and pr.written   *)
(* counts what was sent.                                                    *)
IsBuffer(o) ==
  /\ o = [buf |-> o.buf, sent |-> o.sent, written |-> o.written]
  /\ IsSeq(o.buf) /\ IsSeq(o.sent) /\ Len(o.buf) + 1 < BufSize
  /\ o.written = Wrap(Len(o.sent))

(* What has been pushed. *)
Stream(o) == o.sent \o o.buf

LEMMA Flushed ==
  ASSUME NEW o, o = [buf |-> o.buf, sent |-> o.sent, written |-> o.written],
         IsSeq(o.buf), IsSeq(o.sent), o.written = Wrap(Len(o.sent))
  PROVE  IsBuffer(Flush(o)) /\ Stream(Flush(o)) = Stream(o) /\ Flush(o).buf = <<>>
<1> DEFINE f == Flush(o)
<1>1. /\ f = [buf |-> f.buf, sent |-> f.sent, written |-> f.written]
      /\ f.buf = <<>> /\ f.sent = o.sent \o o.buf /\ f.written = Wrap(o.written + Len(o.buf))
  BY DEF Flush
<1>2. /\ IsSeq(f.sent) /\ Len(f.sent) = Len(o.sent) + Len(o.buf) /\ IsSeq(f.buf)
      /\ Len(f.buf) = 0 /\ f.sent \o f.buf = f.sent
      /\ Len(o.sent) \in Nat /\ Len(o.buf) \in Nat
  BY <1>1, Empty, Concatenated, Lengths
<1>3. f.written = Wrap(Len(f.sent))
  BY <1>1, <1>2, WrapSum
<1>4. Len(f.buf) + 1 < BufSize
  BY <1>2, BufAssumption
<1> HIDE DEF f
<1>5. IsBuffer(f) /\ Stream(f) = Stream(o)
  BY <1>1, <1>2, <1>3, <1>4 DEF IsBuffer, Stream
<1> QED  BY <1>1, <1>5 DEF f

LEMMA PushedChar ==
  ASSUME NEW o, IsBuffer(o), NEW c
  PROVE  IsBuffer(PushChar(o, c)) /\ Stream(PushChar(o, c)) = Stream(o) \o <<c>>
<1> DEFINE b == Append(o.buf, c)
           p == [o EXCEPT !.buf = b]
<1>1. /\ IsSeq(b) /\ Len(b) = Len(o.buf) + 1 /\ b = o.buf \o <<c>> /\ Len(o.buf) \in Nat
  BY Appended, Lengths DEF IsBuffer
<1> HIDE DEF b
<1>2. /\ p = [buf |-> p.buf, sent |-> p.sent, written |-> p.written]
      /\ p.buf = b /\ p.sent = o.sent /\ p.written = o.written
  BY DEF IsBuffer
<1>3. PushChar(o, c) = IF Len(p.buf) + 1 >= BufSize THEN Flush(p) ELSE p
  BY DEF PushChar, b
<1> HIDE DEF p
<1>4. Stream(p) = Stream(o) \o <<c>>
  <2>1. o.sent \o (o.buf \o <<c>>) = (o.sent \o o.buf) \o <<c>>
    BY Singleton, Associative DEF IsBuffer
  <2> QED  BY <1>1, <1>2, <2>1 DEF Stream
<1>5. CASE Len(p.buf) + 1 >= BufSize
  <2>1. IsBuffer(Flush(p)) /\ Stream(Flush(p)) = Stream(p)
    BY <1>1, <1>2, Flushed DEF IsBuffer
  <2> QED  BY <2>1, <1>3, <1>4, <1>5
<1>6. CASE ~ (Len(p.buf) + 1 >= BufSize)
  <2>1. Len(p.buf) + 1 < BufSize
    BY <1>1, <1>2, <1>6, BufAssumption
  <2> QED  BY <2>1, <1>1, <1>2, <1>3, <1>4, <1>6 DEF IsBuffer
<1> QED  BY <1>5, <1>6

(* Wherever in a field the buffer is flushed, what is pushed comes out of   *)
(* it in order, once, and the buffer never takes more than it has room for  *)
(* (printf.c:43-64).                                                        *)
THEOREM PushesEverything ==
  ASSUME NEW o, IsBuffer(o), NEW chars, IsSeq(chars)
  PROVE  IsBuffer(PushAll(o, chars)) /\ Stream(PushAll(o, chars)) = Stream(o) \o chars
<1> DEFINE n == Len(chars)
           F(f, k) == IF k = 0 THEN o ELSE PushChar(f[k - 1], chars[k])
           IsPushed(f, m) == f = [k \in 0 .. m |-> F(f, k)]
           pushed == CHOOSE f : IsPushed(f, n)
<1>1. n \in Nat
  BY Lengths
<1>2. PushAll(o, chars) = pushed[n]
  BY DEF PushAll
<1>3. \E f : IsPushed(f, n)
  <2> DEFINE S == {m \in Nat : ~ \E f : IsPushed(f, m)}
  <2> SUFFICES ASSUME S # {} PROVE FALSE
    BY <1>1
  <2>1. PICK m \in S : \A l \in S : m <= l
    BY LeastNumber
  <2>2. CASE m = 0
    <3> DEFINE f == [k \in 0 .. 0 |-> o]
    <3>1. f = [k \in 0 .. 0 |-> F(f, k)]
      BY SMT
    <3> QED  BY <2>1, <2>2, <3>1, Zenon
  <2>3. CASE m # 0
    <3>1. m \in Nat /\ m - 1 \in Nat /\ m - 1 \notin S
      BY <2>1, <2>3
    <3>2. PICK f : IsPushed(f, m - 1)
      BY <3>1
    <3> DEFINE g == [k \in 0 .. m |-> IF k < m THEN f[k] ELSE PushChar(f[m - 1], chars[m])]
    <3>3. \A k \in 0 .. m - 1 : f[k] = F(f, k)
      BY <3>2, Zenon
    <3>4. ASSUME NEW k \in 0 .. m PROVE g[k] = F(g, k)
      BY <3>1, <3>3, <2>3
    <3>5. g = [k \in 0 .. m |-> F(g, k)]
      <4>1. g = [k \in 0 .. m |-> g[k]]
        OBVIOUS
      <4> HIDE DEF g, F
      <4> QED  BY <3>4, <4>1
    <3> QED  BY <2>1, <3>5
  <2> QED  BY <2>2, <2>3
<1>4. IsPushed(pushed, n)
  BY <1>3
<1> HIDE DEF pushed
<1>5. \A k \in 0 .. n : pushed[k] = F(pushed, k)
  BY <1>4, Zenon
<1>6. \A k \in 0 .. n : IsBuffer(pushed[k]) /\ Stream(pushed[k]) = Stream(o) \o First(chars, k)
  <2> DEFINE Good(k) == IsBuffer(pushed[k]) /\ Stream(pushed[k]) = Stream(o) \o First(chars, k)
             S == {k \in 0 .. n : ~ Good(k)}
  <2> SUFFICES ASSUME S # {} PROVE FALSE
    OBVIOUS
  <2>1. PICK k \in S : \A m \in S : k <= m
    <3>1. S \in SUBSET Nat
      BY <1>1
    <3> HIDE DEF S
    <3> QED  BY <3>1, LeastNumber
  <2>2. IsSeq(Stream(o))
    BY Concatenated DEF IsBuffer, Stream
  <2>3. CASE k = 0
    <3>1. pushed[k] = o /\ First(chars, k) = <<>>
      BY <2>3, <1>1, <1>5, FirstElements
    <3>2. Stream(o) \o <<>> = Stream(o)
      BY <2>2, Concatenated
    <3> QED  BY <2>1, <3>1, <3>2
  <2>4. CASE k # 0
    <3>1. k \in 1 .. n /\ k - 1 \in 0 .. n /\ k - 1 \notin S
      <4>1. k \in 0 .. n
        BY <2>1
      <4> HIDE DEF S
      <4>2. k \in 1 .. n /\ k - 1 \in 0 .. n /\ ~ (k <= k - 1)
        BY <4>1, <2>4, <1>1
      <4> QED  BY <4>2, <2>1
    <3>2. Good(k - 1)
      BY <3>1
    <3>3. pushed[k] = PushChar(pushed[k - 1], chars[k])
      BY <3>1, <1>5, <1>1
    <3>4. IsBuffer(pushed[k]) /\ Stream(pushed[k]) = (Stream(o) \o First(chars, k - 1)) \o <<chars[k]>>
      BY <3>2, <3>3, PushedChar
    <3>5. (Stream(o) \o First(chars, k - 1)) \o <<chars[k]>> = Stream(o) \o First(chars, k)
      BY <2>2, <3>1, OneMore
    <3> QED  BY <2>1, <3>4, <3>5
  <2> QED  BY <2>3, <2>4
<1>7. n \in 0 .. n /\ First(chars, n) = chars
  BY <1>1, FirstElements
<1> QED  BY <1>2, <1>6, <1>7
-----------------------------------------------------------------------------
(***************************************************************************)
(* The fields.                                                             *)
(***************************************************************************)
LEMMA DigitsSeq ==
  ASSUME NEW n \in Nat, NEW base \in {10, 16}
  PROVE  IsSeq(Digits(n, base)) /\ (n # 0 => Len(Digits(n, base)) > 0)
<1> DEFINE F(f, k) == IF k = 0 THEN <<>> ELSE Append(f[k \div base], Numerals[(k % base) + 1])
           IsDigits(f, m) == f = [k \in 0 .. m |-> F(f, k)]
           d == CHOOSE f : IsDigits(f, n)
<1>1. Digits(n, base) = d[n]
  BY DEF Digits
<1>2. ASSUME NEW k \in Nat, k # 0 PROVE k \div base \in 0 .. k - 1
  <2>1. CASE base = 10
    BY <2>1, <1>2
  <2>2. CASE base = 16
    BY <2>2, <1>2
  <2> QED  BY <2>1, <2>2
<1>3. \E f : IsDigits(f, n)
  <2> DEFINE S == {m \in Nat : ~ \E f : IsDigits(f, m)}
  <2> SUFFICES ASSUME S # {} PROVE FALSE
    OBVIOUS
  <2>1. PICK m \in S : \A l \in S : m <= l
    BY LeastNumber
  <2>2. CASE m = 0
    <3> DEFINE f == [k \in 0 .. 0 |-> <<>>]
    <3>1. f = [k \in 0 .. 0 |-> F(f, k)]
      BY SMT
    <3> QED  BY <2>1, <2>2, <3>1, Zenon
  <2>3. CASE m # 0
    <3>1. m \in Nat /\ m - 1 \in Nat /\ m - 1 \notin S
      <4>1. m \in Nat
        BY <2>1
      <4> HIDE DEF S
      <4>2. m - 1 \in Nat /\ ~ (m <= m - 1)
        BY <4>1, <2>3
      <4> QED  BY <4>1, <4>2, <2>1
    <3>2. PICK f : IsDigits(f, m - 1)
      BY <3>1
    <3> DEFINE g == [k \in 0 .. m |-> IF k < m THEN f[k] ELSE F(f, m)]
    <3>3. \A k \in 0 .. m - 1 : f[k] = F(f, k)
      BY <3>2, Zenon
    <3>4. ASSUME NEW k \in 0 .. m PROVE g[k] = F(g, k)
      <4>1. CASE k = 0
        <5>1. k \in 0 .. m - 1 /\ k < m
          BY <3>1, <4>1
        <5>2. f[k] = F(f, k)
          <6> HIDE DEF F
          <6> QED  BY <3>3, <5>1
        <5>3. F(f, k) = <<>> /\ F(g, k) = <<>>
          <6> HIDE DEF g
          <6> QED  BY <4>1
        <5>4. g[k] = f[k]
          <6> HIDE DEF F
          <6> QED  BY <5>1
        <5> HIDE DEF g, F
        <5> QED  BY <5>2, <5>3, <5>4
      <4>2. CASE k # 0
        <5>1. k \div base \in 0 .. m - 1 /\ k \div base < m
          <6>1. k \in Nat /\ k <= m
            BY <3>1
          <6>2. k \div base \in 0 .. k - 1
            BY <6>1, <1>2, <4>2
          <6> DEFINE h == k \div base
          <6> HIDE DEF h
          <6>3. h \in 0 .. k - 1
            BY <6>2 DEF h
          <6>4. h \in 0 .. m - 1 /\ h < m
            BY <6>1, <6>3, <3>1
          <6> QED  BY <6>4 DEF h
        <5>2. g[k \div base] = f[k \div base]
          <6> DEFINE h == k \div base
          <6> HIDE DEF h
          <6>1. h \in 0 .. m /\ h < m
            BY <5>1, <3>1 DEF h
          <6>2. g[h] = f[h]
            BY <6>1
          <6> QED  BY <6>2 DEF h
        <5>3. F(g, k) = F(f, k)
          <6> HIDE DEF g
          <6> QED  BY <5>2, <4>2
        <5>4. g[k] = F(f, k)
          <6> HIDE DEF F
          <6>1. CASE k < m
            BY <6>1, <3>1, <3>3
          <6>2. CASE k = m
            BY <6>2, <3>1
          <6> QED  BY <6>1, <6>2, <3>1
        <5> QED  BY <5>3, <5>4
      <4> QED  BY <4>1, <4>2
    <3>5. g = [k \in 0 .. m |-> F(g, k)]
      <4>1. g = [k \in 0 .. m |-> g[k]]
        OBVIOUS
      <4> HIDE DEF g, F
      <4> QED  BY <3>4, <4>1
    <3> QED  BY <2>1, <3>5
  <2> QED  BY <2>2, <2>3
<1>4. IsDigits(d, n)
  BY <1>3
<1> HIDE DEF d
<1>5. \A k \in 0 .. n : d[k] = F(d, k)
  BY <1>4, Zenon
<1>6. \A k \in 0 .. n : IsSeq(d[k])
  <2> DEFINE S == {k \in 0 .. n : ~ IsSeq(d[k])}
  <2> SUFFICES ASSUME S # {} PROVE FALSE
    OBVIOUS
  <2>1. PICK k \in S : \A m \in S : k <= m
    <3>1. S \in SUBSET Nat
      OBVIOUS
    <3> HIDE DEF S
    <3> QED  BY <3>1, LeastNumber
  <2>2. k # 0
    BY <2>1, <1>5, Empty
  <2>3. k \div base \in 0 .. n /\ k \div base \notin S
    BY <2>1, <2>2, <1>2
  <2>4. IsSeq(d[k \div base])
    BY <2>3
  <2>5. d[k] = Append(d[k \div base], Numerals[(k % base) + 1])
    BY <2>1, <2>2, <1>5
  <2> QED  BY <2>1, <2>4, <2>5, Appended
<1>7. n # 0 => Len(d[n]) > 0
  <2> SUFFICES ASSUME n # 0 PROVE Len(d[n]) > 0
    OBVIOUS
  <2>1. d[n] = Append(d[n \div base], Numerals[(n % base) + 1])
    <3>1. n \in 0 .. n /\ n # 0
      OBVIOUS
    <3>2. d[n] = F(d, n)
      <4> HIDE DEF F
      <4> QED  BY <1>5, <3>1
    <3> QED  BY ONLY <3>1, <3>2
  <2>2. IsSeq(d[n \div base])
    BY <1>2, <1>6
  <2>3. Len(d[n]) = Len(d[n \div base]) + 1 /\ Len(d[n \div base]) \in Nat
    BY ONLY <2>1, <2>2, Appended, Lengths
  <2> QED  BY <2>3
<1> QED  BY <1>1, <1>6, <1>7

LEMMA DoPrintSeq ==
  ASSUME TypeOK, NEW p, NEW q, NEW what, IsSeq(p), IsSeq(q), IsSeq(what)
  PROVE  IsSeq(DoPrint(p, q, what))
<1> DEFINE zeros == IF Len(what) < pr.precision THEN pr.precision - Len(what) ELSE 0
           total == Wrap(Len(p) + Len(q) + Len(what) + zeros)
           padding == Wrap(pr.field_width - total)
           left == IF total < pr.field_width /\ ~pr.right_pad
                   THEN Repeat(IF pr.zero_pad THEN "0" ELSE " ", padding) ELSE <<>>
           right == IF pr.right_pad THEN Repeat(" ", padding) ELSE <<>>
<1>1. pr.precision \in Nat /\ pr.field_width \in Nat
  BY RangeAssumption DEF TypeOK, Word
<1>2. Len(p) \in Nat /\ Len(q) \in Nat /\ Len(what) \in Nat
  BY Lengths
<1>3. zeros \in Nat
  BY <1>1, <1>2
<1> HIDE DEF zeros
<1>4. total \in Nat
  <2>1. Len(p) + Len(q) + Len(what) + zeros \in Int
    BY <1>2, <1>3
  <2> QED  BY <2>1, WrapType
<1> HIDE DEF total
<1>5. padding \in Nat
  BY <1>1, <1>4, WrapType
<1> HIDE DEF padding
<1>6. IsSeq(left) /\ IsSeq(right) /\ IsSeq(Repeat("0", zeros))
  BY <1>3, <1>5, Repeated, Empty
<1> HIDE DEF left, right
<1>7. IsSeq(left \o p \o q \o Repeat("0", zeros) \o what \o right)
  <2>1. IsSeq(left \o p)
    BY <1>6, Concatenated
  <2>2. IsSeq((left \o p) \o q)
    BY <2>1, Concatenated
  <2>3. IsSeq(((left \o p) \o q) \o Repeat("0", zeros))
    BY <1>6, <2>2, Concatenated
  <2>4. IsSeq((((left \o p) \o q) \o Repeat("0", zeros)) \o what)
    BY <2>3, Concatenated
  <2> QED  BY <1>6, <2>4, Concatenated
<1> QED  BY <1>7 DEF DoPrint, zeros, total, padding, left, right

LEMMA DoIntSeq ==
  ASSUME TypeOK, NEW w \in Word, NEW base \in {10, 16}
  PROVE  IsSeq(DoInt(w, base))
<1>1. IsSeq(<<"-">>) /\ IsSeq(<<>>) /\ IsSeq(BasePrefix(base))
  <2>1. IsSeq(<<"0", "x">>)
    <3>1. <<"0", "x">> \in Seq({"0", "x"})
      OBVIOUS
    <3> QED  BY <3>1 DEF IsSeq
  <2> QED  BY <2>1, Empty, Singleton DEF BasePrefix
<1>2. ASSUME NEW v \in Nat, NEW sign, IsSeq(sign) PROVE IsSeq(DoUint(v, base, sign))
  BY <1>1, <1>2, DigitsSeq, DoPrintSeq DEF DoUint
<1>3. w \in Nat /\ Wrap(-Signed(w)) \in Nat
  <2>1. w \in Nat /\ Signed(w) \in Int
    BY RangeAssumption DEF Word, Signed
  <2> QED  BY <2>1, WrapType
<1> QED  BY <1>1, <1>2, <1>3 DEF DoInt

-----------------------------------------------------------------------------
(***************************************************************************)
(* The formatter.                                                          *)
(***************************************************************************)
PrintfInv == TypeOK /\ IsBuffer(Buffered)

(* A step that pushes characters. *)
LEMMA PushStep ==
  ASSUME IsBuffer(Buffered), NEW chars, IsSeq(chars), Push(chars)
  PROVE  IsBuffer(Buffered)' /\ Stream(Buffered)' = Stream(Buffered) \o chars
<1> DEFINE o == PushAll(Buffered, chars)
<1>1. IsBuffer(o) /\ Stream(o) = Stream(Buffered) \o chars
  BY PushesEverything
<1>2. buf' = o.buf /\ sent' = o.sent /\ written' = o.written
  BY DEF Push, Output
<1> HIDE DEF o
<1>3. o = [buf |-> buf', sent |-> sent', written |-> written']
  BY <1>1, <1>2 DEF IsBuffer
<1> QED  BY <1>1, <1>3 DEF Buffered, IsBuffer, Stream

LEMMA DigitType == ASSUME NEW c \in DOMAIN DigitValue PROVE DigitValue[c] \in 0 .. 9
<1>1. PICK k \in 1 .. 10 : c = Numerals[k]
  BY DEF DigitValue
<1>2. DigitValue[c] = CHOOSE j \in 0 .. 9 : Numerals[j + 1] = c
  BY <1>1 DEF DigitValue
<1>3. k - 1 \in 0 .. 9 /\ Numerals[(k - 1) + 1] = c
  BY <1>1
<1> QED  BY <1>2, <1>3

LEMMA PrintfInit == Init => PrintfInv
<1> SUFFICES ASSUME Init PROVE PrintfInv
  OBVIOUS
<1>1. 0 \in Word /\ Wrap(0) = 0
  BY RangeAssumption DEF Word, Wrap
<1>2. TypeOK
  <2>1. Len(buf) + 1 < BufSize
    BY BufAssumption, Empty DEF Init
  <2>2. pr \in [in_fmt : BOOLEAN, enable_base_prefix : BOOLEAN, field_width : Word,
                precision : Word, in_precision : BOOLEAN, zero_pad : BOOLEAN, right_pad : BOOLEAN]
    BY <1>1 DEF Init
  <2>3. format \in Formats /\ at \in Nat /\ written \in Word /\ done \in BOOLEAN
    BY <1>1 DEF Init
  <2>4. taken \in Seq(Word)
    BY DEF Init
  <2> QED  BY <2>1, <2>2, <2>3, <2>4 DEF TypeOK
<1>3. IsBuffer(Buffered)
  BY <1>1, BufAssumption, Empty DEF Init, IsBuffer, Buffered
<1> QED  BY <1>2, <1>3 DEF PrintfInv

(* What TypeOK says of the buffer follows from IsBuffer. *)
LEMMA BufferTypes ==
  ASSUME IsBuffer(Buffered)
  PROVE  Len(buf) + 1 < BufSize /\ written \in Word
<1>1. written = Wrap(Len(sent)) /\ Len(sent) \in Nat /\ Len(buf) + 1 < BufSize
  BY Lengths DEF IsBuffer, Buffered
<1> QED  BY <1>1, WrapType
(* What reading a character leaves as it is typed, and a step that prints   *)
(* nothing.                                                                 *)
LEMMA ReadsType ==
  ASSUME TypeOK, NEW chars, NEW in_fmt, Reads(chars, in_fmt)
  PROVE  format' \in Formats /\ at' \in Nat /\ done' \in BOOLEAN
BY DEF TypeOK, Reads

LEMMA Unprinted ==
  ASSUME PrintfInv, UNCHANGED <<buf, sent, written>>
  PROVE  IsBuffer(Buffered)'
BY DEF PrintfInv, Buffered, IsBuffer

LEMMA TypedStep ==
  ASSUME IsBuffer(Buffered)',
         format' \in Formats, at' \in Nat, done' \in BOOLEAN, taken' \in Seq(Word),
         pr' \in [in_fmt : BOOLEAN, enable_base_prefix : BOOLEAN, field_width : Word,
                  precision : Word, in_precision : BOOLEAN, zero_pad : BOOLEAN,
                  right_pad : BOOLEAN]
  PROVE  PrintfInv'
<1>1. (Len(buf) + 1 < BufSize)' /\ (written \in Word)'
  <2>1. /\ IsSeq(buf') /\ IsSeq(sent') /\ Len(buf') + 1 < BufSize
        /\ written' = Wrap(Len(sent'))
    BY DEF IsBuffer, Buffered
  <2> QED  BY <2>1, Lengths, WrapType
<1> QED  BY <1>1 DEF PrintfInv, TypeOK

(* An option takes effect on the fields of pr that it sets.                 *)
LEMMA OptionStep ==
  ASSUME PrintfInv, NEW chars, Option(chars),
         pr' \in [in_fmt : BOOLEAN, enable_base_prefix : BOOLEAN, field_width : Word,
                  precision : Word, in_precision : BOOLEAN, zero_pad : BOOLEAN,
                  right_pad : BOOLEAN]
  PROVE  PrintfInv'
<1>1. TypeOK /\ Reads(chars, TRUE) /\ UNCHANGED <<buf, sent, written, taken>>
  BY DEF PrintfInv, Option
<1>2. format' \in Formats /\ at' \in Nat /\ done' \in BOOLEAN
  BY <1>1, ReadsType
<1>3. taken' \in Seq(Word)
  BY <1>1 DEF TypeOK
<1>4. IsBuffer(Buffered)'
  BY <1>1, Unprinted
<1> QED  BY <1>2, <1>3, <1>4, TypedStep

LEMMA DigitStep == ASSUME PrintfInv, Digit PROVE PrintfInv'
<1> DEFINE d == DigitValue[Text[at]]
           w == Wrap(Wrap(pr.field_width * 10) + d)
           p == Wrap(Wrap(pr.precision * 10) + d)
<1>1. Option(DOMAIN DigitValue) /\ Text[at] \in DOMAIN DigitValue
  BY DEF Digit, Option, Reads
<1>2. d \in 0 .. 9
  BY <1>1, DigitType
<1>3. /\ pr \in [in_fmt : BOOLEAN, enable_base_prefix : BOOLEAN, field_width : Word,
                 precision : Word, in_precision : BOOLEAN, zero_pad : BOOLEAN,
                 right_pad : BOOLEAN]
      /\ pr.field_width \in Nat /\ pr.precision \in Nat
  BY RangeAssumption DEF PrintfInv, TypeOK, Word
<1>4. pr' = IF pr.in_precision THEN [pr EXCEPT !.precision = p]
            ELSE IF pr.field_width = 0 /\ d = 0 THEN [pr EXCEPT !.zero_pad = TRUE]
            ELSE [pr EXCEPT !.field_width = w]
  BY <1>3 DEF Digit
<1>5. w \in Word /\ p \in Word
  <2> HIDE DEF d
  <2>1. /\ Wrap(pr.field_width * 10) + d \in Nat
        /\ Wrap(pr.precision * 10) + d \in Nat
    BY <1>2, <1>3, WrapType
  <2> QED  BY <2>1, WrapType
<1> HIDE DEF w, p, d
<1>6. pr' \in [in_fmt : BOOLEAN, enable_base_prefix : BOOLEAN, field_width : Word,
               precision : Word, in_precision : BOOLEAN, zero_pad : BOOLEAN,
               right_pad : BOOLEAN]
  BY <1>3, <1>4, <1>5
<1> QED  BY <1>1, <1>6, OptionStep

(* A character that is printed as it is.                                    *)
LEMMA CharStep ==
  ASSUME PrintfInv, NEW chars, NEW in_fmt, Reads(chars, in_fmt), NEW c,
         Push(<<c>>), UNCHANGED <<pr, taken>>
  PROVE  PrintfInv'
<1>1. TypeOK /\ IsBuffer(Buffered)
  BY DEF PrintfInv
<1>2. IsBuffer(Buffered)'
  BY <1>1, Singleton, PushStep
<1>3. format' \in Formats /\ at' \in Nat /\ done' \in BOOLEAN
  BY <1>1, ReadsType
<1>4. /\ taken' \in Seq(Word)
      /\ pr' \in [in_fmt : BOOLEAN, enable_base_prefix : BOOLEAN, field_width : Word,
                  precision : Word, in_precision : BOOLEAN, zero_pad : BOOLEAN,
                  right_pad : BOOLEAN]
  BY <1>1 DEF TypeOK
<1> QED  BY <1>2, <1>3, <1>4, TypedStep

LEMMA ConvertStep ==
  ASSUME PrintfInv, NEW chars, Reads(chars, TRUE), NEW w \in Word, NEW field, IsSeq(field),
         Convert(w, field)
  PROVE  PrintfInv'
<1>1. TypeOK /\ IsBuffer(Buffered)
  BY DEF PrintfInv
<1>2. IsBuffer(Buffered)'
  BY <1>1, PushStep DEF Convert
<1>3. format' \in Formats /\ at' \in Nat /\ done' \in BOOLEAN
  BY <1>1, ReadsType
<1>4. taken' \in Seq(Word)
  BY <1>1 DEF TypeOK, Convert
<1>5. pr' \in [in_fmt : BOOLEAN, enable_base_prefix : BOOLEAN, field_width : Word,
               precision : Word, in_precision : BOOLEAN, zero_pad : BOOLEAN,
               right_pad : BOOLEAN]
  BY <1>1 DEF TypeOK, Convert
<1> QED  BY <1>2, <1>3, <1>4, <1>5, TypedStep

(* What the conversions print is a sequence of characters.                  *)
LEMMA FieldSeq ==
  ASSUME TypeOK
  PROVE  /\ \A w \in Words : /\ IsSeq(DoInt(w, 10)) /\ IsSeq(DoInt(w, 16))
                             /\ IsSeq(IF w = 0 THEN DoPrint(<<>>, <<>>, NullName)
                                      ELSE DoPrint(<<>>, <<"0", "x">>, Digits(w, 16)))
         /\ \A address \in DOMAIN StringAt : IsSeq(DoPrint(<<>>, <<>>, StringAt[address]))
<1>1. IsSeq(<<"0", "x">>) /\ IsSeq(NullName) /\ IsSeq(<<>>)
  <2>1. <<"0", "x">> \in Seq({"0", "x"})
    OBVIOUS
  <2>2. NullName \in Seq({"(", "n", "u", "l", ")"})
    BY DEF NullName
  <2> QED  BY <2>1, <2>2, Empty DEF IsSeq
<1>2. ASSUME NEW w \in Words
      PROVE  /\ IsSeq(DoInt(w, 10)) /\ IsSeq(DoInt(w, 16))
             /\ IsSeq(DoPrint(<<>>, <<>>, NullName))
             /\ IsSeq(DoPrint(<<>>, <<"0", "x">>, Digits(w, 16)))
  <2>1. w \in Word /\ w \in Nat
    BY RangeAssumption DEF Word
  <2>2. IsSeq(Digits(w, 16))
    BY <2>1, DigitsSeq
  <2> QED  BY <2>1, <2>2, <1>1, DoIntSeq, DoPrintSeq
<1>3. ASSUME NEW address \in DOMAIN StringAt PROVE IsSeq(DoPrint(<<>>, <<>>, StringAt[address]))
  <2>1. IsSeq(StringAt[address])
    BY StringsAssumption DEF IsSeq
  <2> QED  BY <2>1, <1>1, DoPrintSeq
<1> QED  BY <1>2, <1>3

LEMMA PrintfStep == PrintfInv /\ [Next]_vars => PrintfInv'
<1> SUFFICES ASSUME PrintfInv, [Next]_vars PROVE PrintfInv'
  OBVIOUS
<1>1. /\ TypeOK /\ IsBuffer(Buffered)
      /\ pr \in [in_fmt : BOOLEAN, enable_base_prefix : BOOLEAN, field_width : Word,
                 precision : Word, in_precision : BOOLEAN, zero_pad : BOOLEAN,
                 right_pad : BOOLEAN]
  BY DEF PrintfInv, TypeOK
<1>2. CASE PlainChar
  BY <1>2, CharStep DEF PlainChar
<1>3. CASE Percent
  <2>1. Reads({"%"}, FALSE) /\ UNCHANGED <<buf, sent, written, taken>> /\ pr' = BeginFmt
    BY <1>3 DEF Percent
  <2>2. format' \in Formats /\ at' \in Nat /\ done' \in BOOLEAN
    BY <1>1, <2>1, ReadsType
  <2>3. taken' \in Seq(Word) /\ IsBuffer(Buffered)'
    BY <1>1, <2>1, Unprinted DEF TypeOK
  <2>4. 0 \in Word /\ 1 \in Word
    <3>1. SizeRange > 1
      BY RangeAssumption
    <3> QED  BY <3>1, RangeAssumption DEF Word
  <2>5. pr' \in [in_fmt : BOOLEAN, enable_base_prefix : BOOLEAN, field_width : Word,
                 precision : Word, in_precision : BOOLEAN, zero_pad : BOOLEAN,
                 right_pad : BOOLEAN]
    BY <2>1, <2>4 DEF BeginFmt
  <2> QED  BY <2>2, <2>3, <2>5, TypedStep
<1>4. CASE Hash
  BY <1>1, <1>4, OptionStep DEF Hash
<1>5. CASE Minus
  BY <1>1, <1>5, OptionStep DEF Minus
<1>6. CASE Dot
  <2>1. 0 \in Word
    BY RangeAssumption DEF Word
  <2> QED  BY <1>1, <1>6, <2>1, OptionStep DEF Dot
<1>7. CASE Digit
  BY <1>7, DigitStep
<1>8. ASSUME NEW w \in Words, Decimal(w) \/ Hexadecimal(w) \/ Pointer(w) PROVE PrintfInv'
  <2>1. w \in Word
    BY RangeAssumption DEF Word
  <2> QED  BY <1>1, <1>8, <2>1, FieldSeq, ConvertStep DEF Decimal, Hexadecimal, Pointer
<1>9. ASSUME NEW address \in DOMAIN StringAt, String(address) PROVE PrintfInv'
  <2>1. address \in Word
    BY RangeAssumption DEF Word
  <2> QED  BY <1>1, <1>9, <2>1, FieldSeq, ConvertStep DEF String
<1>10. CASE Other
  BY <1>10, CharStep DEF Other
<1>11. CASE Return
  <2> DEFINE o == Flush(Buffered)
  <2>1. Buffered = [buf |-> Buffered.buf, sent |-> Buffered.sent, written |-> Buffered.written]
    BY DEF Buffered
  <2>2. IsBuffer(o)
    BY <1>1, <2>1, Flushed DEF IsBuffer
  <2>3. buf' = o.buf /\ sent' = o.sent /\ written' = o.written
    BY <1>11 DEF Return, Output
  <2> HIDE DEF o
  <2>4. o = [buf |-> buf', sent |-> sent', written |-> written']
    BY <2>2, <2>3 DEF IsBuffer
  <2>5. IsBuffer(Buffered)'
    BY <2>2, <2>4 DEF Buffered, IsBuffer
  <2>6. /\ format' \in Formats /\ at' \in Nat /\ done' \in BOOLEAN /\ taken' \in Seq(Word)
        /\ pr' = pr
    BY <1>1, <1>11 DEF Return, TypeOK
  <2> QED  BY <1>1, <2>5, <2>6, TypedStep
<1>12. CASE UNCHANGED vars
  <2>1. IsBuffer(Buffered)'
    BY <1>12, Unprinted DEF vars
  <2> QED  BY <1>1, <1>12, <2>1 DEF vars, PrintfInv, TypeOK
<1> QED
  BY <1>2, <1>3, <1>4, <1>5, <1>6, <1>7, <1>8, <1>9, <1>10, <1>11, <1>12 DEF Next

THEOREM PrintfInvariant == Spec => []PrintfInv
BY PrintfInit, PrintfStep, PTL DEF Spec

(* The type invariant: whatever the format and its arguments, and however   *)
(* long a field is, the buffer has room for one more character and the      *)
(* terminator when printf_step returns (printf.c:44-63).                    *)
THEOREM PrintfTypeCorrect == Spec => []TypeOK
<1>1. PrintfInv => TypeOK
  BY DEF PrintfInv
<1> QED  BY <1>1, PrintfInvariant, PTL
-----------------------------------------------------------------------------
(***************************************************************************)
(* A conversion prints what C says of its directive.                       *)
(***************************************************************************)
LEMMA WrapWord == ASSUME NEW n \in Word PROVE Wrap(n) = n
<1>1. SizeRange \in Nat \ {0} /\ n \in 0 .. SizeRange - 1 /\ n \in Nat
  BY RangeAssumption DEF Word
<1>2. n = SizeRange * 0 + n
  BY <1>1
<1> QED  BY <1>1, <1>2, DivisionUnique DEF Wrap

LEMMA EmptyFront == ASSUME NEW s, IsSeq(s) PROVE <<>> \o s = s /\ s \o <<>> = s
BY ConcatEmptySeq DEF IsSeq

(* Six parts of a field, in two ways. *)
AreParts(a, p, q, z, c, r) ==
  IsSeq(a) /\ IsSeq(p) /\ IsSeq(q) /\ IsSeq(z) /\ IsSeq(c) /\ IsSeq(r)

LEMMA Regroup ==
  ASSUME NEW a, NEW p, NEW q, NEW z, NEW c, NEW r, AreParts(a, p, q, z, c, r)
  PROVE  a \o p \o q \o z \o c \o r = (a \o ((p \o q) \o (z \o c))) \o r
<1>0. IsSeq(a) /\ IsSeq(p) /\ IsSeq(q) /\ IsSeq(z) /\ IsSeq(c) /\ IsSeq(r)
  BY DEF AreParts
<1>1. (a \o p) \o q = a \o (p \o q)
  <2>1. IsSeq(a) /\ IsSeq(p) /\ IsSeq(q)
    BY <1>0
  <2> QED  BY ONLY SMTT(30), <2>1, Associative
<1> DEFINE b == p \o q
           d == z \o c
<1>2. IsSeq(b) /\ IsSeq(d)
  BY <1>0, Concatenated
<1> HIDE DEF b, d
<1>3. IsSeq(a \o b)
  BY <1>0, <1>2, Concatenated
<1>4. ((a \o b) \o z) \o c = (a \o b) \o (z \o c)
  <2> DEFINE ab == a \o b
  <2> HIDE DEF ab
  <2>1. IsSeq(ab)
    BY <1>3 DEF ab
  <2>2. IsSeq(z) /\ IsSeq(c)
    BY <1>0
  <2>3. (ab \o z) \o c = ab \o (z \o c)
    BY ONLY <2>1, <2>2, Associative
  <2> QED  BY <2>3 DEF ab
<1>5. (a \o b) \o d = a \o (b \o d)
  <2>1. IsSeq(a)
    BY <1>0
  <2> QED  BY ONLY <1>2, <2>1, Associative
<1> QED  BY <1>1, <1>4, <1>5 DEF b, d

(* The directives that C defines, and what the options of one are when its *)
(* conversion is read.                                                     *)
Convertible(item) ==
  /\ item.conv \in {"d", "x", "s", "p"}
  /\ Flag(item, "#") => item.conv = "x"
  /\ Flag(item, "0") => item.conv \in {"d", "x"}
  /\ HasPrecision(item) => item.conv # "p"
Options(item) ==
  /\ pr.field_width = Number(item.width)
  /\ pr.precision = IF HasPrecision(item) THEN PrecisionOf(item) ELSE 1
  /\ pr.enable_base_prefix = Flag(item, "#")
  /\ pr.right_pad = Flag(item, "-")
  /\ pr.zero_pad = Flag(item, "0")
Zeros(what) == IF Len(what) < pr.precision THEN pr.precision - Len(what) ELSE 0

LEMMA OptionTypes ==
  ASSUME TypeOK
  PROVE  /\ pr.precision \in Nat /\ pr.field_width \in Nat /\ pr.field_width \in Word
         /\ pr.right_pad \in BOOLEAN /\ pr.zero_pad \in BOOLEAN
         /\ pr.enable_base_prefix \in BOOLEAN
         /\ SizeRange \in Nat /\ SizeRange > 1
BY RangeAssumption DEF TypeOK, Word

(* The arguments of printf_do_print for a directive. *)
PartsOf(item, w, p, q, what) ==
  /\ IsSeq(p) /\ IsSeq(q) /\ IsSeq(what)
  /\ Prefix(item, w) = p \o q
  /\ Content(item, w) = Repeat("0", Zeros(what)) \o what

LEMMA DoPrintField ==
  ASSUME TypeOK, NEW item, Options(item), NEW w,
         NEW p, NEW q, NEW what, PartsOf(item, w, p, q, what),
         Len(Body(item, w)) < SizeRange,
         Flag(item, "-") => Fits(item, w),
         (Flag(item, "0") /\ ~Flag(item, "-") /\ Padding(item, w) > 0) =>
           ~HasPrecision(item) /\ Prefix(item, w) = <<>>
  PROVE  DoPrint(p, q, what) = Field(item, w)
<1> DEFINE zeros == Zeros(what)
           z == Repeat("0", zeros)
           B == (p \o q) \o (z \o what)
           t == Len(B)
           width == pr.field_width
           Left(total, padding) ==
             IF total < width /\ ~pr.right_pad
             THEN Repeat(IF pr.zero_pad THEN "0" ELSE " ", padding) ELSE <<>>
           Right(padding) == IF pr.right_pad THEN Repeat(" ", padding) ELSE <<>>
<1>0. /\ IsSeq(p) /\ IsSeq(q) /\ IsSeq(what)
      /\ Prefix(item, w) = p \o q /\ Content(item, w) = Repeat("0", Zeros(what)) \o what
  BY DEF PartsOf
<1>1. /\ zeros \in Nat /\ Len(p) \in Nat /\ Len(q) \in Nat /\ Len(what) \in Nat
      /\ width \in Nat /\ width < SizeRange /\ SizeRange \in Nat
  BY <1>0, OptionTypes, Lengths DEF Zeros, Word
<1>2. IsSeq(z) /\ Len(z) = zeros
  BY <1>1, Repeated
<1> HIDE DEF zeros, z
<1>3. /\ IsSeq(p \o q) /\ Len(p \o q) = Len(p) + Len(q)
      /\ IsSeq(z \o what) /\ Len(z \o what) = zeros + Len(what)
  BY <1>0, <1>2, Concatenated
<1>4. IsSeq(B) /\ t = Len(p) + Len(q) + Len(what) + zeros /\ t \in Nat
  <2>1. IsSeq(B) /\ t = Len(p \o q) + Len(z \o what)
    BY <1>3, Concatenated
  <2> QED  BY <2>1, <1>1, <1>3
<1>5. Body(item, w) = B /\ Content(item, w) = z \o what
  BY <1>0 DEF Body, z, zeros
<1>6. t < SizeRange /\ Wrap(t) = t
  <2>1. t < SizeRange
    BY <1>5
  <2> HIDE DEF B, t
  <2>2. t \in Word
    BY <2>1, <1>1, <1>4 DEF Word
  <2> QED  BY <2>1, <2>2, WrapWord
<1>7. DoPrint(p, q, what)
        = (Left(t, Wrap(width - t)) \o p \o q \o z \o what) \o Right(Wrap(width - t))
  <2>1. Len(p) + Len(q) + Len(what) + (IF Len(what) < pr.precision THEN pr.precision - Len(what) ELSE 0) = t
    BY <1>4 DEF zeros, Zeros
  <2> HIDE DEF t
  <2> QED  BY <1>6, <2>1 DEF DoPrint, z, zeros, Zeros
<1>8. /\ Padding(item, w) = IF t < width THEN width - t ELSE 0
      /\ Fits(item, w) <=> t <= width
  BY <1>5 DEF Padding, Fits, Options
<1> DEFINE n == Padding(item, w)
<1>9. n \in Nat /\ IsSeq(Repeat(" ", n)) /\ IsSeq(Repeat("0", n))
  <2> HIDE DEF t, B, n
  <2>1. n \in Nat
    BY <1>1, <1>4, <1>8 DEF n
  <2> QED  BY <2>1, Repeated
<1>10. t <= width => Wrap(width - t) = n
  <2> HIDE DEF t, B
  <2> SUFFICES ASSUME t <= width PROVE Wrap(width - t) = n
    OBVIOUS
  <2>1. width - t \in Word
    BY <1>1, <1>4 DEF Word
  <2>2. n = width - t
    BY <1>1, <1>4, <1>8
  <2> QED  BY <2>1, <2>2, WrapWord
<1>11. Repeat(" ", 0) = <<>> /\ Repeat("0", 0) = <<>>
  <2>1. \A c : [i \in 1 .. 0 |-> c] = <<>>
    OBVIOUS
  <2> QED  BY <2>1 DEF Repeat
<1>12. (pr.right_pad <=> Flag(item, "-")) /\ (pr.zero_pad <=> Flag(item, "0"))
  BY Zenon DEF Options
<1>13. ASSUME NEW a, NEW r, IsSeq(a), IsSeq(r)
       PROVE  (a \o p \o q \o z \o what) \o r = (a \o B) \o r
  <2>1. AreParts(a, p, q, z, what, r)
    BY <1>0, <1>2, <1>13 DEF AreParts
  <2>2. a \o p \o q \o z \o what \o r = (a \o ((p \o q) \o (z \o what))) \o r
    BY ONLY <2>1, Regroup
  <2> QED  BY ONLY <2>2 DEF B
<1> HIDE DEF B, t, n
<1>14. <<>> \o B = B /\ B \o <<>> = B /\ IsSeq(<<>>)
  BY <1>4, Empty, EmptyFront
<1>15. \A a : IsSeq(a) => IsSeq(a \o B)
  BY <1>4, Concatenated
<1>16. CASE pr.right_pad
  <2>1. t <= width
    BY <1>8, <1>12, <1>16
  <2>2. Left(t, Wrap(width - t)) = <<>> /\ Right(Wrap(width - t)) = Repeat(" ", n)
    BY ONLY <2>1, <1>10, <1>16
  <2>3. DoPrint(p, q, what) = (<<>> \o B) \o Repeat(" ", n)
    <3>1. (<<>> \o p \o q \o z \o what) \o Repeat(" ", n) = (<<>> \o B) \o Repeat(" ", n)
      BY ONLY <1>9, <1>13, <1>14
    <3> QED  BY ONLY <2>2, <1>7, <3>1
  <2>4. Field(item, w) = B \o Repeat(" ", n)
    BY ONLY <1>5, <1>12, <1>16 DEF Field, n
  <2> QED  BY ONLY <2>3, <2>4, <1>14
<1>17. CASE ~pr.right_pad /\ t < width /\ ~pr.zero_pad
  <2>1. Wrap(width - t) = n
    BY <1>1, <1>4, <1>10, <1>17
  <2>2. Left(t, Wrap(width - t)) = Repeat(" ", n) /\ Right(Wrap(width - t)) = <<>>
    BY ONLY <2>1, <1>17
  <2>3. DoPrint(p, q, what) = (Repeat(" ", n) \o B) \o <<>>
    BY ONLY <2>2, <1>7, <1>9, <1>13, <1>14
  <2>4. Field(item, w) = Repeat(" ", n) \o B
    BY ONLY <1>5, <1>12, <1>17 DEF Field, n
  <2> QED  BY ONLY <2>3, <2>4, <1>9, <1>15, EmptyFront
<1>18. CASE ~pr.right_pad /\ t < width /\ pr.zero_pad
  <2>1. Wrap(width - t) = n /\ n > 0
    BY <1>1, <1>4, <1>8, <1>10, <1>18 DEF n
  <2>2. Left(t, Wrap(width - t)) = Repeat("0", n) /\ Right(Wrap(width - t)) = <<>>
    BY ONLY <2>1, <1>18
  <2>3. DoPrint(p, q, what) = (Repeat("0", n) \o B) \o <<>>
    BY ONLY <2>2, <1>7, <1>9, <1>13, <1>14
  <2>4. ~HasPrecision(item) /\ Prefix(item, w) = <<>>
    BY <2>1, <1>12, <1>18 DEF n
  <2>5. Field(item, w) = (<<>> \o Repeat("0", n)) \o (z \o what)
    BY ONLY <2>4, <1>5, <1>12, <1>18 DEF Field, n
  <2>6. B = z \o what
    <3>1. p \o q = <<>>
      BY <1>0, <2>4
    <3>2. B = <<>> \o (z \o what)
      BY ONLY <3>1 DEF B
    <3> QED  BY ONLY <3>2, <1>3, EmptyFront
  <2> QED  BY ONLY <2>3, <2>5, <2>6, <1>9, <1>15, EmptyFront
<1>19. CASE ~pr.right_pad /\ ~(t < width)
  <2>1. Left(t, Wrap(width - t)) = <<>> /\ Right(Wrap(width - t)) = <<>>
    BY ONLY <1>19
  <2>2. DoPrint(p, q, what) = (<<>> \o B) \o <<>>
    BY ONLY <2>1, <1>7, <1>13, <1>14
  <2>3. n = 0
    BY ONLY <1>8, <1>19 DEF n
  <2>4. Field(item, w) = IF Flag(item, "0") /\ ~HasPrecision(item)
                         THEN (Prefix(item, w) \o <<>>) \o Content(item, w) ELSE <<>> \o B
    BY ONLY <2>3, <1>5, <1>11, <1>12, <1>19 DEF Field, n
  <2>5. (Prefix(item, w) \o <<>>) \o Content(item, w) = B
    <3>1. (p \o q) \o <<>> = p \o q
      BY ONLY <1>3, EmptyFront
    <3> QED  BY ONLY <3>1, <1>0, <1>5 DEF B
  <2> QED  BY ONLY <2>2, <2>4, <2>5, <1>14
<1> QED  BY ONLY <1>16, <1>17, <1>18, <1>19

LEMMA IntegerParts ==
  ASSUME TypeOK, NEW item, Options(item), NEW n, NEW base
  PROVE  Integer(item, n, base) = Repeat("0", Zeros(Digits(n, base))) \o Digits(n, base)
BY DEF Integer, AtLeast, Zeros, Options

(* printf_do_int: the sign of "d", and the prefix of "#x". *)
LEMMA IntField ==
  ASSUME TypeOK, NEW item, Convertible(item), Options(item), item.conv \in {"d", "x"},
         NEW w \in Word, DirectiveAgrees(item, w), Len(Body(item, w)) < SizeRange
  PROVE  DoInt(w, IF item.conv = "d" THEN 10 ELSE 16) = Field(item, w)
<1> DEFINE base == IF item.conv = "d" THEN 10 ELSE 16
           n == IF Signed(w) < 0 THEN -Signed(w) ELSE w
           sign == IF Signed(w) < 0 THEN <<"-">> ELSE <<>>
           x == BasePrefix(base)
           what == Digits(n, base)
<1>1. /\ SizeRange \in Nat /\ SizeRange > 1 /\ SizeRange % 2 = 0 /\ w \in Nat /\ w < SizeRange
  BY OptionTypes, RangeAssumption DEF Word
<1>2. n \in Word /\ n \in Nat /\ (Signed(w) < 0 => Wrap(-Signed(w)) = n)
  <2>1. CASE Signed(w) < 0
    <3>1. n = SizeRange - w /\ w >= SizeRange \div 2
      BY <1>1, <2>1 DEF Signed
    <3>2. w > 0
      BY <1>1, <3>1
    <3>3. n \in Word /\ n \in Nat
      BY <1>1, <3>1, <3>2 DEF Word
    <3> QED  BY <2>1, <3>3, WrapWord
  <2>2. CASE ~ (Signed(w) < 0)
    BY <1>1, <2>2
  <2> QED  BY <2>1, <2>2
<1>3. DoInt(w, base) = DoPrint(sign, x, what)
  BY <1>2 DEF DoInt, DoUint
<1>4. IsSeq(sign) /\ IsSeq(x) /\ IsSeq(what)
  <2>1. IsSeq(<<"-">>) /\ IsSeq(<<>>)
    BY Singleton, Empty
  <2>2. IsSeq(<<"0", "x">>)
    <3>1. <<"0", "x">> \in Seq({"0", "x"})
      OBVIOUS
    <3> QED  BY ONLY <3>1 DEF IsSeq
  <2>3. IsSeq(x)
    BY ONLY <2>1, <2>2 DEF BasePrefix, x
  <2>4. base \in {10, 16}
    OBVIOUS
  <2> HIDE DEF n, base
  <2>5. IsSeq(what)
    BY <1>2, <2>4, DigitsSeq
  <2> QED  BY <2>1, <2>3, <2>5
<1>5. /\ item.conv = "x" => Signed(w) >= 0 /\ (Flag(item, "#") => w > 0)
      /\ (Flag(item, "0") /\ ~Flag(item, "-") /\ Padding(item, w) > 0) =>
           ~HasPrecision(item) /\ Prefix(item, w) = <<>>
      /\ Flag(item, "-") => Fits(item, w)
  BY DEF DirectiveAgrees, NumberAgrees
<1>6. pr.enable_base_prefix <=> Flag(item, "#")
  BY Zenon DEF Options
<1>7. Prefix(item, w) = sign \o x
  <2>1. sign \o <<>> = sign /\ <<>> \o x = x
    BY ONLY <1>4, EmptyFront
  <2>2. CASE item.conv = "d"
    <3>1. x = <<>> /\ ~Flag(item, "#")
      BY <2>2 DEF BasePrefix, Convertible
    <3>2. Prefix(item, w) = sign
      BY <2>2, <3>1 DEF Prefix
    <3> QED  BY ONLY <2>1, <3>1, <3>2
  <2>3. CASE item.conv = "x"
    <3>1. Signed(w) >= 0 /\ (Flag(item, "#") => w > 0)
      BY <1>5, <2>3
    <3>2. sign = <<>>
      BY ONLY <3>1, <1>1, Signed(w) \in Int DEF Signed
    <3>3. x = IF Flag(item, "#") THEN <<"0", "x">> ELSE <<>>
      BY <1>6, <2>3 DEF BasePrefix
    <3>4. Prefix(item, w) = x
      BY <1>1, <2>3, <3>1, <3>3 DEF Prefix
    <3> QED  BY ONLY <2>1, <3>2, <3>4
  <2> QED  BY <2>2, <2>3
<1>8. Content(item, w) = Repeat("0", Zeros(what)) \o what
  <2>1. Content(item, w) = Integer(item, n, base)
    <3>1. CASE item.conv = "d"
      BY <3>1 DEF Content
    <3>2. CASE item.conv = "x"
      <4>1. n = w
        BY <3>2, <1>1, <1>5 DEF Signed
      <4>2. Content(item, w) = Integer(item, w, 16)
        BY <3>2 DEF Content
      <4> QED  BY ONLY <4>1, <4>2, <3>2 DEF base
    <3> QED  BY <3>1, <3>2
  <2> HIDE DEF n, base
  <2> QED  BY <2>1, IntegerParts
<1> HIDE DEF n, base, sign, x, what
<1>9. DoPrint(sign, x, what) = Field(item, w)
  <2>1. PartsOf(item, w, sign, x, what)
    BY <1>4, <1>7, <1>8 DEF PartsOf
  <2> QED  BY <1>5, <2>1, DoPrintField
<1> QED  BY <1>3, <1>9 DEF base

(* A field without flags for numbers: "s", and "p", which C gives no        *)
(* precision.                                                               *)
LEMMA PlainField ==
  ASSUME TypeOK, NEW item, Convertible(item), Options(item), item.conv \in {"s", "p"},
         NEW w, DirectiveAgrees(item, w), Len(Body(item, w)) < SizeRange,
         NEW q, IsSeq(q), NEW what, IsSeq(what), Prefix(item, w) = q, Content(item, w) = what,
         Zeros(what) = 0
  PROVE  DoPrint(<<>>, q, what) = Field(item, w)
<1>1. IsSeq(<<>>) /\ <<>> \o q = q /\ <<>> \o what = what
  BY Empty, EmptyFront
<1>2. Repeat("0", Zeros(what)) = <<>>
  <2>1. [i \in 1 .. 0 |-> "0"] = <<>>
    OBVIOUS
  <2> QED  BY ONLY <2>1, Zeros(what) = 0 DEF Repeat
<1>3. Prefix(item, w) = <<>> \o q /\ Content(item, w) = Repeat("0", Zeros(what)) \o what
  BY ONLY <1>1, <1>2, Prefix(item, w) = q, Content(item, w) = what
<1>4. ~Flag(item, "0") /\ (Flag(item, "-") => Fits(item, w))
  BY DEF Convertible, DirectiveAgrees
<1>5. PartsOf(item, w, <<>>, q, what)
  BY <1>1, <1>3 DEF PartsOf
<1> QED  BY <1>4, <1>5, DoPrintField

LEMMA PointerField ==
  ASSUME TypeOK, NEW item, Convertible(item), Options(item), item.conv = "p",
         NEW w \in Word, DirectiveAgrees(item, w), Len(Body(item, w)) < SizeRange
  PROVE  (IF w = 0 THEN DoPrint(<<>>, <<>>, NullName)
          ELSE DoPrint(<<>>, <<"0", "x">>, Digits(w, 16))) = Field(item, w)
<1>1. pr.precision = 1 /\ ~Flag(item, "#") /\ w \in Nat
  BY RangeAssumption DEF Options, Convertible, Word
<1>2. CASE w = 0
  <2>1. NullName \in Seq({"(", "n", "u", "l", ")"}) /\ Len(NullName) = 6
    BY DEF NullName
  <2>2. IsSeq(NullName) /\ IsSeq(<<>>) /\ Zeros(NullName) = 0
    BY <1>1, <2>1, Empty DEF IsSeq, Zeros
  <2>3. Prefix(item, w) = <<>> /\ Content(item, w) = NullName
    BY <1>1, <1>2 DEF Prefix, Content
  <2> QED  BY <1>2, <2>2, <2>3, PlainField
<1>3. CASE w # 0
  <2>1. <<"0", "x">> \in Seq({"0", "x"})
    OBVIOUS
  <2>2. IsSeq(Digits(w, 16)) /\ Len(Digits(w, 16)) > 0 /\ Len(Digits(w, 16)) \in Nat
    BY <1>1, <1>3, DigitsSeq, Lengths
  <2>3. IsSeq(<<"0", "x">>)
    BY ONLY <2>1 DEF IsSeq
  <2>4. Zeros(Digits(w, 16)) = 0
    BY ONLY <1>1, <2>2 DEF Zeros
  <2>5. Prefix(item, w) = <<"0", "x">> /\ Content(item, w) = Digits(w, 16)
    BY <1>1, <1>3 DEF Prefix, Content
  <2> QED  BY <1>3, <2>2, <2>3, <2>4, <2>5, PlainField
<1> QED  BY <1>2, <1>3

LEMMA StringField ==
  ASSUME TypeOK, NEW item, Convertible(item), Options(item), item.conv = "s",
         NEW w \in DOMAIN StringAt, DirectiveAgrees(item, w), Len(Body(item, w)) < SizeRange
  PROVE  DoPrint(<<>>, <<>>, StringAt[w]) = Field(item, w)
<1> DEFINE what == StringAt[w]
<1>1. what \in Seq(STRING) /\ IsSeq(what) /\ Len(what) \in Nat
  BY StringsAssumption DEF IsSeq
<1>2. IF HasPrecision(item) THEN Len(what) = pr.precision ELSE what # <<>> /\ pr.precision = 1
  BY DEF DirectiveAgrees, StringAgrees, Options
<1>3. Zeros(what) = 0 /\ Content(item, w) = what
  <2>1. CASE HasPrecision(item)
    <3>1. Len(what) = pr.precision /\ PrecisionOf(item) = pr.precision
      BY <1>2, <2>1 DEF Options
    <3> QED  BY <1>1, <3>1 DEF Zeros, Content
  <2>2. CASE ~HasPrecision(item)
    <3>1. Len(what) > 0
      BY <1>1, <1>2, <2>2
    <3> QED  BY <1>1, <1>2, <2>2, <3>1 DEF Zeros, Content
  <2> QED  BY <2>1, <2>2
<1>4. Prefix(item, w) = <<>> /\ IsSeq(<<>>)
  BY Empty DEF Prefix, Convertible
<1> HIDE DEF what
<1>5. DoPrint(<<>>, <<>>, what) = Field(item, w)
  BY <1>1, <1>3, <1>4, PlainField
<1> QED  BY <1>5 DEF what

(* Nothing stays in the buffer when generic_printf returns, and the length  *)
(* that it returns is the length of what it sent, modulo a size_t           *)
(* (printf.c:39-49, 311-316).                                               *)
THEOREM ReturnSendsAll ==
  ASSUME PrintfInv, Return
  PROVE  sent' = Stream(Buffered) /\ buf' = <<>> /\ written' = Wrap(Len(sent'))
<1> DEFINE o == Flush(Buffered)
<1>1. IsBuffer(Buffered)
  BY DEF PrintfInv
<1>2. Buffered = [buf |-> Buffered.buf, sent |-> Buffered.sent, written |-> Buffered.written]
  BY DEF Buffered
<1>3. IsBuffer(o) /\ Stream(o) = Stream(Buffered) /\ o.buf = <<>>
  BY <1>1, <1>2, Flushed DEF IsBuffer
<1>4. buf' = o.buf /\ sent' = o.sent /\ written' = o.written
  BY DEF Return, Output
<1> HIDE DEF o
<1>5. IsSeq(o.sent) /\ o.written = Wrap(Len(o.sent)) /\ Stream(o) = o.sent \o o.buf
  BY ONLY <1>3 DEF IsBuffer, Stream
<1>6. Stream(o) = o.sent
  BY ONLY <1>3, <1>5, EmptyFront
<1> QED  BY ONLY <1>3, <1>4, <1>5, <1>6

(* A conversion of a directive, with the word or address that is its        *)
(* argument.                                                                *)
Conversion(item, w) ==
  \/ w \in Words /\ item.conv = "d" /\ Decimal(w)
  \/ w \in Words /\ item.conv = "x" /\ Hexadecimal(w)
  \/ w \in Words /\ item.conv = "p" /\ Pointer(w)
  \/ w \in DOMAIN StringAt /\ item.conv = "s" /\ String(w)

(* A conversion adds to the output what C says of its directive, if the     *)
(* directive is one of which generic_printf agrees with C, its options have *)
(* been read, and its field is one that a size_t can count.  In particular  *)
(* the padding, which is computed modulo the range of a size_t, is the      *)
(* padding that C asks for (printf.c:65-169, 258-283).                      *)
THEOREM ConversionAgreesWithC ==
  ASSUME PrintfInv, NEW item, Convertible(item), Options(item), NEW w, Conversion(item, w),
         DirectiveAgrees(item, w), Len(Body(item, w)) < SizeRange
  PROVE  Stream(Buffered)' = Stream(Buffered) \o Field(item, w)
<1>1. TypeOK /\ IsBuffer(Buffered)
  BY DEF PrintfInv
<1>2. ASSUME NEW field, IsSeq(field), field = Field(item, w), Convert(w, field)
      PROVE  Stream(Buffered)' = Stream(Buffered) \o Field(item, w)
  BY <1>1, <1>2, PushStep DEF Convert
<1>3. w \in Word
  BY RangeAssumption DEF Conversion, Word
<1>4. CASE w \in Words /\ item.conv = "d" /\ Decimal(w)
  <2>1. DoInt(w, 10) = Field(item, w)
    BY <1>1, <1>3, <1>4, IntField
  <2> QED  BY <1>1, <1>2, <1>4, <2>1, FieldSeq DEF Decimal
<1>5. CASE w \in Words /\ item.conv = "x" /\ Hexadecimal(w)
  <2>1. DoInt(w, 16) = Field(item, w)
    BY <1>1, <1>3, <1>5, IntField
  <2> QED  BY <1>1, <1>2, <1>5, <2>1, FieldSeq DEF Hexadecimal
<1>6. CASE w \in Words /\ item.conv = "p" /\ Pointer(w)
  <2>1. (IF w = 0 THEN DoPrint(<<>>, <<>>, NullName)
         ELSE DoPrint(<<>>, <<"0", "x">>, Digits(w, 16))) = Field(item, w)
    BY <1>1, <1>3, <1>6, PointerField
  <2> QED  BY <1>1, <1>2, <1>6, <2>1, FieldSeq DEF Pointer
<1>7. CASE w \in DOMAIN StringAt /\ item.conv = "s" /\ String(w)
  <2>1. DoPrint(<<>>, <<>>, StringAt[w]) = Field(item, w)
    BY <1>1, <1>7, StringField
  <2> QED  BY <1>1, <1>2, <1>7, <2>1, FieldSeq DEF String
<1> QED  BY <1>4, <1>5, <1>6, <1>7 DEF Conversion

-----------------------------------------------------------------------------
(***************************************************************************)
(* Sequences of sequences, one after the other.                            *)
(***************************************************************************)
AreSeqs(s) == IsSeq(s) /\ \A k \in 1 .. Len(s) : IsSeq(s[k])

(* f[k] is the first k of them. *)
Flattens(f, s) ==
  /\ f[0] = <<>> /\ f[Len(s)] = FlattenSeq(s)
  /\ \A k \in 1 .. Len(s) : f[k] = f[k - 1] \o s[k]
  /\ \A k \in 0 .. Len(s) : IsSeq(f[k])

LEMMA FlattensExists ==
  ASSUME NEW s, AreSeqs(s)
  PROVE  \E f : Flattens(f, s)
<1> DEFINE n == Len(s)
           F(f, k) == IF k = 1 THEN s[k] ELSE f[k - 1] \o s[k]
           IsFlat(f, m) == f = [k \in 1 .. m |-> F(f, k)]
           flat == CHOOSE f : IsFlat(f, n)
           g == [k \in 0 .. n |-> IF k = 0 THEN <<>> ELSE flat[k]]
<1>1. n \in Nat /\ (n = 0 => s = <<>>)
  <2>1. PICK S : s \in Seq(S)
    BY DEF AreSeqs, IsSeq
  <2> QED  BY <2>1
<1>2. FlattenSeq(s) = IF n = 0 THEN s ELSE flat[n]
  BY DEF FlattenSeq
<1>3. \E f : IsFlat(f, n)
  <2> DEFINE S == {m \in Nat : ~ \E f : IsFlat(f, m)}
  <2> SUFFICES ASSUME S # {} PROVE FALSE
    BY <1>1
  <2>1. PICK m \in S : \A l \in S : m <= l
    BY LeastNumber
  <2>2. CASE m = 0
    <3> DEFINE f == [k \in 1 .. 0 |-> <<>>]
    <3>1. f = [k \in 1 .. 0 |-> F(f, k)]
      BY SMT
    <3> QED  BY <2>1, <2>2, <3>1, Zenon
  <2>3. CASE m # 0
    <3>1. m \in Nat /\ m - 1 \in Nat /\ m - 1 \notin S
      <4>1. m \in Nat
        BY <2>1
      <4> HIDE DEF S
      <4>2. m - 1 \in Nat /\ ~ (m <= m - 1)
        BY <4>1, <2>3
      <4> QED  BY <4>1, <4>2, <2>1
    <3>2. PICK f : IsFlat(f, m - 1)
      BY <3>1
    <3> DEFINE h == [k \in 1 .. m |-> IF k < m THEN f[k] ELSE F(f, m)]
    <3>3. \A k \in 1 .. m - 1 : f[k] = F(f, k)
      BY <3>2, Zenon
    <3>4. ASSUME NEW k \in 1 .. m PROVE h[k] = F(h, k)
      BY <3>1, <3>3, <2>3
    <3>5. h = [k \in 1 .. m |-> F(h, k)]
      <4>1. h = [k \in 1 .. m |-> h[k]]
        OBVIOUS
      <4> HIDE DEF h, F
      <4> QED  BY <3>4, <4>1
    <3> QED  BY <2>1, <3>5
  <2> QED  BY <2>2, <2>3
<1>4. IsFlat(flat, n)
  BY <1>3
<1> HIDE DEF flat
<1>5. \A k \in 1 .. n : flat[k] = F(flat, k)
  BY <1>4, Zenon
<1>6. /\ g[0] = <<>> /\ g[n] = FlattenSeq(s)
      /\ \A k \in 1 .. n : g[k] = flat[k]
  BY <1>1, <1>2
<1>7. \A k \in 1 .. n : g[k] = g[k - 1] \o s[k]
  <2> SUFFICES ASSUME NEW k \in 1 .. n PROVE g[k] = g[k - 1] \o s[k]
    OBVIOUS
  <2>1. g[k] = F(flat, k)
    BY <1>5, <1>6
  <2> HIDE DEF g
  <2>2. CASE k = 1
    <3>1. <<>> \o s[k] = s[k]
      BY EmptyFront DEF AreSeqs
    <3>2. k - 1 = 0 /\ g[k - 1] = <<>>
      BY <2>2, <1>6
    <3> QED  BY <2>1, <2>2, <3>1, <3>2
  <2>3. CASE k # 1
    <3>1. k - 1 \in 1 .. n
      BY <1>1, <2>3
    <3> QED  BY <2>1, <2>3, <3>1, <1>6
  <2> QED  BY <2>2, <2>3
<1> HIDE DEF g
<1>8. \A k \in 0 .. n : IsSeq(g[k])
  <2> DEFINE S == {k \in 0 .. n : ~ IsSeq(g[k])}
  <2> SUFFICES ASSUME S # {} PROVE FALSE
    OBVIOUS
  <2>1. PICK k \in S : \A m \in S : k <= m
    <3>1. S \in SUBSET Nat
      OBVIOUS
    <3> HIDE DEF S
    <3> QED  BY <3>1, LeastNumber
  <2>2. k # 0
    BY <2>1, <1>6, Empty
  <2>3. k \in 1 .. n /\ k - 1 \in 0 .. n /\ ~ (k <= k - 1)
    BY <1>1, <2>1, <2>2
  <2>4. IsSeq(g[k - 1]) /\ IsSeq(s[k])
    BY <2>1, <2>3 DEF AreSeqs
  <2> QED  BY <1>7, <2>1, <2>3, <2>4, Concatenated
<1> QED  BY <1>6, <1>7, <1>8 DEF Flattens

(* The first k elements of a sequence.                                      *)
Cut(s, k) == [j \in 1 .. k |-> s[j]]

LEMMA CutSeqs ==
  ASSUME NEW s, AreSeqs(s), NEW k \in 0 .. Len(s)
  PROVE  AreSeqs(Cut(s, k)) /\ Len(Cut(s, k)) = k /\ (k = Len(s) => Cut(s, k) = s)
<1>1. PICK S : s \in Seq(S)
  BY DEF AreSeqs, IsSeq
<1>2. Cut(s, k) \in Seq(S) /\ Len(Cut(s, k)) = k /\ (k = Len(s) => Cut(s, k) = s)
  BY <1>1 DEF Cut
<1>3. \A j \in 1 .. k : Cut(s, k)[j] = s[j] /\ j \in 1 .. Len(s)
  BY <1>1 DEF Cut
<1> QED  BY <1>2, <1>3 DEF AreSeqs, IsSeq

(* Two sequences with the same beginning.                                   *)
LEMMA FlattensAlike ==
  ASSUME NEW s, NEW f, Flattens(f, s), NEW t, NEW g, Flattens(g, t), NEW n \in Nat,
         n <= Len(s), n <= Len(t), Len(s) \in Nat, Len(t) \in Nat,
         \A k \in 1 .. n : s[k] = t[k]
  PROVE  f[n] = g[n]
<1> DEFINE S == {k \in 0 .. n : f[k] # g[k]}
<1> SUFFICES ASSUME S # {} PROVE FALSE
  OBVIOUS
<1>1. PICK k \in S : \A m \in S : k <= m
  <2>1. S \in SUBSET Nat
    OBVIOUS
  <2> HIDE DEF S
  <2> QED  BY <2>1, LeastNumber
<1>2. k # 0
  BY <1>1 DEF Flattens
<1>3. k \in 1 .. n /\ k - 1 \in 0 .. n /\ ~ (k <= k - 1)
  BY <1>1, <1>2
<1>4. f[k - 1] = g[k - 1] /\ f[k] # g[k]
  BY <1>1, <1>3
<1>5. k \in 1 .. Len(s) /\ k \in 1 .. Len(t)
  BY <1>3
<1>6. f[k] = f[k - 1] \o s[k] /\ g[k] = g[k - 1] \o t[k] /\ s[k] = t[k]
  BY <1>3, <1>5 DEF Flattens
<1> QED  BY ONLY <1>4, <1>6

LEMMA FlattenCut ==
  ASSUME NEW s, AreSeqs(s), NEW f, Flattens(f, s), NEW k \in 0 .. Len(s)
  PROVE  FlattenSeq(Cut(s, k)) = f[k]
<1> DEFINE c == Cut(s, k)
<1>1. Len(s) \in Nat
  BY Lengths DEF AreSeqs
<1>2. AreSeqs(c) /\ Len(c) = k
  BY CutSeqs
<1>3. \A j \in 1 .. k : c[j] = s[j]
  BY DEF Cut
<1> HIDE DEF c
<1>4. PICK g : Flattens(g, c)
  BY <1>2, FlattensExists
<1>5. g[k] = f[k]
  BY <1>1, <1>2, <1>3, <1>4, FlattensAlike
<1> QED  BY <1>2, <1>4, <1>5 DEF Flattens, c

(* A sequence in two parts.                                                 *)
InParts(u, s, t) ==
  /\ Len(s) \in Nat /\ Len(t) \in Nat /\ Len(u) = Len(s) + Len(t)
  /\ \A j \in 1 .. Len(s) : u[j] = s[j]
  /\ \A j \in 1 .. Len(t) : u[Len(s) + j] = t[j]

LEMMA Parts ==
  ASSUME NEW s, NEW t, IsSeq(s), IsSeq(t)
  PROVE  InParts(s \o t, s, t)
<1>1. PICK S : s \in Seq(S)
  BY DEF IsSeq
<1>2. PICK T : t \in Seq(T)
  BY DEF IsSeq
<1> QED  BY <1>1, <1>2 DEF InParts

LEMMA PartsPlace ==
  ASSUME NEW u, NEW s, NEW t, InParts(u, s, t)
  PROVE  /\ Len(s) \in Nat /\ Len(t) \in Nat /\ Len(u) \in Nat
         /\ Len(s) <= Len(u) /\ \A j \in 1 .. Len(t) : Len(s) + j \in 1 .. Len(u)
<1> DEFINE a == Len(s)
           b == Len(t)
           c == Len(u)
<1>1. a \in Nat /\ b \in Nat /\ c = a + b
  BY DEF InParts
<1> HIDE DEF a, b, c
<1>2. c \in Nat /\ a <= c /\ \A j \in 1 .. b : a + j \in 1 .. c
  BY <1>1
<1> QED  BY <1>1, <1>2 DEF a, b, c

(* What has been flattened stays in its place.                              *)
InPlace(f, k, m) == Len(f[k]) <= Len(f[m]) /\ \A j \in 1 .. Len(f[k]) : f[m][j] = f[k][j]

LEMMA FlattensInPlace ==
  ASSUME NEW s, AreSeqs(s), NEW f, Flattens(f, s), NEW k \in 0 .. Len(s), NEW m \in k .. Len(s)
  PROVE  InPlace(f, k, m)
<1> DEFINE Good(l) == Len(f[k]) <= Len(f[l]) /\ \A j \in 1 .. Len(f[k]) : f[l][j] = f[k][j]
           S == {l \in k .. Len(s) : ~ Good(l)}
<1>0. Len(s) \in Nat /\ k \in Nat
  BY Lengths DEF AreSeqs
<1>1. \A l \in 0 .. Len(s) : IsSeq(f[l]) /\ Len(f[l]) \in Nat
  BY Lengths DEF Flattens
<1> SUFFICES ASSUME S # {} PROVE FALSE
  BY DEF InPlace
<1>2. PICK l \in S : \A i \in S : l <= i
  <2>1. S \in SUBSET Nat
    BY <1>0
  <2> HIDE DEF S
  <2> QED  BY <2>1, LeastNumber
<1>3. l # k
  BY <1>0, <1>1, <1>2
<1>4. l \in 1 .. Len(s) /\ l - 1 \in k .. Len(s) /\ l - 1 \in 0 .. Len(s) /\ ~ (l <= l - 1)
  BY <1>0, <1>2, <1>3
<1>5. Good(l - 1)
  BY <1>2, <1>4
<1>6. InParts(f[l], f[l - 1], s[l])
  <2>1. f[l] = f[l - 1] \o s[l] /\ IsSeq(s[l]) /\ IsSeq(f[l - 1])
    BY <1>4 DEF Flattens, AreSeqs
  <2> QED  BY ONLY <2>1, Parts
<1>7. /\ Len(f[k]) \in Nat /\ Len(f[l - 1]) \in Nat /\ Len(f[l]) \in Nat
      /\ Len(f[k]) <= Len(f[l - 1]) /\ Len(f[l - 1]) <= Len(f[l])
  BY <1>0, <1>1, <1>4, <1>5, <1>6, PartsPlace
<1>8. ASSUME NEW j \in 1 .. Len(f[k]) PROVE f[l][j] = f[k][j]
  <2>1. j \in 1 .. Len(f[l - 1])
    BY ONLY <1>7, <1>8
  <2>2. f[l][j] = f[l - 1][j]
    BY ONLY <1>6, <2>1 DEF InParts
  <2>3. f[l - 1][j] = f[k][j]
    BY ONLY <1>5, <1>8
  <2> QED  BY ONLY <2>2, <2>3
<1>9. Good(l)
  BY ONLY <1>7, <1>8
<1> QED  BY <1>2, <1>9

(* The beginnings of the whole, one element after the other.                *)
LEMMA FlattenParts ==
  ASSUME NEW s, AreSeqs(s)
  PROVE  /\ FlattenSeq(Cut(s, 0)) = <<>> /\ FlattenSeq(Cut(s, Len(s))) = FlattenSeq(s)
         /\ \A k \in 0 .. Len(s) : /\ IsSeq(FlattenSeq(Cut(s, k)))
                                   /\ Len(FlattenSeq(Cut(s, k))) <= Len(FlattenSeq(s))
         /\ \A k \in 1 .. Len(s) : FlattenSeq(Cut(s, k)) = FlattenSeq(Cut(s, k - 1)) \o s[k]
         /\ \A k \in 1 .. Len(s) : \A j \in 1 .. Len(s[k]) :
              FlattenSeq(s)[Len(FlattenSeq(Cut(s, k - 1))) + j] = s[k][j]
<1>1. PICK f : Flattens(f, s)
  BY FlattensExists
<1>2. Len(s) \in Nat
  BY Lengths DEF AreSeqs
<1>3. \A k \in 0 .. Len(s) : FlattenSeq(Cut(s, k)) = f[k]
  BY <1>1, FlattenCut
<1>4. FlattenSeq(s) = f[Len(s)]
  BY <1>1 DEF Flattens
<1>5. \A k \in 0 .. Len(s) : Len(f[k]) <= Len(f[Len(s)]) /\ IsSeq(f[k])
  <2> SUFFICES ASSUME NEW k \in 0 .. Len(s) PROVE Len(f[k]) <= Len(f[Len(s)]) /\ IsSeq(f[k])
    OBVIOUS
  <2>1. Len(s) \in k .. Len(s)
    BY <1>2
  <2>2. InPlace(f, k, Len(s))
    BY <2>1, <1>1, FlattensInPlace
  <2> QED  BY <2>2, <1>1 DEF Flattens, InPlace
<1>6. ASSUME NEW k \in 1 .. Len(s)
      PROVE  /\ f[k] = f[k - 1] \o s[k]
             /\ \A j \in 1 .. Len(s[k]) : f[Len(s)][Len(f[k - 1]) + j] = s[k][j]
  <2>1. f[k] = f[k - 1] \o s[k] /\ k - 1 \in 0 .. Len(s) /\ k \in 0 .. Len(s)
    <3>1. f[k] = f[k - 1] \o s[k]
      BY <1>1 DEF Flattens
    <3>2. k - 1 \in 0 .. Len(s) /\ k \in 0 .. Len(s)
      BY <1>2
    <3> QED  BY ONLY <3>1, <3>2
  <2>2. InParts(f[k], f[k - 1], s[k])
    <3>1. IsSeq(f[k - 1]) /\ IsSeq(s[k])
      BY <2>1, <1>5 DEF AreSeqs
    <3> QED  BY ONLY <2>1, <3>1, Parts
  <2>3. \A j \in 1 .. Len(f[k]) : f[Len(s)][j] = f[k][j]
    <3>1. Len(s) \in k .. Len(s)
      BY <1>2
    <3>2. InPlace(f, k, Len(s))
      BY <2>1, <3>1, <1>1, FlattensInPlace
    <3> QED  BY ONLY <3>2 DEF InPlace
  <2>4. ASSUME NEW j \in 1 .. Len(s[k])
        PROVE  f[Len(s)][Len(f[k - 1]) + j] = s[k][j]
    <3>1. Len(f[k - 1]) + j \in 1 .. Len(f[k])
      BY ONLY <2>2, <2>4, PartsPlace
    <3>2. f[k][Len(f[k - 1]) + j] = s[k][j]
      BY ONLY <2>2, <2>4 DEF InParts
    <3> QED  BY ONLY <2>3, <3>1, <3>2
  <2> QED  BY ONLY <2>1, <2>4
<1>7. \A k \in 1 .. Len(s) : k - 1 \in 0 .. Len(s) /\ k \in 0 .. Len(s)
  BY <1>2
<1>8. 0 \in 0 .. Len(s) /\ Len(s) \in 0 .. Len(s) /\ f[0] = <<>>
  BY <1>1, <1>2 DEF Flattens
<1> HIDE DEF Cut
<1> QED  BY <1>3, <1>4, <1>5, <1>6, <1>7, <1>8

(***************************************************************************)
(* The number that digits stand for.                                       *)
(***************************************************************************)
(* v[k] is the number of the first k digits. *)
Numbers(v, s) ==
  /\ v[0] = 0 /\ v[Len(s)] = Number(s)
  /\ \A k \in 1 .. Len(s) : v[k] = 10 * v[k - 1] + DigitValue[s[k]]

LEMMA NumbersExists ==
  ASSUME NEW s, Len(s) \in Nat
  PROVE  \E v : Numbers(v, s)
<1> DEFINE n == Len(s)
           F(f, k) == IF k = 0 THEN 0 ELSE 10 * f[k - 1] + DigitValue[s[k]]
           IsNumber(f, m) == f = [k \in 0 .. m |-> F(f, k)]
           v == CHOOSE f : IsNumber(f, n)
<1>1. n \in Nat
  OBVIOUS
<1>2. Number(s) = v[n]
  BY DEF Number
<1>3. \E f : IsNumber(f, n)
  <2> DEFINE S == {m \in Nat : ~ \E f : IsNumber(f, m)}
  <2> SUFFICES ASSUME S # {} PROVE FALSE
    BY <1>1
  <2>1. PICK m \in S : \A l \in S : m <= l
    BY LeastNumber
  <2>2. CASE m = 0
    <3> DEFINE f == [k \in 0 .. 0 |-> 0]
    <3>1. f = [k \in 0 .. 0 |-> F(f, k)]
      BY SMT
    <3> QED  BY <2>1, <2>2, <3>1, Zenon
  <2>3. CASE m # 0
    <3>1. m \in Nat /\ m - 1 \in Nat /\ m - 1 \notin S
      <4>1. m \in Nat
        BY <2>1
      <4> HIDE DEF S
      <4>2. m - 1 \in Nat /\ ~ (m <= m - 1)
        BY <4>1, <2>3
      <4> QED  BY <4>1, <4>2, <2>1
    <3>2. PICK f : IsNumber(f, m - 1)
      BY <3>1
    <3> DEFINE h == [k \in 0 .. m |-> IF k < m THEN f[k] ELSE F(f, m)]
    <3>3. \A k \in 0 .. m - 1 : f[k] = F(f, k)
      BY <3>2, Zenon
    <3>4. ASSUME NEW k \in 0 .. m PROVE h[k] = F(h, k)
      <4>1. CASE k = m
        <5>1. m # 0 /\ m \in 0 .. m /\ ~ (m < m) /\ m - 1 \in 0 .. m /\ m - 1 < m
          BY <3>1, <2>3
        <5>2. h[m] = F(f, m) /\ h[m - 1] = f[m - 1]
          BY <5>1
        <5> HIDE DEF h
        <5> QED  BY <5>1, <5>2, <4>1
      <4>2. CASE k # m /\ k # 0
        <5>1. k < m /\ k \in 0 .. m - 1 /\ k - 1 \in 0 .. m /\ k - 1 < m
          BY <3>1, <4>2
        <5>2. h[k] = f[k] /\ h[k - 1] = f[k - 1]
          BY <5>1
        <5>3. f[k] = F(f, k)
          BY <5>1, <3>3
        <5> HIDE DEF h
        <5> QED  BY <4>2, <5>2, <5>3
      <4>3. CASE k # m /\ k = 0
        <5>1. k < m /\ k \in 0 .. m - 1
          BY <3>1, <4>3
        <5>2. h[k] = f[k] /\ f[k] = F(f, k)
          BY <5>1, <3>3
        <5> HIDE DEF h
        <5> QED  BY <4>3, <5>2
      <4> QED  BY <4>1, <4>2, <4>3
    <3>5. h = [k \in 0 .. m |-> F(h, k)]
      <4>1. h = [k \in 0 .. m |-> h[k]]
        OBVIOUS
      <4> HIDE DEF h, F
      <4> QED  BY <3>4, <4>1
    <3> QED  BY <2>1, <3>5
  <2> QED  BY <2>2, <2>3
<1>4. IsNumber(v, n)
  BY <1>3
<1> HIDE DEF v
<1>5. \A k \in 0 .. n : v[k] = F(v, k)
  BY <1>4, Zenon
<1>6. v[0] = 0 /\ \A k \in 1 .. n : v[k] = 10 * v[k - 1] + DigitValue[s[k]]
  BY <1>1, <1>5
<1> QED  BY <1>2, <1>6 DEF Numbers

LEMMA NumbersAlike ==
  ASSUME NEW s, NEW v, Numbers(v, s), NEW t, NEW w, Numbers(w, t), NEW n \in Nat,
         n <= Len(s), n <= Len(t), Len(s) \in Nat, Len(t) \in Nat,
         \A k \in 1 .. n : s[k] = t[k]
  PROVE  v[n] = w[n]
<1> DEFINE S == {k \in 0 .. n : v[k] # w[k]}
<1> SUFFICES ASSUME S # {} PROVE FALSE
  OBVIOUS
<1>1. PICK k \in S : \A m \in S : k <= m
  <2>1. S \in SUBSET Nat
    OBVIOUS
  <2> HIDE DEF S
  <2> QED  BY <2>1, LeastNumber
<1>2. k # 0
  BY <1>1 DEF Numbers
<1>3. k \in 1 .. n /\ k - 1 \in 0 .. n /\ ~ (k <= k - 1)
  BY <1>1, <1>2
<1>4. v[k - 1] = w[k - 1] /\ v[k] # w[k]
  BY <1>1, <1>3
<1>5. k \in 1 .. Len(s) /\ k \in 1 .. Len(t)
  BY <1>3
<1>6. /\ v[k] = 10 * v[k - 1] + DigitValue[s[k]]
      /\ w[k] = 10 * w[k - 1] + DigitValue[t[k]] /\ s[k] = t[k]
  BY <1>3, <1>5 DEF Numbers
<1> QED  BY ONLY <1>4, <1>6

Decimals == DOMAIN DigitValue

(* A digit more makes ten times the number and the digit.                   *)
LEMMA NumberParts ==
  ASSUME NEW s \in Seq(Decimals)
  PROVE  /\ Len(s) \in Nat /\ Cut(s, 0) = <<>> /\ Cut(s, Len(s)) = s /\ Number(<<>>) = 0
         /\ \A k \in 0 .. Len(s) : Number(Cut(s, k)) \in Nat /\ Number(Cut(s, k)) <= Number(s)
         /\ \A k \in 1 .. Len(s) :
              Number(Cut(s, k)) = 10 * Number(Cut(s, k - 1)) + DigitValue[s[k]]
<1>1. Len(s) \in Nat /\ Cut(s, 0) = <<>> /\ Cut(s, Len(s)) = s
  BY DEF Cut
<1>2. PICK v : Numbers(v, s)
  BY <1>1, NumbersExists
<1>3. ASSUME NEW k \in 0 .. Len(s) PROVE Number(Cut(s, k)) = v[k]
  <2>1. Len(Cut(s, k)) = k /\ \A j \in 1 .. k : Cut(s, k)[j] = s[j]
    BY DEF Cut
  <2>2. PICK w : Numbers(w, Cut(s, k))
    BY <2>1, NumbersExists
  <2>3. v[k] = w[k]
    BY <1>1, <1>2, <2>1, <2>2, NumbersAlike
  <2> QED  BY <2>1, <2>2, <2>3 DEF Numbers
<1>4. v[0] = 0 /\ \A k \in 1 .. Len(s) : v[k] = 10 * v[k - 1] + DigitValue[s[k]]
  BY <1>2 DEF Numbers
<1>5. \A k \in 1 .. Len(s) : DigitValue[s[k]] \in 0 .. 9
  BY DigitType DEF Decimals
<1>6. \A k \in 0 .. Len(s) : v[k] \in Nat
  <2> DEFINE S == {k \in 0 .. Len(s) : v[k] \notin Nat}
  <2> SUFFICES ASSUME S # {} PROVE FALSE
    OBVIOUS
  <2>1. PICK k \in S : \A m \in S : k <= m
    <3>1. S \in SUBSET Nat
      OBVIOUS
    <3> HIDE DEF S
    <3> QED  BY <3>1, LeastNumber
  <2>2. k # 0
    BY <2>1, <1>4
  <2>3. k \in 1 .. Len(s) /\ k - 1 \in 0 .. Len(s) /\ ~ (k <= k - 1)
    BY <1>1, <2>1, <2>2
  <2>4. v[k - 1] \in Nat /\ v[k] \notin Nat
    BY <2>1, <2>3
  <2>5. v[k] = 10 * v[k - 1] + DigitValue[s[k]] /\ DigitValue[s[k]] \in 0 .. 9
    BY <1>4, <1>5, <2>3
  <2> DEFINE a == v[k - 1]
             b == DigitValue[s[k]]
  <2>6. a \in Nat /\ b \in 0 .. 9 /\ v[k] = 10 * a + b
    BY <2>4, <2>5
  <2> HIDE DEF a, b
  <2>7. 10 * a + b \in Nat
    BY ONLY <2>6
  <2> QED  BY ONLY <2>4, <2>6, <2>7
<1>7. \A k \in 0 .. Len(s) : v[k] <= v[Len(s)]
  <2> SUFFICES ASSUME NEW k \in 0 .. Len(s) PROVE v[k] <= v[Len(s)]
    OBVIOUS
  <2> DEFINE S == {m \in k .. Len(s) : ~ (v[k] <= v[m])}
  <2> SUFFICES ASSUME S # {} PROVE FALSE
    BY <1>1
  <2>1. PICK m \in S : \A l \in S : m <= l
    <3>1. S \in SUBSET Nat
      OBVIOUS
    <3> HIDE DEF S
    <3> QED  BY <3>1, LeastNumber
  <2>2. m # k
    BY <2>1, <1>6
  <2>3. m \in 1 .. Len(s) /\ m - 1 \in k .. Len(s) /\ m - 1 \in 0 .. Len(s) /\ ~ (m <= m - 1)
    BY <1>1, <2>1, <2>2
  <2>4. v[k] <= v[m - 1] /\ ~ (v[k] <= v[m])
    BY <2>1, <2>3
  <2>5. v[m] = 10 * v[m - 1] + DigitValue[s[m]] /\ DigitValue[s[m]] \in 0 .. 9 /\ v[m - 1] \in Nat
    BY <1>4, <1>5, <1>6, <2>3
  <2> DEFINE a == v[m - 1]
             b == DigitValue[s[m]]
             c == v[k]
             d == v[m]
  <2>6. a \in Nat /\ b \in 0 .. 9 /\ c \in Nat /\ d = 10 * a + b /\ c <= a /\ ~ (c <= d)
    BY <1>6, <2>4, <2>5
  <2> HIDE DEF a, b, c, d
  <2> QED  BY ONLY <2>6
<1>8. Number(<<>>) = 0 /\ Number(s) = v[Len(s)]
  <2>1. Number(Cut(s, 0)) = v[0] /\ Number(Cut(s, Len(s))) = v[Len(s)]
    BY <1>1, <1>3
  <2> QED  BY <2>1, <1>1, <1>4
<1>9. \A k \in 1 .. Len(s) : k \in 0 .. Len(s) /\ k - 1 \in 0 .. Len(s)
  BY <1>1
<1> HIDE DEF Cut
<1> QED  BY <1>1, <1>3, <1>4, <1>6, <1>7, <1>8, <1>9

-----------------------------------------------------------------------------
(***************************************************************************)
(* Where the formatter is in its format.                                   *)
(***************************************************************************)
Spellings == [j \in DOMAIN format |-> SpellItem(format[j])]
(* The text of the first k items, and what C says that they print. *)
Before(k) == FlattenSeq(Cut(Spellings, k))
Out(k) == FlattenSeq([j \in 1 .. k |-> Printed(j)])

IsText(k) == k \in DOMAIN format /\ format[k].kind = "text"
IsDirective(k) == k \in DOMAIN format /\ format[k].kind = "directive"
IsPercent(k) == IsDirective(k) /\ format[k].conv = "%"
Escaped(k) == \E j \in 1 .. k : IsPercent(j)

(* Every "%%" is followed by what it cannot change, and C defines the rest. *)
Tame == /\ \A k \in DOMAIN format : Defined(format[k])
        /\ \A k \in DOMAIN format : IsPercent(k) => Agrees(k)

(* The arguments of the first k items have been fetched. *)
Fetched(k) ==
  /\ Len(taken) = Argument(k)
  /\ \A j \in 1 .. k : Takes(format[j]) =>
       taken[Argument(j)] \in IF format[j].conv = "s" THEN DOMAIN StringAt ELSE Words

(* generic_printf agrees with C in the first k items. *)
Alike(k) ==
  /\ \A j \in 1 .. k : Takes(format[j]) => DirectiveAgrees(format[j], taken[Argument(j)])
  /\ Len(Out(k)) \in Word

(* The options that the first f flags, w digits of the width and p          *)
(* characters of the precision set.                                         *)
OptionsRead(item, f, w, p) ==
  /\ pr.in_fmt
  /\ pr.enable_base_prefix <=> "#" \in ToSet(Cut(item.flags, f))
  /\ pr.right_pad <=> "-" \in ToSet(Cut(item.flags, f))
  /\ pr.zero_pad <=> "0" \in ToSet(Cut(item.flags, f))
  /\ pr.field_width = Number(Cut(item.width, w)) /\ (w > 0 => pr.field_width > 0)
  /\ pr.precision = IF p = 0 THEN 1 ELSE Number(Cut(Tail(item.precision), p - 1))
  /\ (pr.in_precision <=> p > 0)

(* Between two items, inside of a text, and inside of a directive. *)
Between(k) ==
  /\ k \in 0 .. Len(format)
  /\ at = Len(Before(k)) + 1
  /\ pr.in_fmt <=> Escaped(k)
  /\ Fetched(k) /\ (Alike(k) => Stream(Buffered) = Out(k))
InText(k, i) ==
  /\ IsText(k) /\ i \in 0 .. Len(format[k].text)
  /\ at = Len(Before(k - 1)) + i + 1
  /\ pr.in_fmt <=> Escaped(k - 1)
  /\ Fetched(k - 1) /\ (Alike(k - 1) => Stream(Buffered) = Out(k - 1) \o First(format[k].text, i))
InDirective(k, f, w, p) ==
  /\ IsDirective(k) /\ ~ Escaped(k - 1)
  /\ f \in 0 .. Len(format[k].flags) /\ w \in 0 .. Len(format[k].width)
  /\ p \in 0 .. Len(format[k].precision)
  /\ w + p > 0 => f = Len(format[k].flags)
  /\ p > 0 => w = Len(format[k].width)
  /\ at = Len(Before(k - 1)) + f + w + p + 2
  /\ OptionsRead(format[k], f, w, p)
  /\ Fetched(k - 1) /\ (Alike(k - 1) => Stream(Buffered) = Out(k - 1))

Located ==
  \/ \E k \in 0 .. Len(format) : Between(k)
  \/ \E k \in DOMAIN format : \E i \in Nat : InText(k, i)
  \/ \E k \in DOMAIN format : \E f, w, p \in Nat : InDirective(k, f, w, p)

FormatInv ==
  /\ PrintfInv
  /\ Tame => IF done THEN at = Len(Text) + 1 /\ AgreesWithC /\ FetchesWhatIsPassed ELSE Located

-----------------------------------------------------------------------------
(***************************************************************************)
(* Characters and items.                                                   *)
(***************************************************************************)
LEMMA DecimalCharacters ==
  /\ DOMAIN DigitValue = {"0", "1", "2", "3", "4", "5", "6", "7", "8", "9"}
  /\ DigitValue["0"] = 0
  /\ \A c \in DOMAIN DigitValue : DigitValue[c] = 0 => c = "0"
<1>1. /\ Numerals[1] = "0" /\ Numerals[2] = "1" /\ Numerals[3] = "2" /\ Numerals[4] = "3"
      /\ Numerals[5] = "4" /\ Numerals[6] = "5" /\ Numerals[7] = "6" /\ Numerals[8] = "7"
      /\ Numerals[9] = "8" /\ Numerals[10] = "9"
  BY DEF Numerals
<1>2. DOMAIN DigitValue = {Numerals[k] : k \in 1 .. 10}
  BY DEF DigitValue
<1>3. \A k \in 1 .. 10 : k \in {1, 2, 3, 4, 5, 6, 7, 8, 9, 10}
  OBVIOUS
<1>4. DOMAIN DigitValue = {"0", "1", "2", "3", "4", "5", "6", "7", "8", "9"}
  BY ONLY <1>1, <1>2, <1>3
<1>5. ASSUME NEW c \in DOMAIN DigitValue
      PROVE  DigitValue[c] \in 0 .. 9 /\ Numerals[DigitValue[c] + 1] = c
  <2>1. DigitValue[c] = CHOOSE k \in 0 .. 9 : Numerals[k + 1] = c
    BY DEF DigitValue
  <2>2. \E k \in 0 .. 9 : Numerals[k + 1] = c
    <3>1. PICK m \in 1 .. 10 : Numerals[m] = c
      BY <1>2
    <3>2. m - 1 \in 0 .. 9 /\ (m - 1) + 1 = m
      OBVIOUS
    <3> QED  BY <3>1, <3>2
  <2> HIDE DEF DigitValue
  <2> QED  BY ONLY <2>1, <2>2
<1>6. DigitValue["0"] = 0
  <2> DEFINE v == DigitValue["0"]
  <2>1. v \in 0 .. 9 /\ Numerals[v + 1] = "0"
    BY <1>4, <1>5
  <2> HIDE DEF v
  <2>2. v = 0
    BY ONLY <1>1, <2>1
  <2> QED  BY <2>2 DEF v
<1>7. ASSUME NEW c \in DOMAIN DigitValue, DigitValue[c] = 0 PROVE c = "0"
  BY ONLY <1>1, <1>5, <1>7
<1> QED  BY ONLY <1>4, <1>6, <1>7

(* What is defined of a directive.                                          *)
IsConversion(item) ==
  /\ item.kind = "directive" /\ item.conv \in {"d", "x", "s", "p", "%"}
  /\ item.flags \in Seq({"#", "-", "0"}) /\ item.width \in Seq(Decimals)
  /\ item.precision \in Seq(Decimals \cup {"."})

LEMMA Items ==
  ASSUME NEW item \in Item
  PROVE  \/ item.kind = "text" /\ item.text \in Seq(STRING)
         \/ item.kind = "directive" /\ IsConversion(item)
BY DEF Item, IsConversion, Decimals

LEMMA DefinedDirective ==
  ASSUME NEW item, IsConversion(item), Defined(item)
  PROVE  /\ item.conv # "%" => Convertible(item) /\ Takes(item)
         /\ item.conv = "%" => item.flags = <<>> /\ item.width = <<>> /\ item.precision = <<>>
         /\ item.precision # <<>> =>
              item.precision[1] = "." /\ Tail(item.precision) \in Seq(Decimals)
              /\ Number(Tail(item.precision)) \in Word
         /\ Number(item.width) \in Word /\ (item.width # <<>> => item.width[1] # "0")
<1>1. item.kind = "directive" /\ ~ (item.kind = "text")
  BY DEF IsConversion
<1>2. /\ item.width # <<>> => item.width[1] # "0"
      /\ HasPrecision(item) => item.precision[1] = "." /\ "." \notin ToSet(Tail(item.precision))
      /\ Number(item.width) \in Word /\ (HasPrecision(item) => PrecisionOf(item) \in Word)
      /\ Flag(item, "#") => item.conv = "x"
      /\ Flag(item, "0") => item.conv \in {"d", "x"}
      /\ HasPrecision(item) => item.conv \in {"d", "x", "s"}
      /\ item.conv = "%" => item.flags = <<>> /\ item.width = <<>>
  BY <1>1 DEF Defined
<1>3. ASSUME item.precision # <<>> PROVE Tail(item.precision) \in Seq(Decimals)
  <2> DEFINE s == item.precision
             t == Tail(s)
  <2>1. s \in Seq(Decimals \cup {"."}) /\ s # <<>>
    BY <1>3 DEF IsConversion
  <2>2. t \in Seq(Decimals \cup {"."})
    BY <2>1
  <2>3. "." \notin ToSet(t)
    BY <1>2, <1>3 DEF HasPrecision
  <2> HIDE DEF t
  <2>4. \A j \in 1 .. Len(t) : t[j] \in Decimals
    <3> SUFFICES ASSUME NEW j \in 1 .. Len(t) PROVE t[j] \in Decimals
      OBVIOUS
    <3>1. DOMAIN t = 1 .. Len(t) /\ t[j] \in Decimals \cup {"."}
      BY <2>2
    <3>2. t[j] \in ToSet(t)
      BY <3>1 DEF ToSet
    <3> QED  BY <2>3, <3>1, <3>2
  <2>5. t \in Seq(Decimals)
    BY <2>2, <2>4
  <2> QED  BY <2>5 DEF t
<1>4. item.conv # "%" => Convertible(item) /\ Takes(item)
  BY <1>1, <1>2 DEF IsConversion, Convertible, Takes
<1> QED  BY <1>1, <1>2, <1>3, <1>4 DEF HasPrecision, PrecisionOf

(* The characters of a directive.                                           *)
Spelled(u, item) ==
  /\ Len(item.flags) \in Nat /\ Len(item.width) \in Nat /\ Len(item.precision) \in Nat
  /\ Len(u) = Len(item.flags) + Len(item.width) + Len(item.precision) + 2
  /\ u[1] = "%"
  /\ \A f \in 1 .. Len(item.flags) : u[1 + f] = item.flags[f]
  /\ \A w \in 1 .. Len(item.width) : u[1 + Len(item.flags) + w] = item.width[w]
  /\ \A p \in 1 .. Len(item.precision) :
       u[1 + Len(item.flags) + Len(item.width) + p] = item.precision[p]
  /\ u[Len(u)] = item.conv

LEMMA DirectiveSpelled ==
  ASSUME NEW item, IsConversion(item)
  PROVE  IsSeq(SpellItem(item)) /\ Spelled(SpellItem(item), item)
<1> DEFINE q == <<"%">>
           r == <<item.conv>>
           s == q \o item.flags
           t == s \o item.width
           x == t \o item.precision
           u == x \o r
<1>1. SpellItem(item) = u
  BY DEF IsConversion, SpellItem
<1>2. IsSeq(q) /\ IsSeq(r) /\ IsSeq(item.flags) /\ IsSeq(item.width) /\ IsSeq(item.precision)
  <2>1. IsSeq(item.flags) /\ IsSeq(item.width) /\ IsSeq(item.precision)
    <3>1. /\ item.flags \in Seq({"#", "-", "0"}) /\ item.width \in Seq(Decimals)
          /\ item.precision \in Seq(Decimals \cup {"."})
      BY DEF IsConversion
    <3>2. \A S : \A z \in Seq(S) : IsSeq(z)
      BY DEF IsSeq
    <3> QED  BY ONLY <3>1, <3>2
  <2> QED  BY <2>1, Singleton
<1>3. /\ Len(q) = 1 /\ Len(r) = 1 /\ q[1] = "%" /\ r[1] = item.conv
      /\ Len(item.flags) \in Nat /\ Len(item.width) \in Nat /\ Len(item.precision) \in Nat
  BY <1>2, Lengths
<1> HIDE DEF q, r
<1>4. IsSeq(s) /\ InParts(s, q, item.flags)
  BY <1>2, Concatenated, Parts
<1> HIDE DEF s
<1>5. IsSeq(t) /\ InParts(t, s, item.width)
  BY <1>2, <1>4, Concatenated, Parts
<1> HIDE DEF t
<1>6. IsSeq(x) /\ InParts(x, t, item.precision)
  BY <1>2, <1>5, Concatenated, Parts
<1> HIDE DEF x
<1>7. IsSeq(u) /\ InParts(u, x, r)
  BY <1>2, <1>6, Concatenated, Parts
<1> HIDE DEF u
<1> DEFINE a == Len(item.flags)
           b == Len(item.width)
           c == Len(item.precision)
<1>8. /\ a \in Nat /\ b \in Nat /\ c \in Nat
      /\ Len(s) = 1 + a /\ Len(t) = 1 + a + b /\ Len(x) = 1 + a + b + c /\ Len(u) = a + b + c + 2
  <2>1. Len(s) = Len(q) + a /\ Len(t) = Len(s) + b /\ Len(x) = Len(t) + c /\ Len(u) = Len(x) + Len(r)
    BY ONLY <1>4, <1>5, <1>6, <1>7 DEF InParts
  <2> DEFINE l == Len(s)
             m == Len(t)
             n == Len(x)
             o == Len(u)
  <2>2. /\ a \in Nat /\ b \in Nat /\ c \in Nat
        /\ l = 1 + a /\ m = l + b /\ n = m + c /\ o = n + 1
    BY ONLY <1>3, <2>1
  <2> HIDE DEF a, b, c, l, m, n, o
  <2>3. l = 1 + a /\ m = 1 + a + b /\ n = 1 + a + b + c /\ o = a + b + c + 2
    BY ONLY <2>2
  <2> QED  BY ONLY <2>2, <2>3 DEF l, m, n, o
<1>9. /\ \A j \in 1 .. 1 + a + b + c : u[j] = x[j]
      /\ \A j \in 1 .. 1 + a + b : x[j] = t[j]
      /\ \A j \in 1 .. 1 + a : t[j] = s[j]
      /\ \A j \in 1 .. 1 : s[j] = q[j]
      /\ \A j \in 1 .. a : s[1 + j] = item.flags[j]
      /\ \A j \in 1 .. b : t[1 + a + j] = item.width[j]
      /\ \A j \in 1 .. c : x[1 + a + b + j] = item.precision[j]
      /\ u[1 + a + b + c + 1] = r[1]
  <2>1. /\ \A j \in 1 .. Len(x) : u[j] = x[j]
        /\ \A j \in 1 .. Len(t) : x[j] = t[j]
        /\ \A j \in 1 .. Len(s) : t[j] = s[j]
        /\ \A j \in 1 .. Len(q) : s[j] = q[j]
    BY ONLY <1>4, <1>5, <1>6, <1>7 DEF InParts
  <2>2. /\ \A j \in 1 .. a : s[Len(q) + j] = item.flags[j]
        /\ \A j \in 1 .. b : t[Len(s) + j] = item.width[j]
        /\ \A j \in 1 .. c : x[Len(t) + j] = item.precision[j]
        /\ \A j \in 1 .. Len(r) : u[Len(x) + j] = r[j]
    BY ONLY <1>4, <1>5, <1>6, <1>7 DEF InParts
  <2> HIDE DEF a, b, c
  <2>3. u[1 + a + b + c + 1] = r[1]
    <3>1. u[Len(x) + 1] = r[1]
      BY ONLY <1>3, <2>2
    <3>2. Len(x) + 1 = 1 + a + b + c + 1
      BY ONLY <1>8
    <3> QED  BY ONLY <3>1, <3>2
  <2> QED  BY ONLY <1>3, <1>8, <2>1, <2>2, <2>3
<1> HIDE DEF a, b, c
<1>10. /\ u[1] = "%" /\ u[a + b + c + 2] = item.conv
       /\ \A j \in 1 .. a : u[1 + j] = item.flags[j]
       /\ \A j \in 1 .. b : u[1 + a + j] = item.width[j]
       /\ \A j \in 1 .. c : u[1 + a + b + j] = item.precision[j]
  <2>1. \A j \in 1 .. 1 + a : u[j] = s[j]
    BY ONLY <1>8, <1>9
  <2>2. \A j \in 1 .. 1 + a + b : u[j] = t[j]
    BY ONLY <1>8, <1>9
  <2>3. u[1] = "%"
    BY ONLY <1>3, <1>8, <1>9, <2>1
  <2>4. u[a + b + c + 2] = item.conv
    <3>1. 1 + a + b + c + 1 = a + b + c + 2
      BY ONLY <1>8
    <3> QED  BY ONLY <1>3, <1>9, <3>1
  <2>5. ASSUME NEW j \in 1 .. a PROVE u[1 + j] = item.flags[j]
    <3>1. 1 + j \in 1 .. 1 + a
      BY ONLY <1>8, <2>5
    <3> QED  BY ONLY <1>9, <2>1, <2>5, <3>1
  <2>6. ASSUME NEW j \in 1 .. b PROVE u[1 + a + j] = item.width[j]
    <3>1. 1 + a + j \in 1 .. 1 + a + b
      BY ONLY <1>8, <2>6
    <3> QED  BY ONLY <1>9, <2>2, <2>6, <3>1
  <2>7. ASSUME NEW j \in 1 .. c PROVE u[1 + a + b + j] = item.precision[j]
    <3>1. 1 + a + b + j \in 1 .. 1 + a + b + c
      BY ONLY <1>8, <2>7
    <3> QED  BY ONLY <1>9, <2>7, <3>1
  <2> QED  BY ONLY <2>3, <2>4, <2>5, <2>6, <2>7
<1>11. Spelled(u, item)
  BY ONLY <1>8, <1>10 DEF Spelled, a, b, c
<1> QED  BY <1>1, <1>7, <1>11 DEF u

LEMMA SpellingSeq == ASSUME NEW item \in Item PROVE IsSeq(SpellItem(item))
<1>1. CASE item.kind = "text" /\ item.text \in Seq(STRING)
  BY <1>1 DEF SpellItem, IsSeq
<1>2. CASE IsConversion(item)
  BY <1>2, DirectiveSpelled
<1> QED  BY <1>1, <1>2, Items

LEMMA SpellingsSeqs ==
  ASSUME NEW items \in Seq(Item), NEW s, s = [k \in DOMAIN items |-> SpellItem(items[k])]
  PROVE  /\ AreSeqs(s) /\ Len(s) = Len(items) /\ Len(items) \in Nat
         /\ DOMAIN items = 1 .. Len(items)
         /\ \A k \in DOMAIN items : s[k] = SpellItem(items[k]) /\ items[k] \in Item
<1>1. DOMAIN items = 1 .. Len(items) /\ Len(items) \in Nat
  OBVIOUS
<1>2. \A k \in DOMAIN items : s[k] = SpellItem(items[k]) /\ items[k] \in Item /\ IsSeq(s[k])
  BY SpellingSeq
<1>3. s \in Seq({s[k] : k \in DOMAIN items}) /\ Len(s) = Len(items)
  BY <1>1
<1> QED  BY <1>1, <1>2, <1>3 DEF AreSeqs, IsSeq

LEMMA FormatType ==
  ASSUME TypeOK
  PROVE  /\ format \in Seq(Item) /\ AreSeqs(Spellings) /\ Len(Spellings) = Len(format)
         /\ Len(format) \in Nat /\ DOMAIN format = 1 .. Len(format)
         /\ \A k \in DOMAIN format : Spellings[k] = SpellItem(format[k]) /\ format[k] \in Item
<1>1. format \in Seq(Item)
  BY FormatsAssumption DEF TypeOK
<1> QED  BY <1>1, SpellingsSeqs DEF Spellings

(* The characters of item k begin behind those of the items before it.      *)
InsideText(k) ==
  /\ Len(Before(k)) = Len(Before(k - 1)) + Len(SpellItem(format[k]))
  /\ Len(Before(k - 1)) \in Nat /\ Len(SpellItem(format[k])) \in Nat
  /\ Len(Before(k)) <= Len(Text)
  /\ \A j \in 1 .. Len(SpellItem(format[k])) :
       Text[Len(Before(k - 1)) + j] = SpellItem(format[k])[j]

LEMMA Places ==
  ASSUME TypeOK
  PROVE  /\ Before(0) = <<>> /\ Before(Len(format)) = Text /\ IsSeq(Text)
         /\ \A k \in DOMAIN format : InsideText(k)
<1>1. Text = FlattenSeq(Spellings)
  BY DEF Text, Spell, Spellings
<1>2. /\ FlattenSeq(Cut(Spellings, 0)) = <<>>
      /\ FlattenSeq(Cut(Spellings, Len(Spellings))) = FlattenSeq(Spellings)
      /\ \A k \in 0 .. Len(Spellings) :
           /\ IsSeq(FlattenSeq(Cut(Spellings, k)))
           /\ Len(FlattenSeq(Cut(Spellings, k))) <= Len(FlattenSeq(Spellings))
      /\ \A k \in 1 .. Len(Spellings) :
           FlattenSeq(Cut(Spellings, k)) = FlattenSeq(Cut(Spellings, k - 1)) \o Spellings[k]
      /\ \A k \in 1 .. Len(Spellings) : \A j \in 1 .. Len(Spellings[k]) :
           FlattenSeq(Spellings)[Len(FlattenSeq(Cut(Spellings, k - 1))) + j] = Spellings[k][j]
  <2>1. AreSeqs(Spellings)
    BY FormatType
  <2> QED  BY ONLY <2>1, FlattenParts
<1>3. Before(0) = <<>> /\ Before(Len(format)) = Text /\ IsSeq(Text)
  <2>1. Len(Spellings) = Len(format) /\ Len(Spellings) \in 0 .. Len(Spellings)
    BY FormatType
  <2> QED  BY ONLY <1>1, <1>2, <2>1 DEF Before
<1>4. ASSUME NEW k \in DOMAIN format PROVE InsideText(k)
  <2>1. /\ k \in 1 .. Len(Spellings) /\ k \in 0 .. Len(Spellings) /\ k - 1 \in 0 .. Len(Spellings)
        /\ Spellings[k] = SpellItem(format[k])
    BY FormatType
  <2>2. IsSeq(Spellings[k])
    BY <2>1, SpellingSeq, FormatType
  <2>3. Before(k) = Before(k - 1) \o Spellings[k] /\ IsSeq(Before(k - 1))
    BY ONLY <1>2, <2>1 DEF Before
  <2>4. Len(Before(k)) = Len(Before(k - 1)) + Len(Spellings[k])
    BY ONLY <2>2, <2>3, Concatenated
  <2>5. Len(Before(k - 1)) \in Nat /\ Len(Spellings[k]) \in Nat
    BY ONLY <2>2, <2>3, Lengths
  <2>6. Len(Before(k)) <= Len(Text)
    BY ONLY <1>1, <1>2, <2>1 DEF Before
  <2>7. \A j \in 1 .. Len(Spellings[k]) : Text[Len(Before(k - 1)) + j] = Spellings[k][j]
    BY ONLY <1>1, <1>2, <2>1 DEF Before
  <2> QED  BY ONLY <2>1, <2>4, <2>5, <2>6, <2>7 DEF InsideText
<1> QED  BY <1>3, <1>4

LEMMA FlattenElement ==
  ASSUME NEW s, AreSeqs(s), NEW k \in 1 .. Len(s), NEW j \in 1 .. Len(s[k])
  PROVE  s[k][j] \in ToSet(FlattenSeq(s))
<1> DEFINE a == FlattenSeq(Cut(s, k - 1))
           b == FlattenSeq(Cut(s, k))
           u == FlattenSeq(s)
<1>1. Len(s) \in Nat /\ k \in 0 .. Len(s) /\ k - 1 \in 0 .. Len(s) /\ Len(s) \in 0 .. Len(s)
  BY Lengths DEF AreSeqs
<1>2. /\ IsSeq(a) /\ IsSeq(b) /\ Len(b) <= Len(u) /\ b = a \o s[k] /\ u[Len(a) + j] = s[k][j]
      /\ u = FlattenSeq(Cut(s, Len(s)))
  BY <1>1, FlattenParts
<1>3. IsSeq(u)
  BY <1>1, FlattenParts
<1>4. IsSeq(s[k])
  BY DEF AreSeqs
<1> HIDE DEF a, b, u
<1>5. InParts(b, a, s[k])
  BY ONLY <1>2, <1>4, Parts
<1>6. Len(a) + j \in 1 .. Len(b) /\ Len(b) \in Nat /\ Len(u) \in Nat
  BY ONLY <1>3, <1>5, PartsPlace, Lengths
<1>7. Len(a) + j \in 1 .. Len(u)
  BY ONLY <1>2, <1>6
<1>8. DOMAIN u = 1 .. Len(u)
  BY <1>3 DEF IsSeq
<1>9. s[k][j] \in ToSet(u)
  BY ONLY <1>2, <1>7, <1>8 DEF ToSet
<1> QED  BY <1>9 DEF u

(* Nothing behind a "%%" means anything to the formatter.                   *)
LEMMA EscapedText ==
  ASSUME TypeOK, Tame, NEW k \in DOMAIN format, Escaped(k - 1),
         NEW j \in 1 .. Len(SpellItem(format[k]))
  PROVE  SpellItem(format[k])[j] \notin Special \cup {"%"}
<1>1. PICK m \in 1 .. k - 1 : IsPercent(m)
  BY DEF Escaped
<1> DEFINE n == Len(format)
           rest == SubSeq(format, m + 1, n)
           s == [i \in DOMAIN rest |-> SpellItem(rest[i])]
<1>2. format \in Seq(Item) /\ n \in Nat /\ k \in 1 .. n /\ m \in 1 .. n /\ m < k
  BY FormatType
<1>3. ToSet(Spell(rest)) \cap (Special \cup {"%"}) = {}
  BY <1>1 DEF Tame, Agrees, IsPercent, IsDirective
<1>4. rest \in Seq(Item) /\ Len(rest) = n - m /\ rest[k - m] = format[k] /\ k - m \in 1 .. n - m
  BY <1>2
<1>5. Spell(rest) = FlattenSeq(s)
  BY DEF Spell
<1> HIDE DEF rest, s
<1>6. AreSeqs(s) /\ Len(s) = n - m /\ s[k - m] = SpellItem(format[k])
  BY <1>4, SpellingsSeqs DEF s
<1>7. SpellItem(format[k])[j] \in ToSet(FlattenSeq(s))
  BY <1>4, <1>6, FlattenElement
<1> QED  BY <1>3, <1>5, <1>7

-----------------------------------------------------------------------------
(***************************************************************************)
(* The arguments.                                                          *)
(***************************************************************************)
LEMMA Arguments ==
  ASSUME NEW k \in Nat
  PROVE  /\ Argument(0) = 0 /\ Argument(k) \in Nat
         /\ Argument(k + 1) = Argument(k) + (IF Takes(format[k + 1]) THEN 1 ELSE 0)
         /\ \A j \in 0 .. k : Argument(j) \in 0 .. Argument(k)
         /\ \A j \in 1 .. k : Takes(format[j]) => Argument(j) > 0
<1> DEFINE T(m) == {j \in 1 .. m : Takes(format[j])}
<1>1. \A m \in Nat : IsFiniteSet(T(m)) /\ Cardinality(T(m)) \in Nat
  <2> TAKE m \in Nat
  <2>1. T(m) \subseteq 1 .. m /\ IsFiniteSet(1 .. m)
    BY FS_Interval
  <2> QED  BY <2>1, FS_Subset, FS_CardinalityType
<1>2. \A m \in Nat : Argument(m) = Cardinality(T(m))
  BY DEF Argument
<1>3. Argument(0) = 0
  <2>1. T(0) = {}
    OBVIOUS
  <2> QED  BY <2>1, <1>2, FS_EmptySet
<1>4. T(k + 1) = IF Takes(format[k + 1]) THEN T(k) \cup {k + 1} ELSE T(k)
  <2>1. 1 .. k + 1 = (1 .. k) \cup {k + 1}
    OBVIOUS
  <2> QED  BY <2>1
<1>5. k + 1 \notin T(k)
  OBVIOUS
<1>6. Argument(k + 1) = Argument(k) + (IF Takes(format[k + 1]) THEN 1 ELSE 0)
  <2> HIDE DEF T
  <2>1. k + 1 \in Nat
    OBVIOUS
  <2>2. CASE Takes(format[k + 1])
    BY <1>1, <1>2, <1>4, <1>5, <2>1, <2>2, FS_AddElement
  <2>3. CASE ~ Takes(format[k + 1])
    BY <1>1, <1>2, <1>4, <2>1, <2>3
  <2> QED  BY <2>2, <2>3
<1>7. ASSUME NEW j \in 0 .. k PROVE Argument(j) \in 0 .. Argument(k)
  <2>1. j \in Nat /\ T(j) \subseteq T(k)
    OBVIOUS
  <2> HIDE DEF T
  <2>2. Cardinality(T(j)) <= Cardinality(T(k))
    BY <1>1, <2>1, FS_Subset
  <2> QED  BY <1>1, <1>2, <2>1, <2>2
<1>8. ASSUME NEW j \in 1 .. k, Takes(format[j]) PROVE Argument(j) > 0
  <2>1. j \in Nat /\ j \in T(j)
    BY <1>8
  <2> HIDE DEF T
  <2>2. T(j) # {}
    BY <2>1
  <2>3. Cardinality(T(j)) # 0
    BY <1>1, <2>1, <2>2, FS_EmptySet
  <2> QED  BY <1>1, <1>2, <2>1, <2>3
<1> QED  BY <1>1, <1>2, <1>3, <1>6, <1>7, <1>8

-----------------------------------------------------------------------------
(***************************************************************************)
(* What C says that the items print.                                       *)
(***************************************************************************)
(* An argument of a directive's type. *)
Suits(item, w) == w \in IF item.conv = "s" THEN DOMAIN StringAt ELSE Words

LEMMA SuitsWord == ASSUME NEW item, NEW w, Suits(item, w) PROVE w \in Word /\ w \in Nat
BY RangeAssumption DEF Suits, Word

LEMMA IntegerSeq ==
  ASSUME NEW item, IsConversion(item), Defined(item), item.conv # "%",
         NEW n \in Nat, NEW base \in {10, 16}
  PROVE  IsSeq(Integer(item, n, base))
<1> DEFINE ds == Digits(n, base)
           m == IF HasPrecision(item) THEN PrecisionOf(item) ELSE 1
           z == IF Len(ds) < m THEN m - Len(ds) ELSE 0
<1>1. m \in Nat
  BY DefinedDirective, RangeAssumption DEF HasPrecision, PrecisionOf, Word
<1>2. IsSeq(ds) /\ Len(ds) \in Nat
  BY DigitsSeq, Lengths
<1>3. Integer(item, n, base) = Repeat("0", z) \o ds
  BY DEF Integer, AtLeast
<1> HIDE DEF ds, m
<1>4. z \in Nat
  BY <1>1, <1>2
<1> HIDE DEF z
<1> QED  BY <1>2, <1>3, <1>4, Repeated, Concatenated

LEMMA PartsSeq ==
  ASSUME NEW item, IsConversion(item), Defined(item), item.conv # "%", NEW w, Suits(item, w)
  PROVE  IsSeq(Prefix(item, w)) /\ IsSeq(Content(item, w))
<1>1. w \in Word /\ w \in Nat
  BY SuitsWord
<1>2. IsSeq(Prefix(item, w))
  <2>1. <<"0", "x">> \in Seq({"0", "x"})
    OBVIOUS
  <2>2. IsSeq(<<"0", "x">>) /\ IsSeq(<<"-">>) /\ IsSeq(<<>>)
    BY ONLY <2>1, Singleton, Empty DEF IsSeq
  <2> QED  BY <2>2 DEF Prefix
<1>3. CASE item.conv = "d"
  <2> DEFINE n == IF Signed(w) < 0 THEN -Signed(w) ELSE w
  <2>1. n \in Nat
    <3>1. Signed(w) \in Int
      BY <1>1, RangeAssumption DEF Signed
    <3> QED  BY <1>1, <3>1
  <2>2. Content(item, w) = Integer(item, n, 10)
    BY <1>3 DEF Content
  <2> HIDE DEF n
  <2> QED  BY <1>2, <2>1, <2>2, IntegerSeq
<1>4. CASE item.conv = "x"
  <2>1. Content(item, w) = Integer(item, w, 16)
    BY <1>4 DEF Content
  <2> QED  BY <1>1, <1>2, <2>1, IntegerSeq
<1>5. CASE item.conv = "p"
  <2>1. Content(item, w) = IF w = 0 THEN NullName ELSE Digits(w, 16)
    BY <1>5 DEF Content
  <2>2. NullName \in Seq({"(", "n", "u", "l", ")"})
    BY DEF NullName
  <2>3. IsSeq(NullName)
    BY ONLY <2>2 DEF IsSeq
  <2> QED  BY <1>1, <1>2, <2>1, <2>3, DigitsSeq
<1>6. CASE item.conv = "s"
  <2> DEFINE s == StringAt[w]
             p == PrecisionOf(item)
  <2>1. s \in Seq(STRING)
    BY <1>6, StringsAssumption DEF Suits
  <2>2. Content(item, w) = IF HasPrecision(item) /\ p < Len(s) THEN SubSeq(s, 1, p) ELSE s
    BY <1>6 DEF Content
  <2>3. HasPrecision(item) => p \in Nat
    BY DefinedDirective, RangeAssumption DEF HasPrecision, PrecisionOf, Word
  <2> HIDE DEF s, p
  <2>4. HasPrecision(item) /\ p < Len(s) => SubSeq(s, 1, p) \in Seq(STRING)
    BY <2>1, <2>3
  <2>5. Content(item, w) \in Seq(STRING)
    BY <2>1, <2>2, <2>4
  <2> QED  BY <1>2, <2>5 DEF IsSeq
<1> QED  BY <1>3, <1>4, <1>5, <1>6 DEF IsConversion

LEMMA FieldsSeq ==
  ASSUME NEW item, IsConversion(item), Defined(item), item.conv # "%", NEW w, Suits(item, w)
  PROVE  IsSeq(Field(item, w)) /\ Len(Body(item, w)) \in Nat
         /\ Len(Body(item, w)) <= Len(Field(item, w))
<1> DEFINE p == Prefix(item, w)
           c == Content(item, w)
           b == Body(item, w)
           n == Padding(item, w)
           blanks == Repeat(" ", n)
           zeros == Repeat("0", n)
<1>1. IsSeq(p) /\ IsSeq(c)
  BY PartsSeq
<1>2. b = p \o c
  BY DEF Body
<1>3. n \in Nat
  <2>1. Number(item.width) \in Nat
    BY DefinedDirective, RangeAssumption DEF Word
  <2>2. IsSeq(b) /\ Len(b) \in Nat
    BY <1>1, <1>2, Concatenated, Lengths
  <2> QED  BY <2>1, <2>2 DEF Padding
<1>4. Field(item, w) \in {b \o blanks, (p \o zeros) \o c, blanks \o b}
  BY DEF Field
<1> HIDE DEF p, c, b, n
<1>5. IsSeq(blanks) /\ IsSeq(zeros) /\ Len(blanks) \in Nat /\ Len(zeros) \in Nat
  BY <1>3, Repeated
<1> HIDE DEF blanks, zeros
<1>6. /\ IsSeq(b) /\ Len(b) = Len(p) + Len(c) /\ Len(p) \in Nat /\ Len(c) \in Nat
  BY ONLY <1>1, <1>2, Concatenated, Lengths
<1>7. IsSeq(p \o zeros) /\ Len(p \o zeros) = Len(p) + Len(zeros)
  BY ONLY <1>1, <1>5, Concatenated
<1>8. IsSeq((p \o zeros) \o c) /\ Len((p \o zeros) \o c) = Len(p) + Len(zeros) + Len(c)
  BY ONLY <1>1, <1>7, Concatenated
<1>9. /\ IsSeq(b \o blanks) /\ Len(b \o blanks) = Len(b) + Len(blanks)
      /\ IsSeq(blanks \o b) /\ Len(blanks \o b) = Len(blanks) + Len(b)
  BY ONLY <1>5, <1>6, Concatenated
<1> DEFINE lp == Len(p)
           lc == Len(c)
           lz == Len(zeros)
           lb == Len(blanks)
<1>10. lp \in Nat /\ lc \in Nat /\ lz \in Nat /\ lb \in Nat
  BY <1>5, <1>6
<1>11. Len(b) = lp + lc /\ Len(Field(item, w)) \in {lp + lc + lb, lp + lz + lc, lb + (lp + lc)}
  BY ONLY <1>4, <1>6, <1>8, <1>9 DEF lp, lc, lz, lb
<1>12. IsSeq(Field(item, w))
  BY ONLY <1>4, <1>8, <1>9
<1> HIDE DEF lp, lc, lz, lb
<1>13. Len(b) \in Nat /\ Len(b) <= Len(Field(item, w))
  BY ONLY <1>10, <1>11
<1> QED  BY <1>12, <1>13 DEF b

Prints(k) == [j \in 1 .. k |-> Printed(j)]

LEMMA PrintedSeq ==
  ASSUME TypeOK, Tame, NEW m \in 0 .. Len(format), Fetched(m), NEW k \in 1 .. m
  PROVE  IsSeq(Printed(k))
<1>1. k \in DOMAIN format /\ format[k] \in Item /\ Defined(format[k])
  BY FormatType DEF Tame
<1>2. CASE format[k].kind = "text" /\ format[k].text \in Seq(STRING)
  BY <1>2 DEF Printed, IsSeq
<1>3. CASE format[k].kind = "directive" /\ IsConversion(format[k])
  <2>1. CASE format[k].conv = "%"
    <3>1. Printed(k) = <<"%">>
      BY <1>3, <2>1 DEF Printed
    <3> QED  BY <3>1, Singleton
  <2>2. CASE format[k].conv # "%"
    <3>1. Takes(format[k])
      BY <1>3, <2>2 DEF Takes
    <3>2. Suits(format[k], taken[Argument(k)])
      BY <3>1 DEF Fetched, Suits
    <3>3. Printed(k) = Field(format[k], taken[Argument(k)])
      BY <1>3, <2>2 DEF Printed
    <3> QED  BY <1>1, <1>3, <2>2, <3>2, <3>3, FieldsSeq
  <2> QED  BY <2>1, <2>2
<1> QED  BY <1>1, <1>2, <1>3, Items

(* One more sequence behind the others.                                     *)
LEMMA FlattenOneMore ==
  ASSUME NEW k \in Nat \ {0}, NEW s, s = [j \in 1 .. k |-> s[j]],
         \A j \in 1 .. k : IsSeq(s[j])
  PROVE  /\ IsSeq(FlattenSeq(s)) /\ IsSeq(FlattenSeq(Cut(s, k - 1)))
         /\ FlattenSeq(s) = FlattenSeq(Cut(s, k - 1)) \o s[k]
         /\ Len(FlattenSeq(s)) = Len(FlattenSeq(Cut(s, k - 1))) + Len(s[k])
         /\ Len(FlattenSeq(Cut(s, k - 1))) \in Nat /\ Len(s[k]) \in Nat
<1>1. Len(s) = k /\ s \in Seq({s[j] : j \in 1 .. k})
  OBVIOUS
<1>2. AreSeqs(s)
  BY <1>1 DEF AreSeqs, IsSeq
<1>3. k \in 1 .. Len(s) /\ k \in 0 .. Len(s) /\ k - 1 \in 0 .. Len(s)
  BY <1>1
<1>4. /\ FlattenSeq(Cut(s, k)) = FlattenSeq(Cut(s, k - 1)) \o s[k]
      /\ IsSeq(FlattenSeq(Cut(s, k))) /\ IsSeq(FlattenSeq(Cut(s, k - 1)))
      /\ FlattenSeq(Cut(s, k)) = FlattenSeq(s)
  BY ONLY <1>1, <1>2, <1>3, FlattenParts
<1>5. IsSeq(s[k])
  BY ONLY <1>1, <1>2, <1>3 DEF AreSeqs
<1> QED  BY ONLY <1>4, <1>5, Concatenated, Lengths

LEMMA OutParts ==
  ASSUME TypeOK, Tame, NEW k \in DOMAIN format, Fetched(k)
  PROVE  /\ Out(k) = Out(k - 1) \o Printed(k) /\ IsSeq(Out(k - 1)) /\ IsSeq(Out(k))
         /\ Len(Out(k)) = Len(Out(k - 1)) + Len(Printed(k))
         /\ Len(Out(k - 1)) \in Nat /\ Len(Printed(k)) \in Nat
<1> DEFINE s == Prints(k)
<1>1. k \in 0 .. Len(format) /\ k \in Nat \ {0}
  BY FormatType
<1>2. \A j \in 1 .. k : s[j] = Printed(j) /\ IsSeq(s[j])
  BY <1>1, PrintedSeq DEF Prints
<1>3. s = [j \in 1 .. k |-> s[j]]
  BY DEF Prints
<1>4. Cut(s, k - 1) = Prints(k - 1) /\ s[k] = Printed(k)
  <2>1. \A j \in 1 .. k - 1 : s[j] = Printed(j)
    BY <1>1, <1>2
  <2> HIDE DEF s
  <2> QED  BY <1>1, <1>2, <2>1 DEF Cut, Prints
<1>5. Out(k) = FlattenSeq(s) /\ Out(k - 1) = FlattenSeq(Cut(s, k - 1))
  BY <1>4 DEF Out, Prints
<1> HIDE DEF s
<1> QED  BY ONLY <1>1, <1>2, <1>3, <1>4, <1>5, FlattenOneMore

LEMMA OutNothing == Out(0) = <<>>
<1> DEFINE s == [j \in 1 .. 0 |-> Printed(j)]
<1>1. s = <<>> /\ Len(s) = 0
  OBVIOUS
<1>2. IsSeq(s) /\ AreSeqs(s)
  BY <1>1, Empty DEF AreSeqs
<1>3. Cut(s, 0) = s
  BY <1>1 DEF Cut
<1> HIDE DEF s
<1>4. FlattenSeq(s) = <<>>
  BY ONLY <1>2, <1>3, FlattenParts
<1> QED  BY <1>4 DEF Out, s

-----------------------------------------------------------------------------
(***************************************************************************)
(* From item to item.                                                      *)
(***************************************************************************)
LEMMA EscapedNext ==
  ASSUME NEW k \in Nat \ {0}
  PROVE  Escaped(k) <=> (Escaped(k - 1) \/ IsPercent(k))
<1>1. 1 .. k = (1 .. k - 1) \cup {k}
  OBVIOUS
<1> QED  BY <1>1 DEF Escaped

LEMMA OutSeq ==
  ASSUME TypeOK, Tame, NEW k \in 0 .. Len(format), Fetched(k)
  PROVE  IsSeq(Out(k)) /\ Len(Out(k)) \in Nat
<1>1. CASE k = 0
  BY <1>1, OutNothing, Empty
<1>2. CASE k # 0
  <2>1. k \in DOMAIN format
    BY <1>2, FormatType
  <2> QED  BY <2>1, OutParts, Lengths
<1> QED  BY <1>1, <1>2

LEMMA TextBegin ==
  ASSUME TypeOK, Tame, NEW k, IsText(k), Between(k - 1)
  PROVE  InText(k, 0)
<1> DEFINE t == format[k].text
<1>1. k \in DOMAIN format /\ k \in Nat \ {0} /\ IsSeq(t) /\ Len(t) \in Nat
  BY FormatType, Lengths DEF IsText, Item, IsSeq
<1>2. First(t, 0) = <<>>
  BY <1>1, FirstElements
<1>3. Alike(k - 1) => Stream(Buffered) = Out(k - 1) \o First(t, 0)
  <2> HAVE Alike(k - 1)
  <2>1. Stream(Buffered) = Out(k - 1)
    BY DEF Between
  <2>2. IsSeq(Out(k - 1))
    BY OutSeq DEF Between
  <2> QED  BY <1>2, <2>1, <2>2, EmptyFront
<1>4. Len(Before(k - 1)) \in Nat /\ at = Len(Before(k - 1)) + 0 + 1
  BY <1>1, Places DEF InsideText, Between
<1> QED  BY <1>1, <1>3, <1>4 DEF InText, Between

(* An item that takes no argument.                                          *)
LEMMA Untaken ==
  ASSUME TypeOK, Tame, NEW k \in DOMAIN format, ~ Takes(format[k]), Fetched(k - 1)
  PROVE  /\ Fetched(k) /\ (Alike(k) => Alike(k - 1))
         /\ Out(k) = Out(k - 1) \o Printed(k)
<1>1. k \in Nat \ {0}
  BY FormatType
<1>2. Fetched(k)
  <2>1. Argument(k) = Argument(k - 1)
    <3> DEFINE m == k - 1
    <3>1. m \in Nat /\ m + 1 = k
      BY <1>1
    <3> HIDE DEF m
    <3>2. Argument(m) \in Nat /\ Argument(m + 1) = Argument(m) + 0
      BY ONLY ~ Takes(format[k]), <3>1, Arguments
    <3>3. Argument(k) = Argument(m)
      BY ONLY <3>1, <3>2
    <3> QED  BY <3>3 DEF m
  <2>2. \A j \in 1 .. k : j = k \/ j \in 1 .. k - 1
    BY <1>1
  <2> QED  BY <2>1, <2>2 DEF Fetched
<1> DEFINE a == Len(Out(k - 1))
           n == Len(Printed(k))
<1>3. Out(k) = Out(k - 1) \o Printed(k) /\ Len(Out(k)) = a + n /\ a \in Nat /\ n \in Nat
  BY <1>2, OutParts
<1> HIDE DEF a, n
<1>4. ASSUME Alike(k) PROVE Alike(k - 1)
  <2>1. a + n \in 0 .. SizeRange - 1
    BY <1>3, <1>4 DEF Alike, Word
  <2>2. a \in 0 .. SizeRange - 1
    BY ONLY <1>3, <2>1, RangeAssumption
  <2>3. \A j \in 1 .. k - 1 : j \in 1 .. k
    BY <1>1
  <2> QED  BY <1>4, <2>2, <2>3 DEF Alike, Word, a
<1> QED  BY <1>2, <1>3, <1>4

LEMMA TextEnd ==
  ASSUME TypeOK, Tame, NEW k, InText(k, Len(format[k].text))
  PROVE  Between(k)
<1> DEFINE t == format[k].text
           n == Len(t)
<1>1. /\ IsText(k) /\ k \in DOMAIN format /\ k \in Nat \ {0} /\ k \in 0 .. Len(format)
      /\ IsSeq(t)
  BY FormatType DEF InText, IsText, Item, IsSeq
<1>2. First(t, n) = t /\ SpellItem(format[k]) = t /\ Printed(k) = t /\ ~ Takes(format[k])
  BY <1>1, FirstElements DEF IsText, SpellItem, Printed, Takes
<1>3. at = Len(Before(k)) + 1
  <2>1. at = Len(Before(k - 1)) + n + 1
    BY DEF InText
  <2>2. Len(Before(k)) = Len(Before(k - 1)) + n
    BY <1>1, <1>2, Places DEF InsideText
  <2> QED  BY ONLY <2>1, <2>2
<1>4. pr.in_fmt <=> Escaped(k)
  <2>1. (pr.in_fmt <=> Escaped(k - 1)) /\ ~ IsPercent(k)
    BY DEF InText, IsText, IsPercent, IsDirective
  <2>2. Escaped(k) \in BOOLEAN /\ Escaped(k - 1) \in BOOLEAN
    BY DEF Escaped
  <2>3. Escaped(k) <=> Escaped(k - 1)
    BY <1>1, <2>1, EscapedNext
  <2> QED  BY ONLY <2>1, <2>2, <2>3
<1>5. Fetched(k) /\ (Alike(k) => Alike(k - 1)) /\ Out(k) = Out(k - 1) \o t
  <2>1. Fetched(k - 1)
    BY DEF InText
  <2> QED  BY <1>1, <1>2, <2>1, Untaken
<1>6. Alike(k - 1) => Stream(Buffered) = Out(k - 1) \o t
  BY <1>2 DEF InText
<1>7. Alike(k) => Stream(Buffered) = Out(k)
  BY ONLY <1>5, <1>6
<1> QED  BY <1>1, <1>3, <1>4, <1>5, <1>7 DEF Between

(* The formatter is at the end, or in front of a character of an item.      *)
LEMMA NextCharacter ==
  ASSUME TypeOK, Tame, Located
  PROVE  \/ Between(Len(format))
         \/ \E k \in DOMAIN format : IsDirective(k) /\ Between(k - 1)
         \/ \E k \in DOMAIN format : \E i \in Nat : InText(k, i) /\ i < Len(format[k].text)
         \/ \E k \in DOMAIN format : \E f, w, p \in Nat : InDirective(k, f, w, p)
<1> DEFINE Goal == \/ Between(Len(format))
                   \/ \E k \in DOMAIN format : IsDirective(k) /\ Between(k - 1)
                   \/ \E k \in DOMAIN format : \E i \in Nat : InText(k, i) /\ i < Len(format[k].text)
                   \/ \E k \in DOMAIN format : \E f, w, p \in Nat : InDirective(k, f, w, p)
<1>0. Len(format) \in Nat /\ DOMAIN format = 1 .. Len(format)
  BY FormatType
<1>1. ASSUME NEW k \in 0 .. Len(format), Between(k) PROVE Goal
  <2>1. CASE k = Len(format)
    BY <1>1, <2>1
  <2>2. CASE k # Len(format)
    <3>1. k + 1 \in DOMAIN format /\ (k + 1) - 1 = k
      <4> DEFINE n == Len(format)
      <4>1. n \in Nat /\ k \in 0 .. n /\ k # n
        BY <1>0, <2>2
      <4>2. k + 1 \in 1 .. n /\ (k + 1) - 1 = k
        <5> HIDE DEF n
        <5> QED  BY ONLY <4>1
      <4> QED  BY <1>0, <4>2
    <3>2. IsText(k + 1) \/ IsDirective(k + 1)
      BY <3>1, FormatType, Items DEF IsText, IsDirective
    <3>3. CASE IsDirective(k + 1)
      BY <1>1, <3>1, <3>3
    <3>4. CASE IsText(k + 1)
      <4>1. InText(k + 1, 0)
        BY <1>1, <3>1, <3>4, TextBegin
      <4>2. 0 < Len(format[k + 1].text)
        <5>1. format[k + 1].text # <<>> /\ format[k + 1].text \in Seq(STRING)
          BY <3>1, <3>4, FormatType, Items DEF Tame, Defined, IsText
        <5> QED  BY ONLY <5>1
      <4> QED  BY <3>1, <4>1, <4>2
    <3> QED  BY <3>2, <3>3, <3>4
  <2> QED  BY <2>1, <2>2
<1>2. ASSUME NEW k \in DOMAIN format, NEW i \in Nat, InText(k, i) PROVE Goal
  <2>1. i \in 0 .. Len(format[k].text) /\ Len(format[k].text) \in Nat /\ k \in 0 .. Len(format)
    <3>1. format[k].text \in Seq(STRING)
      BY <1>2, FormatType, Items DEF InText, IsText
    <3>2. i \in 0 .. Len(format[k].text)
      BY <1>2 DEF InText
    <3> QED  BY <1>0, <3>1, <3>2
  <2>2. CASE i = Len(format[k].text)
    BY <1>1, <1>2, <2>1, <2>2, TextEnd
  <2>3. CASE i # Len(format[k].text)
    BY <1>2, <2>1, <2>3
  <2> QED  BY <2>2, <2>3
<1>3. ASSUME NEW k \in DOMAIN format, NEW f \in Nat, NEW w \in Nat, NEW p \in Nat,
             InDirective(k, f, w, p)
      PROVE  Goal
  BY <1>3
<1> QED  BY <1>1, <1>2, <1>3 DEF Located

-----------------------------------------------------------------------------
(***************************************************************************)
(* The steps.                                                              *)
(***************************************************************************)
(* The action is the one for the character.                                 *)
LEMMA Dispatch ==
  ASSUME TypeOK, Next, at <= Len(Text), NEW c, c = Text[at]
  PROVE  /\ ~pr.in_fmt /\ c = "%" => Percent
         /\ ~pr.in_fmt /\ c # "%" => PlainChar
         /\ pr.in_fmt /\ c \notin Special => Other
         /\ pr.in_fmt /\ c = "#" => Hash
         /\ pr.in_fmt /\ c = "-" => Minus
         /\ pr.in_fmt /\ c = "." => Dot
         /\ pr.in_fmt /\ c \in Decimals => Digit
         /\ pr.in_fmt /\ c = "d" => \E w \in Words : Decimal(w)
         /\ pr.in_fmt /\ c = "x" => \E w \in Words : Hexadecimal(w)
         /\ pr.in_fmt /\ c = "p" => \E w \in Words : Pointer(w)
         /\ pr.in_fmt /\ c = "s" => \E w \in DOMAIN StringAt : String(w)
<1>1. pr.in_fmt \in BOOLEAN
  BY DEF TypeOK
<1>2. Decimals = {"0", "1", "2", "3", "4", "5", "6", "7", "8", "9"}
  BY DecimalCharacters DEF Decimals
<1>3. Special = {"#", "-", ".", "d", "p", "x", "s"} \cup Decimals
  BY DEF Special, Decimals
<1>4. /\ \A chars : Reads(chars, TRUE) => c \in chars /\ pr.in_fmt
      /\ \A chars : Reads(chars, FALSE) => c \in chars /\ ~pr.in_fmt
  BY <1>1 DEF Reads
<1>5. ~ Return
  <2>1. Len(Text) \in Nat /\ at \in Nat
    BY Places, Lengths DEF TypeOK
  <2> QED  BY <2>1 DEF Return
<1>6. PlainChar => ~pr.in_fmt /\ c # "%"
  BY <1>4 DEF PlainChar
<1>7. Percent => ~pr.in_fmt /\ c = "%"
  BY <1>4 DEF Percent
<1>8. Hash => pr.in_fmt /\ c = "#"
  BY <1>1 DEF Hash, Option, Reads
<1>9. Minus => pr.in_fmt /\ c = "-"
  BY <1>1 DEF Minus, Option, Reads
<1>10. Dot => pr.in_fmt /\ c = "."
  BY <1>1 DEF Dot, Option, Reads
<1>11. Digit => pr.in_fmt /\ c \in Decimals
  BY <1>4 DEF Digit, Option, Decimals
<1>12. Other => pr.in_fmt /\ c \notin Special
  BY <1>1 DEF Other, Reads
<1>13. \A w : Decimal(w) => pr.in_fmt /\ c = "d"
  BY <1>1 DEF Decimal, Reads
<1>14. \A w : Hexadecimal(w) => pr.in_fmt /\ c = "x"
  BY <1>1 DEF Hexadecimal, Reads
<1>15. \A w : Pointer(w) => pr.in_fmt /\ c = "p"
  BY <1>1 DEF Pointer, Reads
<1>16. \A w : String(w) => pr.in_fmt /\ c = "s"
  BY <1>1 DEF String, Reads
<1>17. \/ PlainChar \/ Percent \/ Hash \/ Minus \/ Dot \/ Digit \/ Other
       \/ \E w \in Words : Decimal(w)
       \/ \E w \in Words : Hexadecimal(w)
       \/ \E w \in Words : Pointer(w)
       \/ \E w \in DOMAIN StringAt : String(w)
  BY <1>5 DEF Next
<1>18. \/ PlainChar \/ Percent \/ Other
       \/ c \in {"#", "-", ".", "d", "x", "p", "s"} \cup Decimals /\ pr.in_fmt
  BY ONLY <1>8, <1>9, <1>10, <1>11, <1>13, <1>14, <1>15, <1>16, <1>17
<1>19. pr.in_fmt /\ c \notin Special => Other
  BY ONLY <1>3, <1>6, <1>7, <1>18
<1>20. ~pr.in_fmt => (c = "%" => Percent) /\ (c # "%" => PlainChar)
  BY ONLY <1>6, <1>7, <1>12, <1>18
<1>21. pr.in_fmt /\ c = "#" => Hash
  BY ONLY <1>2, <1>3, <1>6, <1>7, <1>9, <1>10, <1>11, <1>12, <1>13, <1>14, <1>15, <1>16, <1>17
<1>22. pr.in_fmt /\ c = "-" => Minus
  BY ONLY <1>2, <1>3, <1>6, <1>7, <1>8, <1>10, <1>11, <1>12, <1>13, <1>14, <1>15, <1>16, <1>17
<1>23. pr.in_fmt /\ c = "." => Dot
  BY ONLY <1>2, <1>3, <1>6, <1>7, <1>8, <1>9, <1>11, <1>12, <1>13, <1>14, <1>15, <1>16, <1>17
<1>24. pr.in_fmt /\ c \in Decimals => Digit
  BY ONLY <1>2, <1>3, <1>6, <1>7, <1>8, <1>9, <1>10, <1>12, <1>13, <1>14, <1>15, <1>16, <1>17
<1>25. pr.in_fmt /\ c = "d" => \E w \in Words : Decimal(w)
  BY ONLY <1>2, <1>3, <1>6, <1>7, <1>8, <1>9, <1>10, <1>11, <1>12, <1>14, <1>15, <1>16, <1>17
<1>26. pr.in_fmt /\ c = "x" => \E w \in Words : Hexadecimal(w)
  BY ONLY <1>2, <1>3, <1>6, <1>7, <1>8, <1>9, <1>10, <1>11, <1>12, <1>13, <1>15, <1>16, <1>17
<1>27. pr.in_fmt /\ c = "p" => \E w \in Words : Pointer(w)
  BY ONLY <1>2, <1>3, <1>6, <1>7, <1>8, <1>9, <1>10, <1>11, <1>12, <1>13, <1>14, <1>16, <1>17
<1>28. pr.in_fmt /\ c = "s" => \E w \in DOMAIN StringAt : String(w)
  BY ONLY <1>2, <1>3, <1>6, <1>7, <1>8, <1>9, <1>10, <1>11, <1>12, <1>13, <1>14, <1>15, <1>17
<1> QED  BY ONLY <1>19, <1>20, <1>21, <1>22, <1>23, <1>24, <1>25, <1>26, <1>27, <1>28

(* What a step that fetches no argument leaves as it is.                    *)
Unmoved(k) ==
  /\ Before(k)' = Before(k) /\ Out(k)' = Out(k)
  /\ (Escaped(k)' <=> Escaped(k)) /\ (Fetched(k)' <=> Fetched(k)) /\ (Alike(k)' <=> Alike(k))

LEMMA FormatStays ==
  ASSUME NEW k, UNCHANGED format
  PROVE  /\ Before(k)' = Before(k) /\ (Escaped(k)' <=> Escaped(k)) /\ Argument(k)' = Argument(k)
         /\ Text' = Text
<1>1. Before(k)' = Before(k)
  BY DEF Before, Spellings
<1>2. Escaped(k)' <=> Escaped(k)
  BY DEF Escaped, IsPercent, IsDirective
<1>3. Argument(k)' = Argument(k)
  BY DEF Argument
<1>4. Text' = Text
  BY DEF Text
<1> QED  BY <1>1, <1>2, <1>3, <1>4

LEMMA NothingFetched ==
  ASSUME NEW k, UNCHANGED <<format, taken>>
  PROVE  Unmoved(k)
<1>1. \A j : Argument(j)' = Argument(j)
  BY DEF Argument
<1>2. \A j : Printed(j)' = Printed(j)
  BY <1>1 DEF Printed
<1>3. Out(k)' = Out(k)
  BY <1>2 DEF Out
<1>4. Fetched(k)' <=> Fetched(k)
  BY <1>1 DEF Fetched
<1>5. Alike(k)' <=> Alike(k)
  BY <1>1, <1>3 DEF Alike
<1>6. Before(k)' = Before(k) /\ (Escaped(k)' <=> Escaped(k))
  BY FormatStays
<1> QED  BY <1>3, <1>4, <1>5, <1>6 DEF Unmoved

LEMMA TameStays == ASSUME UNCHANGED format, Tame' PROVE Tame
<1>1. \A k \in DOMAIN format : Defined(format[k])
  BY DEF Tame
<1>2. ASSUME NEW k \in DOMAIN format, IsPercent(k) PROVE Agrees(k)
  <2>1. Agrees(k)'
    BY <1>2 DEF Tame, IsPercent, IsDirective
  <2> QED  BY <1>2, <2>1 DEF Agrees, IsPercent, IsDirective
<1> QED  BY <1>1, <1>2 DEF Tame

(* The character of item k at position i.                                   *)
LEMMA Character ==
  ASSUME TypeOK, NEW k \in DOMAIN format, NEW i \in 1 .. Len(SpellItem(format[k])),
         at = Len(Before(k - 1)) + i
  PROVE  Text[at] = SpellItem(format[k])[i] /\ at <= Len(Text)
<1>1. InsideText(k)
  BY Places
<1>2. Text[at] = SpellItem(format[k])[i]
  BY <1>1 DEF InsideText
<1> DEFINE a == Len(Before(k - 1))
           b == Len(SpellItem(format[k]))
           c == Len(Before(k))
           d == Len(Text)
<1>3. a \in Nat /\ b \in Nat /\ c = a + b /\ c <= d /\ d \in Nat
  BY <1>1, Places, Lengths DEF InsideText
<1>4. i \in 1 .. b /\ at = a + i
  OBVIOUS
<1> HIDE DEF a, b, c, d
<1>5. at <= d
  BY <1>3, <1>4
<1> QED  BY <1>2, <1>5 DEF d

(* A character of a text is printed as it is.                               *)
LEMMA TextStep ==
  ASSUME PrintfInv, Tame, NEW k, NEW i \in Nat, InText(k, i), i < Len(format[k].text), Next
  PROVE  InText(k, i + 1)'
<1> DEFINE t == format[k].text
           c == Text[at]
<1>1. /\ k \in DOMAIN format /\ IsText(k) /\ t \in Seq(STRING) /\ IsSeq(t) /\ Len(t) \in Nat
      /\ i + 1 \in 1 .. Len(t) /\ i + 1 \in 0 .. Len(t) /\ SpellItem(format[k]) = t /\ TypeOK
  <2>1. k \in DOMAIN format /\ IsText(k) /\ TypeOK
    BY DEF InText, IsText, PrintfInv
  <2>2. t \in Seq(STRING)
    BY <2>1, FormatType, Items DEF IsText
  <2>3. Len(t) \in Nat /\ IsSeq(t)
    BY <2>2 DEF IsSeq
  <2>4. i + 1 \in 1 .. Len(t) /\ i + 1 \in 0 .. Len(t)
    BY <2>3
  <2>5. SpellItem(format[k]) = t
    BY <2>1 DEF IsText, SpellItem
  <2> QED  BY <2>1, <2>2, <2>3, <2>4, <2>5
<1>2. at = Len(Before(k - 1)) + (i + 1) /\ Len(Before(k - 1)) \in Nat
  <2>1. at = Len(Before(k - 1)) + i + 1
    BY DEF InText
  <2>2. Len(Before(k - 1)) \in Nat
    BY <1>1, Places DEF InsideText
  <2> QED  BY ONLY <2>1, <2>2
<1>3. c = t[i + 1] /\ at <= Len(Text)
  BY <1>1, <1>2, Character
<1>4. c # "%"
  <2>1. "%" \notin ToSet(t)
    BY <1>1 DEF Tame, Defined, IsText
  <2>2. t[i + 1] \in ToSet(t)
    BY <1>1 DEF ToSet
  <2> QED  BY <1>3, <2>1, <2>2
<1>5. /\ Push(<<c>>) /\ at' = at + 1
      /\ UNCHANGED <<format, pr, taken>>
  <2>1. CASE ~ pr.in_fmt
    <3>1. PlainChar
      BY <1>1, <1>3, <1>4, <2>1, Dispatch
    <3> QED  BY <3>1 DEF PlainChar, Reads
  <2>2. CASE pr.in_fmt
    <3>1. Escaped(k - 1)
      BY <2>2 DEF InText
    <3>2. c \notin Special
      BY <1>1, <1>3, <3>1, EscapedText
    <3>3. Other
      BY <1>1, <1>3, <2>2, <3>2, Dispatch
    <3> QED  BY <3>3 DEF Other, Reads
  <2> QED  BY <2>1, <2>2
<1>6. Stream(Buffered)' = Stream(Buffered) \o <<c>>
  BY <1>5, PushStep, Singleton DEF PrintfInv
<1>7. Unmoved(k - 1)
  BY <1>5, NothingFetched
<1>8. at' = Len(Before(k - 1)) + (i + 1) + 1
  BY ONLY <1>2, <1>5
<1>9. Alike(k - 1) => Stream(Buffered)' = Out(k - 1) \o First(t, i + 1)
  <2> HAVE Alike(k - 1)
  <2>1. Stream(Buffered) = Out(k - 1) \o First(t, i)
    BY DEF InText
  <2>2. IsSeq(Out(k - 1))
    <3>1. k - 1 \in 0 .. Len(format) /\ Fetched(k - 1)
      BY <1>1, FormatType DEF InText
    <3> QED  BY <1>1, <3>1, OutSeq
  <2>3. (i + 1) - 1 = i
    OBVIOUS
  <2>4. (Out(k - 1) \o First(t, i)) \o <<t[i + 1]>> = Out(k - 1) \o First(t, i + 1)
    BY <1>1, <2>2, <2>3, OneMore
  <2> QED  BY <1>3, <1>6, <2>1, <2>4
<1>10. (pr.in_fmt <=> Escaped(k - 1)) /\ Fetched(k - 1)
  BY DEF InText
<1>11. InText(k, i + 1)'
  <2>1. IsText(k)' /\ (i + 1 \in 0 .. Len(format[k].text))'
    BY <1>1, <1>5 DEF IsText
  <2>2. (at = Len(Before(k - 1)) + (i + 1) + 1)'
    BY <1>7, <1>8 DEF Unmoved
  <2>3. (pr.in_fmt <=> Escaped(k - 1))'
    <3>1. Escaped(k - 1) \in BOOLEAN /\ Escaped(k - 1)' \in BOOLEAN
      BY DEF Escaped
    <3>2. pr.in_fmt' = pr.in_fmt /\ (Escaped(k - 1)' <=> Escaped(k - 1))
      BY <1>5, <1>7 DEF Unmoved
    <3> QED  BY ONLY <1>10, <3>1, <3>2
  <2>4. Fetched(k - 1)'
    BY <1>7, <1>10 DEF Unmoved
  <2>5. (Alike(k - 1) => Stream(Buffered) = Out(k - 1) \o First(format[k].text, i + 1))'
    BY <1>5, <1>7, <1>9 DEF Unmoved
  <2> QED  BY ONLY <2>1, <2>2, <2>3, <2>4, <2>5 DEF InText
<1> QED  BY <1>11

(* Where the characters of a directive are.                                 *)
LEMMA SpelledPlaces ==
  ASSUME NEW u, NEW item, Spelled(u, item)
  PROVE  /\ Len(u) \in Nat /\ 1 \in 1 .. Len(u) /\ Len(u) \in 1 .. Len(u)
         /\ \A f \in 1 .. Len(item.flags) : 1 + f \in 1 .. Len(u)
         /\ \A w \in 1 .. Len(item.width) : 1 + Len(item.flags) + w \in 1 .. Len(u)
         /\ \A p \in 1 .. Len(item.precision) :
              1 + Len(item.flags) + Len(item.width) + p \in 1 .. Len(u)
<1> DEFINE a == Len(item.flags)
           b == Len(item.width)
           c == Len(item.precision)
           d == Len(u)
<1>1. a \in Nat /\ b \in Nat /\ c \in Nat /\ d = a + b + c + 2
  BY DEF Spelled
<1> HIDE DEF a, b, c, d
<1>2. /\ d \in Nat /\ 1 \in 1 .. d /\ d \in 1 .. d
      /\ \A f \in 1 .. a : 1 + f \in 1 .. d
      /\ \A w \in 1 .. b : 1 + a + w \in 1 .. d
      /\ \A p \in 1 .. c : 1 + a + b + p \in 1 .. d
  BY ONLY <1>1
<1> QED  BY <1>2 DEF a, b, c, d

(* "%" begins a directive.                                                  *)
LEMMA PercentStep ==
  ASSUME PrintfInv, Tame, NEW k, IsDirective(k), Between(k - 1), Next
  PROVE  InDirective(k, 0, 0, 0)'
<1> DEFINE item == format[k]
           u == SpellItem(item)
<1>1. TypeOK /\ k \in DOMAIN format /\ item \in Item /\ IsConversion(item) /\ Spelled(u, item)
  <2>1. TypeOK /\ k \in DOMAIN format /\ item.kind = "directive"
    BY DEF PrintfInv, IsDirective
  <2>2. item \in Item
    BY <2>1, FormatType
  <2>3. IsConversion(item)
    BY <2>1, <2>2, Items
  <2> QED  BY <2>1, <2>2, <2>3, DirectiveSpelled
<1>2. 1 \in 1 .. Len(u) /\ u[1] = "%"
  BY <1>1, SpelledPlaces DEF Spelled
<1>3. at = Len(Before(k - 1)) + 1 /\ Len(Before(k - 1)) \in Nat
  BY <1>1, Places DEF Between, InsideText
<1>4. Text[at] = "%" /\ at <= Len(Text)
  BY <1>1, <1>2, <1>3, Character
<1>5. ~ Escaped(k - 1)
  BY <1>1, <1>2, EscapedText
<1>6. Percent
  <2>1. ~ pr.in_fmt
    BY <1>5 DEF Between
  <2> QED  BY <1>1, <1>4, <2>1, Dispatch
<1>7. /\ at' = at + 1 /\ pr' = BeginFmt
      /\ UNCHANGED <<format, buf, sent, written, taken>>
  BY <1>6 DEF Percent, Reads
<1>8. Unmoved(k - 1) /\ Buffered' = Buffered
  BY <1>7, NothingFetched DEF Buffered
<1>9. InDirective(k, 0, 0, 0)'
  <2>1. IsDirective(k)' /\ (~ Escaped(k - 1))'
    BY <1>5, <1>7, <1>8 DEF IsDirective, Unmoved
  <2>2. (0 \in 0 .. Len(item.flags) /\ 0 \in 0 .. Len(item.width) /\ 0 \in 0 .. Len(item.precision))'
    BY <1>1, <1>7 DEF Spelled
  <2>3. (at = Len(Before(k - 1)) + 0 + 0 + 0 + 2)'
    BY <1>3, <1>7, <1>8 DEF Unmoved
  <2>4. OptionsRead(item, 0, 0, 0)'
    <3>1. Cut(item.flags, 0) = <<>> /\ Cut(item.width, 0) = <<>>
      BY DEF Cut
    <3>2. Number(Cut(item.width, 0)) = 0
      BY <1>1, <3>1, NumberParts DEF IsConversion
    <3>3. ToSet(Cut(item.flags, 0)) = {}
      BY <3>1 DEF ToSet
    <3>4. /\ pr'.in_fmt = TRUE /\ pr'.enable_base_prefix = FALSE /\ pr'.right_pad = FALSE
          /\ pr'.zero_pad = FALSE /\ pr'.field_width = 0 /\ pr'.precision = 1
          /\ pr'.in_precision = FALSE
      BY <1>7 DEF BeginFmt
    <3>5. /\ (Number(Cut(item.width, 0)) = 0)' /\ (ToSet(Cut(item.flags, 0)) = {})'
      BY <1>7, <3>2, <3>3
    <3> QED  BY ONLY <3>4, <3>5 DEF OptionsRead
  <2>5. (Fetched(k - 1) /\ (Alike(k - 1) => Stream(Buffered) = Out(k - 1)))'
    BY <1>8 DEF Unmoved, Between
  <2> QED  BY <2>1, <2>2, <2>3, <2>4, <2>5 DEF InDirective
<1> QED  BY <1>9

(* The next character of a directive.                                       *)
DirectiveAt(k, f, w, p) ==
  /\ TypeOK /\ IsConversion(format[k]) /\ Defined(format[k]) /\ pr.in_fmt
  /\ at <= Len(Text) /\ Len(Before(k - 1)) \in Nat
  /\ f < Len(format[k].flags) => w = 0 /\ p = 0 /\ Text[at] = format[k].flags[f + 1]
  /\ f = Len(format[k].flags) /\ w < Len(format[k].width) =>
       p = 0 /\ Text[at] = format[k].width[w + 1]
  /\ f = Len(format[k].flags) /\ w = Len(format[k].width) /\ p < Len(format[k].precision) =>
       Text[at] = format[k].precision[p + 1]
  /\ (f = Len(format[k].flags) /\ w = Len(format[k].width) /\ p = Len(format[k].precision)) =>
       Text[at] = format[k].conv /\ at = Len(Before(k - 1)) + Len(SpellItem(format[k]))
  /\ Len(format[k].flags) \in Nat /\ Len(format[k].width) \in Nat
  /\ Len(format[k].precision) \in Nat

LEMMA DirectiveCharacter ==
  ASSUME PrintfInv, Tame, NEW k, NEW f \in Nat, NEW w \in Nat, NEW p \in Nat,
         InDirective(k, f, w, p)
  PROVE  DirectiveAt(k, f, w, p)
<1> DEFINE item == format[k]
           u == SpellItem(item)
           a == Len(item.flags)
           b == Len(item.width)
           c == Len(item.precision)
           s == Len(Before(k - 1))
<1>1. TypeOK /\ k \in DOMAIN format /\ IsConversion(item) /\ Spelled(u, item) /\ Defined(item)
  <2>1. TypeOK /\ k \in DOMAIN format /\ item.kind = "directive"
    BY DEF PrintfInv, InDirective, IsDirective
  <2>2. item \in Item /\ Defined(item)
    BY <2>1, FormatType DEF Tame
  <2>3. IsConversion(item)
    BY <2>1, <2>2, Items
  <2> QED  BY <2>1, <2>2, <2>3, DirectiveSpelled
<1>2. s \in Nat
  BY <1>1, Places DEF InsideText
<1>3. /\ f \in 0 .. a /\ w \in 0 .. b /\ p \in 0 .. c
      /\ (w + p > 0 => f = a) /\ (p > 0 => w = b)
      /\ at = s + f + w + p + 2
      /\ pr.in_fmt
  BY DEF InDirective, OptionsRead
<1>4. a \in Nat /\ b \in Nat /\ c \in Nat /\ Len(u) = a + b + c + 2
  BY <1>1 DEF Spelled
<1>5. \A i \in 1 .. Len(u) : at = s + i => Text[at] = u[i] /\ at <= Len(Text)
  BY <1>1, Character
<1>6. /\ \A j \in 1 .. a : 1 + j \in 1 .. Len(u) /\ u[1 + j] = item.flags[j]
      /\ \A j \in 1 .. b : 1 + a + j \in 1 .. Len(u) /\ u[1 + a + j] = item.width[j]
      /\ \A j \in 1 .. c : 1 + a + b + j \in 1 .. Len(u) /\ u[1 + a + b + j] = item.precision[j]
      /\ Len(u) \in 1 .. Len(u) /\ u[Len(u)] = item.conv
  BY <1>1, SpelledPlaces DEF Spelled
<1> DEFINE d == Len(u)
           n == Len(Text)
<1> HIDE DEF item, u, a, b, c, s, d, n
<1>7. CASE f < a
  <2>1. w = 0 /\ p = 0 /\ f + 1 \in 1 .. a /\ at = s + (1 + (f + 1))
    BY ONLY <1>2, <1>3, <1>4, <1>7
  <2>2. 1 + (f + 1) \in 1 .. Len(u) /\ u[1 + (f + 1)] = item.flags[f + 1]
    BY ONLY <1>6, <2>1
  <2>3. Text[at] = item.flags[f + 1] /\ at <= Len(Text)
    BY ONLY <1>5, <2>1, <2>2
  <2>4. ~ (f = a)
    BY ONLY <1>4, <1>7
  <2> QED  BY <1>1, <1>2, <1>3, <1>4, <2>1, <2>3, <2>4 DEF DirectiveAt, item, a, b, c, s
<1>8. CASE f = a /\ w < b
  <2>1. p = 0 /\ w + 1 \in 1 .. b /\ at = s + (1 + a + (w + 1))
    BY ONLY <1>2, <1>3, <1>4, <1>8
  <2>2. 1 + a + (w + 1) \in 1 .. Len(u) /\ u[1 + a + (w + 1)] = item.width[w + 1]
    BY ONLY <1>6, <2>1
  <2>3. Text[at] = item.width[w + 1] /\ at <= Len(Text)
    BY ONLY <1>5, <2>1, <2>2
  <2>4. ~ (f < a) /\ ~ (w = b)
    BY ONLY <1>3, <1>4, <1>8
  <2> QED  BY <1>1, <1>2, <1>3, <1>4, <2>1, <2>3, <2>4 DEF DirectiveAt, item, a, b, c, s
<1>9. CASE f = a /\ w = b /\ p < c
  <2>1. p + 1 \in 1 .. c /\ at = s + (1 + a + b + (p + 1))
    BY ONLY <1>2, <1>3, <1>4, <1>9
  <2>2. 1 + a + b + (p + 1) \in 1 .. Len(u) /\ u[1 + a + b + (p + 1)] = item.precision[p + 1]
    BY ONLY <1>6, <2>1
  <2>3. Text[at] = item.precision[p + 1] /\ at <= Len(Text)
    BY ONLY <1>5, <2>1, <2>2
  <2>4. ~ (f < a) /\ ~ (w < b) /\ ~ (p = c)
    BY ONLY <1>3, <1>4, <1>9
  <2> QED  BY <1>1, <1>2, <1>3, <1>4, <1>9, <2>3, <2>4 DEF DirectiveAt, item, a, b, c, s
<1>10. CASE f = a /\ w = b /\ p = c
  <2>1. at = s + Len(u)
    <3>1. d \in Nat /\ d = a + b + c + 2
      BY ONLY <1>4 DEF d
    <3>2. at = s + d
      BY ONLY <1>2, <1>3, <1>4, <1>10, <3>1
    <3> QED  BY ONLY <3>2 DEF d
  <2>2. Text[at] = item.conv /\ at <= Len(Text)
    BY ONLY <1>5, <1>6, <2>1
  <2>3. ~ (f < a) /\ ~ (w < b) /\ ~ (p < c)
    BY ONLY <1>3, <1>4, <1>10
  <2> QED  BY <1>1, <1>2, <1>3, <1>4, <1>10, <2>1, <2>2, <2>3 DEF DirectiveAt, item, a, b, c, s, u
<1>11. (f < a) \/ (f = a /\ (w < b \/ (w = b /\ (p < c \/ p = c))))
  BY ONLY <1>3, <1>4
<1> QED  BY <1>7, <1>8, <1>9, <1>10, <1>11

(* An option has been read.                                                 *)
LEMMA OptionRead ==
  ASSUME PrintfInv, Tame, NEW k, NEW f \in Nat, NEW w \in Nat, NEW p \in Nat,
         InDirective(k, f, w, p),
         NEW g \in 0 .. Len(format[k].flags), NEW v \in 0 .. Len(format[k].width),
         NEW q \in 0 .. Len(format[k].precision),
         g + v + q = f + w + p + 1,
         v + q > 0 => g = Len(format[k].flags), q > 0 => v = Len(format[k].width),
         at' = at + 1, UNCHANGED <<format, buf, sent, written, taken>>,
         OptionsRead(format[k], g, v, q)'
  PROVE  InDirective(k, g, v, q)'
<1>1. Unmoved(k - 1) /\ Buffered' = Buffered
  BY NothingFetched DEF Buffered
<1>2. DirectiveAt(k, f, w, p)
  BY DirectiveCharacter
<1>3. at' = Len(Before(k - 1)) + g + v + q + 2
  <2> DEFINE s == Len(Before(k - 1))
  <2>1. s \in Nat /\ g \in Nat /\ v \in Nat /\ q \in Nat /\ at = s + f + w + p + 2
    BY <1>2 DEF DirectiveAt, InDirective
  <2> HIDE DEF s
  <2>2. at' = s + g + v + q + 2
    BY ONLY <2>1, g + v + q = f + w + p + 1, at' = at + 1, f \in Nat, w \in Nat, p \in Nat
  <2> QED  BY <2>2 DEF s
<1>4. (IsDirective(k) /\ ~ Escaped(k - 1))'
  BY <1>1 DEF InDirective, IsDirective, Unmoved
<1>5. (at = Len(Before(k - 1)) + g + v + q + 2)'
  BY <1>1, <1>3 DEF Unmoved
<1>6. (Fetched(k - 1) /\ (Alike(k - 1) => Stream(Buffered) = Out(k - 1)))'
  BY <1>1 DEF InDirective, Unmoved
<1>7. /\ (g \in 0 .. Len(format[k].flags))' /\ (v \in 0 .. Len(format[k].width))'
      /\ (q \in 0 .. Len(format[k].precision))'
      /\ (v + q > 0 => g = Len(format[k].flags))' /\ (q > 0 => v = Len(format[k].width))'
  OBVIOUS
<1>8. OptionsRead(format[k], g, v, q)'
  OBVIOUS
<1> QED  BY ONLY <1>4, <1>5, <1>6, <1>7, <1>8 DEF InDirective

LEMMA CutMore ==
  ASSUME NEW s, NEW k \in Nat
  PROVE  ToSet(Cut(s, k + 1)) = ToSet(Cut(s, k)) \cup {s[k + 1]}
<1>1. 1 .. k + 1 = (1 .. k) \cup {k + 1}
  OBVIOUS
<1>2. /\ DOMAIN Cut(s, k + 1) = 1 .. k + 1 /\ \A j \in 1 .. k + 1 : Cut(s, k + 1)[j] = s[j]
      /\ DOMAIN Cut(s, k) = 1 .. k /\ \A j \in 1 .. k : Cut(s, k)[j] = s[j]
  BY DEF Cut
<1> DEFINE c == Cut(s, k + 1)
           b == Cut(s, k)
<1>3. ToSet(c) = {c[j] : j \in DOMAIN c} /\ ToSet(b) = {b[j] : j \in DOMAIN b}
  BY DEF ToSet
<1>4. k + 1 \in 1 .. k + 1
  OBVIOUS
<1> HIDE DEF b, c
<1>5. ToSet(c) = {s[j] : j \in 1 .. k + 1} /\ ToSet(b) = {s[j] : j \in 1 .. k}
  BY ONLY <1>2, <1>3 DEF b, c
<1>6. ToSet(c) = ToSet(b) \cup {s[k + 1]}
  BY ONLY <1>1, <1>4, <1>5
<1> QED  BY <1>6 DEF b, c

(* The formatter computes what Number says of the digits.                   *)
LEMMA DigitRead ==
  ASSUME NEW s \in Seq(Decimals), Number(s) \in Word, NEW k \in 1 .. Len(s)
  PROVE  /\ Wrap(Wrap(Number(Cut(s, k - 1)) * 10) + DigitValue[s[k]]) = Number(Cut(s, k))
         /\ (Number(Cut(s, k - 1)) > 0 \/ DigitValue[s[k]] # 0) => Number(Cut(s, k)) > 0
         /\ s[k] \in Decimals
<1> DEFINE a == Number(Cut(s, k - 1))
           b == Number(Cut(s, k))
           d == DigitValue[s[k]]
           n == Number(s)
<1>1. k \in 0 .. Len(s) /\ k - 1 \in 0 .. Len(s) /\ s[k] \in Decimals
  OBVIOUS
<1>2. a \in Nat /\ b \in Nat /\ b <= n /\ b = 10 * a + d
  BY <1>1, NumberParts
<1>3. d \in 0 .. 9 /\ n \in 0 .. SizeRange - 1
  BY <1>1, DigitType DEF Decimals, Word
<1> HIDE DEF a, b, d, n
<1>4. b \in Word /\ a * 10 \in Nat /\ a * 10 + d = b /\ d \in Nat /\ ((a > 0 \/ d # 0) => b > 0)
  BY ONLY <1>2, <1>3, RangeAssumption DEF Word
<1>5. Wrap(Wrap(a * 10) + d) = b
  <2>1. Wrap(Wrap(a * 10) + d) = Wrap(a * 10 + d)
    BY ONLY <1>4, WrapSum
  <2>2. Wrap(b) = b
    BY ONLY <1>4, WrapWord
  <2> QED  BY ONLY <1>4, <2>1, <2>2
<1> QED  BY ONLY <1>1, <1>4, <1>5 DEF a, b, d

LEMMA FlagStep ==
  ASSUME PrintfInv, Tame, NEW k, NEW f \in Nat, NEW w \in Nat, NEW p \in Nat,
         InDirective(k, f, w, p), f < Len(format[k].flags), Next
  PROVE  InDirective(k, f + 1, w, p)'
<1> DEFINE item == format[k]
           c == Text[at]
<1>1. /\ TypeOK /\ IsConversion(item) /\ Defined(item) /\ pr.in_fmt /\ at <= Len(Text)
      /\ w = 0 /\ p = 0 /\ c = item.flags[f + 1] /\ Len(item.flags) \in Nat
      /\ Len(item.width) \in Nat /\ Len(item.precision) \in Nat
  BY DirectiveCharacter DEF DirectiveAt
<1>2. c \in {"#", "-", "0"}
  <2>1. f + 1 \in 1 .. Len(item.flags) /\ item.flags \in Seq({"#", "-", "0"})
    BY <1>1 DEF IsConversion
  <2> QED  BY <1>1, <2>1
<1>3. /\ pr.enable_base_prefix <=> "#" \in ToSet(Cut(item.flags, f))
      /\ pr.right_pad <=> "-" \in ToSet(Cut(item.flags, f))
      /\ pr.zero_pad <=> "0" \in ToSet(Cut(item.flags, f))
      /\ pr.field_width = Number(Cut(item.width, 0)) /\ pr.precision = 1 /\ ~ pr.in_precision
  BY <1>1 DEF InDirective, OptionsRead
<1>4. ToSet(Cut(item.flags, f + 1)) = ToSet(Cut(item.flags, f)) \cup {c}
  <2>1. ToSet(Cut(item.flags, f + 1)) = ToSet(Cut(item.flags, f)) \cup {item.flags[f + 1]}
    BY ONLY f \in Nat, CutMore
  <2> QED  BY ONLY <1>1, <2>1
<1>5. /\ at' = at + 1 /\ UNCHANGED <<format, buf, sent, written, taken>>
      /\ pr' = [pr EXCEPT !.enable_base_prefix = IF c = "#" THEN TRUE ELSE @,
                          !.right_pad = IF c = "-" THEN TRUE ELSE @,
                          !.zero_pad = IF c = "0" THEN TRUE ELSE @]
  <2> HIDE DEF item, c
  <2>0. pr \in [in_fmt : BOOLEAN, enable_base_prefix : BOOLEAN, field_width : Word,
             precision : Word, in_precision : BOOLEAN, zero_pad : BOOLEAN, right_pad : BOOLEAN]
    BY <1>1 DEF TypeOK
  <2>1. CASE c = "#"
    <3>1. Hash
      BY <1>1, <2>1, Dispatch DEF c
    <3>2. at' = at + 1 /\ UNCHANGED <<format, buf, sent, written, taken>>
      BY <3>1 DEF Hash, Option, Reads
    <3>3. pr' = [pr EXCEPT !.enable_base_prefix = TRUE]
      BY <3>1 DEF Hash
    <3> QED  BY <2>0, <2>1, <3>2, <3>3
  <2>2. CASE c = "-"
    <3>1. Minus
      BY <1>1, <2>2, Dispatch DEF c
    <3>2. at' = at + 1 /\ UNCHANGED <<format, buf, sent, written, taken>>
      BY <3>1 DEF Minus, Option, Reads
    <3>3. pr' = [pr EXCEPT !.right_pad = TRUE]
      BY <3>1 DEF Minus
    <3> QED  BY <2>0, <2>2, <3>2, <3>3
  <2>3. CASE c = "0"
    <3>0. c \in Decimals /\ DigitValue[c] = 0
      BY <2>3, DecimalCharacters DEF Decimals
    <3>1. Digit
      BY <1>1, <3>0, Dispatch DEF c
    <3>2. at' = at + 1 /\ UNCHANGED <<format, buf, sent, written, taken>>
      BY <3>1 DEF Digit, Option, Reads
    <3>3. pr.field_width = 0
      <4>1. Cut(item.width, 0) = <<>>
        BY DEF Cut
      <4>2. Number(<<>>) = 0
        BY <1>1, NumberParts DEF IsConversion
      <4> QED  BY <1>3, <4>1, <4>2
    <3>4. pr' = [pr EXCEPT !.zero_pad = TRUE]
      BY <1>3, <3>0, <3>1, <3>3 DEF Digit, c
    <3> QED  BY <2>0, <2>3, <3>2, <3>4
  <2> QED  BY <1>2, <2>1, <2>2, <2>3 DEF c
<1>6. OptionsRead(item, f + 1, 0, 0)'
  <2>1. /\ pr'.in_fmt = pr.in_fmt /\ pr'.field_width = pr.field_width
        /\ pr'.precision = pr.precision /\ pr'.in_precision = pr.in_precision
        /\ pr'.enable_base_prefix = IF c = "#" THEN TRUE ELSE pr.enable_base_prefix
        /\ pr'.right_pad = IF c = "-" THEN TRUE ELSE pr.right_pad
        /\ pr'.zero_pad = IF c = "0" THEN TRUE ELSE pr.zero_pad
    BY <1>1, <1>5 DEF TypeOK
  <2>2. /\ pr'.enable_base_prefix <=> "#" \in ToSet(Cut(item.flags, f + 1))
        /\ pr'.right_pad <=> "-" \in ToSet(Cut(item.flags, f + 1))
        /\ pr'.zero_pad <=> "0" \in ToSet(Cut(item.flags, f + 1))
    BY ONLY <1>2, <1>3, <1>4, <2>1
  <2>3. item' = item
    BY <1>5
  <2> HIDE DEF item
  <2>4. /\ pr'.in_fmt /\ pr'.field_width = Number(Cut(item.width, 0)) /\ pr'.precision = 1
        /\ ~ pr'.in_precision
    BY <1>1, <1>3, <2>1
  <2> QED  BY ONLY <2>2, <2>3, <2>4 DEF OptionsRead
<1>7. f + 1 \in 0 .. Len(item.flags) /\ 0 \in 0 .. Len(item.width) /\ 0 \in 0 .. Len(item.precision)
  BY <1>1
<1>8. f + 1 + 0 + 0 = f + w + p + 1 /\ ~ (0 + 0 > 0) /\ ~ (0 > 0)
  <2>1. w = 0 /\ p = 0
    BY <1>1
  <2> QED  BY ONLY <2>1, f \in Nat
<1>9. at' = at + 1 /\ UNCHANGED <<format, buf, sent, written, taken>>
  BY <1>5
<1>10. InDirective(k, f + 1, 0, 0)'
  <2> HIDE DEF c
  <2> QED  BY <1>6, <1>7, <1>8, <1>9, OptionRead
<1>11. w = 0 /\ p = 0
  BY <1>1
<1> QED  BY ONLY <1>10, <1>11

(* A digit of a width or a precision.                                       *)
LEMMA DigitRuns ==
  ASSUME TypeOK, Next, at <= Len(Text), pr.in_fmt, NEW c \in Decimals, c = Text[at],
         pr.in_precision \/ pr.field_width > 0 \/ DigitValue[c] # 0
  PROVE  /\ at' = at + 1 /\ UNCHANGED <<format, buf, sent, written, taken>>
         /\ pr' = IF pr.in_precision
                  THEN [pr EXCEPT !.precision = Wrap(Wrap(@ * 10) + DigitValue[c])]
                  ELSE [pr EXCEPT !.field_width = Wrap(Wrap(@ * 10) + DigitValue[c])]
<1>1. Digit
  BY Dispatch
<1>2. at' = at + 1 /\ UNCHANGED <<format, buf, sent, written, taken>>
  BY <1>1 DEF Digit, Option, Reads
<1>3. pr.field_width \in Nat
  BY OptionTypes
<1>4. pr.in_precision \/ ~ (pr.field_width = 0 /\ DigitValue[c] = 0)
  BY <1>3
<1>5. pr' = IF pr.in_precision
            THEN [pr EXCEPT !.precision = Wrap(Wrap(@ * 10) + DigitValue[c])]
            ELSE [pr EXCEPT !.field_width = Wrap(Wrap(@ * 10) + DigitValue[c])]
  BY <1>1, <1>4 DEF Digit
<1> QED  BY <1>2, <1>5

LEMMA WidthStep ==
  ASSUME PrintfInv, Tame, NEW k, NEW f \in Nat, NEW w \in Nat, NEW p \in Nat,
         InDirective(k, f, w, p), f = Len(format[k].flags), w < Len(format[k].width), Next
  PROVE  InDirective(k, f, w + 1, p)'
<1> DEFINE item == format[k]
           s == item.width
           c == Text[at]
           v == Number(Cut(s, w))
<1>1. /\ TypeOK /\ IsConversion(item) /\ Defined(item) /\ pr.in_fmt /\ at <= Len(Text)
      /\ p = 0 /\ c = s[w + 1] /\ Len(item.flags) \in Nat
      /\ Len(s) \in Nat /\ Len(item.precision) \in Nat
  BY DirectiveCharacter DEF DirectiveAt
<1>2. s \in Seq(Decimals) /\ Number(s) \in Word /\ w + 1 \in 1 .. Len(s) /\ (w + 1) - 1 = w
  BY <1>1, DefinedDirective DEF IsConversion
<1>3. /\ pr.field_width = v /\ (w > 0 => v > 0) /\ pr.precision = 1 /\ ~ pr.in_precision
      /\ pr.enable_base_prefix <=> "#" \in ToSet(Cut(item.flags, f))
      /\ pr.right_pad <=> "-" \in ToSet(Cut(item.flags, f))
      /\ pr.zero_pad <=> "0" \in ToSet(Cut(item.flags, f))
  BY <1>1 DEF InDirective, OptionsRead
<1>4. /\ Wrap(Wrap(v * 10) + DigitValue[c]) = Number(Cut(s, w + 1)) /\ c \in Decimals
      /\ (v > 0 \/ DigitValue[c] # 0) => Number(Cut(s, w + 1)) > 0
  BY <1>1, <1>2, DigitRead
<1>5. v > 0 \/ DigitValue[c] # 0
  <2>1. CASE w > 0
    BY <1>3, <2>1
  <2>2. CASE w = 0
    <3>1. s # <<>> /\ c = s[1]
      BY <1>1, <1>2, <2>2
    <3>2. c # "0"
      BY <1>1, <3>1, DefinedDirective
    <3> QED  BY <1>4, <3>2, DecimalCharacters DEF Decimals
  <2> QED  BY <2>1, <2>2
<1>6. /\ at' = at + 1 /\ UNCHANGED <<format, buf, sent, written, taken>>
      /\ pr' = [pr EXCEPT !.field_width = Wrap(Wrap(@ * 10) + DigitValue[c])]
  <2> HIDE DEF c, v
  <2>1. c = Text[at]
    BY DEF c
  <2> QED  BY <1>1, <1>3, <1>4, <1>5, <2>1, DigitRuns
<1>7. OptionsRead(item, f, w + 1, 0)'
  <2>1. /\ pr'.in_fmt = pr.in_fmt /\ pr'.field_width = Wrap(Wrap(v * 10) + DigitValue[c])
        /\ pr'.precision = pr.precision /\ pr'.in_precision = pr.in_precision
        /\ pr'.enable_base_prefix = pr.enable_base_prefix
        /\ pr'.right_pad = pr.right_pad /\ pr'.zero_pad = pr.zero_pad
    BY <1>1, <1>3, <1>6 DEF TypeOK
  <2>2. pr'.field_width = Number(Cut(s, w + 1)) /\ pr'.field_width > 0
    BY ONLY <1>4, <1>5, <2>1
  <2>3. item' = item
    BY <1>6
  <2>4. /\ pr'.in_fmt /\ pr'.precision = 1 /\ ~ pr'.in_precision
        /\ pr'.enable_base_prefix <=> "#" \in ToSet(Cut(item.flags, f))
        /\ pr'.right_pad <=> "-" \in ToSet(Cut(item.flags, f))
        /\ pr'.zero_pad <=> "0" \in ToSet(Cut(item.flags, f))
    BY ONLY <1>1, <1>3, <2>1
  <2> HIDE DEF item
  <2> QED  BY ONLY <2>2, <2>3, <2>4 DEF OptionsRead
<1>8. f \in 0 .. Len(item.flags) /\ w + 1 \in 0 .. Len(s) /\ 0 \in 0 .. Len(item.precision)
  BY <1>1, <1>2
<1>9. f + (w + 1) + 0 = f + w + p + 1 /\ ~ (0 > 0)
  <2>1. p = 0
    BY <1>1
  <2> QED  BY ONLY <2>1, f \in Nat, w \in Nat
<1>10. InDirective(k, f, w + 1, 0)'
  <2> HIDE DEF c, v
  <2> QED  BY <1>6, <1>7, <1>8, <1>9, OptionRead
<1> QED  BY ONLY <1>1, <1>10

LEMMA PrecisionStep ==
  ASSUME PrintfInv, Tame, NEW k, NEW f \in Nat, NEW w \in Nat, NEW p \in Nat,
         InDirective(k, f, w, p), f = Len(format[k].flags), w = Len(format[k].width),
         p < Len(format[k].precision), Next
  PROVE  InDirective(k, f, w, p + 1)'
<1> DEFINE item == format[k]
           s == Tail(item.precision)
           c == Text[at]
<1>1. /\ TypeOK /\ IsConversion(item) /\ Defined(item) /\ pr.in_fmt /\ at <= Len(Text)
      /\ c = item.precision[p + 1] /\ Len(item.flags) \in Nat
      /\ Len(item.width) \in Nat /\ Len(item.precision) \in Nat
  BY DirectiveCharacter DEF DirectiveAt
<1>2. /\ item.precision # <<>> /\ item.precision[1] = "."
      /\ s \in Seq(Decimals) /\ Number(s) \in Word
  <2>1. item.precision # <<>>
    BY <1>1
  <2> QED  BY <1>1, <2>1, DefinedDirective
<1>3. /\ pr.field_width = Number(Cut(item.width, w)) /\ (w > 0 => pr.field_width > 0)
      /\ pr.precision = (IF p = 0 THEN 1 ELSE Number(Cut(s, p - 1))) /\ (pr.in_precision <=> p > 0)
      /\ pr.enable_base_prefix <=> "#" \in ToSet(Cut(item.flags, f))
      /\ pr.right_pad <=> "-" \in ToSet(Cut(item.flags, f))
      /\ pr.zero_pad <=> "0" \in ToSet(Cut(item.flags, f))
  BY DEF InDirective, OptionsRead
<1>4. /\ at' = at + 1 /\ UNCHANGED <<format, buf, sent, written, taken>>
      /\ pr' = [pr EXCEPT !.precision = Number(Cut(s, p)), !.in_precision = TRUE]
  <2>0. pr \in [in_fmt : BOOLEAN, enable_base_prefix : BOOLEAN, field_width : Word,
             precision : Word, in_precision : BOOLEAN, zero_pad : BOOLEAN, right_pad : BOOLEAN]
    BY <1>1 DEF TypeOK
  <2>1. CASE p = 0
    <3>1. c = "."
      BY <1>1, <1>2, <2>1
    <3>2. Dot
      BY <1>1, <3>1, Dispatch
    <3>3. /\ at' = at + 1 /\ UNCHANGED <<format, buf, sent, written, taken>>
          /\ pr' = [pr EXCEPT !.precision = 0, !.in_precision = TRUE]
      BY <3>2 DEF Dot, Option, Reads
    <3>4. Number(Cut(s, 0)) = 0
      <4>1. Cut(s, 0) = <<>>
        BY DEF Cut
      <4> QED  BY <1>2, <4>1, NumberParts
    <3> QED  BY <2>1, <3>3, <3>4
  <2>2. CASE p # 0
    <3>1. p \in 1 .. Len(s) /\ c = s[p] /\ p > 0
      <4>1. item.precision \in Seq(Decimals \cup {"."})
        BY <1>1 DEF IsConversion
      <4>2. Len(s) = Len(item.precision) - 1 /\ \A j \in 1 .. Len(s) : s[j] = item.precision[j + 1]
        BY <1>2, <4>1
      <4> QED  BY <1>1, <2>2, <4>2
    <3>2. /\ Wrap(Wrap(Number(Cut(s, p - 1)) * 10) + DigitValue[c]) = Number(Cut(s, p))
          /\ c \in Decimals
      BY <1>2, <3>1, DigitRead
    <3>3. pr.in_precision /\ pr.precision = Number(Cut(s, p - 1))
      BY <1>3, <2>2, <3>1
    <3> HIDE DEF c
    <3>4. c = Text[at]
      BY DEF c
    <3>5. /\ at' = at + 1 /\ UNCHANGED <<format, buf, sent, written, taken>>
          /\ pr' = [pr EXCEPT !.precision = Wrap(Wrap(@ * 10) + DigitValue[c])]
      BY <1>1, <3>2, <3>3, <3>4, DigitRuns
    <3>6. pr' = [pr EXCEPT !.precision = Number(Cut(s, p))]
      BY <3>2, <3>3, <3>5
    <3>7. pr.in_precision = TRUE
      BY <2>0, <3>3
    <3> QED  BY <2>0, <3>5, <3>6, <3>7
  <2> QED  BY <2>1, <2>2
<1>5. OptionsRead(item, f, w, p + 1)'
  <2>1. /\ pr'.in_fmt = pr.in_fmt /\ pr'.field_width = pr.field_width
        /\ pr'.precision = Number(Cut(s, p)) /\ pr'.in_precision = TRUE
        /\ pr'.enable_base_prefix = pr.enable_base_prefix
        /\ pr'.right_pad = pr.right_pad /\ pr'.zero_pad = pr.zero_pad
    BY <1>1, <1>4 DEF TypeOK
  <2>2. p + 1 > 0 /\ p + 1 # 0 /\ (p + 1) - 1 = p
    OBVIOUS
  <2>3. item' = item
    BY <1>4
  <2>4. /\ pr'.in_fmt /\ pr'.field_width = Number(Cut(item.width, w))
        /\ (w > 0 => pr'.field_width > 0) /\ pr'.in_precision
        /\ pr'.enable_base_prefix <=> "#" \in ToSet(Cut(item.flags, f))
        /\ pr'.right_pad <=> "-" \in ToSet(Cut(item.flags, f))
        /\ pr'.zero_pad <=> "0" \in ToSet(Cut(item.flags, f))
    BY ONLY <1>1, <1>3, <2>1
  <2> HIDE DEF item
  <2> QED  BY ONLY <2>1, <2>2, <2>3, <2>4 DEF OptionsRead
<1>6. f \in 0 .. Len(item.flags) /\ w \in 0 .. Len(item.width) /\ p + 1 \in 0 .. Len(item.precision)
  BY <1>1
<1>7. f + w + (p + 1) = f + w + p + 1
  BY ONLY f \in Nat, w \in Nat, p \in Nat
<1> HIDE DEF c
<1> QED  BY <1>4, <1>5, <1>6, <1>7, OptionRead

(* When its conversion is read, the options of a directive have been.       *)
LEMMA AllOptionsRead ==
  ASSUME TypeOK, NEW item, IsConversion(item), Defined(item),
         OptionsRead(item, Len(item.flags), Len(item.width), Len(item.precision))
  PROVE  Options(item)
<1>1. /\ item.flags \in Seq({"#", "-", "0"}) /\ item.width \in Seq(Decimals)
      /\ item.precision \in Seq(Decimals \cup {"."})
  BY DEF IsConversion
<1>2. Cut(item.flags, Len(item.flags)) = item.flags /\ Cut(item.width, Len(item.width)) = item.width
  BY <1>1 DEF Cut
<1>3. /\ pr.enable_base_prefix \in BOOLEAN /\ pr.right_pad \in BOOLEAN /\ pr.zero_pad \in BOOLEAN
  BY OptionTypes
<1>4. /\ pr.enable_base_prefix <=> Flag(item, "#")
      /\ pr.right_pad <=> Flag(item, "-")
      /\ pr.zero_pad <=> Flag(item, "0")
  BY <1>2 DEF OptionsRead, Flag
<1>5. /\ pr.enable_base_prefix = Flag(item, "#") /\ pr.right_pad = Flag(item, "-")
      /\ pr.zero_pad = Flag(item, "0")
  <2>1. Flag(item, "#") \in BOOLEAN /\ Flag(item, "-") \in BOOLEAN /\ Flag(item, "0") \in BOOLEAN
    BY DEF Flag
  <2> QED  BY ONLY <1>3, <1>4, <2>1
<1>6. pr.field_width = Number(item.width)
  BY <1>2 DEF OptionsRead
<1>7. pr.precision = IF HasPrecision(item) THEN PrecisionOf(item) ELSE 1
  <2> DEFINE s == item.precision
             t == Tail(s)
             n == Len(s)
  <2>1. pr.precision = IF n = 0 THEN 1 ELSE Number(Cut(t, n - 1))
    BY DEF OptionsRead
  <2>2. (n = 0) <=> ~ HasPrecision(item)
    BY <1>1 DEF HasPrecision
  <2>3. CASE n = 0
    BY <2>1, <2>2, <2>3
  <2>4. CASE n # 0
    <3>1. HasPrecision(item) /\ t \in Seq(Decimals)
      BY <2>2, <2>4, DefinedDirective DEF HasPrecision
    <3>2. Len(t) = n - 1
      BY <1>1, <3>1 DEF HasPrecision
    <3>3. Cut(t, n - 1) = t
      <4> HIDE DEF t, n
      <4>1. Cut(t, Len(t)) = t
        BY <3>1 DEF Cut
      <4> QED  BY ONLY <3>2, <4>1
    <3> QED  BY <2>1, <2>4, <3>1, <3>3 DEF PrecisionOf
  <2> QED  BY <2>3, <2>4
<1> QED  BY <1>5, <1>6, <1>7 DEF Options

(* The argument of item k comes behind those of the items before.           *)
LEMMA FetchStep ==
  ASSUME TypeOK, NEW k \in DOMAIN format, Takes(format[k]), Fetched(k - 1),
         NEW v, Suits(format[k], v), taken' = Append(taken, v), UNCHANGED format
  PROVE  /\ taken'[Argument(k)] = v /\ Fetched(k)'
         /\ \A j \in 1 .. k - 1 : /\ Printed(j)' = Printed(j)
                                  /\ Takes(format[j]) =>
                                       taken'[Argument(j)] = taken[Argument(j)]
<1> DEFINE m == k - 1
           a == Argument(m)
<1>1. m \in Nat /\ m + 1 = k
  BY FormatType
<1>2. taken \in Seq(Word) /\ Len(taken) = a
  BY DEF TypeOK, Fetched
<1>3. v \in Word
  BY SuitsWord
<1>4. /\ Len(taken') = a + 1 /\ taken'[a + 1] = v
      /\ \A i \in 1 .. a : taken'[i] = taken[i]
  BY <1>2, <1>3
<1>5. Argument(k) = a + 1
  <2> HIDE DEF m
  <2>1. Argument(m + 1) = Argument(m) + 1
    BY <1>1, Arguments
  <2> QED  BY <1>1, <2>1
<1>6. \A j \in 1 .. m : Takes(format[j]) => Argument(j) \in 1 .. a
  <2> HIDE DEF m, a
  <2> SUFFICES ASSUME NEW j \in 1 .. m, Takes(format[j]) PROVE Argument(j) \in 1 .. a
    OBVIOUS
  <2>1. j \in 0 .. m
    BY <1>1
  <2>2. Argument(j) \in 0 .. a /\ Argument(j) > 0
    BY <1>1, <2>1, Arguments DEF a
  <2> QED  BY ONLY <2>2
<1>7. \A j \in 1 .. m : Takes(format[j]) => taken'[Argument(j)] = taken[Argument(j)]
  BY <1>4, <1>6
<1>8. \A j : Argument(j)' = Argument(j)
  BY DEF Argument
<1>9. ASSUME NEW j \in 1 .. m PROVE Printed(j)' = Printed(j)
  <2>1. CASE Takes(format[j])
    BY <1>7, <1>8, <2>1 DEF Printed
  <2>2. CASE ~ Takes(format[j])
    <3>1. j \in DOMAIN format
      BY <1>1, FormatType
    <3>2. format[j].kind = "text" \/ (format[j].kind = "directive" /\ format[j].conv = "%")
      BY <2>2, <3>1, FormatType, Items DEF Takes
    <3> QED  BY <3>2 DEF Printed
  <2> QED  BY <2>1, <2>2
<1>10. Fetched(k)'
  <2>1. Len(taken') = Argument(k)
    BY <1>4, <1>5
  <2>2. ASSUME NEW j \in 1 .. k, Takes(format[j])
        PROVE  taken'[Argument(j)] \in IF format[j].conv = "s" THEN DOMAIN StringAt ELSE Words
    <3>1. CASE j = k
      BY <1>4, <1>5, <3>1 DEF Suits
    <3>2. CASE j # k
      <4>1. j \in 1 .. m
        BY <1>1, <3>2
      <4> QED  BY <1>7, <2>2, <4>1 DEF Fetched
    <3> QED  BY <3>1, <3>2
  <2> QED  BY <1>8, <2>1, <2>2 DEF Fetched
<1> HIDE DEF a
<1>11. taken'[Argument(k)] = v
  BY <1>4, <1>5
<1> QED  BY <1>7, <1>9, <1>10, <1>11

LEMMA ConversionStep ==
  ASSUME PrintfInv, Tame, NEW k, NEW f \in Nat, NEW w \in Nat, NEW p \in Nat,
         InDirective(k, f, w, p), f = Len(format[k].flags), w = Len(format[k].width),
         p = Len(format[k].precision), format[k].conv # "%", Next
  PROVE  Between(k)'
<1> DEFINE item == format[k]
           c == Text[at]
<1>1. /\ TypeOK /\ IsConversion(item) /\ Defined(item) /\ pr.in_fmt /\ at <= Len(Text)
      /\ c = item.conv /\ at = Len(Before(k - 1)) + Len(SpellItem(item))
  BY DirectiveCharacter DEF DirectiveAt
<1>2. /\ k \in DOMAIN format /\ k \in Nat \ {0} /\ k \in 0 .. Len(format)
      /\ k - 1 \in 0 .. Len(format) /\ Takes(item) /\ Convertible(item)
  <2>1. k \in DOMAIN format
    BY DEF InDirective, IsDirective
  <2> QED  BY <1>1, <2>1, FormatType, DefinedDirective
<1>3. Options(item)
  <2>1. OptionsRead(item, Len(item.flags), Len(item.width), Len(item.precision))
    BY DEF InDirective
  <2> QED  BY <1>1, <2>1, AllOptionsRead
<1>4. Fetched(k - 1) /\ ~ Escaped(k - 1) /\ (Alike(k - 1) => Stream(Buffered) = Out(k - 1))
  BY DEF InDirective
<1>5. PICK v : Conversion(item, v)
  <2>1. item.conv \in {"d", "x", "s", "p"}
    BY <1>2 DEF Convertible
  <2>2. CASE item.conv = "d"
    <3>1. \E v \in Words : Decimal(v)
      BY <1>1, <2>2, Dispatch
    <3> QED  BY <2>2, <3>1 DEF Conversion
  <2>3. CASE item.conv = "x"
    <3>1. \E v \in Words : Hexadecimal(v)
      BY <1>1, <2>3, Dispatch
    <3> QED  BY <2>3, <3>1 DEF Conversion
  <2>4. CASE item.conv = "p"
    <3>1. \E v \in Words : Pointer(v)
      BY <1>1, <2>4, Dispatch
    <3> QED  BY <2>4, <3>1 DEF Conversion
  <2>5. CASE item.conv = "s"
    <3>1. \E v \in DOMAIN StringAt : String(v)
      BY <1>1, <2>5, Dispatch
    <3> QED  BY <2>5, <3>1 DEF Conversion
  <2> QED  BY <2>1, <2>2, <2>3, <2>4, <2>5
<1>6. Suits(item, v)
  BY <1>5 DEF Conversion, Suits
<1>7. /\ at' = at + 1 /\ UNCHANGED format /\ taken' = Append(taken, v)
      /\ pr' = [pr EXCEPT !.in_fmt = FALSE]
  <2>1. CASE Decimal(v)
    BY <2>1 DEF Decimal, Reads, Convert
  <2>2. CASE Hexadecimal(v)
    BY <2>2 DEF Hexadecimal, Reads, Convert
  <2>3. CASE Pointer(v)
    BY <2>3 DEF Pointer, Reads, Convert
  <2>4. CASE String(v)
    BY <2>4 DEF String, Reads, Convert
  <2> QED  BY <1>5, <2>1, <2>2, <2>3, <2>4 DEF Conversion
<1>8. /\ taken'[Argument(k)] = v /\ Fetched(k)'
      /\ \A j \in 1 .. k - 1 : /\ Printed(j)' = Printed(j)
                               /\ Takes(format[j]) => taken'[Argument(j)] = taken[Argument(j)]
  BY <1>1, <1>2, <1>4, <1>6, <1>7, FetchStep
<1>9. \A j : Argument(j)' = Argument(j)
  BY <1>7 DEF Argument
<1>10. (at = Len(Before(k)) + 1)'
  <2>1. Len(Before(k)) = Len(Before(k - 1)) + Len(SpellItem(item))
    BY <1>1, <1>2, Places DEF InsideText
  <2>2. Before(k)' = Before(k)
    BY <1>7, FormatStays
  <2> QED  BY ONLY <1>1, <1>7, <2>1, <2>2
<1>11. (pr.in_fmt <=> Escaped(k))'
  <2>1. ~ IsPercent(k)
    BY DEF IsPercent
  <2>2. ~ Escaped(k)
    BY ONLY <1>2, <1>4, <2>1, EscapedNext
  <2>3. Escaped(k)' \in BOOLEAN /\ (Escaped(k)' <=> Escaped(k))
    <3>1. Escaped(k)' <=> Escaped(k)
      BY <1>7, FormatStays
    <3>2. Escaped(k)' \in BOOLEAN
      BY DEF Escaped
    <3> QED  BY ONLY <3>1, <3>2
  <2>4. pr'.in_fmt = FALSE
    BY <1>1, <1>7 DEF TypeOK
  <2> QED  BY ONLY <2>2, <2>3, <2>4
<1>12. ASSUME Alike(k)' PROVE Stream(Buffered)' = Out(k)'
  <2> DEFINE s == [j \in 1 .. k |-> Printed(j)']
             field == Field(item, v)
             a == Len(Out(k - 1))
             n == Len(field)
             b == Len(Body(item, v))
  <2>1. Out(k)' = FlattenSeq(s) /\ s = [j \in 1 .. k |-> s[j]]
    BY DEF Out
  <2>2. s[k] = field
    <3>1. Printed(k)' = field
      BY <1>2, <1>7, <1>8, <1>9 DEF Printed, Takes
    <3> QED  BY <1>2, <3>1
  <2>3. \A j \in 1 .. k - 1 : s[j] = Printed(j) /\ IsSeq(s[j])
    <3>1. \A j \in 1 .. k - 1 : j \in 1 .. k /\ IsSeq(Printed(j))
      BY <1>1, <1>2, <1>4, PrintedSeq
    <3> QED  BY <1>8, <3>1
  <2>4. IsSeq(field) /\ b \in Nat /\ b <= n
    BY <1>1, <1>6, FieldsSeq
  <2>5. FlattenSeq(Cut(s, k - 1)) = Out(k - 1)
    <3> HIDE DEF s
    <3>1. Cut(s, k - 1) = [j \in 1 .. k - 1 |-> Printed(j)]
      BY <2>3 DEF Cut
    <3> QED  BY <3>1 DEF Out
  <2>6. \A j \in 1 .. k : IsSeq(s[j])
    <3>1. \A j \in 1 .. k : j = k \/ j \in 1 .. k - 1
      BY <1>2
    <3> HIDE DEF s, field
    <3> QED  BY ONLY <2>2, <2>3, <2>4, <3>1
  <2> HIDE DEF s, field
  <2>7. Out(k)' = Out(k - 1) \o field /\ Len(Out(k)') = a + n /\ a \in Nat /\ n \in Nat
    BY ONLY <1>2, <2>1, <2>2, <2>5, <2>6, FlattenOneMore
  <2>8. Len(Out(k)') \in Word
    BY <1>12 DEF Alike
  <2>9. a \in Word /\ b < SizeRange
    <3> HIDE DEF a, b, n
    <3>1. a + n \in 0 .. SizeRange - 1 /\ SizeRange \in Nat
      BY ONLY <2>7, <2>8, RangeAssumption DEF Word
    <3>2. a \in 0 .. SizeRange - 1 /\ b < SizeRange
      BY ONLY <2>4, <2>7, <3>1
    <3> QED  BY ONLY <3>2 DEF Word
  <2>10. \A j \in 1 .. k : Takes(format[j]) => DirectiveAgrees(format[j], taken'[Argument(j)])
    BY <1>7, <1>9, <1>12 DEF Alike
  <2>11. Alike(k - 1)
    <3>1. \A j \in 1 .. k - 1 : j \in 1 .. k
      BY <1>2
    <3> QED  BY <1>8, <2>9, <2>10, <3>1 DEF Alike
  <2>12. DirectiveAgrees(item, v)
    <3>1. k \in 1 .. k
      BY <1>2
    <3> QED  BY <1>2, <1>8, <2>10, <3>1
  <2>13. Stream(Buffered)' = Stream(Buffered) \o field
    BY <1>2, <1>3, <1>5, <2>9, <2>12, ConversionAgreesWithC DEF field
  <2> QED  BY ONLY <1>4, <2>7, <2>11, <2>13
<1>13. (k \in 0 .. Len(format))'
  BY <1>2, <1>7
<1> QED  BY ONLY <1>8, <1>10, <1>11, <1>12, <1>13 DEF Between

(* The second "%" of a "%%", and what follows it, is printed.               *)
LEMMA LiteralStep ==
  ASSUME PrintfInv, Tame, NEW k, NEW f \in Nat, NEW w \in Nat, NEW p \in Nat,
         InDirective(k, f, w, p), f = Len(format[k].flags), w = Len(format[k].width),
         p = Len(format[k].precision), format[k].conv = "%", Next
  PROVE  Between(k)'
<1> DEFINE item == format[k]
           c == Text[at]
<1>1. /\ TypeOK /\ IsConversion(item) /\ Defined(item) /\ pr.in_fmt /\ at <= Len(Text)
      /\ c = item.conv /\ at = Len(Before(k - 1)) + Len(SpellItem(item))
  BY DirectiveCharacter DEF DirectiveAt
<1>2. /\ k \in DOMAIN format /\ k \in Nat \ {0} /\ k \in 0 .. Len(format) /\ IsPercent(k)
      /\ ~ Takes(item) /\ Printed(k) = <<"%">>
  <2>1. k \in DOMAIN format /\ IsPercent(k)
    BY DEF InDirective, IsPercent, IsDirective
  <2> QED  BY <1>1, <2>1, FormatType DEF Takes, Printed, IsConversion
<1>3. Fetched(k - 1) /\ (Alike(k - 1) => Stream(Buffered) = Out(k - 1))
  BY DEF InDirective
<1>4. c = "%" /\ c \notin Special
  BY <1>1, DecimalCharacters DEF Special
<1>5. Other
  BY <1>1, <1>4, Dispatch
<1>6. /\ Push(<<"%">>) /\ at' = at + 1 /\ UNCHANGED <<format, pr, taken>>
  BY <1>4, <1>5 DEF Other, Reads
<1>7. Stream(Buffered)' = Stream(Buffered) \o <<"%">>
  BY <1>6, PushStep, Singleton DEF PrintfInv
<1>8. Unmoved(k)
  BY <1>6, NothingFetched
<1>9. Fetched(k) /\ (Alike(k) => Alike(k - 1)) /\ Out(k) = Out(k - 1) \o <<"%">>
  BY <1>1, <1>2, <1>3, Untaken
<1>10. (at = Len(Before(k)) + 1)'
  <2>1. Len(Before(k)) = Len(Before(k - 1)) + Len(SpellItem(item))
    BY <1>1, <1>2, Places DEF InsideText
  <2>2. Before(k)' = Before(k)
    BY <1>8 DEF Unmoved
  <2> QED  BY ONLY <1>1, <1>6, <2>1, <2>2
<1>11. (pr.in_fmt <=> Escaped(k))'
  <2>1. Escaped(k)
    BY ONLY <1>2, EscapedNext
  <2>2. Escaped(k)' \in BOOLEAN /\ (Escaped(k)' <=> Escaped(k))
    <3>1. Escaped(k)' <=> Escaped(k)
      BY <1>8 DEF Unmoved
    <3>2. Escaped(k)' \in BOOLEAN
      BY DEF Escaped
    <3> QED  BY ONLY <3>1, <3>2
  <2>3. pr'.in_fmt = TRUE
    BY <1>1, <1>6 DEF TypeOK
  <2> QED  BY ONLY <2>1, <2>2, <2>3
<1>12. Fetched(k)' /\ (Alike(k)' => Stream(Buffered)' = Out(k)')
  BY ONLY <1>3, <1>7, <1>8, <1>9 DEF Unmoved
<1>13. (k \in 0 .. Len(format))'
  BY <1>2, <1>6
<1> QED  BY ONLY <1>10, <1>11, <1>12, <1>13 DEF Between

(* The formatter stays where its format says.                               *)
LEMMA LocatedStep ==
  ASSUME PrintfInv, Tame, Located, Next, ~ Return
  PROVE  Located'
<1>1. TypeOK
  BY DEF PrintfInv
<1>2. format' = format
  BY DEF Next, PlainChar, Percent, Hash, Minus, Dot, Digit, Decimal, Hexadecimal, Pointer,
         String, Other, Option, Reads
<1>3. at <= Len(Text)
  BY DEF Next, PlainChar, Percent, Hash, Minus, Dot, Digit, Decimal, Hexadecimal, Pointer,
         String, Other, Option, Reads
<1>4. CASE Between(Len(format))
  <2>1. at = Len(Text) + 1 /\ Len(Text) \in Nat
    BY <1>1, <1>4, Places, Lengths DEF Between
  <2> QED  BY <1>3, <2>1
<1>5. ASSUME NEW k \in DOMAIN format, IsDirective(k), Between(k - 1) PROVE Located'
  <2>1. InDirective(k, 0, 0, 0)'
    BY <1>5, PercentStep
  <2>2. k \in DOMAIN format'
    BY <1>2
  <2> QED  BY ONLY <2>1, <2>2, 0 \in Nat DEF Located
<1>6. ASSUME NEW k \in DOMAIN format, NEW i \in Nat, InText(k, i), i < Len(format[k].text)
      PROVE  Located'
  <2>1. InText(k, i + 1)'
    BY <1>6, TextStep
  <2>2. k \in DOMAIN format' /\ i + 1 \in Nat
    BY <1>2
  <2> QED  BY ONLY <2>1, <2>2 DEF Located
<1>7. ASSUME NEW k \in DOMAIN format, NEW f \in Nat, NEW w \in Nat, NEW p \in Nat,
             InDirective(k, f, w, p)
      PROVE  Located'
  <2> DEFINE a == Len(format[k].flags)
             b == Len(format[k].width)
             d == Len(format[k].precision)
  <2>1. /\ f <= a /\ w <= b /\ p <= d /\ a \in Nat /\ b \in Nat /\ d \in Nat
    BY <1>7, DirectiveCharacter DEF InDirective, DirectiveAt
  <2>2. k \in DOMAIN format' /\ f + 1 \in Nat /\ w + 1 \in Nat /\ p + 1 \in Nat
    BY <1>2
  <2>3. CASE f < a
    <3>1. InDirective(k, f + 1, w, p)'
      BY <1>7, <2>3, FlagStep
    <3> QED  BY ONLY <2>2, <3>1, w \in Nat, p \in Nat DEF Located
  <2>4. CASE f = a /\ w < b
    <3>1. InDirective(k, f, w + 1, p)'
      BY <1>7, <2>4, WidthStep
    <3> QED  BY ONLY <2>2, <3>1, f \in Nat, p \in Nat DEF Located
  <2>5. CASE f = a /\ w = b /\ p < d
    <3>1. InDirective(k, f, w, p + 1)'
      BY <1>7, <2>5, PrecisionStep
    <3> QED  BY ONLY <2>2, <3>1, f \in Nat, w \in Nat DEF Located
  <2>6. CASE f = a /\ w = b /\ p = d
    <3>1. Between(k)'
      BY <1>7, <2>6, ConversionStep, LiteralStep
    <3>2. (k \in 0 .. Len(format))'
      BY ONLY <3>1 DEF Between
    <3> QED  BY ONLY <3>1, <3>2 DEF Located
  <2> HIDE DEF a, b, d
  <2>7. \/ f < a \/ (f = a /\ w < b) \/ (f = a /\ w = b /\ p < d) \/ (f = a /\ w = b /\ p = d)
    BY ONLY <2>1, f \in Nat, w \in Nat, p \in Nat
  <2> QED  BY <2>3, <2>4, <2>5, <2>6, <2>7
<1> QED  BY <1>1, <1>4, <1>5, <1>6, <1>7, NextCharacter

(* What has been printed when generic_printf returns.                       *)
LEMMA ReturnStep ==
  ASSUME PrintfInv, Tame, Located, Return
  PROVE  (at = Len(Text) + 1)' /\ AgreesWithC' /\ FetchesWhatIsPassed'
<1> DEFINE n == Len(format)
<1>1. TypeOK /\ at = Len(Text) + 1 /\ n \in Nat /\ Len(Text) \in Nat /\ DOMAIN format = 1 .. n
  BY FormatType, Places, Lengths DEF PrintfInv, Return
<1>2. Between(n)
  <2>1. ASSUME NEW k \in DOMAIN format, Between(k - 1), IsDirective(k) PROVE FALSE
    <3> DEFINE u == SpellItem(format[k])
               a == Len(u)
               s == Len(Before(k - 1))
               d == Len(Text)
    <3>1. IsConversion(format[k])
      BY <1>1, <2>1, FormatType, Items DEF IsDirective
    <3>2. Spelled(u, format[k])
      BY <3>1, DirectiveSpelled
    <3>3. 1 \in 1 .. a /\ a \in Nat
      BY <3>2, SpelledPlaces
    <3>4. at = s + 1 /\ s \in Nat
      BY <1>1, <2>1, Places DEF Between, InsideText
    <3>5. at <= d
      BY <1>1, <3>3, <3>4, Character
    <3> HIDE DEF d
    <3>6. at = d + 1 /\ d \in Nat
      BY <1>1 DEF d
    <3> QED  BY ONLY <3>5, <3>6
  <2>2. ASSUME NEW k \in DOMAIN format, NEW i \in Nat, InText(k, i), i < Len(format[k].text)
        PROVE  FALSE
    <3>1. SpellItem(format[k]) = format[k].text /\ format[k].text \in Seq(STRING)
      BY <1>1, <2>2, FormatType, Items DEF InText, IsText, SpellItem
    <3>2. i + 1 \in 1 .. Len(SpellItem(format[k]))
      BY <2>2, <3>1
    <3>3. at = Len(Before(k - 1)) + (i + 1)
      <4> DEFINE s == Len(Before(k - 1))
      <4>1. s \in Nat /\ at = s + i + 1
        BY <1>1, <2>2, Places DEF InText, InsideText
      <4> HIDE DEF s
      <4>2. at = s + (i + 1)
        BY ONLY <4>1, i \in Nat
      <4> QED  BY <4>2 DEF s
    <3>4. at <= Len(Text)
      BY <1>1, <3>2, <3>3, Character
    <3> QED  BY ONLY <1>1, <3>4
  <2>3. ASSUME NEW k \in DOMAIN format, NEW f \in Nat, NEW w \in Nat, NEW p \in Nat,
               InDirective(k, f, w, p)
        PROVE  FALSE
    <3>1. at <= Len(Text)
      BY <2>3, DirectiveCharacter DEF DirectiveAt
    <3> QED  BY ONLY <1>1, <3>1
  <2> QED  BY <1>1, <2>1, <2>2, <2>3, NextCharacter
<1>3. sent' = Stream(Buffered) /\ written' = Wrap(Len(sent'))
  BY ReturnSendsAll
<1>4. UNCHANGED <<format, at, taken>>
  BY DEF Return
<1>5. Fetched(n) /\ (Alike(n) => Stream(Buffered) = Out(n))
  BY <1>2 DEF Between
<1>6. ISO' = ISO /\ Text' = Text
  <2>1. \A j : Argument(j)' = Argument(j)
    BY <1>4 DEF Argument
  <2>2. \A j : Printed(j)' = Printed(j)
    BY <1>4, <2>1 DEF Printed
  <2> QED  BY <1>4, <2>2 DEF ISO, Text
<1>7. ISO = Out(n)
  BY <1>1 DEF ISO, Out
<1>8. ASSUME \A k \in DOMAIN format : Agrees(k)', Len(ISO) \in Word
      PROVE  sent' = ISO /\ written' = Len(sent')
  <2>1. \A j : Argument(j)' = Argument(j)
    BY <1>4 DEF Argument
  <2>2. ASSUME NEW j \in 1 .. n, Takes(format[j])
        PROVE  DirectiveAgrees(format[j], taken[Argument(j)])
    <3>1. Agrees(j)' /\ format[j].kind = "directive" /\ format[j].conv # "%"
      BY <1>1, <1>8, <2>2 DEF Takes
    <3> QED  BY <1>4, <2>1, <3>1 DEF Agrees
  <2>3. Alike(n)
    BY <1>7, <1>8, <2>2 DEF Alike
  <2>4. sent' = ISO
    BY <1>3, <1>5, <1>7, <2>3
  <2>5. written' = Len(sent')
    BY <1>3, <1>8, <2>4, WrapWord
  <2> QED  BY <2>4, <2>5
<1>9. AgreesWithC'
  BY <1>4, <1>6, <1>8 DEF AgreesWithC
<1>10. FetchesWhatIsPassed'
  <2>1. Len(taken) <= Argument(n)
    BY <1>1, <1>5, Arguments DEF Fetched
  <2>2. (Argument(n) = Argument(n)')
    BY <1>4 DEF Argument
  <2> QED  BY <1>4, <2>1, <2>2 DEF FetchesWhatIsPassed
<1> QED  BY <1>1, <1>4, <1>6, <1>9, <1>10

LEMMA FormatInit ==
  ASSUME Init
  PROVE  FormatInv
<1>1. PrintfInv
  BY PrintfInit
<1>2. ASSUME Tame PROVE Between(0)
  <2>1. TypeOK /\ Len(format) \in Nat
    BY <1>1, FormatType DEF PrintfInv
  <2>2. at = Len(Before(0)) + 1
    BY <2>1, Places, Empty DEF Init
  <2>3. pr.in_fmt = FALSE /\ Escaped(0) = FALSE
    BY DEF Init, Escaped
  <2>4. Fetched(0)
    <3>1. Len(taken) = 0 /\ Argument(0) = 0
      BY Arguments DEF Init
    <3> QED  BY <3>1 DEF Fetched
  <2>5. Stream(Buffered) = Out(0)
    <3>1. buf = <<>> /\ sent = <<>> /\ Stream(Buffered) = sent \o buf
      BY DEF Init, Stream, Buffered
    <3> QED  BY <3>1, OutNothing, Empty, EmptyFront
  <2>6. (pr.in_fmt <=> Escaped(0)) /\ 0 \in 0 .. Len(format)
    BY ONLY <2>1, <2>3
  <2> QED  BY ONLY <2>2, <2>4, <2>5, <2>6 DEF Between
<1>3. Tame => Located
  <2> HAVE Tame
  <2>1. Between(0) /\ 0 \in 0 .. Len(format)
    BY <1>2 DEF Between
  <2> QED  BY <2>1 DEF Located
<1>4. ~ done
  BY DEF Init
<1> QED  BY <1>1, <1>3, <1>4 DEF FormatInv

LEMMA StandsStill ==
  ASSUME Located, UNCHANGED <<format, at, pr, buf, sent, written, taken>>
  PROVE  Located'
<1>1. \A k : Unmoved(k)
  BY NothingFetched
<1>2. Buffered' = Buffered
  BY DEF Buffered
<1>3. ASSUME NEW k, Between(k) PROVE Between(k)'
  <2>1. Unmoved(k)
    BY <1>1
  <2> QED  BY <1>2, <1>3, <2>1 DEF Between, Unmoved
<1>4. ASSUME NEW k, NEW i, InText(k, i) PROVE InText(k, i)'
  <2>1. Unmoved(k - 1)
    BY <1>1
  <2> QED  BY <1>2, <1>4, <2>1 DEF InText, IsText, Unmoved
<1>5. ASSUME NEW k, NEW f, NEW w, NEW p, InDirective(k, f, w, p) PROVE InDirective(k, f, w, p)'
  <2>1. Unmoved(k - 1)
    BY <1>1
  <2>2. OptionsRead(format[k], f, w, p)'
    BY <1>5 DEF InDirective, OptionsRead
  <2> QED  BY <1>2, <1>5, <2>1, <2>2 DEF InDirective, IsDirective, Unmoved
<1> QED  BY <1>3, <1>4, <1>5 DEF Located

(* The invariant is inductive. *)
LEMMA FormatStep == FormatInv /\ [Next]_vars => FormatInv'
<1> SUFFICES ASSUME FormatInv, [Next]_vars PROVE FormatInv'
  OBVIOUS
<1>1. PrintfInv /\ PrintfInv' /\ TypeOK
  BY PrintfStep DEF FormatInv, PrintfInv
<1>2. CASE UNCHANGED vars
  <2>1. UNCHANGED <<format, at, pr, buf, sent, written, taken, done>>
    BY <1>2 DEF vars
  <2>2. /\ Text' = Text /\ AgreesWithC' = AgreesWithC
        /\ FetchesWhatIsPassed' = FetchesWhatIsPassed
    BY <2>1 DEF AgreesWithC, FetchesWhatIsPassed, Agrees, ISO, Printed, Argument, Text
  <2>3. ASSUME Tame' PROVE Tame
    BY <2>1, <2>3, TameStays
  <2>4. ASSUME Located PROVE Located'
    BY <2>1, <2>4, StandsStill
  <2> QED  BY <1>1, <2>1, <2>2, <2>3, <2>4 DEF FormatInv
<1>3. CASE Next
  <2> SUFFICES ASSUME Tame'
               PROVE  IF done' THEN (at = Len(Text) + 1)' /\ AgreesWithC' /\ FetchesWhatIsPassed'
                               ELSE Located'
    BY <1>1 DEF FormatInv
  <2>1. format' = format
    BY <1>3 DEF Next, PlainChar, Percent, Hash, Minus, Dot, Digit, Decimal, Hexadecimal, Pointer,
         String, Other, Option, Reads, Return
  <2>2. Tame
    BY <2>1, TameStays
  <2>3. CASE done
    <3>1. at = Len(Text) + 1 /\ Len(Text) \in Nat
      BY <1>1, <2>2, <2>3, Places, Lengths DEF FormatInv
    <3>2. at <= Len(Text)
      BY <1>3, <2>3 DEF Next, PlainChar, Percent, Hash, Minus, Dot, Digit, Decimal, Hexadecimal,
         Pointer, String, Other, Option, Reads, Return
    <3> QED  BY ONLY <3>1, <3>2
  <2>4. CASE ~done
    <3>1. Located
      BY <2>2, <2>4 DEF FormatInv
    <3>2. CASE Return
      <4>1. done' = TRUE
        BY <3>2 DEF Return
      <4> QED  BY <1>1, <2>2, <3>1, <3>2, <4>1, ReturnStep
    <3>3. CASE ~ Return
      <4>1. done' = done
        BY <1>3, <3>3 DEF Next, PlainChar, Percent, Hash, Minus, Dot, Digit, Decimal, Hexadecimal,
         Pointer, String, Other, Option, Reads
      <4> QED  BY <1>1, <1>3, <2>2, <2>4, <3>1, <3>3, <4>1, LocatedStep
    <3> QED  BY <3>2, <3>3
  <2> QED  BY <2>3, <2>4
<1> QED  BY <1>2, <1>3

(* For every format that C defines, every buffer and every width of a word: *)
(* generic_printf prints what ISO C says and returns its length, if each    *)
(* directive of the format is one that Agrees with the standard and a       *)
(* size_t can count what is printed (printf.c:65-118, 168-288).             *)
THEOREM PrintfAgreesWithC ==
  ASSUME DefinedFormats
  PROVE  Spec => []AgreesWithC
<1>1. FormatInv => AgreesWithC
  <2> SUFFICES ASSUME FormatInv, done, \A k \in DOMAIN format : Agrees(k), Len(ISO) \in Word
               PROVE  sent = ISO /\ written = Len(sent)
    BY DEF AgreesWithC
  <2>1. Tame
    <3>1. \A k \in DOMAIN format : Defined(format[k])
      BY DEF DefinedFormats, FormatInv, PrintfInv, TypeOK
    <3> QED  BY <3>1 DEF Tame
  <2> QED  BY <2>1 DEF FormatInv, AgreesWithC
<1> QED  BY <1>1, FormatInit, FormatStep, PTL DEF Spec

(* Between two items and inside of one, no more arguments have been fetched *)
(* than the items take.                                                     *)
LEMMA LocatedFetches ==
  ASSUME TypeOK, Located
  PROVE  FetchesWhatIsPassed
<1> DEFINE n == Len(format)
<1>1. n \in Nat /\ DOMAIN format = 1 .. n
  BY FormatType
<1>2. ASSUME NEW k \in 0 .. n, Fetched(k) PROVE FetchesWhatIsPassed
  <2>1. Argument(k) \in 0 .. Argument(n) /\ Argument(n) \in Nat
    BY <1>1, Arguments
  <2>2. Len(taken) = Argument(k)
    BY <1>2 DEF Fetched
  <2> QED  BY ONLY <2>1, <2>2 DEF FetchesWhatIsPassed
<1>3. \A k \in DOMAIN format : k - 1 \in 0 .. n
  BY <1>1
<1>4. \E k \in 0 .. n : Fetched(k)
  BY <1>3 DEF Located, Between, InText, InDirective
<1> QED  BY <1>2, <1>4

(* A format whose directives have the conversions d, x, p, s and % fetches  *)
(* no more arguments than it has directives that take one, if nothing that  *)
(* could belong to a directive follows a "%%": of these, only the directive *)
(* that the "%%" leaves open reads arguments that nobody passed             *)
(* (printf.c:258-283).                                                      *)
THEOREM FetchesOnlyAfterPercent ==
  ASSUME DefinedFormats
  PROVE  Spec => []OnlyPercentFetchesMore
<1>1. FormatInv => OnlyPercentFetchesMore
  <2> SUFFICES ASSUME FormatInv, \A k \in DOMAIN format : IsPercent(k) => Agrees(k)
               PROVE  FetchesWhatIsPassed
    BY DEF OnlyPercentFetchesMore, IsPercent, IsDirective
  <2>1. Tame /\ TypeOK
    <3>1. TypeOK /\ \A k \in DOMAIN format : Defined(format[k])
      BY DEF DefinedFormats, FormatInv, PrintfInv, TypeOK
    <3> QED  BY <3>1 DEF Tame
  <2> QED  BY <2>1, LocatedFetches DEF FormatInv
<1> QED  BY <1>1, FormatInit, FormatStep, PTL DEF Spec
=============================================================================
