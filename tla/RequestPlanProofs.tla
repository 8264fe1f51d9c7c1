------------------------- MODULE RequestPlanProofs -------------------------
(***************************************************************************)
(* Every task's requests, whatever its blocks, the widths of its rows and   *)
(* the ceilings.  What the loop of _write_in_chunks holds is proved by      *)
(* induction on the pieces it has been given.                               *)
(***************************************************************************)
EXTENDS PlannedTask, SequenceProofs

-----------------------------------------------------------------------------
(* Flattened sequences, element by element. *)

LEMMA FlattenAccumulates ==
  ASSUME NEW seqs, Len(seqs) \in Nat \ {0}
  PROVE  \E part : Accumulates(part, seqs, Len(seqs)) /\ FlattenSeq(seqs) = part[Len(seqs)]
<1> DEFINE n == Len(seqs)
           flatten == CHOOSE f : FlattensUpTo(f, seqs, n)
<1>1. FlattensUpTo(flatten, seqs, n)
  BY FlattensExists
<1>2. FlattenSeq(seqs) = flatten[n]
  BY DEF FlattenSeq, FlattensUpTo
<1> HIDE DEF flatten, n
<1>3. Accumulates(flatten, seqs, n)
  <2>1. n \in Nat \ {0} /\ 1 \in 1..n
    BY DEF n
  <2>2. flatten[1] = seqs[1]
    BY <1>1, <2>1 DEF FlattensUpTo
  <2>3. ASSUME NEW i \in 2..n PROVE flatten[i] = flatten[i - 1] \o seqs[i]
    <3>1. i \in 1..n /\ i # 1
      BY <2>1
    <3>. QED
      BY <1>1, <3>1 DEF FlattensUpTo
  <2>. QED
    BY <2>2, <2>3 DEF Accumulates
<1>. QED
  BY <1>2, <1>3 DEF n

LEMMA FlattenEmpty == FlattenSeq(<<>>) = <<>>
<1>1. Len(<<>>) = 0
  OBVIOUS
<1>. QED
  BY <1>1 DEF FlattenSeq

LEMMA FlattenOne ==
  ASSUME NEW R, NEW x \in Seq(R)
  PROVE  FlattenSeq(<<x>>) = x
<1>1. Len(<<x>>) = 1 /\ <<x>>[1] = x
  OBVIOUS
<1> DEFINE one == <<x>>
<1> HIDE DEF one
<1>2. Accumulates(one, one, 1)
  BY DEF Accumulates
<1>3. FlattenSeq(one) = one[1]
  <2>1. 1 \in Nat \ {0} /\ Len(one) = 1
    BY <1>1 DEF one
  <2>. QED
    BY <1>2, <2>1, FlattenIs
<1>. QED
  BY <1>1, <1>3 DEF one

LEMMA FlattenAppend ==
  ASSUME NEW R, NEW seqs \in Seq(Seq(R)), NEW x \in Seq(R)
  PROVE  FlattenSeq(Append(seqs, x)) = FlattenSeq(seqs) \o x
<1>1. CASE seqs = <<>>
  <2>1. Append(seqs, x) = <<x>>
    BY <1>1
  <2>2. FlattenSeq(seqs) = <<>>
    BY <1>1, FlattenEmpty
  <2>3. <<>> \o x = x
    BY ConcatEmptySeq
  <2>. QED
    BY <2>1, <2>2, <2>3, FlattenOne
<1>2. CASE seqs # <<>>
  <2> DEFINE n == Len(seqs)
             more == Append(seqs, x)
  <2>1. /\ n \in Nat \ {0} /\ Len(more) = n + 1 /\ more[n + 1] = x
        /\ \A i \in 1..n : more[i] = seqs[i]
    BY <1>2, EmptySeq
  <2>2. PICK part : Accumulates(part, seqs, n) /\ FlattenSeq(seqs) = part[n]
    BY <2>1, FlattenAccumulates
  <2> HIDE DEF n, more
  <2> DEFINE longer == [i \in 1..(n + 1) |-> IF i = n + 1 THEN part[n] \o x ELSE part[i]]
  <2>3. longer[n + 1] = part[n] \o x /\ \A i \in 1..n : longer[i] = part[i]
    BY <2>1
  <2> HIDE DEF longer
  <2>4. Accumulates(longer, more, n + 1)
    <3>1. longer[1] = more[1]
      BY <2>1, <2>2, <2>3 DEF Accumulates
    <3>2. ASSUME NEW i \in 2..(n + 1) PROVE longer[i] = longer[i - 1] \o more[i]
      <4>1. CASE i = n + 1
        <5>1. i - 1 = n /\ n \in 1..n
          BY <2>1, <4>1
        <5>. QED
          BY <2>1, <2>3, <4>1, <5>1
      <4>2. CASE i # n + 1
        <5>1. i \in 2..n /\ i \in 1..n /\ i - 1 \in 1..n
          BY <2>1, <4>2
        <5>2. part[i] = part[i - 1] \o seqs[i]
          BY <2>2, <5>1 DEF Accumulates
        <5>. QED
          BY <2>1, <2>3, <5>1, <5>2
      <4>. QED
        BY <4>1, <4>2
    <3>. QED
      BY <3>1, <3>2 DEF Accumulates
  <2>5. FlattenSeq(more) = longer[n + 1]
    <3>1. n + 1 \in Nat \ {0}
      BY <2>1
    <3>. QED
      BY <2>1, <2>4, <3>1, FlattenIs
  <2>. QED
    BY <2>2, <2>3, <2>5 DEF more
<1>. QED
  BY <1>1, <1>2

LEMMA FlattenType ==
  ASSUME NEW R, NEW seqs \in Seq(Seq(R))
  PROVE  FlattenSeq(seqs) \in Seq(R)
<1> DEFINE P == {s \in Seq(Seq(R)) : FlattenSeq(s) \in Seq(R)}
<1>1. <<>> \in P
  <2>1. <<>> \in Seq(R) /\ <<>> \in Seq(Seq(R))
    BY EmptySeq
  <2>. QED
    BY <2>1, FlattenEmpty
<1>2. ASSUME NEW s \in Seq(Seq(R)), NEW x \in Seq(R), s \in P
      PROVE  Append(s, x) \in P
  <2>1. FlattenSeq(Append(s, x)) = FlattenSeq(s) \o x
    BY FlattenAppend
  <2>2. FlattenSeq(s) \o x \in Seq(R) /\ Append(s, x) \in Seq(Seq(R))
    BY <1>2
  <2>. QED
    BY <2>1, <2>2
<1> HIDE DEF P
<1>3. Seq(Seq(R)) \subseteq P
  BY <1>1, <1>2, SeqInduction
<1>. QED
  BY <1>3 DEF P

(* Flattening distributes over concatenation.                               *)
LEMMA FlattenConcat ==
  ASSUME NEW R
  PROVE  \A s, t \in Seq(Seq(R)) : FlattenSeq(s \o t) = FlattenSeq(s) \o FlattenSeq(t)
<1>0. \A x, y, z \in Seq(R) : (x \o y) \o z = x \o (y \o z)
  BY Associative
<1> TAKE s \in Seq(Seq(R))
<1> DEFINE P == {t \in Seq(Seq(R)) : FlattenSeq(s \o t) = FlattenSeq(s) \o FlattenSeq(t)}
<1>1. <<>> \in P
  <2>1. s \o <<>> = s
    BY ConcatEmptySeq
  <2>2. FlattenSeq(s) \o <<>> = FlattenSeq(s)
    BY FlattenType, ConcatEmptySeq
  <2>3. <<>> \in Seq(Seq(R))
    BY EmptySeq
  <2>. QED
    BY <2>1, <2>2, <2>3, FlattenEmpty
<1>2. ASSUME NEW t \in Seq(Seq(R)), NEW x \in Seq(R), t \in P
      PROVE  Append(t, x) \in P
  <2>1. s \o Append(t, x) = Append(s \o t, x) /\ s \o t \in Seq(Seq(R)) /\ Append(t, x) \in Seq(Seq(R))
    OBVIOUS
  <2>2. FlattenSeq(Append(s \o t, x)) = FlattenSeq(s \o t) \o x
    BY <2>1, FlattenAppend
  <2>3. FlattenSeq(Append(t, x)) = FlattenSeq(t) \o x
    BY FlattenAppend
  <2>4. FlattenSeq(s \o t) = FlattenSeq(s) \o FlattenSeq(t)
    BY <1>2
  <2>5. FlattenSeq(s) \in Seq(R) /\ FlattenSeq(t) \in Seq(R)
    BY FlattenType
  <2>6. (FlattenSeq(s) \o FlattenSeq(t)) \o x = FlattenSeq(s) \o (FlattenSeq(t) \o x)
    BY <1>0, <2>5, Zenon
  <2>7. FlattenSeq(s \o Append(t, x)) = FlattenSeq(s) \o FlattenSeq(Append(t, x))
    BY <2>1, <2>2, <2>3, <2>4, <2>6, Zenon
  <2>. QED
    BY <2>1, <2>7
<1> HIDE DEF P
<1>3. Seq(Seq(R)) \subseteq P
  BY <1>1, <1>2, SeqInduction
<1>. QED
  BY <1>3 DEF P

-----------------------------------------------------------------------------
(* The width of a payload. *)

(* f[i] is the width of the first i rows, for each i up to n.               *)
SumsUpTo(f, items, limits, n) ==
  f = [i \in 0..n |-> IF i = 0 THEN 0 ELSE f[i - 1] + limits.width[items[i]]]

LEMMA SumsExist ==
  ASSUME NEW items, NEW limits, NEW n \in Nat
  PROVE  \E f : SumsUpTo(f, items, limits, n)
<1> DEFINE S == {k \in Nat : \E f : SumsUpTo(f, items, limits, k)}
<1>1. 0 \in S
  <2>1. SumsUpTo([i \in 0..0 |-> 0], items, limits, 0)
    BY DEF SumsUpTo
  <2>. QED
    BY <2>1
<1>2. ASSUME NEW k \in Nat, k \in S
      PROVE  k + 1 \in S
  <2>1. PICK f : SumsUpTo(f, items, limits, k)
    BY <1>2
  <2> DEFINE g == [i \in 0..(k + 1) |->
                     IF i <= k THEN f[i] ELSE f[k] + limits.width[items[i]]]
  <2>2. \A i \in 0..(k + 1) :
          g[i] = IF i = 0 THEN 0 ELSE g[i - 1] + limits.width[items[i]]
    <3>1. TAKE i \in 0..(k + 1)
    <3>2. CASE i = k + 1
      BY <3>2
    <3>3. CASE i \in 0..k
      <4>1. f[i] = IF i = 0 THEN 0 ELSE f[i - 1] + limits.width[items[i]]
        BY <2>1, <3>3 DEF SumsUpTo
      <4>2. g[i] = f[i] /\ (i # 0 => g[i - 1] = f[i - 1])
        BY <3>3
      <4>. QED
        BY <4>1, <4>2
    <3>. QED
      BY <3>2, <3>3
  <2>3. SumsUpTo(g, items, limits, k + 1)
    <3> DEFINE h == [i \in 0..(k + 1) |->
                       IF i = 0 THEN 0 ELSE g[i - 1] + limits.width[items[i]]]
    <3>1. g = [i \in 0..(k + 1) |-> g[i]]
      OBVIOUS
    <3> HIDE DEF g
    <3>2. g = h
      BY <2>2, <3>1
    <3>. QED
      BY <3>2 DEF SumsUpTo
  <2>. QED
    BY <2>3
<1>. QED
  BY <1>1, <1>2, SetInduction

LEMMA NBytesIsSum ==
  ASSUME NEW items, NEW limits, Len(items) \in Nat
  PROVE  \E f : /\ SumsUpTo(f, items, limits, Len(items))
               /\ NBytes(items, limits) = f[Len(items)]
<1> DEFINE chosen == CHOOSE f : SumsUpTo(f, items, limits, Len(items))
<1>1. SumsUpTo(chosen, items, limits, Len(items))
  BY SumsExist
<1>2. NBytes(items, limits) = chosen[Len(items)]
  BY DEF NBytes, SumsUpTo
<1>. QED
  BY <1>1, <1>2

LEMMA SumsAgree ==
  ASSUME NEW f, NEW g, NEW items, NEW others, NEW limits, NEW n \in Nat, NEW m \in Nat,
         SumsUpTo(f, items, limits, n), SumsUpTo(g, others, limits, m), n <= m,
         \A i \in 1..n : items[i] = others[i]
  PROVE  f[n] = g[n]
<1> DEFINE S == {k \in Nat : k <= n => f[k] = g[k]}
<1>1. 0 \in S
  BY DEF SumsUpTo
<1>2. ASSUME NEW k \in Nat, k \in S
      PROVE  k + 1 \in S
  <2>1. SUFFICES ASSUME k + 1 <= n PROVE f[k + 1] = g[k + 1]
    OBVIOUS
  <2>2. k + 1 \in 0..n /\ k + 1 \in 0..m /\ k + 1 # 0 /\ (k + 1) - 1 = k /\ k + 1 \in 1..n
    BY <2>1
  <2>3. f[k + 1] = f[k] + limits.width[items[k + 1]]
    BY <2>2 DEF SumsUpTo
  <2>4. g[k + 1] = g[k] + limits.width[others[k + 1]]
    BY <2>2 DEF SumsUpTo
  <2>. QED
    BY <1>2, <2>1, <2>2, <2>3, <2>4
<1>3. n \in S
  BY <1>1, <1>2, SetInduction
<1>. QED
  BY <1>3

LEMMA NBytesEmpty ==
  ASSUME NEW limits
  PROVE  NBytes(<<>>, limits) = 0
<1>1. Len(<<>>) = 0
  OBVIOUS
<1>2. PICK f : SumsUpTo(f, <<>>, limits, Len(<<>>)) /\ NBytes(<<>>, limits) = f[Len(<<>>)]
  <2>1. Len(<<>>) \in Nat
    BY <1>1
  <2>. QED
    BY <2>1, NBytesIsSum
<1>. QED
  BY <1>1, <1>2 DEF SumsUpTo

LEMMA NBytesAppend ==
  ASSUME NEW R, NEW items \in Seq(R), NEW x \in R, NEW limits
  PROVE  NBytes(Append(items, x), limits) = NBytes(items, limits) + limits.width[x]
<1> DEFINE more == Append(items, x)
           n == Len(items)
<1>1. n \in Nat /\ Len(more) = n + 1 /\ more[n + 1] = x /\ \A i \in 1..n : items[i] = more[i]
  OBVIOUS
<1> HIDE DEF more, n
<1>2. PICK f : SumsUpTo(f, items, limits, n) /\ NBytes(items, limits) = f[n]
  BY <1>1, NBytesIsSum DEF n
<1>3. PICK g : SumsUpTo(g, more, limits, n + 1) /\ NBytes(more, limits) = g[n + 1]
  <2>1. Len(more) \in Nat
    BY <1>1
  <2>2. PICK g : SumsUpTo(g, more, limits, Len(more)) /\ NBytes(more, limits) = g[Len(more)]
    BY <2>1, NBytesIsSum
  <2>. QED
    BY <1>1, <2>2
<1>4. f[n] = g[n]
  <2>1. n \in Nat /\ n + 1 \in Nat /\ n <= n + 1
    BY <1>1
  <2>. QED
    BY <1>1, <1>2, <1>3, <2>1, SumsAgree
<1>5. g[n + 1] = g[n] + limits.width[more[n + 1]]
  <2>1. n + 1 \in 0..(n + 1) /\ n + 1 # 0 /\ (n + 1) - 1 = n
    BY <1>1
  <2>. QED
    BY <1>3, <2>1 DEF SumsUpTo
<1>. QED
  BY <1>1, <1>2, <1>3, <1>4, <1>5 DEF more

(* The widths of the rows, and the ceilings.                                *)
LimitsOf(R) == [width : [R -> Nat], maxRows : Nat, maxBytes : Nat]

LEMMA NBytesType ==
  ASSUME NEW R, NEW limits \in LimitsOf(R), NEW rows \in Seq(R)
  PROVE  NBytes(rows, limits) \in Nat
<1> DEFINE P == {s \in Seq(R) : NBytes(s, limits) \in Nat}
<1>1. <<>> \in P
  <2>1. <<>> \in Seq(R)
    BY EmptySeq
  <2>. QED
    BY <2>1, NBytesEmpty
<1>2. ASSUME NEW s \in Seq(R), NEW r \in R, s \in P
      PROVE  Append(s, r) \in P
  <2>1. Append(s, r) \in Seq(R)
    OBVIOUS
  <2>2. NBytes(Append(s, r), limits) = NBytes(s, limits) + limits.width[r]
    BY NBytesAppend
  <2>3. limits.width[r] \in Nat
    BY DEF LimitsOf
  <2>. QED
    BY <1>2, <2>1, <2>2, <2>3
<1> HIDE DEF P
<1>3. Seq(R) \subseteq P
  BY <1>1, <1>2, SeqInduction
<1>. QED
  BY <1>3 DEF P

(* The widths of two payloads add up.                                       *)
LEMMA NBytesConcat ==
  ASSUME NEW R, NEW limits \in LimitsOf(R)
  PROVE  \A s, t \in Seq(R) : NBytes(s \o t, limits) = NBytes(s, limits) + NBytes(t, limits)
<1> TAKE s \in Seq(R)
<1> DEFINE P == {t \in Seq(R) : NBytes(s \o t, limits) = NBytes(s, limits) + NBytes(t, limits)}
<1>1. <<>> \in P
  <2>1. <<>> \in Seq(R) /\ s \o <<>> = s
    BY EmptySeq, ConcatEmptySeq
  <2>2. NBytes(s, limits) \in Nat /\ NBytes(<<>>, limits) = 0
    BY NBytesType, NBytesEmpty
  <2>. QED
    BY <2>1, <2>2
<1>2. ASSUME NEW t \in Seq(R), NEW r \in R, t \in P
      PROVE  Append(t, r) \in P
  <2>1. s \o Append(t, r) = Append(s \o t, r) /\ s \o t \in Seq(R) /\ Append(t, r) \in Seq(R)
    OBVIOUS
  <2>2. NBytes(Append(s \o t, r), limits) = NBytes(s \o t, limits) + limits.width[r]
    BY <2>1, NBytesAppend
  <2>3. NBytes(Append(t, r), limits) = NBytes(t, limits) + limits.width[r]
    BY NBytesAppend
  <2>4. limits.width[r] \in Nat /\ NBytes(s, limits) \in Nat /\ NBytes(t, limits) \in Nat
    BY NBytesType DEF LimitsOf
  <2>5. NBytes(s \o t, limits) = NBytes(s, limits) + NBytes(t, limits)
    BY <1>2
  <2>6. NBytes(s \o Append(t, r), limits) = NBytes(s, limits) + NBytes(Append(t, r), limits)
    BY <2>1, <2>2, <2>3, <2>4, <2>5
  <2>. QED
    BY <2>1, <2>6
<1> HIDE DEF P
<1>3. Seq(R) \subseteq P
  BY <1>1, <1>2, SeqInduction
<1>. QED
  BY <1>3 DEF P

(* Rows of one width.                                                       *)
LEMMA NBytesEven ==
  ASSUME NEW R, NEW limits \in LimitsOf(R), NEW rows \in Seq(R), NEW w \in Nat,
         \A i \in 1..Len(rows) : limits.width[rows[i]] = w
  PROVE  NBytes(rows, limits) = Len(rows) * w
<1> DEFINE U == {r \in R : limits.width[r] = w}
           P == {s \in Seq(U) : NBytes(s, limits) = Len(s) * w}
<1>0. rows \in Seq(U)
  <2>1. \A i \in 1..Len(rows) : rows[i] \in U
    BY ElementOfSeq
  <2> HIDE DEF U
  <2>. QED
    BY <2>1, IsASeq, LenProperties
<1>1. <<>> \in P
  <2>1. <<>> \in Seq(U) /\ Len(<<>>) = 0
    BY EmptySeq
  <2>2. NBytes(<<>>, limits) = 0
    BY NBytesEmpty
  <2>3. 0 * w = 0
    OBVIOUS
  <2>. QED
    BY <2>1, <2>2, <2>3
<1>2. ASSUME NEW s \in Seq(U), NEW r \in U, s \in P
      PROVE  Append(s, r) \in P
  <2>1. Append(s, r) \in Seq(U) /\ Len(Append(s, r)) = Len(s) + 1 /\ Len(s) \in Nat
    OBVIOUS
  <2>2. NBytes(Append(s, r), limits) = NBytes(s, limits) + w
    <3>1. limits.width[r] = w
      OBVIOUS
    <3> HIDE DEF U
    <3>. QED
      BY <3>1, NBytesAppend
  <2>3. \A k \in Nat : (k + 1) * w = k * w + w
    BY SMT
  <2>4. NBytes(Append(s, r), limits) = Len(Append(s, r)) * w
    BY <1>2, <2>1, <2>2, <2>3
  <2>. QED
    BY <2>1, <2>4
<1> HIDE DEF P, U
<1>3. Seq(U) \subseteq P
  BY <1>1, <1>2, SeqInduction
<1>. QED
  BY <1>0, <1>3 DEF P

-----------------------------------------------------------------------------
(* Slices. *)

LEMMA MinOfTwo ==
  ASSUME NEW a \in Int, NEW b \in Int
  PROVE  Min({a, b}) = IF a <= b THEN a ELSE b
BY DEF Min

LEMMA MaxOfTwo ==
  ASSUME NEW a \in Int, NEW b \in Int
  PROVE  Max({a, b}) = IF a >= b THEN a ELSE b
BY DEF Max

LEMMA ProductMonotonic ==
  ASSUME NEW a \in Nat, NEW b \in Nat, NEW c \in Nat, a <= b
  PROVE  a * c <= b * c
<1>1. (b - a) * c \in Nat
  BY SMT
<1>2. b * c = a * c + (b - a) * c
  BY SMT
<1>. QED
  BY <1>1, <1>2, SMT

LEMMA Quotient ==
  ASSUME NEW a \in Nat, NEW b \in Nat \ {0}
  PROVE  a \div b \in Nat /\ (a \div b) * b <= a /\ a < (a \div b) * b + b
BY SMT

(* The number of slices: the last one begins before the end of the batch.   *)
LEMMA SliceCount ==
  ASSUME NEW n \in Nat \ {0}, NEW limit \in Nat \ {0}
  PROVE  LET m == (n + limit - 1) \div limit
         IN m \in Nat \ {0} /\ n <= m * limit /\ (m - 1) * limit < n
<1> DEFINE m == (n + limit - 1) \div limit
<1>1. n + limit - 1 \in Nat
  OBVIOUS
<1>2. m \in Nat /\ m * limit <= n + limit - 1 /\ n + limit - 1 < m * limit + limit
  BY <1>1, Quotient
<1> HIDE DEF m
<1>3. m # 0
  <2>1. SUFFICES ASSUME m = 0 PROVE FALSE
    OBVIOUS
  <2>2. 0 * limit = 0
    OBVIOUS
  <2>3. m * limit = 0
    BY <2>1, <2>2
  <2>. QED
    BY <1>2, <2>3
<1>4. (m - 1) * limit = m * limit - limit /\ m * limit \in Nat
  BY <1>2, SMT
<1>5. n <= m * limit /\ (m - 1) * limit < n
  BY <1>2, <1>4
<1>. QED
  BY <1>2, <1>3, <1>5 DEF m

LEMMA ByteBudget ==
  ASSUME NEW n \in Nat \ {0}, NEW nbytes \in Nat, NEW maxBytes \in Nat \ {0}
  PROVE  LET rows == RowsWithinByteBudget(n, nbytes, maxBytes)
         IN rows \in Nat \ {0} /\ (nbytes <= maxBytes \/ rows = 1 \/ rows * nbytes <= maxBytes * n)
<1> DEFINE q == (maxBytes * n) \div nbytes
<1>1. CASE nbytes <= maxBytes
  BY <1>1 DEF RowsWithinByteBudget
<1>2. CASE nbytes > maxBytes
  <2>1. maxBytes * n \in Nat /\ nbytes # 0
    BY <1>2, SMT
  <2>2. q \in Nat /\ q * nbytes <= maxBytes * n
    BY <2>1, Quotient
  <2>3. RowsWithinByteBudget(n, nbytes, maxBytes) = Max({1, q})
    BY <1>2 DEF RowsWithinByteBudget
  <2> HIDE DEF q
  <2>4. Max({1, q}) = IF 1 >= q THEN 1 ELSE q
    BY <2>2, MaxOfTwo
  <2>. QED
    BY <2>2, <2>3, <2>4
<1>. QED
  BY <1>1, <1>2

(* A slice holds some rows, no more than either ceiling asks for.           *)
LEMMA SliceLimitBounds ==
  ASSUME NEW R, NEW limits \in LimitsOf(R), NEW batch \in Seq(R), batch # <<>>
  PROVE  /\ SliceLimit(batch, limits) \in 1..Len(batch)
         /\ limits.maxRows # NoCeiling => SliceLimit(batch, limits) <= limits.maxRows
         /\ limits.maxBytes # NoCeiling =>
              SliceLimit(batch, limits)
                <= RowsWithinByteBudget(Len(batch), NBytes(batch, limits), limits.maxBytes)
<1> DEFINE n == Len(batch)
           byRows == IF limits.maxRows = NoCeiling THEN n ELSE Min({n, limits.maxRows})
           byBytes == RowsWithinByteBudget(n, NBytes(batch, limits), limits.maxBytes)
<1>1. n \in Nat \ {0}
  BY EmptySeq
<1>2. limits.maxRows \in Nat /\ limits.maxBytes \in Nat /\ NoCeiling = 0
  BY DEF LimitsOf, NoCeiling
<1>3. SliceLimit(batch, limits)
        = IF limits.maxBytes = NoCeiling THEN byRows ELSE Min({byRows, byBytes})
  BY DEF SliceLimit
<1>4. limits.maxBytes # NoCeiling => byBytes \in Nat \ {0}
  BY <1>1, <1>2, NBytesType, ByteBudget
<1> HIDE DEF n
<1>5. byRows \in 1..n /\ (limits.maxRows # NoCeiling => byRows <= limits.maxRows)
  <2>1. Min({n, limits.maxRows}) = IF n <= limits.maxRows THEN n ELSE limits.maxRows
    BY <1>1, <1>2, MinOfTwo
  <2>. QED
    BY <1>1, <1>2, <2>1
<1> HIDE DEF byRows, byBytes
<1>6. CASE limits.maxBytes = NoCeiling
  BY <1>3, <1>5, <1>6 DEF n
<1>7. CASE limits.maxBytes # NoCeiling
  <2>1. Min({byRows, byBytes}) = IF byRows <= byBytes THEN byRows ELSE byBytes
    BY <1>4, <1>5, <1>7, MinOfTwo
  <2>2. SliceLimit(batch, limits) = IF byRows <= byBytes THEN byRows ELSE byBytes
    BY <1>3, <1>7, <2>1
  <2>3. byBytes \in Nat \ {0} /\ byRows \in 1..n
    BY <1>4, <1>5, <1>7
  <2>4. SliceLimit(batch, limits) \in 1..n /\ SliceLimit(batch, limits) <= byRows
        /\ SliceLimit(batch, limits) <= byBytes
    BY <1>1, <2>2, <2>3
  <2>5. limits.maxRows # NoCeiling => SliceLimit(batch, limits) <= limits.maxRows
    BY <1>1, <1>2, <1>5, <2>4
  <2>. QED
    BY <2>4, <2>5 DEF n, byBytes
<1>. QED
  BY <1>6, <1>7

(* What a slice may be: rows of the batch, as many as the limit allows.     *)
IsSlice(rows, batch, limit) ==
  /\ Len(rows) <= limit
  /\ \A i \in 1..Len(rows) : \E j \in 1..Len(batch) : rows[i] = batch[j]

SlicesOf(batch, limit) ==
  [k \in 1..((Len(batch) + limit - 1) \div limit) |->
     SubSeq(batch, (k - 1) * limit + 1, Min({k * limit, Len(batch)}))]

LEMMA SlicesAreSplit ==
  ASSUME NEW batch, NEW limits, ~(SliceLimit(batch, limits) >= Len(batch))
  PROVE  SliceToCeilings(batch, limits) = SlicesOf(batch, SliceLimit(batch, limits))
BY DEF SliceToCeilings, SplitArrowTable, SlicesOf

(* Slices end where the next one begins, the last one with the batch.       *)
LEMMA SliceEnds ==
  ASSUME NEW n \in Nat \ {0}, NEW limit \in Nat \ {0}, NEW m, m = (n + limit - 1) \div limit,
         NEW k \in 1..m
  PROVE  /\ (k - 1) * limit \in 0..n
         /\ Min({k * limit, n}) \in ((k - 1) * limit)..n
         /\ Min({k * limit, n}) - (k - 1) * limit <= limit
         /\ k < m => Min({k * limit, n}) = k * limit
         /\ k = m => Min({k * limit, n}) = n
<1>1. m \in Nat \ {0} /\ n <= m * limit /\ (m - 1) * limit < n
  BY SliceCount
<1>2. k * limit \in Nat /\ (k - 1) * limit \in Nat /\ k * limit = (k - 1) * limit + limit
  BY <1>1, SMT
<1>3. Min({k * limit, n}) = IF k * limit <= n THEN k * limit ELSE n
  BY <1>2, MinOfTwo
<1>4. (k - 1) * limit <= (m - 1) * limit
  <2>1. k - 1 \in Nat /\ m - 1 \in Nat /\ k - 1 <= m - 1
    BY <1>1
  <2>. QED
    BY <2>1, ProductMonotonic
<1>5. k < m => k * limit <= (m - 1) * limit
  <2>1. SUFFICES ASSUME k < m PROVE k * limit <= (m - 1) * limit
    OBVIOUS
  <2>2. k \in Nat /\ m - 1 \in Nat /\ k <= m - 1
    BY <1>1, <2>1
  <2>. QED
    BY <2>2, ProductMonotonic
<1>6. (m - 1) * limit \in Nat /\ m * limit \in Nat
  BY <1>1, SMT
<1> DEFINE before == (k - 1) * limit
           here == k * limit
           last == (m - 1) * limit
           whole == m * limit
<1>7. /\ before \in Nat /\ here = before + limit /\ here \in Nat /\ last \in Nat /\ whole \in Nat
      /\ before <= last /\ (k < m => here <= last) /\ n <= whole /\ last < n
      /\ (k = m => here = whole)
      /\ Min({here, n}) = IF here <= n THEN here ELSE n
  BY <1>1, <1>2, <1>3, <1>4, <1>5, <1>6
<1> HIDE DEF before, here, last, whole
<1>8. /\ before \in 0..n
      /\ Min({here, n}) \in before..n
      /\ Min({here, n}) - before <= limit
      /\ k < m => Min({here, n}) = here
      /\ k = m => Min({here, n}) = n
  BY <1>7
<1>. QED
  BY <1>8 DEF before, here

LEMMA SliceElements ==
  ASSUME NEW R, NEW batch \in Seq(R), NEW limit \in Nat, NEW from \in Nat,
         NEW to \in from..Len(batch), to - from <= limit
  PROVE  SubSeq(batch, from + 1, to) \in Seq(R) /\ IsSlice(SubSeq(batch, from + 1, to), batch, limit)
<1> DEFINE rows == SubSeq(batch, from + 1, to)
<1>1. Len(batch) \in Nat /\ to \in Nat /\ from \in Nat /\ from <= to /\ to <= Len(batch)
  OBVIOUS
<1>2. /\ rows \in Seq(R) /\ Len(rows) = to - from
      /\ \A i \in 1..(to - from) : rows[i] = batch[from + i]
  <2>1. \A i \in (from + 1)..to : batch[i] \in R
    BY <1>1, ElementOfSeq
  <2>2. rows \in Seq(R)
    BY <1>1, <2>1, SubSeqProperties
  <2>3. Len(rows) = to - from
    BY <1>1
  <2>4. \A i \in 1..(to - from) : rows[i] = batch[from + i]
    BY <1>1
  <2>. QED
    BY <2>2, <2>3, <2>4
<1> HIDE DEF rows
<1>3. ASSUME NEW i \in 1..Len(rows) PROVE \E j \in 1..Len(batch) : rows[i] = batch[j]
  <2>1. from + i \in 1..Len(batch) /\ i \in 1..(to - from)
    BY <1>1, <1>2
  <2>. QED
    BY <1>2, <2>1
<1>4. Len(rows) <= limit
  BY <1>2
<1>5. IsSlice(rows, batch, limit)
  BY <1>3, <1>4 DEF IsSlice
<1>. QED
  BY <1>2, <1>5 DEF rows

(* The slices of a batch are the batch.                                     *)
LEMMA SlicesFlatten ==
  ASSUME NEW R, NEW batch \in Seq(R), batch # <<>>, NEW limit \in Nat \ {0}
  PROVE  /\ SlicesOf(batch, limit) \in Seq(Seq(R))
         /\ FlattenSeq(SlicesOf(batch, limit)) = batch
         /\ \A k \in 1..Len(SlicesOf(batch, limit)) : IsSlice(SlicesOf(batch, limit)[k], batch, limit)
<1> DEFINE n == Len(batch)
           m == (n + limit - 1) \div limit
           slices == SlicesOf(batch, limit)
           end(k) == Min({k * limit, n})
           upto == [k \in 1..m |-> SubSeq(batch, 1, end(k))]
<1>1. n \in Nat \ {0}
  BY EmptySeq
<1>2. m \in Nat \ {0}
  BY <1>1, SliceCount
<1>3. \A k \in 1..m : /\ (k - 1) * limit \in 0..n
                      /\ end(k) \in ((k - 1) * limit)..n
                      /\ end(k) - (k - 1) * limit <= limit
                      /\ k < m => end(k) = k * limit
                      /\ k = m => end(k) = n
  BY <1>1, SliceEnds
<1>4. \A k \in 1..m : slices[k] = SubSeq(batch, (k - 1) * limit + 1, end(k))
  BY DEF SlicesOf
<1>5. \A k \in 1..m : upto[k] = SubSeq(batch, 1, end(k))
  OBVIOUS
<1>6. slices = [k \in 1..m |-> slices[k]]
  BY DEF SlicesOf
<1> HIDE DEF m, slices, end, upto, n
<1>7. ASSUME NEW k \in 1..m
      PROVE  slices[k] \in Seq(R) /\ IsSlice(slices[k], batch, limit)
  <2> DEFINE from == (k - 1) * limit
             to == end(k)
  <2>1. from \in 0..n /\ to \in from..n /\ to - from <= limit
    BY <1>3
  <2>2. slices[k] = SubSeq(batch, from + 1, to)
    BY <1>4
  <2> HIDE DEF from, to
  <2>3. from \in Nat /\ to \in from..Len(batch) /\ limit \in Nat
    BY <2>1 DEF n
  <2>. QED
    BY <2>1, <2>2, <2>3, SliceElements
<1>8. slices \in Seq(Seq(R)) /\ Len(slices) = m
  <2>1. \A k \in 1..m : slices[k] \in Seq(R)
    BY <1>7
  <2>2. slices \in [1..m -> Seq(R)]
    BY <1>6, <2>1
  <2>. QED
    BY <1>2, <2>2, IsASeq, LenProperties
<1>9. Accumulates(upto, slices, m)
  <2>1. upto[1] = slices[1]
    <3>1. 1 \in 1..m /\ (1 - 1) * limit + 1 = 1
      BY <1>2
    <3>2. slices[1] = SubSeq(batch, (1 - 1) * limit + 1, end(1))
      BY <1>4, <3>1, Zenon
    <3>3. upto[1] = SubSeq(batch, 1, end(1))
      BY <1>5, <3>1, Zenon
    <3>. QED
      BY <3>1, <3>2, <3>3, Zenon
  <2>2. ASSUME NEW k \in 2..m PROVE upto[k] = upto[k - 1] \o slices[k]
    <3>1. k \in 1..m /\ k - 1 \in 1..m /\ k - 1 < m
      BY <1>2
    <3>2. end(k - 1) = (k - 1) * limit
      BY <1>3, <3>1
    <3>3. (k - 1) * limit \in 0..n /\ end(k) \in ((k - 1) * limit)..n
      BY <1>3, <3>1
    <3> DEFINE mid == (k - 1) * limit
    <3>4. mid \in 0..n /\ end(k) \in mid..n /\ end(k - 1) = mid
      BY <3>2, <3>3
    <3>5. slices[k] = SubSeq(batch, mid + 1, end(k))
      BY <1>4, <3>1
    <3> HIDE DEF mid
    <3>6. 1 \in 1..(Len(batch) + 1) /\ mid \in (1 - 1)..Len(batch) /\ end(k) \in mid..Len(batch)
      BY <1>1, <3>4 DEF n
    <3>7. SubSeq(batch, 1, mid) \o SubSeq(batch, mid + 1, end(k)) = SubSeq(batch, 1, end(k))
      BY <3>6, ConcatAdjacentSubSeq
    <3>. QED
      BY <1>5, <3>1, <3>4, <3>5, <3>7
  <2>. QED
    BY <2>1, <2>2 DEF Accumulates
<1>10. FlattenSeq(slices) = batch
  <2>1. FlattenSeq(slices) = upto[m]
    BY <1>2, <1>8, <1>9, FlattenIs
  <2>2. m \in 1..m
    BY <1>2
  <2>3. upto[m] = SubSeq(batch, 1, n)
    BY <1>3, <1>5, <2>2
  <2>4. SubSeq(batch, 1, n) = batch
    BY SubSeqFull DEF n
  <2>. QED
    BY <2>1, <2>3, <2>4
<1>. QED
  BY <1>7, <1>8, <1>10 DEF slices

(* What _slice_to_ceilings yields for a batch.                              *)
LEMMA Slices ==
  ASSUME NEW R, NEW limits \in LimitsOf(R), NEW batch \in Seq(R), batch # <<>>
  PROVE  LET pieces == SliceToCeilings(batch, limits)
         IN /\ pieces \in Seq(Seq(R))
            /\ FlattenSeq(pieces) = batch
            /\ \A k \in 1..Len(pieces) : IsSlice(pieces[k], batch, SliceLimit(batch, limits))
<1>1. SliceLimit(batch, limits) \in 1..Len(batch) /\ Len(batch) \in Nat
  BY SliceLimitBounds
<1>2. CASE SliceLimit(batch, limits) >= Len(batch)
  <2>1. SliceToCeilings(batch, limits) = <<batch>>
    BY <1>2 DEF SliceToCeilings
  <2>2. FlattenSeq(<<batch>>) = batch
    BY FlattenOne
  <2>3. <<batch>> \in Seq(Seq(R)) /\ Len(<<batch>>) = 1 /\ <<batch>>[1] = batch
    OBVIOUS
  <2>4. IsSlice(batch, batch, SliceLimit(batch, limits))
    BY <1>1, <1>2 DEF IsSlice
  <2>5. \A k \in 1..Len(<<batch>>) : IsSlice(<<batch>>[k], batch, SliceLimit(batch, limits))
    BY <2>3, <2>4
  <2>. QED
    BY <2>1, <2>2, <2>3, <2>5
<1>3. CASE ~(SliceLimit(batch, limits) >= Len(batch))
  <2>1. SliceToCeilings(batch, limits) = SlicesOf(batch, SliceLimit(batch, limits))
    BY <1>3, SlicesAreSplit
  <2>2. SliceLimit(batch, limits) \in Nat \ {0}
    BY <1>1
  <2>. QED
    BY <2>1, <2>2, SlicesFlatten
<1>. QED
  BY <1>2, <1>3

(* A slice over the byte ceiling is a single row or comes from a batch whose*)
(* rows differ in width.                                                    *)
LEMMA SliceBytes ==
  ASSUME NEW R, NEW limits \in LimitsOf(R), NEW batch \in Seq(R), batch # <<>>,
         limits.maxBytes # NoCeiling, NEW rows \in Seq(R),
         IsSlice(rows, batch, SliceLimit(batch, limits)),
         NEW w \in Nat, \A i \in 1..Len(batch) : limits.width[batch[i]] = w
  PROVE  NBytes(rows, limits) <= limits.maxBytes \/ Len(rows) = 1
<1> DEFINE n == Len(batch)
           len == Len(rows)
           limit == SliceLimit(batch, limits)
           budget == RowsWithinByteBudget(n, NBytes(batch, limits), limits.maxBytes)
           maxBytes == limits.maxBytes
<1>1. n \in Nat \ {0} /\ len \in Nat
  BY EmptySeq
<1>2. maxBytes \in Nat \ {0}
  BY DEF LimitsOf, NoCeiling
<1>3. limit \in 1..n /\ limit <= budget
  BY SliceLimitBounds
<1>4. NBytes(batch, limits) = n * w
  BY NBytesEven
<1>5. NBytes(rows, limits) = len * w
  <2>1. \A i \in 1..len : limits.width[rows[i]] = w
    BY DEF IsSlice
  <2>. QED
    BY <2>1, NBytesEven
<1>6. len <= limit
  BY DEF IsSlice
<1>7. n * w \in Nat
  BY <1>1, SMT
<1>8. budget \in Nat \ {0} /\ (n * w <= maxBytes \/ budget = 1 \/ budget * (n * w) <= maxBytes * n)
  BY <1>1, <1>2, <1>4, <1>7, ByteBudget
<1> HIDE DEF n, len, limit, budget, maxBytes
<1>9. CASE n * w <= maxBytes
  <2>1. len <= n
    BY <1>1, <1>3, <1>6
  <2>2. len * w <= n * w
    BY <1>1, <2>1, ProductMonotonic
  <2>3. len * w \in Nat
    BY <1>1, SMT
  <2>4. len * w <= maxBytes
    BY <1>2, <1>7, <1>9, <2>2, <2>3
  <2>. QED
    BY <1>5, <2>4 DEF maxBytes
<1>10. CASE budget = 1
  <2>1. len = 0 \/ len = 1
    BY <1>1, <1>3, <1>6, <1>10
  <2>2. 0 * w = 0
    OBVIOUS
  <2>3. CASE len = 0
    <3>1. NBytes(rows, limits) = 0
      BY <1>5, <2>2, <2>3
    <3>. QED
      BY <1>2, <3>1 DEF maxBytes
  <2>. QED
    BY <2>1, <2>3 DEF len
<1>11. CASE budget * (n * w) <= maxBytes * n
  <2>1. len <= budget
    BY <1>1, <1>3, <1>6, <1>8
  <2>2. len * w <= budget * w
    BY <1>1, <1>8, <2>1, ProductMonotonic
  <2>3. budget * w \in Nat /\ len * w \in Nat
    BY <1>1, <1>8, SMT
  <2>4. (budget * w) * n <= maxBytes * n
    <3>1. budget * (n * w) = (budget * w) * n
      BY <1>1, <1>8, SMT
    <3>. QED
      BY <1>11, <3>1
  <2>5. budget * w <= maxBytes
    <3>1. SUFFICES ASSUME maxBytes + 1 <= budget * w PROVE FALSE
      BY <1>2, <2>3
    <3>2. (maxBytes + 1) * n <= (budget * w) * n
      <4>1. maxBytes + 1 \in Nat /\ n \in Nat
        BY <1>1, <1>2
      <4>. QED
        BY <2>3, <3>1, <4>1, ProductMonotonic
    <3>3. (maxBytes + 1) * n = maxBytes * n + n
      BY <1>1, <1>2, SMT
    <3>4. maxBytes * n \in Nat /\ (budget * w) * n \in Nat
      BY <1>1, <1>2, <2>3, SMT
    <3>. QED
      BY <1>1, <2>4, <3>2, <3>3, <3>4
  <2>6. len * w <= maxBytes
    BY <1>2, <2>2, <2>3, <2>5
  <2>. QED
    BY <1>5, <2>6 DEF maxBytes
<1>. QED
  BY <1>8, <1>9, <1>10, <1>11

-----------------------------------------------------------------------------
(* The loop of _write_in_chunks. *)

(* The state the loop starts from.                                          *)
Idle == [flushed |-> <<>>, chunk |-> <<>>]

(* f[i] is the state of the loop after the first i pieces.                  *)
CollectsUpTo(f, items, limits, n) ==
  f = [i \in 0..n |-> IF i = 0 THEN Idle ELSE Collect(f[i - 1], items[i], limits)]

LEMMA CollectsExist ==
  ASSUME NEW items, NEW limits, NEW n \in Nat
  PROVE  \E f : CollectsUpTo(f, items, limits, n)
<1> DEFINE S == {k \in Nat : \E f : CollectsUpTo(f, items, limits, k)}
<1>1. 0 \in S
  <2>1. CollectsUpTo([i \in 0..0 |-> Idle], items, limits, 0)
    BY DEF CollectsUpTo
  <2>. QED
    BY <2>1
<1>2. ASSUME NEW k \in Nat, k \in S
      PROVE  k + 1 \in S
  <2>1. PICK f : CollectsUpTo(f, items, limits, k)
    BY <1>2
  <2> DEFINE g == [i \in 0..(k + 1) |->
                     IF i <= k THEN f[i] ELSE Collect(f[k], items[i], limits)]
  <2>2. \A i \in 0..(k + 1) :
          g[i] = IF i = 0 THEN Idle ELSE Collect(g[i - 1], items[i], limits)
    <3>1. TAKE i \in 0..(k + 1)
    <3>2. CASE i = k + 1
      BY <3>2
    <3>3. CASE i \in 0..k
      <4>1. f[i] = IF i = 0 THEN Idle ELSE Collect(f[i - 1], items[i], limits)
        BY <2>1, <3>3 DEF CollectsUpTo
      <4>2. g[i] = f[i] /\ (i # 0 => g[i - 1] = f[i - 1])
        BY <3>3
      <4>. QED
        BY <4>1, <4>2
    <3>. QED
      BY <3>2, <3>3
  <2>3. CollectsUpTo(g, items, limits, k + 1)
    <3> DEFINE h == [i \in 0..(k + 1) |->
                       IF i = 0 THEN Idle ELSE Collect(g[i - 1], items[i], limits)]
    <3>1. g = [i \in 0..(k + 1) |-> g[i]]
      OBVIOUS
    <3> HIDE DEF g
    <3>2. g = h
      BY <2>2, <3>1
    <3>. QED
      BY <3>2 DEF CollectsUpTo
  <2>. QED
    BY <2>3
<1>. QED
  BY <1>1, <1>2, SetInduction

LEMMA CollectedIsLoop ==
  ASSUME NEW items, NEW limits, Len(items) \in Nat
  PROVE  \E f : /\ CollectsUpTo(f, items, limits, Len(items))
               /\ Collected(items, limits) = f[Len(items)]
<1> DEFINE chosen == CHOOSE f : CollectsUpTo(f, items, limits, Len(items))
<1>1. CollectsUpTo(chosen, items, limits, Len(items))
  BY CollectsExist
<1>2. Collected(items, limits) = chosen[Len(items)]
  BY DEF Collected, CollectsUpTo, Idle
<1>. QED
  BY <1>1, <1>2

LEMMA CollectsAgree ==
  ASSUME NEW f, NEW g, NEW items, NEW others, NEW limits, NEW n \in Nat, NEW m \in Nat,
         CollectsUpTo(f, items, limits, n), CollectsUpTo(g, others, limits, m), n <= m,
         \A i \in 1..n : items[i] = others[i]
  PROVE  f[n] = g[n]
<1> DEFINE S == {k \in Nat : k <= n => f[k] = g[k]}
<1>1. 0 \in S
  BY DEF CollectsUpTo
<1>2. ASSUME NEW k \in Nat, k \in S
      PROVE  k + 1 \in S
  <2>1. SUFFICES ASSUME k + 1 <= n PROVE f[k + 1] = g[k + 1]
    OBVIOUS
  <2>2. k + 1 \in 0..n /\ k + 1 \in 0..m /\ k + 1 # 0 /\ (k + 1) - 1 = k /\ k + 1 \in 1..n
    BY <2>1
  <2>3. f[k + 1] = Collect(f[k], items[k + 1], limits)
    BY <2>2 DEF CollectsUpTo
  <2>4. g[k + 1] = Collect(g[k], others[k + 1], limits)
    BY <2>2 DEF CollectsUpTo
  <2>. QED
    BY <1>2, <2>1, <2>2, <2>3, <2>4
<1>3. n \in S
  BY <1>1, <1>2, SetInduction
<1>. QED
  BY <1>3

LEMMA CollectedEmpty ==
  ASSUME NEW limits
  PROVE  Collected(<<>>, limits) = Idle
<1>1. Len(<<>>) = 0
  OBVIOUS
<1>2. PICK f : CollectsUpTo(f, <<>>, limits, Len(<<>>)) /\ Collected(<<>>, limits) = f[Len(<<>>)]
  <2>1. Len(<<>>) \in Nat
    BY <1>1
  <2>. QED
    BY <2>1, CollectedIsLoop
<1>. QED
  BY <1>1, <1>2 DEF CollectsUpTo

LEMMA CollectedAppend ==
  ASSUME NEW R, NEW items \in Seq(R), NEW x \in R, NEW limits
  PROVE  Collected(Append(items, x), limits) = Collect(Collected(items, limits), x, limits)
<1> DEFINE more == Append(items, x)
           n == Len(items)
<1>1. n \in Nat /\ Len(more) = n + 1 /\ more[n + 1] = x /\ \A i \in 1..n : items[i] = more[i]
  OBVIOUS
<1> HIDE DEF more, n
<1>2. PICK f : CollectsUpTo(f, items, limits, n) /\ Collected(items, limits) = f[n]
  BY <1>1, CollectedIsLoop DEF n
<1>3. PICK g : CollectsUpTo(g, more, limits, n + 1) /\ Collected(more, limits) = g[n + 1]
  <2>1. Len(more) \in Nat
    BY <1>1
  <2>2. PICK g : CollectsUpTo(g, more, limits, Len(more)) /\ Collected(more, limits) = g[Len(more)]
    BY <2>1, CollectedIsLoop
  <2>. QED
    BY <1>1, <2>2
<1>4. f[n] = g[n]
  <2>1. n \in Nat /\ n + 1 \in Nat /\ n <= n + 1
    BY <1>1
  <2>. QED
    BY <1>1, <1>2, <1>3, <2>1, CollectsAgree
<1>5. g[n + 1] = Collect(g[n], more[n + 1], limits)
  <2>1. n + 1 \in 0..(n + 1) /\ n + 1 # 0 /\ (n + 1) - 1 = n
    BY <1>1
  <2>. QED
    BY <1>3, <2>1 DEF CollectsUpTo
<1>. QED
  BY <1>1, <1>2, <1>3, <1>4, <1>5 DEF more

-----------------------------------------------------------------------------
(* What the loop holds after any pieces. *)

WithinLimits(rows, limits) ==
  /\ limits.maxRows # NoCeiling => Len(rows) <= limits.maxRows
  /\ limits.maxBytes # NoCeiling => NBytes(rows, limits) <= limits.maxBytes

(* A chunk is below both ceilings, or is one piece.                         *)
Fits(rows, pieces, limits) ==
  WithinLimits(rows, limits) \/ \E k \in 1..Len(pieces) : rows = pieces[k]

LoopState(R) == [flushed : Seq(Seq(R)), chunk : Seq(R)]

LoopInv(R, state, pieces, limits) ==
  /\ state \in LoopState(R)
  /\ FlattenSeq(state.flushed) \o state.chunk = FlattenSeq(pieces)
  /\ \A k \in 1..Len(state.flushed) :
        state.flushed[k] # <<>> /\ Fits(state.flushed[k], pieces, limits)
  /\ Fits(state.chunk, pieces, limits)

LEMMA FitsMore ==
  ASSUME NEW R, NEW pieces \in Seq(R), NEW piece \in R, NEW rows, NEW limits,
         Fits(rows, pieces, limits)
  PROVE  Fits(rows, Append(pieces, piece), limits)
<1>1. /\ Len(Append(pieces, piece)) = Len(pieces) + 1 /\ Len(pieces) \in Nat
      /\ \A k \in 1..Len(pieces) : Append(pieces, piece)[k] = pieces[k]
  OBVIOUS
<1>2. ASSUME NEW k \in 1..Len(pieces), rows = pieces[k]
      PROVE  Fits(rows, Append(pieces, piece), limits)
  <2>1. k \in 1..Len(Append(pieces, piece)) /\ rows = Append(pieces, piece)[k]
    BY <1>1, <1>2
  <2>. QED
    BY <2>1 DEF Fits
<1>. QED
  BY <1>2 DEF Fits

LEMMA FitsLast ==
  ASSUME NEW R, NEW pieces \in Seq(R), NEW piece \in R, NEW limits
  PROVE  Fits(piece, Append(pieces, piece), limits)
<1>1. /\ Len(pieces) + 1 \in 1..Len(Append(pieces, piece))
      /\ Append(pieces, piece)[Len(pieces) + 1] = piece
  OBVIOUS
<1>. QED
  BY <1>1 DEF Fits

(* Collect closes a chunk that the piece would overflow, or adds the piece. *)
LEMMA CollectCloses ==
  ASSUME NEW R, NEW state \in LoopState(R), NEW piece \in Seq(R), NEW limits,
         Overflows(state.chunk, piece, limits), state.chunk # <<>>
  PROVE  Collect(state, piece, limits)
           = [flushed |-> Append(state.flushed, state.chunk), chunk |-> piece]
<1> DEFINE room == [flushed |-> Append(state.flushed, state.chunk), chunk |-> <<>>]
<1>1. Collect(state, piece, limits) = [flushed |-> room.flushed, chunk |-> room.chunk \o piece]
  BY DEF Collect, Flush
<1>2. room.flushed = Append(state.flushed, state.chunk) /\ room.chunk = <<>>
  OBVIOUS
<1>3. <<>> \o piece = piece
  BY ConcatEmptySeq
<1>. QED
  BY <1>1, <1>2, <1>3

LEMMA CollectAdds ==
  ASSUME NEW R, NEW state \in LoopState(R), NEW piece \in Seq(R), NEW limits,
         ~Overflows(state.chunk, piece, limits) \/ state.chunk = <<>>
  PROVE  Collect(state, piece, limits)
           = [flushed |-> state.flushed, chunk |-> state.chunk \o piece]
BY DEF Collect, Flush

(* A chunk stays below the ceilings unless a piece overflows it.            *)
LEMMA AddedIsWithin ==
  ASSUME NEW R, NEW limits \in LimitsOf(R), NEW chunk \in Seq(R), NEW piece \in Seq(R)
  PROVE  ~Overflows(chunk, piece, limits) <=> WithinLimits(chunk \o piece, limits)
<1>1. Len(chunk \o piece) = Len(chunk) + Len(piece) /\ Len(chunk) \in Nat /\ Len(piece) \in Nat
  OBVIOUS
<1>2. NBytes(chunk \o piece, limits) = NBytes(chunk, limits) + NBytes(piece, limits)
  BY NBytesConcat
<1>3. NBytes(chunk, limits) \in Nat /\ NBytes(piece, limits) \in Nat
  BY NBytesType
<1>4. limits.maxRows \in Nat /\ limits.maxBytes \in Nat
  BY DEF LimitsOf
<1>. QED
  BY <1>1, <1>2, <1>3, <1>4 DEF Overflows, WithinLimits

LEMMA EmptyIsWithin ==
  ASSUME NEW R, NEW limits \in LimitsOf(R)
  PROVE  WithinLimits(<<>>, limits)
<1>1. Len(<<>>) = 0
  OBVIOUS
<1>2. NBytes(<<>>, limits) = 0
  BY NBytesEmpty
<1>. QED
  BY <1>1, <1>2 DEF WithinLimits, LimitsOf

LEMMA LoopStarts ==
  ASSUME NEW R, NEW limits \in LimitsOf(R)
  PROVE  LoopInv(R, Idle, <<>>, limits)
<1>1. <<>> \in Seq(R) /\ <<>> \in Seq(Seq(R)) /\ Len(<<>>) = 0
  BY EmptySeq
<1>2. Idle.flushed = <<>> /\ Idle.chunk = <<>> /\ Idle \in LoopState(R)
  BY <1>1 DEF Idle, LoopState
<1>3. FlattenSeq(<<>>) = <<>> /\ <<>> \o <<>> = <<>>
  BY FlattenEmpty
<1>4. Fits(<<>>, <<>>, limits)
  BY EmptyIsWithin DEF Fits
<1>5. \A k \in 1..Len(<<>>) : FALSE
  BY <1>1
<1>. QED
  BY <1>2, <1>3, <1>4, <1>5 DEF LoopInv

LEMMA Regroup ==
  ASSUME NEW R, NEW x, NEW y, NEW z, x \in Seq(R), y \in Seq(R), z \in Seq(R)
  PROVE  (x \o y) \o z = x \o (y \o z)
<1>1. \A u, v, w \in Seq(R) : (u \o v) \o w = u \o (v \o w)
  BY Associative
<1>. QED
  BY <1>1, Zenon

LEMMA LoopKeeps ==
  ASSUME NEW R, NEW limits \in LimitsOf(R), NEW pieces \in Seq(Seq(R)), NEW piece \in Seq(R),
         NEW state, LoopInv(R, state, pieces, limits)
  PROVE  LoopInv(R, Collect(state, piece, limits), Append(pieces, piece), limits)
<1>1. /\ state \in LoopState(R) /\ state.flushed \in Seq(Seq(R)) /\ state.chunk \in Seq(R)
      /\ FlattenSeq(state.flushed) \o state.chunk = FlattenSeq(pieces)
      /\ Fits(state.chunk, pieces, limits)
  BY DEF LoopInv, LoopState
<1>2. \A k \in 1..Len(state.flushed) :
         state.flushed[k] # <<>> /\ Fits(state.flushed[k], Append(pieces, piece), limits)
  BY FitsMore DEF LoopInv
<1>3. FlattenSeq(Append(pieces, piece)) = (FlattenSeq(state.flushed) \o state.chunk) \o piece
  BY <1>1, FlattenAppend
<1>4. FlattenSeq(state.flushed) \in Seq(R)
  BY <1>1, FlattenType
<1>5. CASE Overflows(state.chunk, piece, limits) /\ state.chunk # <<>>
  <2> DEFINE next == [flushed |-> Append(state.flushed, state.chunk), chunk |-> piece]
             flushed == Append(state.flushed, state.chunk)
  <2>1. Collect(state, piece, limits) = next
    BY <1>1, <1>5, CollectCloses
  <2>2. /\ flushed \in Seq(Seq(R)) /\ Len(flushed) = Len(state.flushed) + 1
        /\ flushed[Len(state.flushed) + 1] = state.chunk /\ Len(state.flushed) \in Nat
        /\ \A k \in 1..Len(state.flushed) : flushed[k] = state.flushed[k]
    BY <1>1
  <2>3. FlattenSeq(flushed) = FlattenSeq(state.flushed) \o state.chunk
    BY <1>1, FlattenAppend
  <2>4. next.flushed = flushed /\ next.chunk = piece
    OBVIOUS
  <2> HIDE DEF flushed
  <2>5. next \in LoopState(R)
    BY <2>2 DEF LoopState, flushed
  <2> HIDE DEF next
  <2>6. ASSUME NEW k \in 1..Len(flushed)
        PROVE  flushed[k] # <<>> /\ Fits(flushed[k], Append(pieces, piece), limits)
    <3>1. CASE k \in 1..Len(state.flushed)
      BY <1>2, <2>2, <3>1
    <3>2. CASE k = Len(state.flushed) + 1
      <4>1. Fits(state.chunk, Append(pieces, piece), limits)
        BY <1>1, FitsMore
      <4>. QED
        BY <1>5, <2>2, <3>2, <4>1
    <3>. QED
      BY <2>2, <3>1, <3>2
  <2>7. Fits(piece, Append(pieces, piece), limits)
    BY FitsLast
  <2>8. FlattenSeq(next.flushed) \o next.chunk = FlattenSeq(Append(pieces, piece))
    BY <1>3, <2>3, <2>4
  <2>9. LoopInv(R, next, Append(pieces, piece), limits)
    BY <2>4, <2>5, <2>6, <2>7, <2>8 DEF LoopInv
  <2>. QED
    BY <2>1, <2>9
<1>6. CASE ~Overflows(state.chunk, piece, limits) \/ state.chunk = <<>>
  <2> DEFINE next == [flushed |-> state.flushed, chunk |-> state.chunk \o piece]
  <2>1. Collect(state, piece, limits) = next
    BY <1>1, <1>6, CollectAdds
  <2>2. state.chunk \o piece \in Seq(R)
    BY <1>1
  <2>3. next.flushed = state.flushed /\ next.chunk = state.chunk \o piece /\ next \in LoopState(R)
    BY <1>1, <2>2 DEF LoopState
  <2>4. (FlattenSeq(state.flushed) \o state.chunk) \o piece
          = FlattenSeq(state.flushed) \o (state.chunk \o piece)
    <3> DEFINE all == FlattenSeq(state.flushed)
               chunk == state.chunk
    <3>1. all \in Seq(R) /\ chunk \in Seq(R) /\ piece \in Seq(R)
      BY <1>1, <1>4
    <3> HIDE DEF all, chunk
    <3>2. (all \o chunk) \o piece = all \o (chunk \o piece)
      BY <3>1, Regroup
    <3>. QED
      BY <3>2 DEF all, chunk
  <2>5. Fits(state.chunk \o piece, Append(pieces, piece), limits)
    <3>1. CASE ~Overflows(state.chunk, piece, limits)
      BY <1>1, <3>1, AddedIsWithin DEF Fits
    <3>2. CASE state.chunk = <<>>
      <4>1. state.chunk \o piece = piece
        BY <3>2, ConcatEmptySeq
      <4>. QED
        BY <4>1, FitsLast
    <3>. QED
      BY <1>6, <3>1, <3>2
  <2> HIDE DEF next
  <2>6. LoopInv(R, next, Append(pieces, piece), limits)
    BY <1>2, <1>3, <2>3, <2>4, <2>5 DEF LoopInv
  <2>. QED
    BY <2>1, <2>6
<1>. QED
  BY <1>5, <1>6

LEMMA LoopHolds ==
  ASSUME NEW R, NEW limits \in LimitsOf(R), NEW pieces \in Seq(Seq(R))
  PROVE  LoopInv(R, Collected(pieces, limits), pieces, limits)
<1> DEFINE P == {ps \in Seq(Seq(R)) : LoopInv(R, Collected(ps, limits), ps, limits)}
<1>1. <<>> \in P
  <2>1. <<>> \in Seq(Seq(R)) /\ Collected(<<>>, limits) = Idle
    BY EmptySeq, CollectedEmpty
  <2>. QED
    BY <2>1, LoopStarts
<1>2. ASSUME NEW ps \in Seq(Seq(R)), NEW piece \in Seq(R), ps \in P
      PROVE  Append(ps, piece) \in P
  <2>1. Append(ps, piece) \in Seq(Seq(R))
    OBVIOUS
  <2>2. Collected(Append(ps, piece), limits) = Collect(Collected(ps, limits), piece, limits)
    BY CollectedAppend
  <2>3. LoopInv(R, Collected(ps, limits), ps, limits)
    BY <1>2
  <2>4. LoopInv(R, Collect(Collected(ps, limits), piece, limits), Append(ps, piece), limits)
    BY <2>3, LoopKeeps
  <2>. QED
    BY <2>1, <2>2, <2>4
<1> HIDE DEF P
<1>3. Seq(Seq(R)) \subseteq P
  BY <1>1, <1>2, SeqInduction
<1>. QED
  BY <1>3 DEF P

(* Pieces that fit together are one chunk.                                  *)
LEMMA SmallLoop ==
  ASSUME NEW R, NEW limits \in LimitsOf(R), NEW pieces \in Seq(Seq(R)),
         WithinLimits(FlattenSeq(pieces), limits)
  PROVE  Collected(pieces, limits) = [flushed |-> <<>>, chunk |-> FlattenSeq(pieces)]
<1> DEFINE P == {ps \in Seq(Seq(R)) : WithinLimits(FlattenSeq(ps), limits) =>
                    Collected(ps, limits) = [flushed |-> <<>>, chunk |-> FlattenSeq(ps)]}
<1>1. <<>> \in P
  <2>1. <<>> \in Seq(Seq(R)) /\ FlattenSeq(<<>>) = <<>>
    BY EmptySeq, FlattenEmpty
  <2>2. Collected(<<>>, limits) = [flushed |-> <<>>, chunk |-> <<>>]
    BY CollectedEmpty DEF Idle
  <2>. QED
    BY <2>1, <2>2
<1>2. ASSUME NEW ps \in Seq(Seq(R)), NEW piece \in Seq(R), ps \in P
      PROVE  Append(ps, piece) \in P
  <2>1. Append(ps, piece) \in Seq(Seq(R))
    OBVIOUS
  <2>2. SUFFICES ASSUME WithinLimits(FlattenSeq(Append(ps, piece)), limits)
                 PROVE  Collected(Append(ps, piece), limits)
                          = [flushed |-> <<>>, chunk |-> FlattenSeq(Append(ps, piece))]
    BY <2>1
  <2> DEFINE all == FlattenSeq(ps)
             state == [flushed |-> <<>>, chunk |-> all]
  <2>3. all \in Seq(R) /\ FlattenSeq(Append(ps, piece)) = all \o piece
    BY FlattenType, FlattenAppend
  <2>4. WithinLimits(all, limits)
    <3>1. Len(all \o piece) = Len(all) + Len(piece) /\ Len(all) \in Nat /\ Len(piece) \in Nat
      BY <2>3
    <3>2. NBytes(all \o piece, limits) = NBytes(all, limits) + NBytes(piece, limits)
      BY <2>3, NBytesConcat
    <3>3. NBytes(all, limits) \in Nat /\ NBytes(piece, limits) \in Nat
      BY <2>3, NBytesType
    <3>4. limits.maxRows \in Nat /\ limits.maxBytes \in Nat
      BY DEF LimitsOf
    <3>5. WithinLimits(all \o piece, limits)
      BY <2>2, <2>3
    <3> HIDE DEF all
    <3>. QED
      BY <3>1, <3>2, <3>3, <3>4, <3>5 DEF WithinLimits
  <2>5. Collected(ps, limits) = state
    BY <1>2, <2>4
  <2>6. state \in LoopState(R) /\ state.chunk = all /\ state.flushed = <<>>
    BY <2>3, EmptySeq DEF LoopState
  <2>7. ~Overflows(state.chunk, piece, limits)
    BY <2>2, <2>3, <2>6, AddedIsWithin
  <2> HIDE DEF state
  <2>8. Collect(state, piece, limits) = [flushed |-> state.flushed, chunk |-> state.chunk \o piece]
    BY <2>6, <2>7, CollectAdds
  <2>9. Collected(Append(ps, piece), limits) = Collect(Collected(ps, limits), piece, limits)
    BY CollectedAppend
  <2>. QED
    BY <2>3, <2>5, <2>6, <2>8, <2>9
<1> HIDE DEF P
<1>3. Seq(Seq(R)) \subseteq P
  BY <1>1, <1>2, SeqInduction
<1>. QED
  BY <1>3 DEF P

-----------------------------------------------------------------------------
(* The pieces of a task's batches. *)

Batches(R) == Seq(R) \ {<<>>}

ArePieces(pieces, batches, limits) ==
  \A k \in 1..Len(pieces) : \E j \in 1..Len(batches) :
    IsSlice(pieces[k], batches[j], SliceLimit(batches[j], limits))

LEMMA PiecesAppend ==
  ASSUME NEW R, NEW limits \in LimitsOf(R), NEW batches \in Seq(Batches(R)), NEW batch \in Batches(R)
  PROVE  Pieces(Append(batches, batch), limits)
           = Pieces(batches, limits) \o SliceToCeilings(batch, limits)
<1> DEFINE n == Len(batches)
           more == Append(batches, batch)
           sliced == [b \in DOMAIN batches |-> SliceToCeilings(batches[b], limits)]
           last == SliceToCeilings(batch, limits)
           all == [b \in DOMAIN more |-> SliceToCeilings(more[b], limits)]
<1>1. /\ n \in Nat /\ DOMAIN batches = 1..n /\ DOMAIN more = 1..(n + 1)
      /\ more[n + 1] = batch /\ \A b \in 1..n : more[b] = batches[b] /\ batches[b] \in Batches(R)
  BY ElementOfSeq
<1>2. \A b \in Batches(R) : SliceToCeilings(b, limits) \in Seq(Seq(R))
  BY Slices DEF Batches
<1>3. sliced \in Seq(Seq(Seq(R))) /\ Len(sliced) = n /\ last \in Seq(Seq(R))
  <2>1. \A b \in 1..n : SliceToCeilings(batches[b], limits) \in Seq(Seq(R))
    BY <1>1, <1>2
  <2> DEFINE T == Seq(Seq(R))
  <2> HIDE DEF T
  <2>2. sliced \in [1..n -> T]
    BY <1>1, <2>1 DEF T
  <2>3. sliced \in Seq(T) /\ Len(sliced) = n
    BY <1>1, <2>2, IsASeq, LenProperties
  <2>. QED
    BY <1>2, <2>3 DEF T
<1>4. /\ \A b \in 1..n : sliced[b] = SliceToCeilings(batches[b], limits)
      /\ \A b \in 1..(n + 1) : all[b] = SliceToCeilings(more[b], limits)
      /\ all = [b \in 1..(n + 1) |-> all[b]]
  BY <1>1
<1> HIDE DEF sliced, last, all, more, n
<1>5. all = Append(sliced, last)
  <2>1. /\ Append(sliced, last) = [b \in 1..(n + 1) |-> Append(sliced, last)[b]]
        /\ Append(sliced, last)[n + 1] = last
        /\ \A b \in 1..n : Append(sliced, last)[b] = sliced[b]
    <3> DEFINE T == Seq(Seq(R))
    <3>1. sliced \in Seq(T) /\ last \in T /\ Len(sliced) = n
      BY <1>3
    <3> HIDE DEF T
    <3> DEFINE longer == Append(sliced, last)
    <3>2. /\ longer \in Seq(T) /\ Len(longer) = n + 1 /\ longer[n + 1] = last
          /\ \A b \in 1..n : longer[b] = sliced[b]
      BY <3>1, AppendProperties
    <3> HIDE DEF longer
    <3>3. longer = [b \in 1..(n + 1) |-> longer[b]]
      BY <3>2, LenProperties
    <3>. QED
      BY <3>2, <3>3 DEF longer
  <2>2. ASSUME NEW b \in 1..(n + 1) PROVE all[b] = Append(sliced, last)[b]
    <3>1. CASE b = n + 1
      BY <1>1, <1>4, <2>1, <3>1 DEF last
    <3>2. CASE b \in 1..n
      BY <1>1, <1>4, <2>1, <3>2
    <3>3. b = n + 1 \/ b \in 1..n
      <4>1. n \in Nat
        BY <1>1
      <4>. QED
        BY <4>1
    <3>. QED
      BY <3>1, <3>2, <3>3, Zenon
  <2>. QED
    BY <1>4, <2>1, <2>2
<1>6. FlattenSeq(Append(sliced, last)) = FlattenSeq(sliced) \o last
  <2> DEFINE T == Seq(R)
  <2>1. sliced \in Seq(Seq(T)) /\ last \in Seq(T)
    BY <1>3
  <2> HIDE DEF T
  <2>. QED
    BY <2>1, FlattenAppend
<1>7. Pieces(more, limits) = FlattenSeq(all) /\ Pieces(batches, limits) = FlattenSeq(sliced)
  BY DEF Pieces, all, sliced
<1>. QED
  BY <1>5, <1>6, <1>7 DEF more, last

LEMMA PiecesEmpty ==
  ASSUME NEW limits
  PROVE  Pieces(<<>>, limits) = <<>>
<1>1. [b \in DOMAIN <<>> |-> SliceToCeilings(<<>>[b], limits)] = <<>>
  OBVIOUS
<1>. QED
  BY <1>1, FlattenEmpty DEF Pieces

(* The pieces are slices of the batches, and together the batches.          *)
PiecesInv(R, batches, limits) ==
  /\ Pieces(batches, limits) \in Seq(Seq(R))
  /\ FlattenSeq(Pieces(batches, limits)) = FlattenSeq(batches)
  /\ ArePieces(Pieces(batches, limits), batches, limits)

LEMMA PiecesKeep ==
  ASSUME NEW R, NEW limits \in LimitsOf(R), NEW batches \in Seq(Batches(R)),
         NEW batch \in Batches(R), PiecesInv(R, batches, limits)
  PROVE  PiecesInv(R, Append(batches, batch), limits)
<1> DEFINE old == Pieces(batches, limits)
           new == SliceToCeilings(batch, limits)
           more == Append(batches, batch)
<1>1. /\ old \in Seq(Seq(R)) /\ FlattenSeq(old) = FlattenSeq(batches)
      /\ ArePieces(old, batches, limits)
  BY DEF PiecesInv
<1>2. /\ new \in Seq(Seq(R)) /\ FlattenSeq(new) = batch
      /\ \A k \in 1..Len(new) : IsSlice(new[k], batch, SliceLimit(batch, limits))
  BY Slices DEF Batches
<1>3. Pieces(more, limits) = old \o new
  BY PiecesAppend
<1>4. batches \in Seq(Seq(R)) /\ batch \in Seq(R)
  <2>1. Batches(R) \subseteq Seq(R)
    BY DEF Batches
  <2>. QED
    BY <2>1, SeqMonotonic
<1>5. FlattenSeq(more) = FlattenSeq(batches) \o batch
  BY <1>4, FlattenAppend
<1>6. /\ Len(more) = Len(batches) + 1 /\ Len(batches) \in Nat /\ more[Len(batches) + 1] = batch
      /\ \A j \in 1..Len(batches) : more[j] = batches[j]
  OBVIOUS
<1> HIDE DEF old, new, more
<1>7. FlattenSeq(old \o new) = FlattenSeq(more)
  BY <1>1, <1>2, <1>5, FlattenConcat
<1>8. /\ Len(old \o new) = Len(old) + Len(new) /\ Len(old) \in Nat /\ Len(new) \in Nat
      /\ \A k \in 1..Len(old) : (old \o new)[k] = old[k]
      /\ \A k \in 1..Len(new) : (old \o new)[Len(old) + k] = new[k]
      /\ old \o new \in Seq(Seq(R))
  <2> DEFINE T == Seq(R)
  <2>1. old \in Seq(T) /\ new \in Seq(T)
    BY <1>1, <1>2
  <2> HIDE DEF T
  <2>2. old \o new \in Seq(T)
    BY <2>1
  <2>3. /\ Len(old \o new) = Len(old) + Len(new) /\ Len(old) \in Nat /\ Len(new) \in Nat
        /\ \A k \in 1..Len(old) : (old \o new)[k] = old[k]
        /\ \A k \in 1..Len(new) : (old \o new)[Len(old) + k] = new[k]
    BY <2>1
  <2>. QED
    BY <2>2, <2>3 DEF T
<1>9. ASSUME NEW k \in 1..Len(old \o new)
      PROVE  \E j \in 1..Len(more) :
               IsSlice((old \o new)[k], more[j], SliceLimit(more[j], limits))
  <2>1. CASE k \in 1..Len(old)
    <3>1. PICK j \in 1..Len(batches) : IsSlice(old[k], batches[j], SliceLimit(batches[j], limits))
      BY <1>1, <2>1 DEF ArePieces
    <3>2. j \in 1..Len(more) /\ more[j] = batches[j]
      BY <1>6
    <3>. QED
      BY <1>8, <2>1, <3>1, <3>2
  <2>2. CASE k \notin 1..Len(old)
    <3>1. k - Len(old) \in 1..Len(new) /\ Len(old) + (k - Len(old)) = k
      BY <1>8, <2>2
    <3>2. (old \o new)[k] = new[k - Len(old)]
      BY <1>8, <3>1
    <3>3. Len(batches) + 1 \in 1..Len(more)
      BY <1>6
    <3>4. IsSlice((old \o new)[k], batch, SliceLimit(batch, limits))
      BY <1>2, <3>1, <3>2
    <3>. QED
      BY <1>6, <3>3, <3>4
  <2>. QED
    BY <2>1, <2>2
<1>10. ArePieces(old \o new, more, limits)
  BY <1>9 DEF ArePieces
<1>11. PiecesInv(R, more, limits)
  BY <1>3, <1>7, <1>8, <1>10 DEF PiecesInv
<1>. QED
  BY <1>11 DEF more

LEMMA PiecesHold ==
  ASSUME NEW R, NEW limits \in LimitsOf(R), NEW batches \in Seq(Batches(R))
  PROVE  PiecesInv(R, batches, limits)
<1> DEFINE P == {bs \in Seq(Batches(R)) : PiecesInv(R, bs, limits)}
<1>1. <<>> \in P
  <2>1. <<>> \in Seq(Batches(R)) /\ <<>> \in Seq(Seq(R)) /\ Len(<<>>) = 0
    BY EmptySeq
  <2>2. Pieces(<<>>, limits) = <<>>
    BY PiecesEmpty
  <2>3. ArePieces(<<>>, <<>>, limits)
    BY <2>1 DEF ArePieces
  <2>4. PiecesInv(R, <<>>, limits)
    BY <2>1, <2>2, <2>3 DEF PiecesInv
  <2>. QED
    BY <2>1, <2>4
<1>2. ASSUME NEW bs \in Seq(Batches(R)), NEW batch \in Batches(R), bs \in P
      PROVE  Append(bs, batch) \in P
  <2>1. Append(bs, batch) \in Seq(Batches(R))
    OBVIOUS
  <2>2. PiecesInv(R, bs, limits)
    BY <1>2
  <2>3. PiecesInv(R, Append(bs, batch), limits)
    BY <2>2, PiecesKeep
  <2>. QED
    BY <2>1, <2>3
<1> HIDE DEF P
<1>3. Seq(Batches(R)) \subseteq P
  BY <1>1, <1>2, SeqInduction
<1>. QED
  BY <1>3 DEF P

-----------------------------------------------------------------------------
(* Empty blocks are passed over. *)

LEMMA AcceptedIn ==
  ASSUME NEW R, NEW matching, NEW rows \in Seq(R)
  PROVE  Accepted(rows, matching) \in Seq(R \cap matching)
<1> DEFINE P == {s \in Seq(R) : Accepted(s, matching) \in Seq(R \cap matching)}
<1>1. <<>> \in P
  <2>1. <<>> \in Seq(R) /\ <<>> \in Seq(R \cap matching)
    BY EmptySeq
  <2>. QED
    BY <2>1, AcceptedEmpty
<1>2. ASSUME NEW s \in Seq(R), NEW r \in R, s \in P
      PROVE  Append(s, r) \in P
  <2>1. Append(s, r) \in Seq(R)
    OBVIOUS
  <2>2. Accepted(s, matching) \in Seq(R \cap matching)
    BY <1>2
  <2>3. Accepted(Append(s, r), matching) =
          IF r \in matching THEN Append(Accepted(s, matching), r) ELSE Accepted(s, matching)
    BY AcceptedAppend
  <2>4. CASE r \in matching
    <3>1. r \in R \cap matching
      BY <2>4
    <3>2. Append(Accepted(s, matching), r) \in Seq(R \cap matching)
      BY <2>2, <3>1, AppendProperties
    <3>. QED
      BY <2>1, <2>3, <2>4, <3>2
  <2>5. CASE r \notin matching
    BY <2>1, <2>2, <2>3, <2>5
  <2>. QED
    BY <2>4, <2>5
<1> HIDE DEF P
<1>3. Seq(R) \subseteq P
  BY <1>1, <1>2, SeqInduction
<1>. QED
  BY <1>3 DEF P

LEMMA AcceptedFlatten ==
  ASSUME NEW R, NEW U, U \subseteq Seq(R), NEW seqs \in Seq(U)
  PROVE  FlattenSeq(Accepted(seqs, U \ {<<>>})) = FlattenSeq(seqs)
<1> DEFINE M == U \ {<<>>}
           P == {s \in Seq(U) : FlattenSeq(Accepted(s, M)) = FlattenSeq(s)}
<1>1. <<>> \in P
  <2>1. <<>> \in Seq(U)
    BY EmptySeq
  <2>. QED
    BY <2>1, AcceptedEmpty
<1>2. ASSUME NEW s \in Seq(U), NEW x \in U, s \in P
      PROVE  Append(s, x) \in P
  <2>1. Append(s, x) \in Seq(U) /\ s \in Seq(Seq(R)) /\ x \in Seq(R)
    BY SeqMonotonic
  <2>2. Accepted(Append(s, x), M) = IF x \in M THEN Append(Accepted(s, M), x) ELSE Accepted(s, M)
    BY AcceptedAppend
  <2>3. FlattenSeq(Append(s, x)) = FlattenSeq(s) \o x
    BY <2>1, FlattenAppend
  <2>4. FlattenSeq(Accepted(s, M)) = FlattenSeq(s)
    BY <1>2
  <2>5. CASE x \in M
    <3>1. Accepted(s, M) \in Seq(Seq(R))
      <4>1. Accepted(s, M) \in Seq(U)
        BY AcceptedType
      <4>. QED
        BY <4>1, SeqMonotonic
    <3>2. FlattenSeq(Append(Accepted(s, M), x)) = FlattenSeq(Accepted(s, M)) \o x
      BY <2>1, <3>1, FlattenAppend
    <3>. QED
      BY <2>1, <2>2, <2>3, <2>4, <2>5, <3>2
  <2>6. CASE x \notin M
    <3>1. x = <<>>
      BY <2>6
    <3>2. FlattenSeq(s) \o <<>> = FlattenSeq(s)
      BY <2>1, FlattenType, ConcatEmptySeq
    <3>. QED
      BY <2>1, <2>2, <2>3, <2>4, <2>6, <3>1, <3>2
  <2>. QED
    BY <2>5, <2>6
<1> HIDE DEF P
<1>3. Seq(U) \subseteq P
  BY <1>1, <1>2, SeqInduction
<1>. QED
  BY <1>3 DEF P

-----------------------------------------------------------------------------
(* The requests of a task. *)

IsUneven(rows, limits) ==
  \E i, j \in 1..Len(rows) : limits.width[rows[i]] # limits.width[rows[j]]

(* A request within the ceilings, but for the bytes of a slice of one block.*)
Allowed(rows, batches, limits) ==
  /\ limits.maxRows # NoCeiling => Len(rows) <= limits.maxRows
  /\ limits.maxBytes # NoCeiling /\ ~(NBytes(rows, limits) <= limits.maxBytes) =>
       \E b \in 1..Len(batches) :
          /\ \A i \in 1..Len(rows) : \E j \in 1..Len(batches[b]) : rows[i] = batches[b][j]
          /\ Len(rows) = 1 \/ IsUneven(batches[b], limits)

Planned(R, sends, batches, limits) ==
  /\ sends \in Seq(Seq(R))
  /\ FlattenSeq(sends) = FlattenSeq(batches)
  /\ \A k \in 1..Len(sends) : sends[k] # <<>> /\ Allowed(sends[k], batches, limits)
  /\ WithinLimits(FlattenSeq(batches), limits) =>
       Len(sends) = (IF FlattenSeq(batches) = <<>> THEN 0 ELSE 1)

LEMMA FlattenNotEmpty ==
  ASSUME NEW R, NEW batches \in Seq(Batches(R)), batches # <<>>
  PROVE  FlattenSeq(batches) # <<>>
<1>1. batches \in Seq(Seq(R)) /\ 1 \in 1..Len(batches)
  <2>1. Batches(R) \subseteq Seq(R)
    BY DEF Batches
  <2>. QED
    BY <2>1, SeqMonotonic, EmptySeq
<1>2. PICK rest \in Seq(R) : FlattenSeq(batches) = batches[1] \o rest
  BY <1>1, FlattenBegins
<1>3. batches[1] \in Seq(R) /\ batches[1] # <<>>
  <2>1. batches[1] \in Batches(R)
    BY <1>1, ElementOfSeq
  <2>. QED
    BY <2>1 DEF Batches
<1>4. Len(batches[1]) \in Nat \ {0} /\ Len(rest) \in Nat
  BY <1>3, EmptySeq
<1>5. Len(batches[1] \o rest) = Len(batches[1]) + Len(rest)
  BY <1>3
<1>6. Len(<<>>) = 0
  OBVIOUS
<1>. QED
  BY <1>2, <1>4, <1>5, <1>6

LEMMA ChunkIsAllowed ==
  ASSUME NEW R, NEW limits \in LimitsOf(R), NEW batches \in Seq(Batches(R)),
         NEW pieces \in Seq(Seq(R)), ArePieces(pieces, batches, limits),
         NEW rows \in Seq(R), Fits(rows, pieces, limits)
  PROVE  Allowed(rows, batches, limits)
<1>1. CASE WithinLimits(rows, limits)
  BY <1>1 DEF WithinLimits, Allowed
<1>2. CASE \E k \in 1..Len(pieces) : rows = pieces[k]
  <2>1. PICK k \in 1..Len(pieces) : rows = pieces[k]
    BY <1>2
  <2>2. PICK b \in 1..Len(batches) : IsSlice(rows, batches[b], SliceLimit(batches[b], limits))
    BY <2>1 DEF ArePieces
  <2> DEFINE batch == batches[b]
  <2>3. batch \in Seq(R) /\ batch # <<>>
    <3>1. batch \in Batches(R)
      BY ElementOfSeq
    <3>. QED
      BY <3>1 DEF Batches
  <2>4. IsSlice(rows, batch, SliceLimit(batch, limits))
    BY <2>2
  <2>5. batches[b] = batch
    OBVIOUS
  <2> HIDE DEF batch
  <2>6. limits.maxRows # NoCeiling => Len(rows) <= limits.maxRows
    <3>1. SUFFICES ASSUME limits.maxRows # NoCeiling PROVE Len(rows) <= limits.maxRows
      OBVIOUS
    <3>2. /\ SliceLimit(batch, limits) \in 1..Len(batch) /\ Len(batch) \in Nat
          /\ SliceLimit(batch, limits) <= limits.maxRows
      BY <2>3, <3>1, SliceLimitBounds
    <3>3. Len(rows) <= SliceLimit(batch, limits)
      BY <2>4 DEF IsSlice
    <3>4. Len(rows) \in Nat /\ limits.maxRows \in Nat
      BY DEF LimitsOf
    <3>. QED
      BY <3>2, <3>3, <3>4
  <2>7. \A i \in 1..Len(rows) : \E j \in 1..Len(batch) : rows[i] = batch[j]
    BY <2>4 DEF IsSlice
  <2>8. ASSUME limits.maxBytes # NoCeiling, ~(NBytes(rows, limits) <= limits.maxBytes),
               ~IsUneven(batch, limits)
        PROVE  Len(rows) = 1
    <3>1. 1 \in 1..Len(batch)
      BY <2>3, EmptySeq
    <3> DEFINE w == limits.width[batch[1]]
    <3>2. w \in Nat
      <4>1. batch[1] \in R
        BY <2>3, <3>1, ElementOfSeq
      <4>. QED
        BY <4>1 DEF LimitsOf
    <3>3. \A i \in 1..Len(batch) : limits.width[batch[i]] = w
      BY <2>8, <3>1 DEF IsUneven
    <3> HIDE DEF w
    <3>4. NBytes(rows, limits) <= limits.maxBytes \/ Len(rows) = 1
      BY <2>3, <2>4, <2>8, <3>2, <3>3, SliceBytes
    <3>. QED
      BY <2>8, <3>4
  <2>. QED
    BY <2>5, <2>6, <2>7, <2>8 DEF Allowed
<1>. QED
  BY <1>1, <1>2 DEF Fits

(* Every request of _write_in_chunks.                                       *)
LEMMA ChunksArePlanned ==
  ASSUME NEW R, NEW limits \in LimitsOf(R), NEW batches \in Seq(Batches(R)), batches # <<>>
  PROVE  Planned(R, WriteInChunks(batches, limits), batches, limits)
<1> DEFINE pieces == Pieces(batches, limits)
           state == Collected(pieces, limits)
           sends == WriteInChunks(batches, limits)
           flushed == state.flushed
           chunk == state.chunk
           all == FlattenSeq(batches)
<1>1. /\ pieces \in Seq(Seq(R)) /\ FlattenSeq(pieces) = all
      /\ ArePieces(pieces, batches, limits)
  BY PiecesHold DEF PiecesInv
<1>2. LoopInv(R, state, pieces, limits)
  BY <1>1, LoopHolds
<1>3. all # <<>>
  BY FlattenNotEmpty
<1>4. WithinLimits(all, limits) => flushed = <<>> /\ chunk = all
  <2>1. SUFFICES ASSUME WithinLimits(all, limits) PROVE flushed = <<>> /\ chunk = all
    OBVIOUS
  <2>2. Collected(pieces, limits) = [flushed |-> <<>>, chunk |-> FlattenSeq(pieces)]
    BY <1>1, <2>1, SmallLoop
  <2> HIDE DEF pieces
  <2>. QED
    BY <1>1, <2>2
<1>5. sends = IF chunk = <<>> THEN flushed ELSE Append(flushed, chunk)
  BY DEF WriteInChunks, Flush
<1> HIDE DEF pieces, state, sends
<1>6. /\ flushed \in Seq(Seq(R)) /\ chunk \in Seq(R)
      /\ FlattenSeq(flushed) \o chunk = all
      /\ \A k \in 1..Len(flushed) : flushed[k] # <<>> /\ Fits(flushed[k], pieces, limits)
      /\ Fits(chunk, pieces, limits)
  BY <1>1, <1>2 DEF LoopInv, LoopState
<1> HIDE DEF flushed, chunk, all
<1>7. /\ \A k \in 1..Len(flushed) : Allowed(flushed[k], batches, limits)
      /\ Allowed(chunk, batches, limits)
  <2>1. \A k \in 1..Len(flushed) : flushed[k] \in Seq(R)
    BY <1>6, ElementOfSeq
  <2>. QED
    BY <1>1, <1>6, <2>1, ChunkIsAllowed
<1>8. CASE chunk = <<>>
  <2>1. sends = flushed
    BY <1>5, <1>8
  <2>2. FlattenSeq(flushed) \o <<>> = FlattenSeq(flushed)
    BY <1>6, FlattenType, ConcatEmptySeq
  <2>3. FlattenSeq(sends) = all
    BY <1>6, <1>8, <2>1, <2>2
  <2>4. ~WithinLimits(all, limits)
    BY <1>3, <1>4, <1>8
  <2>5. Planned(R, sends, batches, limits)
    BY <1>6, <1>7, <2>1, <2>3, <2>4 DEF Planned, all
  <2>. QED
    BY <2>5 DEF sends
<1>9. CASE chunk # <<>>
  <2>1. sends = Append(flushed, chunk)
    BY <1>5, <1>9
  <2>2. /\ sends \in Seq(Seq(R)) /\ Len(sends) = Len(flushed) + 1 /\ Len(flushed) \in Nat
        /\ sends[Len(flushed) + 1] = chunk
        /\ \A k \in 1..Len(flushed) : sends[k] = flushed[k]
    BY <1>6, <2>1
  <2>3. FlattenSeq(sends) = all
    BY <1>6, <2>1, FlattenAppend
  <2>4. ASSUME NEW k \in 1..Len(sends)
        PROVE  sends[k] # <<>> /\ Allowed(sends[k], batches, limits)
    <3>1. CASE k \in 1..Len(flushed)
      BY <1>6, <1>7, <2>2, <3>1
    <3>2. CASE k = Len(flushed) + 1
      BY <1>7, <1>9, <2>2, <3>2
    <3>. QED
      BY <2>2, <3>1, <3>2
  <2>5. WithinLimits(all, limits) => Len(sends) = 1
    <3>1. SUFFICES ASSUME WithinLimits(all, limits) PROVE Len(sends) = 1
      OBVIOUS
    <3>2. Len(flushed) = 0
      <4>1. Len(<<>>) = 0
        OBVIOUS
      <4>. QED
        BY <1>4, <3>1, <4>1
    <3>. QED
      BY <2>2, <3>2
  <2>6. Planned(R, sends, batches, limits)
    BY <1>3, <2>2, <2>3, <2>4, <2>5 DEF Planned, all
  <2>. QED
    BY <2>6 DEF sends
<1>. QED
  BY <1>8, <1>9

(* A task without ceilings sends its batches as one request.                *)
LEMMA WholeIsPlanned ==
  ASSUME NEW R, NEW limits \in LimitsOf(R), NEW batches \in Seq(Batches(R)), batches # <<>>,
         limits.maxRows = NoCeiling, limits.maxBytes = NoCeiling
  PROVE  Planned(R, <<FlattenSeq(batches)>>, batches, limits)
<1> DEFINE all == FlattenSeq(batches)
           sends == <<all>>
<1>1. all # <<>> /\ all \in Seq(R)
  <2>1. batches \in Seq(Seq(R))
    <3>1. Batches(R) \subseteq Seq(R)
      BY DEF Batches
    <3>. QED
      BY <3>1, SeqMonotonic
  <2>. QED
    BY <2>1, FlattenNotEmpty, FlattenType
<1>2. FlattenSeq(sends) = all
  BY <1>1, FlattenOne
<1>3. sends \in Seq(Seq(R)) /\ Len(sends) = 1 /\ sends[1] = all
  BY <1>1
<1>4. Allowed(all, batches, limits)
  BY DEF Allowed
<1> HIDE DEF sends
<1>5. \A k \in 1..Len(sends) : sends[k] # <<>> /\ Allowed(sends[k], batches, limits)
  BY <1>1, <1>3, <1>4
<1>6. Planned(R, sends, batches, limits)
  BY <1>1, <1>2, <1>3, <1>5 DEF Planned
<1>. QED
  BY <1>6 DEF sends

(* What holds of the batches holds of the blocks they are taken from.       *)
LEMMA AllowedOfBlocks ==
  ASSUME NEW B, NEW batches \in Seq(B), NEW blks, NEW rows, NEW limits,
         \A x \in B : \E b \in 1..Len(blks) : x = blks[b],
         Allowed(rows, batches, limits)
  PROVE  Allowed(rows, blks, limits)
<1>1. \A j \in 1..Len(batches) : \E b \in 1..Len(blks) : batches[j] = blks[b]
  <2>1. \A j \in 1..Len(batches) : batches[j] \in B
    BY ElementOfSeq
  <2>. QED
    BY <2>1
<1>2. ASSUME limits.maxBytes # NoCeiling, ~(NBytes(rows, limits) <= limits.maxBytes)
      PROVE  \E b \in 1..Len(blks) :
                /\ \A i \in 1..Len(rows) : \E j \in 1..Len(blks[b]) : rows[i] = blks[b][j]
                /\ Len(rows) = 1 \/ IsUneven(blks[b], limits)
  <2>1. PICK j \in 1..Len(batches) :
          /\ \A i \in 1..Len(rows) : \E k \in 1..Len(batches[j]) : rows[i] = batches[j][k]
          /\ Len(rows) = 1 \/ IsUneven(batches[j], limits)
    BY <1>2 DEF Allowed
  <2>2. PICK b \in 1..Len(blks) : batches[j] = blks[b]
    BY <1>1
  <2>. QED
    BY <2>1, <2>2
<1>. QED
  BY <1>2 DEF Allowed

LEMMA TaskIsPlanned ==
  ASSUME NEW R, NEW limits \in LimitsOf(R), NEW blks \in Seq(Seq(R))
  PROVE  Planned(R, TaskRequests(blks, limits), blks, limits)
<1> DEFINE U == ToSet(blks)
           M == U \ {<<>>}
           batches == Accepted(blks, M)
           sends == TaskRequests(blks, limits)
<1>1. /\ U \subseteq Seq(R) /\ blks \in Seq(U)
      /\ \A x \in U : \E b \in 1..Len(blks) : x = blks[b]
  <2>1. U = {blks[i] : i \in 1..Len(blks)}
    BY DEF ToSet
  <2> HIDE DEF U
  <2>2. \A i \in 1..Len(blks) : blks[i] \in U /\ blks[i] \in Seq(R)
    BY <2>1, ElementOfSeq
  <2>3. blks \in [1..Len(blks) -> U] /\ Len(blks) \in Nat
    BY <2>2, LenProperties
  <2>4. blks \in Seq(U)
    BY <2>3, IsASeq
  <2>. QED
    BY <2>1, <2>2, <2>4
<1>2. sends = CASE batches = <<>> -> <<>>
                   [] batches # <<>> /\ limits.maxRows = NoCeiling /\ limits.maxBytes = NoCeiling ->
                        <<FlattenSeq(batches)>>
                   [] OTHER -> WriteInChunks(batches, limits)
  BY DEF TaskRequests
<1> HIDE DEF U, sends
<1>3. FlattenSeq(batches) = FlattenSeq(blks)
  BY <1>1, AcceptedFlatten
<1>4. batches \in Seq(M) /\ M \subseteq Batches(R)
  <2>1. U \cap M = M
    OBVIOUS
  <2>2. batches \in Seq(U \cap M)
    BY <1>1, AcceptedIn
  <2>3. M \subseteq Batches(R)
    BY <1>1 DEF Batches
  <2>. QED
    BY <2>1, <2>2, <2>3
<1>5. batches \in Seq(Batches(R))
  BY <1>4, SeqMonotonic
<1>6. \A x \in M : \E b \in 1..Len(blks) : x = blks[b]
  BY <1>1
<1> HIDE DEF M, batches
<1>7. CASE batches = <<>>
  <2>1. sends = <<>>
    BY <1>2, <1>7
  <2>2. FlattenSeq(blks) = <<>> /\ FlattenSeq(<<>>) = <<>>
    BY <1>3, <1>7, FlattenEmpty
  <2>3. <<>> \in Seq(Seq(R)) /\ Len(<<>>) = 0
    BY EmptySeq
  <2>4. Planned(R, <<>>, blks, limits)
    BY <2>2, <2>3 DEF Planned
  <2>. QED
    BY <2>1, <2>4 DEF sends
<1>8. CASE batches # <<>>
  <2>1. Planned(R, sends, batches, limits)
    <3>1. CASE limits.maxRows = NoCeiling /\ limits.maxBytes = NoCeiling
      <4>1. sends = <<FlattenSeq(batches)>>
        BY <1>2, <1>8, <3>1
      <4>. QED
        BY <1>5, <1>8, <3>1, <4>1, WholeIsPlanned
    <3>2. CASE ~(limits.maxRows = NoCeiling /\ limits.maxBytes = NoCeiling)
      <4>1. sends = WriteInChunks(batches, limits)
        BY <1>2, <1>8, <3>2
      <4>. QED
        BY <1>5, <1>8, <4>1, ChunksArePlanned
    <3>. QED
      BY <3>1, <3>2
  <2>2. \A k \in 1..Len(sends) : Allowed(sends[k], blks, limits)
    <3>1. \A k \in 1..Len(sends) : Allowed(sends[k], batches, limits)
      BY <2>1 DEF Planned
    <3>. QED
      BY <1>4, <1>6, <3>1, AllowedOfBlocks
  <2>3. Planned(R, sends, blks, limits)
    BY <1>3, <2>1, <2>2 DEF Planned
  <2>. QED
    BY <2>3 DEF sends
<1>. QED
  BY <1>7, <1>8

-----------------------------------------------------------------------------
(* The task. *)

PlanInv ==
  /\ blocks \in Seq(Seq(BlockRow))
  /\ ceilings \in LimitsOf(BlockRow)
  /\ ~computed => requests = <<>>
  /\ computed => Planned(BlockRow, requests, blocks, ceilings)

LEMMA PlanInvariant == TaskSpec => []PlanInv
<1>1. TaskInit => PlanInv
  BY InputsAssumption, LimitsAssumption DEF TaskInit, PlanInv, LimitsOf
<1>2. PlanInv /\ [WritePlan]_taskVars => PlanInv'
  <2>1. ASSUME PlanInv, WritePlan PROVE PlanInv'
    <3>1. Planned(BlockRow, TaskRequests(blocks, ceilings), blocks, ceilings)
      BY <2>1, TaskIsPlanned DEF PlanInv
    <3>. QED
      BY <2>1, <3>1 DEF PlanInv, WritePlan
  <2>2. ASSUME PlanInv, UNCHANGED taskVars PROVE PlanInv'
    BY <2>2 DEF PlanInv, taskVars
  <2>. QED
    BY <2>1, <2>2
<1>. QED
  BY <1>1, <1>2, PTL DEF TaskSpec

(* The requests of a write task carry its rows, each once and in order:     *)
(* nothing is lost or sent twice by _slice_to_ceilings, by closing a chunk  *)
(* before the piece that would overflow it, or by the flush after the loop. *)
THEOREM RequestsKeepTheRows == TaskSpec => []RequestsKeepRows
<1>1. PlanInv => RequestsKeepRows
  BY DEF PlanInv, Planned, RequestsKeepRows, TaskRows
<1>. QED
  BY <1>1, PlanInvariant, PTL

(* No request of a write task is empty: flush returns early on an empty     *)
(* chunk and write() passes empty blocks over.                              *)
THEOREM NoRequestIsEmpty == TaskSpec => []RequestsAreNotEmpty
<1>1. PlanInv => RequestsAreNotEmpty
  <2>1. SUFFICES ASSUME PlanInv PROVE \A k \in DOMAIN requests : requests[k] # <<>>
    BY DEF RequestsAreNotEmpty
  <2>2. CASE computed
    <3>1. requests \in Seq(Seq(BlockRow)) /\ \A k \in 1..Len(requests) : requests[k] # <<>>
      BY <2>1, <2>2 DEF PlanInv, Planned
    <3>. QED
      BY <3>1
  <2>3. CASE ~computed
    BY <2>1, <2>3 DEF PlanInv
  <2>. QED
    BY <2>2, <2>3
<1>. QED
  BY <1>1, PlanInvariant, PTL

(* max_rows_per_request bounds every request of every task, and             *)
(* max_bytes_per_request every one that is not a slice of a single batch, a *)
(* single row or rows of different widths.                                  *)
THEOREM CeilingsAreRespected == TaskSpec => []RequestsRespectCeilings
<1>1. PlanInv => RequestsRespectCeilings
  <2>1. SUFFICES ASSUME PlanInv PROVE RequestsRespectCeilings
    OBVIOUS
  <2>2. CASE ~computed
    BY <2>1, <2>2 DEF PlanInv, RequestsRespectCeilings
  <2>3. CASE computed
    <3>1. SUFFICES ASSUME NEW k \in DOMAIN requests
                   PROVE
          /\ ceilings.maxRows # NoCeiling => Len(requests[k]) <= ceilings.maxRows
          /\ ceilings.maxBytes # NoCeiling /\ NBytes(requests[k], ceilings) > ceilings.maxBytes =>
               \E b \in DOMAIN blocks :
                  /\ ToSet(requests[k]) \subseteq ToSet(blocks[b])
                  /\ Len(requests[k]) = 1 \/ Uneven(blocks[b])
      BY DEF RequestsRespectCeilings
    <3> DEFINE rows == requests[k]
    <3>2. rows \in Seq(BlockRow) /\ Allowed(rows, blocks, ceilings)
      <4>1. /\ requests \in Seq(Seq(BlockRow))
            /\ \A i \in 1..Len(requests) : Allowed(requests[i], blocks, ceilings)
        BY <2>1, <2>3 DEF PlanInv, Planned
      <4>2. k \in 1..Len(requests)
        BY <4>1, LenProperties
      <4>. QED
        BY <4>1, <4>2, ElementOfSeq
    <3>3. ceilings \in LimitsOf(BlockRow) /\ blocks \in Seq(Seq(BlockRow))
      BY <2>1 DEF PlanInv
    <3> HIDE DEF rows
    <3>4. NBytes(rows, ceilings) \in Nat /\ ceilings.maxBytes \in Nat
      BY <3>2, <3>3, NBytesType DEF LimitsOf
    <3>5. ceilings.maxRows # NoCeiling => Len(rows) <= ceilings.maxRows
      BY <3>2 DEF Allowed
    <3>6. ASSUME ceilings.maxBytes # NoCeiling, NBytes(rows, ceilings) > ceilings.maxBytes
          PROVE  \E b \in DOMAIN blocks :
                    ToSet(rows) \subseteq ToSet(blocks[b]) /\ (Len(rows) = 1 \/ Uneven(blocks[b]))
      <4>1. ~(NBytes(rows, ceilings) <= ceilings.maxBytes)
        BY <3>4, <3>6
      <4>2. PICK b \in 1..Len(blocks) :
              /\ \A i \in 1..Len(rows) : \E j \in 1..Len(blocks[b]) : rows[i] = blocks[b][j]
              /\ Len(rows) = 1 \/ IsUneven(blocks[b], ceilings)
        BY <3>2, <3>6, <4>1 DEF Allowed
      <4>3. b \in DOMAIN blocks /\ blocks[b] \in Seq(BlockRow)
        BY <3>3, ElementOfSeq, LenProperties
      <4>4. DOMAIN rows = 1..Len(rows) /\ DOMAIN blocks[b] = 1..Len(blocks[b])
        BY <3>2, <4>3, LenProperties
      <4>5. ToSet(rows) \subseteq ToSet(blocks[b])
        BY <4>2, <4>4 DEF ToSet
      <4>6. IsUneven(blocks[b], ceilings) => Uneven(blocks[b])
        BY <4>4 DEF IsUneven, Uneven
      <4>. QED
        BY <4>2, <4>3, <4>5, <4>6
    <3>. QED
      BY <3>5, <3>6 DEF rows
  <2>. QED
    BY <2>2, <2>3
<1>. QED
  BY <1>1, PlanInvariant, PTL

(* A task whose rows fit under the ceilings is one request, and so one      *)
(* version of the table; a task without rows sends none.                    *)
THEOREM SmallTasksSendOnce == TaskSpec => []SmallTaskIsOneRequest
<1>1. PlanInv => SmallTaskIsOneRequest
  BY DEF PlanInv, Planned, SmallTaskIsOneRequest, TaskRows, WithinCeilings, WithinLimits
<1>. QED
  BY <1>1, PlanInvariant, PTL

=============================================================================
