--------------------------- MODULE SequenceProofs ---------------------------
(***************************************************************************)
(* Facts about filtered and about flattened sequences, by induction.        *)
(***************************************************************************)
EXTENDS RowFilter, SequencesExt, SequenceTheorems, WellFoundedInduction, TLAPS

(* Induction, stated of a set.                                              *)
LEMMA SetInduction ==
  ASSUME NEW S, 0 \in S, \A n \in Nat : n \in S => n + 1 \in S
  PROVE  Nat \subseteq S
<1> DEFINE Out == {n \in Nat : n \notin S}
<1>1. SUFFICES ASSUME Out # {} PROVE FALSE
  OBVIOUS
<1>2. Out \subseteq Nat /\ IsWellFoundedOn(OpToRel(<, Nat), Nat)
  BY NatLessThanWellFounded
<1>3. PICK x \in Out : \A y \in Out : ~(<<y, x>> \in OpToRel(<, Nat))
  BY <1>1, <1>2, WFMin
<1>4. x \in Nat /\ x # 0 /\ x \notin S
  BY <1>3
<1>5. x - 1 \in Nat /\ x - 1 < x /\ x - 1 \notin S
  BY <1>4
<1>6. <<x - 1, x>> \in OpToRel(<, Nat)
  BY <1>4, <1>5 DEF OpToRel
<1>. QED
  BY <1>3, <1>5, <1>6

(* Induction over sequences, stated of a set of them.                       *)
LEMMA SeqInduction ==
  ASSUME NEW R, NEW P, <<>> \in P,
         \A s \in Seq(R), r \in R : s \in P => Append(s, r) \in P
  PROVE  Seq(R) \subseteq P
<1> DEFINE S == {n \in Nat : \A s \in Seq(R) : Len(s) = n => s \in P}
<1>1. 0 \in S
  BY EmptySeq
<1>2. ASSUME NEW n \in Nat, n \in S
      PROVE  n + 1 \in S
  <2>1. SUFFICES ASSUME NEW s \in Seq(R), Len(s) = n + 1
                 PROVE  s \in P
    OBVIOUS
  <2>2. PICK front \in Seq(R), last \in R : s = Append(front, last)
    BY <2>1, EmptySeq, SequenceEmptyOrAppend
  <2>3. Len(front) = n
    BY <2>1, <2>2
  <2>. QED
    BY <1>2, <2>2, <2>3
<1>3. Nat \subseteq S
  BY <1>1, <1>2, SetInduction
<1>. QED
  BY <1>3, LenProperties

-----------------------------------------------------------------------------
(* Filtered sequences. *)

(* f[i] is what the filter keeps of the first i rows, for each i up to n.   *)
KeepsUpTo(f, rows, matching, n) ==
  f = [i \in 0..n |->
         IF i = 0 THEN <<>>
         ELSE IF rows[i] \in matching THEN Append(f[i - 1], rows[i]) ELSE f[i - 1]]

LEMMA KeepsExists ==
  ASSUME NEW rows, NEW matching, NEW n \in Nat
  PROVE  \E f : KeepsUpTo(f, rows, matching, n)
<1> DEFINE S == {k \in Nat : \E f : KeepsUpTo(f, rows, matching, k)}
<1>1. 0 \in S
  <2>1. KeepsUpTo([i \in 0..0 |-> <<>>], rows, matching, 0)
    BY DEF KeepsUpTo
  <2>. QED
    BY <2>1
<1>2. ASSUME NEW k \in Nat, k \in S
      PROVE  k + 1 \in S
  <2>1. PICK f : KeepsUpTo(f, rows, matching, k)
    BY <1>2
  <2> DEFINE g == [i \in 0..(k + 1) |->
                     IF i <= k THEN f[i]
                     ELSE IF rows[i] \in matching THEN Append(f[k], rows[i]) ELSE f[k]]
  <2>2. \A i \in 0..(k + 1) :
          g[i] = IF i = 0 THEN <<>>
                 ELSE IF rows[i] \in matching THEN Append(g[i - 1], rows[i]) ELSE g[i - 1]
    <3>1. TAKE i \in 0..(k + 1)
    <3>2. CASE i = k + 1
      BY <3>2
    <3>3. CASE i \in 0..k
      <4>1. f[i] = IF i = 0 THEN <<>>
                   ELSE IF rows[i] \in matching THEN Append(f[i - 1], rows[i]) ELSE f[i - 1]
        BY <2>1, <3>3 DEF KeepsUpTo
      <4>2. g[i] = f[i] /\ (i # 0 => g[i - 1] = f[i - 1])
        BY <3>3
      <4>. QED
        BY <4>1, <4>2
    <3>. QED
      BY <3>2, <3>3
  <2>3. KeepsUpTo(g, rows, matching, k + 1)
    <3> DEFINE h == [i \in 0..(k + 1) |->
         IF i = 0 THEN <<>>
         ELSE IF rows[i] \in matching THEN Append(g[i - 1], rows[i]) ELSE g[i - 1]]
    <3>1. g = [i \in 0..(k + 1) |-> g[i]]
      OBVIOUS
    <3> HIDE DEF g
    <3>2. g = h
      BY <2>2, <3>1
    <3>. QED
      BY <3>2 DEF KeepsUpTo
  <2>. QED
    BY <2>3
<1>. QED
  BY <1>1, <1>2, SetInduction

LEMMA AcceptedIsKept ==
  ASSUME NEW rows, NEW matching, Len(rows) \in Nat
  PROVE  \E f : KeepsUpTo(f, rows, matching, Len(rows)) /\ Accepted(rows, matching) = f[Len(rows)]
<1> DEFINE kept == CHOOSE f : KeepsUpTo(f, rows, matching, Len(rows))
<1>1. KeepsUpTo(kept, rows, matching, Len(rows))
  BY KeepsExists
<1>2. Accepted(rows, matching) = kept[Len(rows)]
  BY DEF Accepted, KeepsUpTo
<1>. QED
  BY <1>1, <1>2

(* What is kept of a prefix does not depend on what follows it.             *)
LEMMA KeepsAgree ==
  ASSUME NEW f, NEW g, NEW rows, NEW others, NEW matching, NEW n \in Nat, NEW m \in Nat,
         KeepsUpTo(f, rows, matching, n), KeepsUpTo(g, others, matching, m), n <= m,
         \A i \in 1..n : rows[i] = others[i]
  PROVE  f[n] = g[n]
<1> DEFINE S == {k \in Nat : k <= n => f[k] = g[k]}
<1>1. 0 \in S
  BY DEF KeepsUpTo
<1>2. ASSUME NEW k \in Nat, k \in S
      PROVE  k + 1 \in S
  <2>1. SUFFICES ASSUME k + 1 <= n PROVE f[k + 1] = g[k + 1]
    OBVIOUS
  <2>2. k + 1 \in 0..n /\ k + 1 \in 0..m /\ k + 1 # 0 /\ (k + 1) - 1 = k /\ k + 1 \in 1..n
    BY <2>1
  <2>3. f[k + 1] = IF rows[k + 1] \in matching THEN Append(f[k], rows[k + 1]) ELSE f[k]
    BY <2>2 DEF KeepsUpTo
  <2>4. g[k + 1] = IF others[k + 1] \in matching THEN Append(g[k], others[k + 1]) ELSE g[k]
    BY <2>2 DEF KeepsUpTo
  <2>. QED
    BY <1>2, <2>1, <2>2, <2>3, <2>4
<1>3. n \in S
  BY <1>1, <1>2, SetInduction
<1>. QED
  BY <1>3

LEMMA AcceptedEmpty ==
  ASSUME NEW matching
  PROVE  Accepted(<<>>, matching) = <<>>
<1>1. Len(<<>>) = 0
  OBVIOUS
<1>2. PICK f : KeepsUpTo(f, <<>>, matching, Len(<<>>)) /\ Accepted(<<>>, matching) = f[Len(<<>>)]
  <2>1. Len(<<>>) \in Nat
    BY <1>1
  <2>. QED
    BY <2>1, AcceptedIsKept
<1>. QED
  BY <1>1, <1>2 DEF KeepsUpTo

LEMMA AcceptedAppend ==
  ASSUME NEW R, NEW rows \in Seq(R), NEW r \in R, NEW matching
  PROVE  Accepted(Append(rows, r), matching) =
           IF r \in matching THEN Append(Accepted(rows, matching), r)
           ELSE Accepted(rows, matching)
<1> DEFINE more == Append(rows, r)
           n == Len(rows)
<1>1. n \in Nat /\ Len(more) = n + 1 /\ more[n + 1] = r /\ \A i \in 1..n : rows[i] = more[i]
  OBVIOUS
<1> HIDE DEF more, n
<1>2. PICK f : KeepsUpTo(f, rows, matching, n) /\ Accepted(rows, matching) = f[n]
  BY <1>1, AcceptedIsKept DEF n
<1>3. PICK g : KeepsUpTo(g, more, matching, n + 1) /\ Accepted(more, matching) = g[n + 1]
  <2>1. Len(more) \in Nat
    BY <1>1
  <2>2. PICK g : KeepsUpTo(g, more, matching, Len(more)) /\ Accepted(more, matching) = g[Len(more)]
    BY <2>1, AcceptedIsKept
  <2>. QED
    BY <1>1, <2>2
<1>4. f[n] = g[n]
  <2>1. n \in Nat /\ n + 1 \in Nat /\ n <= n + 1
    BY <1>1
  <2>. QED
    BY <1>1, <1>2, <1>3, <2>1, KeepsAgree
<1>5. g[n + 1] = IF more[n + 1] \in matching THEN Append(g[n], more[n + 1]) ELSE g[n]
  <2>1. n + 1 \in 0..(n + 1) /\ n + 1 # 0 /\ (n + 1) - 1 = n
    BY <1>1
  <2>. QED
    BY <1>3, <2>1 DEF KeepsUpTo
<1>. QED
  BY <1>1, <1>2, <1>3, <1>4, <1>5 DEF more

LEMMA AcceptedType ==
  ASSUME NEW R, NEW rows \in Seq(R), NEW matching
  PROVE  /\ Accepted(rows, matching) \in Seq(R)
         /\ Len(Accepted(rows, matching)) <= Len(rows)
<1> DEFINE P == {s \in Seq(R) : /\ Accepted(s, matching) \in Seq(R)
                                /\ Len(Accepted(s, matching)) <= Len(s)}
<1>1. <<>> \in P
  <2>1. <<>> \in Seq(R) /\ Len(<<>>) = 0
    OBVIOUS
  <2>2. Accepted(<<>>, matching) = <<>>
    BY AcceptedEmpty
  <2>3. Accepted(<<>>, matching) \in Seq(R) /\ Len(Accepted(<<>>, matching)) = 0
    BY <2>1, <2>2, Zenon
  <2>. QED
    BY <2>1, <2>3
<1>2. ASSUME NEW s \in Seq(R), NEW r \in R, s \in P
      PROVE  Append(s, r) \in P
  <2>1. Append(s, r) \in Seq(R) /\ Len(Append(s, r)) = Len(s) + 1 /\ Len(s) \in Nat
    OBVIOUS
  <2>2. Accepted(s, matching) \in Seq(R) /\ Len(Accepted(s, matching)) <= Len(s)
    BY <1>2
  <2>3. CASE r \in matching
    <3>1. Accepted(Append(s, r), matching) = Append(Accepted(s, matching), r)
      BY <2>3, AcceptedAppend
    <3>2. /\ Append(Accepted(s, matching), r) \in Seq(R)
          /\ Len(Append(Accepted(s, matching), r)) = Len(Accepted(s, matching)) + 1
          /\ Len(Accepted(s, matching)) \in Nat
      BY <2>2
    <3>3. Len(Accepted(s, matching)) + 1 <= Len(s) + 1
      BY <2>1, <2>2, <3>2
    <3>4. Len(Accepted(Append(s, r), matching)) <= Len(Append(s, r))
      BY <2>1, <3>1, <3>2, <3>3
    <3>. QED
      BY <2>1, <3>1, <3>2, <3>4
  <2>4. CASE r \notin matching
    <3>1. Accepted(Append(s, r), matching) = Accepted(s, matching)
      BY <2>4, AcceptedAppend
    <3>2. Len(Accepted(s, matching)) <= Len(s) + 1
      BY <2>1, <2>2
    <3>. QED
      BY <2>1, <2>2, <3>1, <3>2
  <2>. QED
    BY <2>3, <2>4
<1>3. Seq(R) \subseteq P
  <2> HIDE DEF P
  <2>. QED
    BY <1>1, <1>2, SeqInduction
<1>. QED
  BY <1>3

LEMMA Associative ==
  \A R : \A x, y, z \in Seq(R) : (x \o y) \o z = x \o (y \o z)
BY ConcatAssociative

(* A filter may be applied piece by piece.                                  *)
LEMMA AcceptedConcat ==
  ASSUME NEW R, NEW matching
  PROVE  \A s, t \in Seq(R) :
           Accepted(s \o t, matching) = Accepted(s, matching) \o Accepted(t, matching)
<1>0. \A x, y \in Seq(R), r \in R : Append(x \o y, r) = x \o Append(y, r)
  <2> TAKE x, y \in Seq(R), r \in R
  <2>1. x \o y \in Seq(R) /\ <<r>> \in Seq(R)
    OBVIOUS
  <2>2. Append(x \o y, r) = (x \o y) \o <<r>> /\ Append(y, r) = y \o <<r>>
    BY <2>1, AppendIsConcat
  <2>. QED
    BY <2>1, <2>2, ConcatAssociative
<1> TAKE s \in Seq(R)
<1> DEFINE P == {u \in Seq(R) : Accepted(s \o u, matching)
                                  = Accepted(s, matching) \o Accepted(u, matching)}
<1>1. <<>> \in P
  BY AcceptedEmpty, AcceptedType
<1>2. ASSUME NEW u \in Seq(R), NEW r \in R, u \in P
      PROVE  Append(u, r) \in P
  <2>0. SUFFICES Accepted(s \o Append(u, r), matching)
                   = Accepted(s, matching) \o Accepted(Append(u, r), matching)
    <3>1. Append(u, r) \in Seq(R)
      OBVIOUS
    <3>. QED
      BY <3>1
  <2>1. s \o Append(u, r) = Append(s \o u, r) /\ s \o u \in Seq(R)
    OBVIOUS
  <2>2. Accepted(s, matching) \in Seq(R) /\ Accepted(u, matching) \in Seq(R)
    BY AcceptedType
  <2>3. Accepted(s \o Append(u, r), matching)
          = IF r \in matching THEN Append(Accepted(s \o u, matching), r)
            ELSE Accepted(s \o u, matching)
    BY <2>1, AcceptedAppend
  <2>4. Accepted(Append(u, r), matching)
          = IF r \in matching THEN Append(Accepted(u, matching), r)
            ELSE Accepted(u, matching)
    BY AcceptedAppend
  <2>5. Accepted(s \o u, matching) = Accepted(s, matching) \o Accepted(u, matching)
    BY <1>2
  <2>6. CASE r \in matching
    <3>1. Append(Accepted(s, matching) \o Accepted(u, matching), r)
            = Accepted(s, matching) \o Append(Accepted(u, matching), r)
      BY <1>0, <2>2, Zenon
    <3>2. Accepted(Append(u, r), matching) = Append(Accepted(u, matching), r)
      BY <2>4, <2>6
    <3>3. Accepted(s \o Append(u, r), matching)
            = Append(Accepted(s, matching) \o Accepted(u, matching), r)
      BY <2>3, <2>5, <2>6, Zenon
    <3>. QED
      BY <3>1, <3>2, <3>3, Zenon
  <2>7. CASE r \notin matching
    BY <2>3, <2>4, <2>5, <2>7
  <2>. QED
    BY <2>6, <2>7
<1>3. Seq(R) \subseteq P
  <2> HIDE DEF P
  <2>. QED
    BY <1>1, <1>2, SeqInduction
<1>. QED
  BY <1>3

-----------------------------------------------------------------------------
(* Flattened sequences. *)

(* f[i] is the concatenation of the first i sequences.                      *)
FlattensUpTo(f, seqs, n) == f = [i \in 1..n |-> IF i = 1 THEN seqs[i] ELSE f[i - 1] \o seqs[i]]

LEMMA FlattensExists ==
  ASSUME NEW seqs, NEW n \in Nat
  PROVE  \E f : FlattensUpTo(f, seqs, n)
<1> DEFINE S == {k \in Nat : \E f : FlattensUpTo(f, seqs, k)}
<1>1. 0 \in S
  <2>1. FlattensUpTo([i \in 1..0 |-> <<>>], seqs, 0)
    BY DEF FlattensUpTo
  <2>. QED
    BY <2>1
<1>2. ASSUME NEW k \in Nat, k \in S
      PROVE  k + 1 \in S
  <2>1. PICK f : FlattensUpTo(f, seqs, k)
    BY <1>2
  <2> DEFINE g == [i \in 1..(k + 1) |->
                     IF i <= k THEN f[i] ELSE IF i = 1 THEN seqs[i] ELSE f[k] \o seqs[i]]
  <2>2. \A i \in 1..(k + 1) : g[i] = IF i = 1 THEN seqs[i] ELSE g[i - 1] \o seqs[i]
    <3>1. TAKE i \in 1..(k + 1)
    <3>2. CASE i = k + 1
      BY <3>2
    <3>3. CASE i \in 1..k
      <4>1. f[i] = IF i = 1 THEN seqs[i] ELSE f[i - 1] \o seqs[i]
        BY <2>1, <3>3 DEF FlattensUpTo
      <4>2. g[i] = f[i] /\ (i # 1 => g[i - 1] = f[i - 1])
        BY <3>3
      <4>. QED
        BY <4>1, <4>2
    <3>. QED
      BY <3>2, <3>3
  <2>3. FlattensUpTo(g, seqs, k + 1)
    <3> DEFINE h == [i \in 1..(k + 1) |-> IF i = 1 THEN seqs[i] ELSE g[i - 1] \o seqs[i]]
    <3>1. g = [i \in 1..(k + 1) |-> g[i]]
      OBVIOUS
    <3> HIDE DEF g
    <3>2. g = h
      BY <2>2, <3>1
    <3>. QED
      BY <3>2 DEF FlattensUpTo
  <2>. QED
    BY <2>3
<1>. QED
  BY <1>1, <1>2, SetInduction

(* part[i] is the concatenation of the first i sequences.                   *)
Accumulates(part, seqs, n) ==
  part[1] = seqs[1] /\ \A i \in 2..n : part[i] = part[i - 1] \o seqs[i]

(* FlattenSeq is what the partial concatenations come to.                   *)
LEMMA FlattenIs ==
  ASSUME NEW seqs, NEW n \in Nat \ {0}, Len(seqs) = n, NEW part, Accumulates(part, seqs, n)
  PROVE  FlattenSeq(seqs) = part[n]
<1>7. part[1] = seqs[1] /\ \A i \in 2..n : part[i] = part[i - 1] \o seqs[i]
  BY DEF Accumulates
<1> DEFINE flatten == CHOOSE f : FlattensUpTo(f, seqs, n)
<1>1. FlattensUpTo(flatten, seqs, n)
  BY FlattensExists
<1>2. FlattenSeq(seqs) = flatten[n]
  BY DEF FlattenSeq, FlattensUpTo
<1> HIDE DEF flatten
<1> DEFINE S == {k \in Nat : k + 1 <= n => flatten[k + 1] = part[k + 1]}
<1>3. 0 \in S
  BY <1>1, <1>7 DEF FlattensUpTo
<1>4. ASSUME NEW k \in Nat, k \in S
      PROVE  k + 1 \in S
  <2>1. SUFFICES ASSUME k + 2 <= n PROVE flatten[k + 2] = part[k + 2]
    <3>1. (k + 1) + 1 = k + 2
      OBVIOUS
    <3>. QED
      BY <3>1
  <2>2. k + 2 \in 2..n /\ k + 2 \in 1..n /\ k + 2 # 1 /\ (k + 2) - 1 = k + 1
    BY <2>1
  <2>3. flatten[k + 2] = flatten[k + 1] \o seqs[k + 2]
    BY <1>1, <2>2 DEF FlattensUpTo
  <2>4. part[k + 2] = part[k + 1] \o seqs[k + 2]
    BY <1>7, <2>2
  <2>5. flatten[k + 1] = part[k + 1]
    <3>1. k + 1 <= n
      BY <2>1
    <3>. QED
      BY <1>4, <3>1
  <2>. QED
    BY <2>3, <2>4, <2>5
<1>5. n - 1 \in S
  <2> HIDE DEF S
  <2>1. Nat \subseteq S
    BY <1>3, <1>4, SetInduction
  <2>. QED
    BY <2>1
<1>6. (n - 1) + 1 = n /\ n - 1 \in Nat
  OBVIOUS
<1>. QED
  BY <1>2, <1>5, <1>6

(* A flattened sequence begins with its first part.                         *)
LEMMA FlattenBegins ==
  ASSUME NEW R, NEW seqs \in Seq(Seq(R)), seqs # <<>>
  PROVE  \E rest \in Seq(R) : FlattenSeq(seqs) = seqs[1] \o rest
<1> DEFINE n == Len(seqs)
           flatten == CHOOSE f : FlattensUpTo(f, seqs, n)
<1>0. \A x, y, z \in Seq(R) : (x \o y) \o z = x \o (y \o z)
  BY Associative
<1>1. n \in Nat \ {0} /\ \A i \in 1..n : seqs[i] \in Seq(R)
  BY EmptySeq, ElementOfSeq
<1>2. FlattensUpTo(flatten, seqs, n)
  BY <1>1, FlattensExists
<1>3. FlattenSeq(seqs) = flatten[n]
  BY <1>1 DEF FlattenSeq, FlattensUpTo
<1> HIDE DEF flatten, n
<1> DEFINE S == {k \in Nat : k + 1 <= n =>
                    \E rest \in Seq(R) : flatten[k + 1] = seqs[1] \o rest}
<1>4. 0 \in S
  <2>1. flatten[1] = seqs[1]
    BY <1>1, <1>2 DEF FlattensUpTo
  <2>2. seqs[1] \in Seq(R)
    BY <1>1
  <2>3. seqs[1] = seqs[1] \o <<>> /\ <<>> \in Seq(R)
    BY <2>2, ConcatEmptySeq
  <2>4. flatten[0 + 1] = seqs[1] \o <<>>
    BY <2>1, <2>3
  <2>. QED
    BY <2>3, <2>4
<1>5. ASSUME NEW k \in Nat, k \in S
      PROVE  k + 1 \in S
  <2>1. SUFFICES ASSUME (k + 1) + 1 <= n
                 PROVE  \E rest \in Seq(R) : flatten[(k + 1) + 1] = seqs[1] \o rest
    OBVIOUS
  <2>2. k + 1 <= n /\ k + 1 \in 1..n /\ (k + 1) + 1 \in 1..n /\ (k + 1) + 1 # 1 /\ ((k + 1) + 1) - 1 = k + 1
    BY <1>1, <2>1
  <2>3. PICK rest \in Seq(R) : flatten[k + 1] = seqs[1] \o rest
    BY <1>5, <2>2
  <2>4. flatten[(k + 1) + 1] = flatten[k + 1] \o seqs[(k + 1) + 1]
    BY <1>2, <2>2 DEF FlattensUpTo
  <2>5. seqs[1] \in Seq(R) /\ seqs[(k + 1) + 1] \in Seq(R)
    BY <1>1, <2>2
  <2>6. (seqs[1] \o rest) \o seqs[(k + 1) + 1] = seqs[1] \o (rest \o seqs[(k + 1) + 1])
    BY <1>0, <2>5, Zenon
  <2>7. rest \o seqs[(k + 1) + 1] \in Seq(R)
    BY <2>5
  <2>8. flatten[(k + 1) + 1] = seqs[1] \o (rest \o seqs[(k + 1) + 1])
    BY <2>3, <2>4, <2>6
  <2>. QED
    BY <2>7, <2>8
<1>6. n - 1 \in S
  <2> HIDE DEF S
  <2>1. Nat \subseteq S
    BY <1>4, <1>5, SetInduction
  <2>. QED
    BY <1>1, <2>1
<1>7. (n - 1) + 1 = n /\ (n - 1) + 1 <= n
  BY <1>1
<1>8. \E rest \in Seq(R) : flatten[(n - 1) + 1] = seqs[1] \o rest
  BY <1>6, <1>7
<1>. QED
  BY <1>3, <1>7, <1>8

=============================================================================
