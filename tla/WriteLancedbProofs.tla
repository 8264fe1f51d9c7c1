------------------------- MODULE WriteLancedbProofs -------------------------
(***************************************************************************)
(* From a dataset to a table: what a write promises for any dataset, any    *)
(* bundling and any ceilings.  Each row of the dataset is in one request of *)
(* one task, and the hash partition leaves no key to two tasks; so the      *)
(* theorems about Datasink hold of the tasks and requests of write_lancedb. *)
(***************************************************************************)
EXTENDS WriteLancedb, RequestPlanProofs

-----------------------------------------------------------------------------
(* Sequences whose elements are all different.                              *)

LEMMA AppendMembers ==
  ASSUME NEW R, NEW s \in Seq(R), NEW x \in R
  PROVE  /\ ToSet(Append(s, x)) = ToSet(s) \cup {x}
         /\ IsInjective(Append(s, x)) <=> IsInjective(s) /\ x \notin ToSet(s)
<1> DEFINE n == Len(s)
           a == Append(s, x)
<1>1. /\ n \in Nat /\ DOMAIN s = 1..n /\ DOMAIN a = 1..(n + 1)
      /\ \A i \in 1..n : a[i] = s[i]
      /\ a[n + 1] = x
  BY AppendProperties, LenProperties
<1> HIDE DEF n, a
<1>2. 1..(n + 1) = 1..n \cup {n + 1} /\ n + 1 \notin 1..n
  BY <1>1
<1>3. ToSet(a) = ToSet(s) \cup {x}
  BY <1>1, <1>2 DEF ToSet
<1>4. ASSUME IsInjective(a) PROVE IsInjective(s) /\ x \notin ToSet(s)
  BY <1>1, <1>2, <1>4 DEF IsInjective, ToSet
<1>5. ASSUME IsInjective(s), x \notin ToSet(s) PROVE IsInjective(a)
  BY <1>1, <1>2, <1>5 DEF IsInjective, ToSet
<1>. QED
  BY <1>3, <1>4, <1>5 DEF a

LEMMA EmptyMembers == ToSet(<<>>) = {} /\ IsInjective(<<>>)
<1>1. DOMAIN <<>> = {}
  BY EmptySeq
<1>. QED
  BY <1>1 DEF ToSet, IsInjective

LEMMA AppendConcat ==
  ASSUME NEW R, NEW s \in Seq(R), NEW t \in Seq(R), NEW x \in R
  PROVE  s \o Append(t, x) = Append(s \o t, x)
<1>1. s \o t \in Seq(R) /\ <<x>> \in Seq(R)
  OBVIOUS
<1>2. Append(s \o t, x) = (s \o t) \o <<x>> /\ Append(t, x) = t \o <<x>>
  BY <1>1, AppendIsConcat
<1>. QED
  BY <1>1, <1>2, Regroup

Apart(s, t) == ToSet(s) \cap ToSet(t) = {}

LEMMA ConcatMembers ==
  ASSUME NEW R, NEW s \in Seq(R), NEW t \in Seq(R)
  PROVE  /\ ToSet(s \o t) = ToSet(s) \cup ToSet(t)
         /\ IsInjective(s \o t) <=> IsInjective(s) /\ IsInjective(t) /\ Apart(s, t)
<1> DEFINE P == {u \in Seq(R) :
                   /\ ToSet(s \o u) = ToSet(s) \cup ToSet(u)
                   /\ IsInjective(s \o u) <=> IsInjective(s) /\ IsInjective(u) /\ Apart(s, u)}
<1>1. <<>> \in P
  <2>1. s \o <<>> = s /\ <<>> \in Seq(R)
    BY ConcatEmptySeq, EmptySeq
  <2>. QED
    BY <2>1, EmptyMembers DEF Apart
<1>2. ASSUME NEW u \in Seq(R), NEW x \in R, u \in P
      PROVE  Append(u, x) \in P
  <2>1. s \o u \in Seq(R) /\ Append(u, x) \in Seq(R) /\ s \o Append(u, x) = Append(s \o u, x)
    BY AppendConcat
  <2>2. /\ ToSet(Append(s \o u, x)) = ToSet(s \o u) \cup {x}
        /\ IsInjective(Append(s \o u, x)) <=> IsInjective(s \o u) /\ x \notin ToSet(s \o u)
    BY <2>1, AppendMembers
  <2>3. /\ ToSet(Append(u, x)) = ToSet(u) \cup {x}
        /\ IsInjective(Append(u, x)) <=> IsInjective(u) /\ x \notin ToSet(u)
    BY AppendMembers
  <2>4. /\ ToSet(s \o u) = ToSet(s) \cup ToSet(u)
        /\ IsInjective(s \o u) <=> IsInjective(s) /\ IsInjective(u) /\ Apart(s, u)
    BY <1>2
  <2>5. ToSet(s \o Append(u, x)) = ToSet(s) \cup ToSet(Append(u, x))
    BY <2>1, <2>2, <2>3, <2>4
  <2>6. IsInjective(s \o Append(u, x))
          <=> IsInjective(s) /\ IsInjective(Append(u, x)) /\ Apart(s, Append(u, x))
    BY <2>1, <2>2, <2>3, <2>4 DEF Apart
  <2>. QED
    BY <2>1, <2>5, <2>6
<1>3. Seq(R) \subseteq P
  <2> HIDE DEF P
  <2>. QED
    BY <1>1, <1>2, SeqInduction
<1>. QED
  BY <1>3

(* Blocks that no row is in twice: neither in one block nor in two.         *)
RowsOnce(blks) ==
  /\ \A i \in DOMAIN blks : IsInjective(blks[i])
  /\ \A i, j \in DOMAIN blks : i # j => Apart(blks[i], blks[j])

RowsIn(blks) == UNION {ToSet(blks[i]) : i \in DOMAIN blks}

LEMMA AppendBlocks ==
  ASSUME NEW R, NEW bs \in Seq(Seq(R)), NEW b \in Seq(R)
  PROVE  /\ RowsIn(Append(bs, b)) = RowsIn(bs) \cup ToSet(b)
         /\ RowsOnce(Append(bs, b))
              <=> RowsOnce(bs) /\ IsInjective(b) /\ RowsIn(bs) \cap ToSet(b) = {}
<1> DEFINE n == Len(bs)
           a == Append(bs, b)
<1>1. /\ n \in Nat /\ DOMAIN bs = 1..n /\ DOMAIN a = 1..(n + 1)
      /\ \A i \in 1..n : a[i] = bs[i]
      /\ a[n + 1] = b
  BY AppendProperties, LenProperties
<1> HIDE DEF n, a
<1>2. 1..(n + 1) = 1..n \cup {n + 1} /\ n + 1 \notin 1..n
  BY <1>1
<1>3. RowsIn(a) = RowsIn(bs) \cup ToSet(b)
  BY <1>1, <1>2 DEF RowsIn
<1>4. ASSUME RowsOnce(a)
      PROVE  RowsOnce(bs) /\ IsInjective(b) /\ RowsIn(bs) \cap ToSet(b) = {}
  <2>1. RowsOnce(bs) /\ IsInjective(b)
    BY <1>1, <1>2, <1>4 DEF RowsOnce
  <2>2. \A i \in 1..n : Apart(bs[i], b)
    BY <1>1, <1>2, <1>4 DEF RowsOnce
  <2>. QED
    BY <1>1, <2>1, <2>2 DEF RowsIn, Apart
<1>5. ASSUME RowsOnce(bs), IsInjective(b), RowsIn(bs) \cap ToSet(b) = {}
      PROVE  RowsOnce(a)
  <2>1. \A i \in 1..n : Apart(bs[i], b) /\ Apart(b, bs[i])
    BY <1>1, <1>5 DEF RowsIn, Apart
  <2>. QED
    BY <1>1, <1>2, <1>5, <2>1 DEF RowsOnce
<1>. QED
  BY <1>3, <1>4, <1>5 DEF a

(* A dataset's rows, and that none repeats, whichever blocks they are in.   *)
LEMMA FlattenMembers ==
  ASSUME NEW R, NEW blks \in Seq(Seq(R))
  PROVE  ToSet(FlattenSeq(blks)) = RowsIn(blks) /\ (IsInjective(FlattenSeq(blks)) <=> RowsOnce(blks))
<1> DEFINE P == {bs \in Seq(Seq(R)) : /\ ToSet(FlattenSeq(bs)) = RowsIn(bs)
                                      /\ IsInjective(FlattenSeq(bs)) <=> RowsOnce(bs)}
<1>1. <<>> \in P
  <2>1. <<>> \in Seq(Seq(R)) /\ DOMAIN <<>> = {}
    BY EmptySeq
  <2>2. RowsIn(<<>>) = {} /\ RowsOnce(<<>>)
    BY <2>1 DEF RowsIn, RowsOnce
  <2>. QED
    BY <2>1, <2>2, FlattenEmpty, EmptyMembers
<1>2. ASSUME NEW bs \in Seq(Seq(R)), NEW b \in Seq(R), bs \in P
      PROVE  Append(bs, b) \in P
  <2>1. /\ Append(bs, b) \in Seq(Seq(R))
        /\ FlattenSeq(Append(bs, b)) = FlattenSeq(bs) \o b /\ FlattenSeq(bs) \in Seq(R)
    BY FlattenAppend, FlattenType
  <2>2. /\ ToSet(FlattenSeq(bs) \o b) = ToSet(FlattenSeq(bs)) \cup ToSet(b)
        /\ IsInjective(FlattenSeq(bs) \o b)
             <=> IsInjective(FlattenSeq(bs)) /\ IsInjective(b) /\ Apart(FlattenSeq(bs), b)
    BY <2>1, ConcatMembers
  <2>3. ToSet(FlattenSeq(bs)) = RowsIn(bs) /\ (IsInjective(FlattenSeq(bs)) <=> RowsOnce(bs))
    BY <1>2
  <2>4. /\ RowsIn(Append(bs, b)) = RowsIn(bs) \cup ToSet(b)
        /\ RowsOnce(Append(bs, b))
             <=> RowsOnce(bs) /\ IsInjective(b) /\ RowsIn(bs) \cap ToSet(b) = {}
    BY AppendBlocks
  <2>5. ToSet(FlattenSeq(Append(bs, b))) = RowsIn(Append(bs, b))
    BY <2>1, <2>2, <2>3, <2>4
  <2>6. IsInjective(FlattenSeq(Append(bs, b))) <=> RowsOnce(Append(bs, b))
    BY <2>1, <2>2, <2>3, <2>4 DEF Apart
  <2>. QED
    BY <2>1, <2>5, <2>6
<1>3. Seq(Seq(R)) \subseteq P
  <2> HIDE DEF P
  <2>. QED
    BY <1>1, <1>2, SeqInduction
<1>. QED
  BY <1>3

(* A filter repeats nothing.                                                *)
LEMMA AcceptedMembers ==
  ASSUME NEW R, NEW rows \in Seq(R), NEW matching
  PROVE  /\ ToSet(Accepted(rows, matching)) = ToSet(rows) \cap matching
         /\ IsInjective(rows) => IsInjective(Accepted(rows, matching))
<1> DEFINE P == {s \in Seq(R) :
                   /\ ToSet(Accepted(s, matching)) = ToSet(s) \cap matching
                   /\ IsInjective(s) => IsInjective(Accepted(s, matching))}
<1>1. <<>> \in P
  <2>1. <<>> \in Seq(R)
    BY EmptySeq
  <2>. QED
    BY <2>1, AcceptedEmpty, EmptyMembers
<1>2. ASSUME NEW s \in Seq(R), NEW x \in R, s \in P
      PROVE  Append(s, x) \in P
  <2>1. /\ Append(s, x) \in Seq(R) /\ Accepted(s, matching) \in Seq(R)
        /\ Accepted(Append(s, x), matching)
             = IF x \in matching THEN Append(Accepted(s, matching), x) ELSE Accepted(s, matching)
    BY AcceptedAppend, AcceptedType
  <2>2. /\ ToSet(Append(s, x)) = ToSet(s) \cup {x}
        /\ IsInjective(Append(s, x)) <=> IsInjective(s) /\ x \notin ToSet(s)
    BY AppendMembers
  <2>3. /\ ToSet(Append(Accepted(s, matching), x)) = ToSet(Accepted(s, matching)) \cup {x}
        /\ IsInjective(Append(Accepted(s, matching), x))
             <=> IsInjective(Accepted(s, matching)) /\ x \notin ToSet(Accepted(s, matching))
    BY <2>1, AppendMembers
  <2>4. /\ ToSet(Accepted(s, matching)) = ToSet(s) \cap matching
        /\ IsInjective(s) => IsInjective(Accepted(s, matching))
    BY <1>2
  <2>5. CASE x \in matching
    BY <2>1, <2>2, <2>3, <2>4, <2>5
  <2>6. CASE x \notin matching
    BY <2>1, <2>2, <2>4, <2>6
  <2>. QED
    BY <2>5, <2>6
<1>3. Seq(R) \subseteq P
  <2> HIDE DEF P
  <2>. QED
    BY <1>1, <1>2, SeqInduction
<1>. QED
  BY <1>3

(* The rows of each of several sequences of blocks.                         *)
Flattened(tasks) == [t \in DOMAIN tasks |-> FlattenSeq(tasks[t])]

LEMMA FlattenedType ==
  ASSUME NEW R, NEW tasks \in Seq(Seq(Seq(R)))
  PROVE  Flattened(tasks) \in Seq(Seq(R)) /\ DOMAIN Flattened(tasks) = DOMAIN tasks
<1> DEFINE n == Len(tasks)
<1>1. n \in Nat /\ DOMAIN tasks = 1..n /\ \A t \in 1..n : tasks[t] \in Seq(Seq(R))
  BY LenProperties, ElementOfSeq
<1> HIDE DEF n
<1>2. ASSUME NEW t \in 1..n PROVE FlattenSeq(tasks[t]) \in Seq(R)
  BY <1>1, FlattenType
<1>3. [t \in 1..n |-> FlattenSeq(tasks[t])] \in [1..n -> Seq(R)]
  BY <1>2
<1>4. Flattened(tasks) = [t \in 1..n |-> FlattenSeq(tasks[t])]
  BY <1>1 DEF Flattened
<1>5. Flattened(tasks) \in Seq(Seq(R))
  BY <1>1, <1>3, <1>4, IsASeq
<1>6. DOMAIN Flattened(tasks) = DOMAIN tasks
  BY DEF Flattened
<1>. QED
  BY <1>5, <1>6

LEMMA FlattenedAppend ==
  ASSUME NEW R, NEW tasks \in Seq(Seq(Seq(R))), NEW x \in Seq(Seq(R))
  PROVE  Flattened(Append(tasks, x)) = Append(Flattened(tasks), FlattenSeq(x))
<1> DEFINE n == Len(tasks)
           a == Append(tasks, x)
           f == Flattened(tasks)
           g == Append(f, FlattenSeq(x))
           h == Flattened(a)
<1>1. /\ n \in Nat /\ DOMAIN tasks = 1..n
      /\ a \in Seq(Seq(Seq(R))) /\ DOMAIN a = 1..(n + 1)
      /\ \A t \in 1..n : a[t] = tasks[t]
      /\ a[n + 1] = x
  BY AppendProperties, LenProperties
<1>2. f \in Seq(Seq(R)) /\ DOMAIN f = 1..n /\ Len(f) = n
  BY <1>1, FlattenedType, LenProperties
<1>3. /\ g \in Seq(Seq(R)) /\ DOMAIN g = 1..(n + 1)
      /\ \A t \in 1..n : g[t] = f[t]
      /\ g[n + 1] = FlattenSeq(x)
  BY <1>2, FlattenType, AppendProperties, LenProperties
<1>4. \A t \in 1..n : f[t] = FlattenSeq(tasks[t])
  BY <1>1 DEF Flattened
<1>5. h \in Seq(Seq(R)) /\ DOMAIN h = 1..(n + 1) /\ \A t \in 1..(n + 1) : h[t] = FlattenSeq(a[t])
  <2>1. h \in Seq(Seq(R)) /\ DOMAIN h = 1..(n + 1)
    BY <1>1, FlattenedType
  <2>2. \A t \in 1..(n + 1) : h[t] = FlattenSeq(a[t])
    BY <1>1 DEF Flattened
  <2>. QED
    BY <2>1, <2>2
<1>6. Len(g) = n + 1 /\ Len(h) = n + 1
  BY <1>1, <1>3, <1>5, LenProperties
<1> HIDE DEF n, a, f, g, h
<1>7. \A t \in 1..(n + 1) : g[t] = h[t]
  <2>1. TAKE t \in 1..(n + 1)
  <2>2. CASE t = n + 1
    BY <1>1, <1>3, <1>5, <2>2
  <2>3. CASE t \in 1..n
    BY <1>1, <1>3, <1>4, <1>5, <2>3
  <2>. QED
    BY <1>1, <2>2, <2>3
<1>8. g = h
  BY <1>3, <1>5, <1>6, <1>7, SeqEqual
<1>. QED
  BY <1>8 DEF g, h, f, a

LEMMA FlattenFlatten ==
  ASSUME NEW R, NEW tasks \in Seq(Seq(Seq(R)))
  PROVE  FlattenSeq(Flattened(tasks)) = FlattenSeq(FlattenSeq(tasks))
<1> DEFINE P == {ts \in Seq(Seq(Seq(R))) : FlattenSeq(Flattened(ts)) = FlattenSeq(FlattenSeq(ts))}
<1>1. <<>> \in P
  <2>1. <<>> \in Seq(Seq(Seq(R))) /\ DOMAIN <<>> = {}
    BY EmptySeq
  <2>2. Flattened(<<>>) = <<>>
    <3>1. Flattened(<<>>) \in Seq(Seq(R)) /\ DOMAIN Flattened(<<>>) = {}
      BY <2>1, FlattenedType
    <3>2. Len(Flattened(<<>>)) = 0
      BY <3>1, LenProperties
    <3>. QED
      BY <3>1, <3>2, EmptySeq
  <2>. QED
    BY <2>1, <2>2, FlattenEmpty
<1>2. ASSUME NEW ts \in Seq(Seq(Seq(R))), NEW x \in Seq(Seq(R)), ts \in P
      PROVE  Append(ts, x) \in P
  <2>1. /\ Append(ts, x) \in Seq(Seq(Seq(R)))
        /\ Flattened(ts) \in Seq(Seq(R)) /\ FlattenSeq(x) \in Seq(R)
        /\ FlattenSeq(ts) \in Seq(Seq(R))
    BY FlattenedType, FlattenType
  <2>2. FlattenSeq(Flattened(Append(ts, x))) = FlattenSeq(Flattened(ts)) \o FlattenSeq(x)
    <3>1. Flattened(Append(ts, x)) = Append(Flattened(ts), FlattenSeq(x))
      BY FlattenedAppend
    <3>. QED
      BY <2>1, <3>1, FlattenAppend
  <2>3. FlattenSeq(Append(ts, x)) = FlattenSeq(ts) \o x
    BY FlattenAppend
  <2>4. FlattenSeq(FlattenSeq(ts) \o x) = FlattenSeq(FlattenSeq(ts)) \o FlattenSeq(x)
    BY <2>1, FlattenConcat
  <2>. QED
    BY <1>2, <2>1, <2>2, <2>3, <2>4
<1>3. Seq(Seq(Seq(R))) \subseteq P
  <2> HIDE DEF P
  <2>. QED
    BY <1>1, <1>2, SeqInduction
<1>. QED
  BY <1>3
-----------------------------------------------------------------------------
(* Bundling blocks into tasks. *)

(* The state bundling starts from.                                          *)
NoBundle == [tasks |-> <<>>, open |-> <<>>]

(* f[i] is the state of the bundling after the first i blocks.              *)
BundlesUpTo(f, blks, minRows, n) ==
  f = [i \in 0..n |-> IF i = 0 THEN NoBundle ELSE BundleBlock(f[i - 1], blks[i], minRows)]

LEMMA BundlesExist ==
  ASSUME NEW blks, NEW minRows, NEW n \in Nat
  PROVE  \E f : BundlesUpTo(f, blks, minRows, n)
<1> DEFINE S == {k \in Nat : \E f : BundlesUpTo(f, blks, minRows, k)}
<1>1. 0 \in S
  <2>1. BundlesUpTo([i \in 0..0 |-> NoBundle], blks, minRows, 0)
    BY DEF BundlesUpTo
  <2>. QED
    BY <2>1
<1>2. ASSUME NEW k \in Nat, k \in S
      PROVE  k + 1 \in S
  <2>1. PICK f : BundlesUpTo(f, blks, minRows, k)
    BY <1>2
  <2> DEFINE g == [i \in 0..(k + 1) |->
                     IF i <= k THEN f[i] ELSE BundleBlock(f[k], blks[i], minRows)]
  <2>2. \A i \in 0..(k + 1) :
          g[i] = IF i = 0 THEN NoBundle ELSE BundleBlock(g[i - 1], blks[i], minRows)
    <3>1. TAKE i \in 0..(k + 1)
    <3>2. CASE i = k + 1
      BY <3>2
    <3>3. CASE i \in 0..k
      <4>1. f[i] = IF i = 0 THEN NoBundle ELSE BundleBlock(f[i - 1], blks[i], minRows)
        BY <2>1, <3>3 DEF BundlesUpTo
      <4>2. g[i] = f[i] /\ (i # 0 => g[i - 1] = f[i - 1])
        BY <3>3
      <4>. QED
        BY <4>1, <4>2
    <3>. QED
      BY <3>2, <3>3
  <2>3. BundlesUpTo(g, blks, minRows, k + 1)
    <3> DEFINE h == [i \in 0..(k + 1) |->
                       IF i = 0 THEN NoBundle ELSE BundleBlock(g[i - 1], blks[i], minRows)]
    <3>1. g = [i \in 0..(k + 1) |-> g[i]]
      OBVIOUS
    <3> HIDE DEF g
    <3>2. g = h
      BY <2>2, <3>1
    <3>. QED
      BY <3>2 DEF BundlesUpTo
  <2>. QED
    BY <2>3
<1>. QED
  BY <1>1, <1>2, SetInduction

LEMMA BundledIsLoop ==
  ASSUME NEW blks, NEW minRows, Len(blks) \in Nat
  PROVE  \E f : /\ BundlesUpTo(f, blks, minRows, Len(blks))
               /\ Bundled(blks, minRows) = f[Len(blks)]
<1> DEFINE chosen == CHOOSE f : BundlesUpTo(f, blks, minRows, Len(blks))
<1>1. BundlesUpTo(chosen, blks, minRows, Len(blks))
  BY BundlesExist
<1>2. Bundled(blks, minRows) = chosen[Len(blks)]
  BY DEF Bundled, BundlesUpTo, NoBundle
<1>. QED
  BY <1>1, <1>2

LEMMA BundlesAgree ==
  ASSUME NEW f, NEW g, NEW blks, NEW others, NEW minRows, NEW n \in Nat, NEW m \in Nat,
         BundlesUpTo(f, blks, minRows, n), BundlesUpTo(g, others, minRows, m), n <= m,
         \A i \in 1..n : blks[i] = others[i]
  PROVE  f[n] = g[n]
<1> DEFINE S == {k \in Nat : k <= n => f[k] = g[k]}
<1>1. 0 \in S
  BY DEF BundlesUpTo
<1>2. ASSUME NEW k \in Nat, k \in S
      PROVE  k + 1 \in S
  <2>1. SUFFICES ASSUME k + 1 <= n PROVE f[k + 1] = g[k + 1]
    OBVIOUS
  <2>2. k + 1 \in 0..n /\ k + 1 \in 0..m /\ k + 1 # 0 /\ (k + 1) - 1 = k /\ k + 1 \in 1..n
    BY <2>1
  <2>3. f[k + 1] = BundleBlock(f[k], blks[k + 1], minRows)
    BY <2>2 DEF BundlesUpTo
  <2>4. g[k + 1] = BundleBlock(g[k], others[k + 1], minRows)
    BY <2>2 DEF BundlesUpTo
  <2>. QED
    BY <1>2, <2>1, <2>2, <2>3, <2>4
<1>3. n \in S
  BY <1>1, <1>2, SetInduction
<1>. QED
  BY <1>3

LEMMA BundledEmpty ==
  ASSUME NEW minRows
  PROVE  Bundled(<<>>, minRows) = NoBundle
<1>1. Len(<<>>) = 0
  OBVIOUS
<1>2. PICK f : BundlesUpTo(f, <<>>, minRows, Len(<<>>)) /\ Bundled(<<>>, minRows) = f[Len(<<>>)]
  <2>1. Len(<<>>) \in Nat
    BY <1>1
  <2>. QED
    BY <2>1, BundledIsLoop
<1>. QED
  BY <1>1, <1>2 DEF BundlesUpTo

LEMMA BundledAppend ==
  ASSUME NEW R, NEW blks \in Seq(R), NEW x \in R, NEW minRows
  PROVE  Bundled(Append(blks, x), minRows) = BundleBlock(Bundled(blks, minRows), x, minRows)
<1> DEFINE more == Append(blks, x)
           n == Len(blks)
<1>1. n \in Nat /\ Len(more) = n + 1 /\ more[n + 1] = x /\ \A i \in 1..n : blks[i] = more[i]
  OBVIOUS
<1> HIDE DEF more, n
<1>2. PICK f : BundlesUpTo(f, blks, minRows, n) /\ Bundled(blks, minRows) = f[n]
  BY <1>1, BundledIsLoop DEF n
<1>3. PICK g : BundlesUpTo(g, more, minRows, n + 1) /\ Bundled(more, minRows) = g[n + 1]
  <2>1. Len(more) \in Nat
    BY <1>1
  <2>2. PICK g : BundlesUpTo(g, more, minRows, Len(more)) /\ Bundled(more, minRows) = g[Len(more)]
    BY <2>1, BundledIsLoop
  <2>. QED
    BY <1>1, <2>2
<1>4. f[n] = g[n]
  <2>1. n \in Nat /\ n + 1 \in Nat /\ n <= n + 1
    BY <1>1
  <2>. QED
    BY <1>1, <1>2, <1>3, <2>1, BundlesAgree
<1>5. g[n + 1] = BundleBlock(g[n], more[n + 1], minRows)
  <2>1. n + 1 \in 0..(n + 1) /\ n + 1 # 0 /\ (n + 1) - 1 = n
    BY <1>1
  <2>. QED
    BY <1>3, <2>1 DEF BundlesUpTo
<1>. QED
  BY <1>1, <1>2, <1>3, <1>4, <1>5 DEF more

(* The bundles, and the one that is open, are the blocks in their order.    *)
Holds(R, bundles, blks) ==
  /\ bundles \in [tasks : Seq(Seq(Seq(R))), open : Seq(Seq(R))]
  /\ FlattenSeq(bundles.tasks) \o bundles.open = blks

LEMMA BundleHolds ==
  ASSUME NEW R, NEW state, NEW blks \in Seq(Seq(R)), NEW b \in Seq(R), NEW minRows,
         Holds(R, state, blks)
  PROVE  Holds(R, BundleBlock(state, b, minRows), Append(blks, b))
<1> DEFINE tasks == state.tasks
           open == state.open
           bundle == Append(open, b)
<1>1. tasks \in Seq(Seq(Seq(R))) /\ open \in Seq(Seq(R)) /\ FlattenSeq(tasks) \o open = blks
  BY DEF Holds
<1> HIDE DEF tasks, open
<1>2. bundle \in Seq(Seq(R)) /\ FlattenSeq(tasks) \in Seq(Seq(R))
  BY <1>1, FlattenType
<1>3. FlattenSeq(tasks) \o bundle = Append(blks, b)
  <2> DEFINE before == FlattenSeq(tasks)
  <2> HIDE DEF before
  <2>1. before \in Seq(Seq(R)) /\ before \o open = blks
    BY <1>1, <1>2 DEF before
  <2>2. before \o Append(open, b) = Append(before \o open, b)
    <3> DEFINE Block == Seq(R)
    <3>1. before \in Seq(Block) /\ open \in Seq(Block) /\ b \in Block
      BY <1>1, <2>1 DEF Block
    <3> HIDE DEF Block
    <3>. QED
      BY <3>1, AppendConcat
  <2>. QED
    BY <2>1, <2>2 DEF before
<1> HIDE DEF bundle
<1>4. BundleBlock(state, b, minRows) =
        IF NumRowsOf(bundle) >= minRows
        THEN [tasks |-> Append(tasks, bundle), open |-> <<>>]
        ELSE [tasks |-> tasks, open |-> bundle]
  BY DEF BundleBlock, bundle, tasks, open
<1>5. Holds(R, [tasks |-> tasks, open |-> bundle], Append(blks, b))
  BY <1>1, <1>2, <1>3 DEF Holds
<1>6. Holds(R, [tasks |-> Append(tasks, bundle), open |-> <<>>], Append(blks, b))
  <2>1. Append(tasks, bundle) \in Seq(Seq(Seq(R))) /\ <<>> \in Seq(Seq(R))
    BY <1>1, <1>2, EmptySeq
  <2>2. FlattenSeq(Append(tasks, bundle)) = FlattenSeq(tasks) \o bundle
    BY <1>1, <1>2, FlattenAppend
  <2>3. Append(blks, b) \in Seq(Seq(R))
    OBVIOUS
  <2>4. Append(blks, b) \o <<>> = Append(blks, b)
    BY <2>3, ConcatEmptySeq
  <2>5. FlattenSeq(Append(tasks, bundle)) \o <<>> = Append(blks, b)
    BY <1>3, <2>2, <2>4
  <2>. QED
    BY <2>1, <2>5 DEF Holds
<1>7. CASE NumRowsOf(bundle) >= minRows
  BY <1>4, <1>6, <1>7
<1>8. CASE ~(NumRowsOf(bundle) >= minRows)
  BY <1>4, <1>5, <1>8
<1>. QED
  BY <1>7, <1>8

LEMMA BundledHolds ==
  ASSUME NEW R, NEW blks \in Seq(Seq(R)), NEW minRows
  PROVE  Holds(R, Bundled(blks, minRows), blks)
<1> DEFINE P == {bs \in Seq(Seq(R)) : Holds(R, Bundled(bs, minRows), bs)}
<1>1. <<>> \in P
  <2>1. <<>> \in Seq(Seq(R)) /\ <<>> \in Seq(Seq(Seq(R))) /\ FlattenSeq(<<>>) = <<>>
    BY EmptySeq, FlattenEmpty
  <2>2. <<>> \o <<>> = <<>>
    BY <2>1, ConcatEmptySeq
  <2>3. Holds(R, NoBundle, <<>>)
    BY <2>1, <2>2 DEF Holds, NoBundle
  <2>. QED
    BY <2>1, <2>3, BundledEmpty
<1>2. ASSUME NEW bs \in Seq(Seq(R)), NEW b \in Seq(R), bs \in P
      PROVE  Append(bs, b) \in P
  <2>1. Append(bs, b) \in Seq(Seq(R))
    OBVIOUS
  <2>2. Holds(R, BundleBlock(Bundled(bs, minRows), b, minRows), Append(bs, b))
    BY <1>2, BundleHolds
  <2>3. Bundled(Append(bs, b), minRows) = BundleBlock(Bundled(bs, minRows), b, minRows)
    BY BundledAppend
  <2>. QED
    BY <2>1, <2>2, <2>3
<1>3. Seq(Seq(R)) \subseteq P
  <2> HIDE DEF P
  <2>. QED
    BY <1>1, <1>2, SeqInduction
<1>. QED
  BY <1>3

(* Every block is in one task, and in its place.                            *)
LEMMA BundlesKeepBlocks ==
  ASSUME NEW R, NEW blks \in Seq(Seq(R)), NEW minRows
  PROVE  /\ BundleBlocks(blks, minRows) \in Seq(Seq(Seq(R)))
         /\ FlattenSeq(BundleBlocks(blks, minRows)) = blks
<1> DEFINE last == Bundled(blks, minRows)
           tasks == last.tasks
           open == last.open
<1>1. tasks \in Seq(Seq(Seq(R))) /\ open \in Seq(Seq(R)) /\ FlattenSeq(tasks) \o open = blks
  BY BundledHolds DEF Holds
<1>2. BundleBlocks(blks, minRows) = IF open = <<>> THEN tasks ELSE Append(tasks, open)
  BY DEF BundleBlocks
<1> HIDE DEF tasks, open
<1>3. FlattenSeq(tasks) \in Seq(Seq(R)) /\ FlattenSeq(tasks) \o <<>> = FlattenSeq(tasks)
  <2>1. FlattenSeq(tasks) \in Seq(Seq(R))
    BY <1>1, FlattenType
  <2>. QED
    BY <2>1, ConcatEmptySeq
<1>4. Append(tasks, open) \in Seq(Seq(Seq(R))) /\ FlattenSeq(Append(tasks, open)) = blks
  <2>1. FlattenSeq(Append(tasks, open)) = FlattenSeq(tasks) \o open
    BY <1>1, FlattenAppend
  <2>. QED
    BY <1>1, <2>1
<1>5. CASE open = <<>>
  BY <1>1, <1>2, <1>3, <1>5
<1>6. CASE open # <<>>
  BY <1>2, <1>4, <1>6
<1>. QED
  BY <1>5, <1>6

-----------------------------------------------------------------------------
(* The dataset's rows, from blocks to tasks to requests. *)

DatasetRows == FlattenSeq(Blocks)

LEMMA DatasetType ==
  /\ DatasetRows \in Seq(Row) /\ IsInjective(DatasetRows)
  /\ ToSet(DatasetRows) = DatasetRow /\ DatasetRow \subseteq Row
<1>1. DatasetRows \in Seq(Row) /\ IsInjective(DatasetRows)
  BY BlocksAssumption, FlattenType DEF DatasetRows
<1>2. ToSet(DatasetRows) = DatasetRow
  BY DEF DatasetRows, DatasetRow
<1>3. ToSet(DatasetRows) \subseteq Row
  <2>1. DOMAIN DatasetRows = 1..Len(DatasetRows) /\ \A i \in 1..Len(DatasetRows) : DatasetRows[i] \in Row
    BY <1>1, LenProperties, ElementOfSeq
  <2>. QED
    BY <2>1 DEF ToSet
<1>. QED
  BY <1>1, <1>2, <1>3

LEMMA EffectiveConcurrencyType == EffectiveConcurrency \in Nat
BY ArgumentsAssumption DEF EffectiveConcurrency, DefaultLocalUpsertConcurrency

LEMMA PositiveMaxOfThree ==
  ASSUME NEW a \in Nat, NEW b \in Nat
  PROVE  Max({1, a, b}) \in Nat \ {0}
<1>1. \E m \in {1, a, b} : \A x \in {1, a, b} : m >= x
  <2>1. CASE a <= 1 /\ b <= 1
    BY <2>1
  <2>2. CASE a > 1 /\ b <= a
    BY <2>2
  <2>3. CASE b > 1 /\ a <= b
    BY <2>3
  <2>. QED
    BY <2>1, <2>2, <2>3
<1>2. Max({1, a, b}) \in {1, a, b}
  BY <1>1 DEF Max
<1>3. \A x \in {1, a, b} : Max({1, a, b}) >= x
  BY <1>1 DEF Max
<1>. QED
  BY <1>2, <1>3

LEMMA PartitionCountType ==
  ASSUME NEW c \in Nat
  PROVE  UpsertPartitionCount(Blocks, c) \in Nat \ {0}
<1> DEFINE n == NumRowsOf(Blocks)
           target == IF PlanExecuted /\ n > 0
                     THEN (n + RowsPerTransaction - 1) \div RowsPerTransaction
                     ELSE DefaultUpsertPartitions
<1>1. n \in Nat
  BY DatasetType, LenProperties DEF NumRowsOf, DatasetRows
<1> HIDE DEF n
<1>2. target \in Nat
  <2>1. CASE PlanExecuted /\ n > 0
    <3>1. n + RowsPerTransaction - 1 \in Nat /\ RowsPerTransaction \in Nat \ {0}
      BY <1>1, <2>1, ArgumentsAssumption
    <3>2. (n + RowsPerTransaction - 1) \div RowsPerTransaction \in Nat
      BY <3>1, Quotient
    <3>. QED
      BY <2>1, <3>2
  <2>2. CASE ~(PlanExecuted /\ n > 0)
    BY <2>2 DEF DefaultUpsertPartitions
  <2>. QED
    BY <2>1, <2>2
<1>3. UpsertPartitionCount(Blocks, c) = Max({1, c, target})
  BY DEF UpsertPartitionCount, n
<1> HIDE DEF target
<1>. QED
  BY <1>2, <1>3, PositiveMaxOfThree

(* No key is in two blocks.                                                 *)
KeysInOneBlock(blks) ==
  \A p, q \in DOMAIN blks : \A r \in ToSet(blks[p]), s \in ToSet(blks[q]) :
    KeyOf[r] = KeyOf[s] => p = q

(* The shuffle sends every row to one block, with the others of its key.    *)
LEMMA PartitionSplits ==
  ASSUME NEW c \in Nat
  PROVE  /\ HashPartition(Blocks, c) \in Seq(Seq(Row))
         /\ RowsOnce(HashPartition(Blocks, c))
         /\ RowsIn(HashPartition(Blocks, c)) = DatasetRow
         /\ KeysInOneBlock(HashPartition(Blocks, c))
<1> DEFINE n == UpsertPartitionCount(Blocks, c)
           class(p) == {r \in Row : HashOf[KeyOf[r]] % n = p - 1}
           parts == HashPartition(Blocks, c)
<1>1. n \in Nat \ {0}
  BY PartitionCountType
<1>2. parts = [p \in 1..n |-> Accepted(DatasetRows, class(p))]
  BY DEF HashPartition, DatasetRows
<1> HIDE DEF n, parts
<1>3. ASSUME NEW p \in 1..n
      PROVE  /\ parts[p] \in Seq(Row) /\ IsInjective(parts[p])
             /\ ToSet(parts[p]) = DatasetRow \cap class(p)
  <2> HIDE DEF class
  <2>1. parts[p] = Accepted(DatasetRows, class(p))
    BY <1>2
  <2>. QED
    BY <2>1, DatasetType, AcceptedType, AcceptedMembers
<1>4. DOMAIN parts = 1..n
  BY <1>2
<1>5. parts \in Seq(Seq(Row))
  <2>1. parts \in [1..n -> Seq(Row)]
    BY <1>2, <1>3, <1>4
  <2>. QED
    BY <1>1, <2>1, IsASeq
<1>6. KeysInOneBlock(parts)
  <2>1. SUFFICES ASSUME NEW p \in 1..n, NEW q \in 1..n, NEW r \in ToSet(parts[p]),
                        NEW s \in ToSet(parts[q]), KeyOf[r] = KeyOf[s]
                 PROVE  p = q
    BY <1>4 DEF KeysInOneBlock
  <2>2. r \in class(p) /\ s \in class(q)
    BY <1>3
  <2>3. HashOf[KeyOf[r]] % n = p - 1 /\ HashOf[KeyOf[s]] % n = q - 1
    BY <2>2
  <2>4. p - 1 = q - 1
    BY <2>1, <2>3
  <2>. QED
    BY <1>1, <2>4
<1>7. RowsOnce(parts)
  <2>1. ASSUME NEW p \in 1..n, NEW q \in 1..n, p # q
        PROVE  Apart(parts[p], parts[q])
    BY <1>4, <1>6, <2>1 DEF KeysInOneBlock, Apart
  <2>. QED
    BY <1>3, <1>4, <2>1 DEF RowsOnce
<1>8. RowsIn(parts) = DatasetRow
  <2>1. ASSUME NEW r \in DatasetRow
        PROVE  \E p \in 1..n : r \in class(p)
    <3>1. r \in Row /\ HashOf[KeyOf[r]] \in Nat
      BY DatasetType, HashAssumption
    <3> DEFINE h == HashOf[KeyOf[r]]
    <3>2. h % n \in 0..(n - 1)
      <4> HIDE DEF h
      <4>1. h \in Nat
        BY <3>1 DEF h
      <4>. QED
        BY <1>1, <4>1
    <3>3. (h % n) + 1 \in 1..n /\ h % n = ((h % n) + 1) - 1
      <4> DEFINE m == h % n
      <4> HIDE DEF m
      <4>1. m \in 0..(n - 1)
        BY <3>2 DEF m
      <4>2. m + 1 \in 1..n /\ m = (m + 1) - 1
        BY <1>1, <4>1
      <4>. QED
        BY <4>2 DEF m
    <3>. QED
      BY <3>1, <3>3
  <2> HIDE DEF class
  <2>. QED
    BY <1>3, <1>4, <2>1 DEF RowsIn
<1>. QED
  BY <1>5, <1>6, <1>7, <1>8 DEF parts

LEMMA SinkBlocksKeepRows ==
  /\ SinkBlocks \in Seq(Seq(Row)) /\ RowsOnce(SinkBlocks) /\ RowsIn(SinkBlocks) = DatasetRow
  /\ Partitioned => KeysInOneBlock(SinkBlocks)
<1>1. CASE Partitioned
  <2>1. SinkBlocks = HashPartition(Blocks, EffectiveConcurrency)
    BY <1>1 DEF SinkBlocks, Partitioned
  <2>. QED
    BY <2>1, PartitionSplits, EffectiveConcurrencyType
<1>2. CASE ~Partitioned
  <2>1. SinkBlocks = Blocks
    BY <1>2 DEF SinkBlocks, Partitioned
  <2>2. ToSet(FlattenSeq(Blocks)) = RowsIn(Blocks) /\ RowsOnce(Blocks)
    BY BlocksAssumption, FlattenMembers
  <2>. QED
    BY <1>2, <2>1, <2>2, BlocksAssumption DEF DatasetRow
<1>. QED
  BY <1>1, <1>2

(* What each task is given.                                                 *)
TaskRowsOf(t) == ToSet(FlattenSeq(TaskBlocks[t]))

LEMMA TasksKeepRows ==
  /\ TaskBlocks \in Seq(Seq(Seq(Row))) /\ WriteTask = 1..Len(TaskBlocks)
  /\ Len(TaskBlocks) \in Nat
  /\ \A t \in WriteTask : TaskBlocks[t] \in Seq(Seq(Row)) /\ IsInjective(FlattenSeq(TaskBlocks[t]))
  /\ \A t, u \in WriteTask : t # u => TaskRowsOf(t) \cap TaskRowsOf(u) = {}
  /\ UNION {TaskRowsOf(t) : t \in WriteTask} = DatasetRow
<1> DEFINE flat == Flattened(TaskBlocks)
<1>1. TaskBlocks \in Seq(Seq(Seq(Row))) /\ FlattenSeq(TaskBlocks) = SinkBlocks
  BY SinkBlocksKeepRows, BundlesKeepBlocks DEF TaskBlocks
<1>2. WriteTask = 1..Len(TaskBlocks) /\ Len(TaskBlocks) \in Nat
  BY <1>1, LenProperties DEF WriteTask
<1>3. flat \in Seq(Seq(Row)) /\ DOMAIN flat = WriteTask
  BY <1>1, FlattenedType DEF WriteTask
<1>4. FlattenSeq(flat) = FlattenSeq(SinkBlocks)
  BY <1>1, FlattenFlatten
<1>5. IsInjective(FlattenSeq(SinkBlocks)) /\ ToSet(FlattenSeq(SinkBlocks)) = DatasetRow
  BY SinkBlocksKeepRows, FlattenMembers
<1>6. \A t \in WriteTask : flat[t] = FlattenSeq(TaskBlocks[t])
  BY DEF Flattened, WriteTask
<1> HIDE DEF flat
<1>7. RowsOnce(flat) /\ RowsIn(flat) = DatasetRow
  BY <1>3, <1>4, <1>5, FlattenMembers
<1>8. \A t \in WriteTask : ToSet(flat[t]) = TaskRowsOf(t)
  BY <1>6 DEF TaskRowsOf
<1>9. \A t \in WriteTask : TaskBlocks[t] \in Seq(Seq(Row)) /\ IsInjective(FlattenSeq(TaskBlocks[t]))
  <2>1. \A t \in WriteTask : TaskBlocks[t] \in Seq(Seq(Row))
    BY <1>1, <1>2, ElementOfSeq
  <2>. QED
    BY <1>3, <1>6, <1>7, <2>1 DEF RowsOnce
<1>10. \A t, u \in WriteTask : t # u => TaskRowsOf(t) \cap TaskRowsOf(u) = {}
  BY <1>3, <1>7, <1>8 DEF RowsOnce, Apart
<1>11. UNION {TaskRowsOf(t) : t \in WriteTask} = DatasetRow
  BY <1>3, <1>7, <1>8 DEF RowsIn
<1>. QED
  BY <1>1, <1>2, <1>9, <1>10, <1>11

(* The tasks' blocks are those of the sink.                                 *)
LEMMA TaskBlocksAreSink ==
  /\ TaskBlocks \in Seq(Seq(Seq(Row))) /\ RowsIn(TaskBlocks) = ToSet(SinkBlocks)
  /\ \A t \in WriteTask : \A i \in DOMAIN TaskBlocks[t] : TaskBlocks[t][i] \in ToSet(SinkBlocks)
<1>1. TaskBlocks \in Seq(Seq(Seq(Row))) /\ FlattenSeq(TaskBlocks) = SinkBlocks
  BY SinkBlocksKeepRows, BundlesKeepBlocks, TasksKeepRows DEF TaskBlocks
<1>2. RowsIn(TaskBlocks) = ToSet(SinkBlocks)
  <2>1. ToSet(FlattenSeq(TaskBlocks)) = RowsIn(TaskBlocks)
    BY <1>1, FlattenMembers
  <2>. QED
    BY <1>1, <2>1
<1>3. \A t \in WriteTask : \A i \in DOMAIN TaskBlocks[t] : TaskBlocks[t][i] \in ToSet(SinkBlocks)
  BY <1>2 DEF RowsIn, ToSet, WriteTask
<1>. QED
  BY <1>1, <1>2, <1>3

LEMMA TaskRowsAreBlocks ==
  ASSUME NEW t \in WriteTask
  PROVE  TaskRowsOf(t) = RowsIn(TaskBlocks[t]) /\ RowsOnce(TaskBlocks[t])
<1>1. TaskBlocks[t] \in Seq(Seq(Row)) /\ IsInjective(FlattenSeq(TaskBlocks[t]))
  BY TasksKeepRows
<1>. QED
  BY <1>1, FlattenMembers DEF TaskRowsOf

(* Partitioned blocks leave no key to two tasks.                            *)
LEMMA TasksKeepKeysApart ==
  ASSUME Partitioned, NEW t \in WriteTask, NEW u \in WriteTask,
         NEW r \in TaskRowsOf(t), NEW s \in TaskRowsOf(u), KeyOf[r] = KeyOf[s]
  PROVE  t = u
<1>3. ASSUME NEW v \in WriteTask, NEW x \in TaskRowsOf(v)
      PROVE  \E p \in DOMAIN SinkBlocks :
                x \in ToSet(SinkBlocks[p]) /\ ToSet(SinkBlocks[p]) \subseteq TaskRowsOf(v)
  <2>1. TaskRowsOf(v) = RowsIn(TaskBlocks[v])
    BY TaskRowsAreBlocks
  <2>2. PICK a \in DOMAIN TaskBlocks[v] : x \in ToSet(TaskBlocks[v][a])
    BY <2>1 DEF RowsIn
  <2>3. PICK p \in DOMAIN SinkBlocks : TaskBlocks[v][a] = SinkBlocks[p]
    BY TaskBlocksAreSink DEF ToSet
  <2>4. ToSet(TaskBlocks[v][a]) \subseteq TaskRowsOf(v)
    BY <2>1 DEF RowsIn
  <2>. QED
    BY <2>2, <2>3, <2>4
<1>4. PICK p \in DOMAIN SinkBlocks :
        r \in ToSet(SinkBlocks[p]) /\ ToSet(SinkBlocks[p]) \subseteq TaskRowsOf(t)
  BY <1>3
<1>5. PICK q \in DOMAIN SinkBlocks :
        s \in ToSet(SinkBlocks[q]) /\ ToSet(SinkBlocks[q]) \subseteq TaskRowsOf(u)
  BY <1>3
<1>6. p = q
  BY <1>4, <1>5, SinkBlocksKeepRows DEF KeysInOneBlock
<1>7. r \in TaskRowsOf(t) \cap TaskRowsOf(u)
  BY <1>4, <1>5, <1>6
<1>. QED
  BY <1>7, TasksKeepRows

-----------------------------------------------------------------------------
(* What transform_fn makes of the tasks' blocks. *)

(* The rows a task has to store.                                            *)
SentRowsOf(t) == ToSet(FlattenSeq(Transformed(TaskBlocks[t])))

(* Rows that two of the tasks' blocks both become come from one block of    *)
(* one task.                                                                *)
LEMMA TransformSplits ==
  ASSUME NEW t \in WriteTask, NEW u \in WriteTask,
         NEW i \in DOMAIN TaskBlocks[t], NEW j \in DOMAIN TaskBlocks[u],
         NEW y \in ToSet(TransformFn[TaskBlocks[t][i]]),
         y \in ToSet(TransformFn[TaskBlocks[u][j]])
  PROVE  t = u /\ i = j
<1> DEFINE block == TaskBlocks[t][i]
<1>1. block \in ToSet(SinkBlocks) /\ TaskBlocks[u][j] \in ToSet(SinkBlocks)
  BY TaskBlocksAreSink
<1>2. TaskBlocks[u][j] = block
  BY <1>1, TransformAssumption
<1>3. block # <<>>
  BY <1>1, TransformAssumption, EmptyMembers
<1>4. PICK x : x \in ToSet(block)
  <2>1. block \in Seq(Row)
    <3>1. TaskBlocks[t] \in Seq(Seq(Row))
      BY TasksKeepRows
    <3>. QED
      BY <3>1, ElementOfSeq, LenProperties
  <2> HIDE DEF block
  <2>2. DOMAIN block = 1..Len(block) /\ Len(block) \in Nat /\ Len(block) # 0
    BY <1>3, <2>1, LenProperties, EmptySeq
  <2>3. 1 \in DOMAIN block
    BY <2>2
  <2>. QED
    BY <2>3 DEF ToSet
<1>5. x \in TaskRowsOf(t) \cap TaskRowsOf(u)
  BY <1>2, <1>4, TaskRowsAreBlocks DEF RowsIn
<1>6. t = u
  BY <1>5, TasksKeepRows
<1>7. RowsOnce(TaskBlocks[t])
  BY TaskRowsAreBlocks
<1>. QED
  BY <1>2, <1>4, <1>6, <1>7 DEF RowsOnce, Apart

LEMMA TransformedTask ==
  ASSUME NEW t \in WriteTask
  PROVE  /\ Transformed(TaskBlocks[t]) \in Seq(Seq(Row))
         /\ IsInjective(FlattenSeq(Transformed(TaskBlocks[t])))
         /\ SentRowsOf(t) = UNION {ToSet(TransformFn[TaskBlocks[t][i]]) : i \in DOMAIN TaskBlocks[t]}
<1> DEFINE blks == TaskBlocks[t]
           made == Transformed(blks)
           n == Len(blks)
<1>1. blks \in Seq(Seq(Row)) /\ n \in Nat /\ DOMAIN blks = 1..n
  BY TasksKeepRows, LenProperties
<1>2. \A i \in DOMAIN blks : TransformFn[blks[i]] \in Seq(Row) /\ IsInjective(TransformFn[blks[i]])
  BY TaskBlocksAreSink, TransformAssumption
<1>3. DOMAIN made = 1..n /\ \A i \in 1..n : made[i] = TransformFn[blks[i]]
  BY <1>1 DEF Transformed
<1>4. made \in Seq(Seq(Row))
  <2>1. made = [i \in 1..n |-> TransformFn[blks[i]]]
    BY <1>1 DEF Transformed
  <2> HIDE DEF n, blks, made
  <2>2. made \in [1..n -> Seq(Row)]
    BY <1>1, <1>2, <2>1
  <2>. QED
    BY <1>1, <2>2, IsASeq
<1>5. ASSUME NEW i \in 1..n, NEW j \in 1..n, i # j
      PROVE  Apart(made[i], made[j])
  <2>1. ASSUME NEW y \in ToSet(made[i]), y \in ToSet(made[j])
        PROVE  FALSE
    <3>1. i \in DOMAIN TaskBlocks[t] /\ j \in DOMAIN TaskBlocks[t]
      BY <1>1
    <3>2. /\ y \in ToSet(TransformFn[TaskBlocks[t][i]])
          /\ y \in ToSet(TransformFn[TaskBlocks[t][j]])
      BY <1>3, <2>1
    <3>. QED
      BY <1>5, <3>1, <3>2, TransformSplits
  <2>. QED
    BY <2>1 DEF Apart
<1> HIDE DEF n, blks, made
<1>6. RowsOnce(made)
  BY <1>1, <1>2, <1>3, <1>5 DEF RowsOnce
<1>7. RowsIn(made) = UNION {ToSet(TransformFn[blks[i]]) : i \in DOMAIN blks}
  BY <1>1, <1>3 DEF RowsIn
<1>8. ToSet(FlattenSeq(made)) = RowsIn(made) /\ (IsInjective(FlattenSeq(made)) <=> RowsOnce(made))
  BY <1>4, FlattenMembers
<1>9. SentRowsOf(t) = ToSet(FlattenSeq(made))
  BY DEF SentRowsOf, made, blks
<1>. QED
  BY <1>4, <1>6, <1>7, <1>8, <1>9 DEF made, blks

LEMMA TransformedTasks ==
  /\ \A t, u \in WriteTask : t # u => SentRowsOf(t) \cap SentRowsOf(u) = {}
  /\ UNION {SentRowsOf(t) : t \in WriteTask} = TransformedRow
<1>1. ASSUME NEW t \in WriteTask, NEW u \in WriteTask,
             NEW y \in SentRowsOf(t), y \in SentRowsOf(u)
      PROVE  t = u
  <2>1. PICK i \in DOMAIN TaskBlocks[t] : y \in ToSet(TransformFn[TaskBlocks[t][i]])
    BY TransformedTask
  <2>2. PICK j \in DOMAIN TaskBlocks[u] : y \in ToSet(TransformFn[TaskBlocks[u][j]])
    BY <1>1, TransformedTask
  <2>. QED
    BY <2>1, <2>2, TransformSplits
<1>2. ASSUME NEW t \in WriteTask, NEW y \in SentRowsOf(t)
      PROVE  y \in TransformedRow
  <2>1. PICK i \in DOMAIN TaskBlocks[t] : y \in ToSet(TransformFn[TaskBlocks[t][i]])
    BY TransformedTask
  <2>. QED
    BY <2>1, TaskBlocksAreSink DEF TransformedRow
<1>3. ASSUME NEW y \in TransformedRow
      PROVE  \E t \in WriteTask : y \in SentRowsOf(t)
  <2>1. PICK block \in ToSet(SinkBlocks) : y \in ToSet(TransformFn[block])
    BY DEF TransformedRow
  <2>2. PICK t \in WriteTask : block \in ToSet(TaskBlocks[t])
    BY TaskBlocksAreSink DEF RowsIn, WriteTask
  <2>3. PICK i \in DOMAIN TaskBlocks[t] : block = TaskBlocks[t][i]
    BY <2>2 DEF ToSet
  <2>. QED
    BY <2>1, <2>3, TransformedTask
<1>. QED
  BY <1>1, <1>2, <1>3

(* transform_fn gives the rows of a block no key that the block did not     *)
(* have: io.py 396-398 asks as much of a transform under a partition.       *)
TransformKeepsKeys ==
  \A block \in ToSet(SinkBlocks) : \A s \in ToSet(TransformFn[block]) :
    \E r \in ToSet(block) : KeyOf[r] = KeyOf[s]

LEMMA SentKeysApart ==
  ASSUME Partitioned, TransformKeepsKeys, NEW t \in WriteTask, NEW u \in WriteTask,
         NEW r \in SentRowsOf(t), NEW s \in SentRowsOf(u), KeyOf[r] = KeyOf[s]
  PROVE  t = u
<1>1. ASSUME NEW v \in WriteTask, NEW y \in SentRowsOf(v)
      PROVE  \E x \in TaskRowsOf(v) : KeyOf[x] = KeyOf[y]
  <2>1. PICK i \in DOMAIN TaskBlocks[v] : y \in ToSet(TransformFn[TaskBlocks[v][i]])
    BY TransformedTask
  <2>2. PICK x \in ToSet(TaskBlocks[v][i]) : KeyOf[x] = KeyOf[y]
    BY <2>1, TaskBlocksAreSink DEF TransformKeepsKeys
  <2>. QED
    BY <2>2, TaskRowsAreBlocks DEF RowsIn
<1>2. PICK p \in TaskRowsOf(t) : KeyOf[p] = KeyOf[r]
  BY <1>1
<1>3. PICK q \in TaskRowsOf(u) : KeyOf[q] = KeyOf[s]
  BY <1>1
<1>. QED
  BY <1>2, <1>3, TasksKeepKeysApart

-----------------------------------------------------------------------------
(* What a task sends. *)

LEMMA WidthsAreLimits == SinkLimits \in LimitsOf(Row)
BY CeilingsAssumption DEF SinkLimits, LimitsOf

NoCeilings == MaxRows = NoCeiling /\ MaxBytes = NoCeiling

(* The requests of a task are what its rows become, none of them twice;     *)
(* without ceilings they are one request.                                   *)
LEMMA TaskSendsItsRows ==
  ASSUME NEW t \in WriteTask
  PROVE  /\ PlannedRequests[t] \in Seq((SUBSET Row) \ {{}})
         /\ \A i, j \in DOMAIN PlannedRequests[t] :
              PlannedRequests[t][i] \cap PlannedRequests[t][j] # {} => i = j
         /\ UNION {PlannedRequests[t][i] : i \in DOMAIN PlannedRequests[t]} = SentRowsOf(t)
         /\ NoCeilings => \A i, j \in DOMAIN PlannedRequests[t] : i = j
<1> DEFINE blks == Transformed(TaskBlocks[t])
           sends == TaskRequests(blks, SinkLimits)
           planned == PlannedRequests[t]
           n == Len(sends)
<1>1. blks \in Seq(Seq(Row)) /\ IsInjective(FlattenSeq(blks))
  BY TransformedTask
<1>2. planned = [i \in DOMAIN sends |-> ToSet(sends[i])]
  BY DEF PlannedRequests
<1>3. SentRowsOf(t) = ToSet(FlattenSeq(blks))
  BY DEF SentRowsOf
<1> HIDE DEF blks, planned
<1>4. Planned(Row, sends, blks, SinkLimits)
  BY <1>1, WidthsAreLimits, TaskIsPlanned
<1> HIDE DEF sends
<1>5. /\ sends \in Seq(Seq(Row)) /\ FlattenSeq(sends) = FlattenSeq(blks)
      /\ \A k \in 1..Len(sends) : sends[k] # <<>>
      /\ WithinLimits(FlattenSeq(blks), SinkLimits) =>
           Len(sends) = (IF FlattenSeq(blks) = <<>> THEN 0 ELSE 1)
  BY <1>4 DEF Planned
<1>6. n \in Nat /\ DOMAIN sends = 1..n /\ \A k \in 1..n : sends[k] \in Seq(Row)
  BY <1>5, LenProperties, ElementOfSeq
<1>7. RowsOnce(sends) /\ RowsIn(sends) = SentRowsOf(t)
  <2>1. ToSet(FlattenSeq(sends)) = RowsIn(sends) /\ (IsInjective(FlattenSeq(sends)) <=> RowsOnce(sends))
    BY <1>5, FlattenMembers
  <2>. QED
    BY <1>1, <1>3, <1>5, <2>1
<1>8. planned \in Seq((SUBSET Row) \ {{}})
  <2>1. ASSUME NEW k \in 1..n
        PROVE  ToSet(sends[k]) \in (SUBSET Row) \ {{}}
    <3>1. sends[k] \in Seq(Row) /\ sends[k] # <<>>
      BY <1>5, <1>6
    <3> DEFINE one == sends[k]
               m == Len(one)
    <3> HIDE DEF one
    <3>2. one \in Seq(Row) /\ one # <<>>
      BY <3>1 DEF one
    <3>3. DOMAIN one = 1..m /\ m \in Nat /\ m # 0 /\ \A i \in 1..m : one[i] \in Row
      BY <3>2, LenProperties, ElementOfSeq, EmptySeq
    <3>4. 1 \in DOMAIN one
      BY <3>3
    <3>5. ToSet(one) \in (SUBSET Row) \ {{}}
      BY <3>3, <3>4 DEF ToSet
    <3>. QED
      BY <3>5 DEF one
  <2>2. planned = [i \in 1..n |-> ToSet(sends[i])]
    BY <1>2, <1>6
  <2> HIDE DEF n
  <2>3. planned \in [1..n -> (SUBSET Row) \ {{}}]
    BY <2>1, <2>2
  <2>. QED
    BY <1>6, <2>3, IsASeq
<1>9. DOMAIN planned = 1..n /\ \A i \in 1..n : planned[i] = ToSet(sends[i])
  BY <1>2, <1>6
<1>10. \A i, j \in DOMAIN planned : planned[i] \cap planned[j] # {} => i = j
  BY <1>6, <1>7, <1>9 DEF RowsOnce, Apart
<1>11. UNION {planned[i] : i \in DOMAIN planned} = SentRowsOf(t)
  BY <1>6, <1>7, <1>9 DEF RowsIn
<1>12. ASSUME NoCeilings, NEW i \in DOMAIN planned, NEW j \in DOMAIN planned
       PROVE  i = j
  <2>1. WithinLimits(FlattenSeq(blks), SinkLimits)
    BY <1>12 DEF WithinLimits, SinkLimits, NoCeilings
  <2>2. n = 0 \/ n = 1
    BY <1>5, <2>1
  <2> HIDE DEF n
  <2>. QED
    BY <1>9, <2>2
<1>. QED
  BY <1>8, <1>10, <1>11, <1>12 DEF planned

LEMMA RequestsPartitionRows ==
  /\ PlannedRequests \in [WriteTask -> Seq((SUBSET Row) \ {{}})]
  /\ \A t, u \in WriteTask : \A i \in DOMAIN PlannedRequests[t], j \in DOMAIN PlannedRequests[u] :
       PlannedRequests[t][i] \cap PlannedRequests[u][j] # {} => t = u /\ i = j
  /\ UNION {UNION {PlannedRequests[t][i] : i \in DOMAIN PlannedRequests[t]} : t \in WriteTask}
       = TransformedRow
<1>1. PlannedRequests \in [WriteTask -> Seq((SUBSET Row) \ {{}})]
  <2> DEFINE S == Seq((SUBSET Row) \ {{}})
  <2>1. \A t \in WriteTask : PlannedRequests[t] \in S
    BY TaskSendsItsRows
  <2>2. PlannedRequests = [t \in WriteTask |-> PlannedRequests[t]]
    BY DEF PlannedRequests
  <2> HIDE DEF S
  <2>3. PlannedRequests \in [WriteTask -> S]
    BY <2>1, <2>2
  <2>. QED
    BY <2>3 DEF S
<1>2. ASSUME NEW t \in WriteTask, NEW i \in DOMAIN PlannedRequests[t]
      PROVE  PlannedRequests[t][i] \subseteq SentRowsOf(t)
  BY TaskSendsItsRows
<1>3. ASSUME NEW t \in WriteTask, NEW u \in WriteTask,
             NEW i \in DOMAIN PlannedRequests[t], NEW j \in DOMAIN PlannedRequests[u],
             PlannedRequests[t][i] \cap PlannedRequests[u][j] # {}
      PROVE  t = u /\ i = j
  <2>1. PlannedRequests[t][i] \subseteq SentRowsOf(t) /\ PlannedRequests[u][j] \subseteq SentRowsOf(u)
    BY <1>2
  <2>2. SentRowsOf(t) \cap SentRowsOf(u) # {}
    BY <1>3, <2>1
  <2>3. t = u
    BY <2>2, TransformedTasks
  <2>. QED
    BY <1>3, <2>3, TaskSendsItsRows
<1>4. UNION {UNION {PlannedRequests[t][i] : i \in DOMAIN PlannedRequests[t]} : t \in WriteTask}
        = UNION {SentRowsOf(t) : t \in WriteTask}
  BY TaskSendsItsRows
<1>. QED
  BY <1>1, <1>3, <1>4, TransformedTasks

LEMMA ConcurrencyOne ==
  ASSUME ~CanRace(EffectiveConcurrency)
  PROVE  TasksAtOnce = 1
BY EffectiveConcurrencyType DEF CanRace, TasksAtOnce, Unlimited

-----------------------------------------------------------------------------
(* The datasink of write_lancedb. *)

U == INSTANCE UpsertProofs WITH
  Task <- WriteTask, Requests <- PlannedRequests, Concurrency <- TasksAtOnce

(* The two instances of Datasink are the same system.                      *)
LEMMA SameRunning == Sink!Running = U!Running
BY DEF Sink!Running, U!Running

LEMMA SameDriver == Sink!Driver <=> U!Driver
BY DEF Sink!Driver, Sink!ListTables, Sink!RefuseTable, Sink!PrepareTable,
   Sink!StartFails, Sink!FailJob, Sink!OnWriteComplete, Sink!taskVars,
   Sink!MustRefuse, U!Driver, U!ListTables, U!RefuseTable, U!PrepareTable,
   U!StartFails, U!FailJob, U!OnWriteComplete, U!taskVars, U!MustRefuse

LEMMA SameStarts == \A t : Sink!Starts(t) <=> U!Starts(t)
<1>1. \A t : Sink!StartTask(t) <=> U!StartTask(t)
  BY SameRunning DEF Sink!StartTask, U!StartTask, Sink!Cardinality, U!Cardinality
<1>2. \A t : Sink!StartTaskFails(t) <=> U!StartTaskFails(t)
  BY SameRunning DEF Sink!StartTaskFails, U!StartTaskFails, Sink!Cardinality, U!Cardinality
<1>. QED
  BY <1>1, <1>2 DEF Sink!Starts, U!Starts

LEMMA SameClient == \A t : Sink!Client(t) <=> U!Client(t)
<1>1. \A t : Sink!Send(t) <=> U!Send(t)
  BY DEF Sink!Send, U!Send
<1>2. \A t, e : Sink!Misaligned(t, e) <=> U!Misaligned(t, e)
  BY DEF Sink!Misaligned, Sink!HandleError, Sink!IsArrowAlignmentError, Sink!Retries,
     Sink!Realigns, Sink!Raises, Sink!Skips, Sink!ALIGNMENT_MARKERS,
     Sink!Retryable, Sink!Realignable, Sink!MovesOn, Sink!RetriesAgain,
     Sink!RetryPredicate, Sink!IsTransient, Sink!IdempotentRetryPredicate,
     Sink!AppendRetryPredicate, Sink!TRANSIENT_MARKERS, Sink!TRANSIENT_STATUS,
     Sink!IsCommitConflict, Sink!IsDefinitelyNotApplied,
     Sink!COMMIT_CONFLICT_MARKERS, Sink!NOT_APPLIED_MARKERS,
     Sink!NOT_APPLIED_STATUS, U!Misaligned, U!HandleError, U!IsArrowAlignmentError,
     U!Retries, U!Realigns, U!Raises, U!Skips, U!ALIGNMENT_MARKERS, U!Retryable,
     U!Realignable, U!MovesOn, U!RetriesAgain, U!RetryPredicate, U!IsTransient,
     U!IdempotentRetryPredicate, U!AppendRetryPredicate, U!TRANSIENT_MARKERS,
     U!TRANSIENT_STATUS, U!IsCommitConflict, U!IsDefinitelyNotApplied,
     U!COMMIT_CONFLICT_MARKERS, U!NOT_APPLIED_MARKERS, U!NOT_APPLIED_STATUS
<1>3. \A t : Sink!Reply(t) <=> U!Reply(t)
  BY DEF Sink!Reply, Sink!MovesOn, U!Reply, U!MovesOn
<1>4. \A t, e : Sink!LoseReply(t, e) <=> U!LoseReply(t, e)
  BY DEF Sink!LoseReply, Sink!HandleError, Sink!Retries, Sink!Realigns, Sink!Raises,
     Sink!Skips, Sink!Retryable, Sink!Realignable, Sink!MovesOn, Sink!RetriesAgain,
     Sink!IsArrowAlignmentError, Sink!RetryPredicate, Sink!ALIGNMENT_MARKERS,
     Sink!IsTransient, Sink!IdempotentRetryPredicate, Sink!AppendRetryPredicate,
     Sink!TRANSIENT_MARKERS, Sink!TRANSIENT_STATUS, Sink!IsCommitConflict,
     Sink!IsDefinitelyNotApplied, Sink!COMMIT_CONFLICT_MARKERS,
     Sink!NOT_APPLIED_MARKERS, Sink!NOT_APPLIED_STATUS, U!LoseReply, U!HandleError,
     U!Retries, U!Realigns, U!Raises, U!Skips, U!Retryable, U!Realignable,
     U!MovesOn, U!RetriesAgain, U!IsArrowAlignmentError, U!RetryPredicate,
     U!ALIGNMENT_MARKERS, U!IsTransient, U!IdempotentRetryPredicate,
     U!AppendRetryPredicate, U!TRANSIENT_MARKERS, U!TRANSIENT_STATUS,
     U!IsCommitConflict, U!IsDefinitelyNotApplied, U!COMMIT_CONFLICT_MARKERS,
     U!NOT_APPLIED_MARKERS, U!NOT_APPLIED_STATUS
<1>. QED
  BY <1>1, <1>2, <1>3, <1>4 DEF Sink!Client, U!Client

LEMMA SameAnswer == \A q : Sink!Answer(q) <=> U!Answer(q)
<1>1. \A q, e : Sink!TimeOut(q, e) <=> U!TimeOut(q, e)
  BY DEF Sink!TimeOut, Sink!HandleError, Sink!Awaited, Sink!Retries, Sink!Realigns,
     Sink!Raises, Sink!Skips, Sink!Retryable, Sink!Realignable, Sink!MovesOn,
     Sink!RetriesAgain, Sink!IsArrowAlignmentError, Sink!RetryPredicate,
     Sink!ALIGNMENT_MARKERS, Sink!IsTransient, Sink!IdempotentRetryPredicate,
     Sink!AppendRetryPredicate, Sink!TRANSIENT_MARKERS, Sink!TRANSIENT_STATUS,
     Sink!IsCommitConflict, Sink!IsDefinitelyNotApplied,
     Sink!COMMIT_CONFLICT_MARKERS, Sink!NOT_APPLIED_MARKERS,
     Sink!NOT_APPLIED_STATUS, U!TimeOut, U!HandleError, U!Awaited, U!Retries,
     U!Realigns, U!Raises, U!Skips, U!Retryable, U!Realignable, U!MovesOn,
     U!RetriesAgain, U!IsArrowAlignmentError, U!RetryPredicate,
     U!ALIGNMENT_MARKERS, U!IsTransient, U!IdempotentRetryPredicate,
     U!AppendRetryPredicate, U!TRANSIENT_MARKERS, U!TRANSIENT_STATUS,
     U!IsCommitConflict, U!IsDefinitelyNotApplied, U!COMMIT_CONFLICT_MARKERS,
     U!NOT_APPLIED_MARKERS, U!NOT_APPLIED_STATUS
<1>2. \A q, e : Sink!Reject(q, e) <=> U!Reject(q, e)
  BY DEF Sink!Reject, Sink!HandleError, Sink!Awaited, Sink!IsArrowAlignmentError,
     Sink!Retries, Sink!Realigns, Sink!Raises, Sink!Skips, Sink!ALIGNMENT_MARKERS,
     Sink!Retryable, Sink!Realignable, Sink!MovesOn, Sink!RetriesAgain,
     Sink!RetryPredicate, Sink!IsTransient, Sink!IdempotentRetryPredicate,
     Sink!AppendRetryPredicate, Sink!TRANSIENT_MARKERS, Sink!TRANSIENT_STATUS,
     Sink!IsCommitConflict, Sink!IsDefinitelyNotApplied,
     Sink!COMMIT_CONFLICT_MARKERS, Sink!NOT_APPLIED_MARKERS,
     Sink!NOT_APPLIED_STATUS, U!Reject, U!HandleError, U!Awaited,
     U!IsArrowAlignmentError, U!Retries, U!Realigns, U!Raises, U!Skips,
     U!ALIGNMENT_MARKERS, U!Retryable, U!Realignable, U!MovesOn, U!RetriesAgain,
     U!RetryPredicate, U!IsTransient, U!IdempotentRetryPredicate,
     U!AppendRetryPredicate, U!TRANSIENT_MARKERS, U!TRANSIENT_STATUS,
     U!IsCommitConflict, U!IsDefinitelyNotApplied, U!COMMIT_CONFLICT_MARKERS,
     U!NOT_APPLIED_MARKERS, U!NOT_APPLIED_STATUS
<1>3. \A q : Sink!LandAdd(q) <=> U!LandAdd(q)
  BY DEF Sink!LandAdd, Sink!RowsOf, Sink!Copies, Sink!Finishes, Sink!Awaited,
     U!LandAdd, U!RowsOf, U!Copies, U!Finishes, U!Awaited
<1>4. \A q : Sink!ReadVersion(q) <=> U!ReadVersion(q)
  BY DEF Sink!ReadVersion, Sink!taskVars, Sink!RepeatsKey, Sink!RowsOf, U!ReadVersion,
     U!taskVars, U!RepeatsKey, U!RowsOf
<1>5. \A q : Sink!LandMerge(q) <=> U!LandMerge(q)
  BY DEF Sink!LandMerge, Sink!Finishes, Sink!Removed, Sink!Updated, Sink!Inserted,
     Sink!Awaited, Sink!Matched, Sink!RowsOf, Sink!Keys, Sink!Copies, U!LandMerge,
     U!Finishes, U!Removed, U!Updated, U!Inserted, U!Awaited, U!Matched, U!RowsOf,
     U!Keys, U!Copies
<1>6. \A q : Sink!CommitConflict(q) <=> U!CommitConflict(q)
  BY DEF Sink!CommitConflict, Sink!HandleError, Sink!Awaited, Sink!Removed,
     Sink!Retries, Sink!Realigns, Sink!Raises, Sink!Skips, Sink!Matched,
     Sink!Retryable, Sink!Realignable, Sink!MovesOn, Sink!Keys, Sink!RowsOf,
     Sink!RetriesAgain, Sink!IsArrowAlignmentError, Sink!RetryPredicate,
     Sink!ALIGNMENT_MARKERS, Sink!IsTransient, Sink!IdempotentRetryPredicate,
     Sink!AppendRetryPredicate, Sink!TRANSIENT_MARKERS, Sink!TRANSIENT_STATUS,
     Sink!IsCommitConflict, Sink!IsDefinitelyNotApplied,
     Sink!COMMIT_CONFLICT_MARKERS, Sink!NOT_APPLIED_MARKERS,
     Sink!NOT_APPLIED_STATUS, U!CommitConflict, U!HandleError, U!Awaited,
     U!Removed, U!Retries, U!Realigns, U!Raises, U!Skips, U!Matched, U!Retryable,
     U!Realignable, U!MovesOn, U!Keys, U!RowsOf, U!RetriesAgain,
     U!IsArrowAlignmentError, U!RetryPredicate, U!ALIGNMENT_MARKERS, U!IsTransient,
     U!IdempotentRetryPredicate, U!AppendRetryPredicate, U!TRANSIENT_MARKERS,
     U!TRANSIENT_STATUS, U!IsCommitConflict, U!IsDefinitelyNotApplied,
     U!COMMIT_CONFLICT_MARKERS, U!NOT_APPLIED_MARKERS, U!NOT_APPLIED_STATUS
<1>7. \A q : Sink!RejectAmbiguousMerge(q) <=> U!RejectAmbiguousMerge(q)
  BY DEF Sink!RejectAmbiguousMerge, Sink!HandleError, Sink!Awaited, Sink!RepeatsKey,
     Sink!RowsOf, Sink!Retries, Sink!Realigns, Sink!Raises, Sink!Skips,
     Sink!Retryable, Sink!Realignable, Sink!MovesOn, Sink!RetriesAgain,
     Sink!IsArrowAlignmentError, Sink!RetryPredicate, Sink!ALIGNMENT_MARKERS,
     Sink!IsTransient, Sink!IdempotentRetryPredicate, Sink!AppendRetryPredicate,
     Sink!TRANSIENT_MARKERS, Sink!TRANSIENT_STATUS, Sink!IsCommitConflict,
     Sink!IsDefinitelyNotApplied, Sink!COMMIT_CONFLICT_MARKERS,
     Sink!NOT_APPLIED_MARKERS, Sink!NOT_APPLIED_STATUS, U!RejectAmbiguousMerge,
     U!HandleError, U!Awaited, U!RepeatsKey, U!RowsOf, U!Retries, U!Realigns,
     U!Raises, U!Skips, U!Retryable, U!Realignable, U!MovesOn, U!RetriesAgain,
     U!IsArrowAlignmentError, U!RetryPredicate, U!ALIGNMENT_MARKERS, U!IsTransient,
     U!IdempotentRetryPredicate, U!AppendRetryPredicate, U!TRANSIENT_MARKERS,
     U!TRANSIENT_STATUS, U!IsCommitConflict, U!IsDefinitelyNotApplied,
     U!COMMIT_CONFLICT_MARKERS, U!NOT_APPLIED_MARKERS, U!NOT_APPLIED_STATUS
<1>8. \A q : Sink!DropLate(q) <=> U!DropLate(q)
  BY DEF Sink!DropLate, Sink!taskVars, Sink!Awaited, U!DropLate, U!taskVars, U!Awaited
<1>. QED
  BY <1>1, <1>2, <1>3, <1>4, <1>5, <1>6, <1>7, <1>8 DEF Sink!Answer, U!Answer

LEMMA SameSteps ==
  /\ \A t : (Sink!WorkerDies(t) <=> U!WorkerDies(t)) /\ (Sink!TaskKilled(t) <=> U!TaskKilled(t))
  /\ Sink!OtherCreates <=> U!OtherCreates
  /\ \A r : Sink!OtherAppends(r) <=> U!OtherAppends(r)
  /\ Sink!Idle <=> U!Idle
<1>1. \A t : Sink!WorkerDies(t) <=> U!WorkerDies(t)
  BY DEF Sink!WorkerDies, Sink!Running, Sink!StopsRunning, U!WorkerDies, U!Running,
     U!StopsRunning
<1>2. \A t : Sink!TaskKilled(t) <=> U!TaskKilled(t)
  BY DEF Sink!TaskKilled, Sink!Running, Sink!StopsRunning, U!TaskKilled, U!Running,
     U!StopsRunning
<1>3. Sink!OtherCreates <=> U!OtherCreates
  BY DEF Sink!OtherCreates, Sink!taskVars, U!OtherCreates, U!taskVars
<1>4. \A r : Sink!OtherAppends(r) <=> U!OtherAppends(r)
  BY DEF Sink!OtherAppends, Sink!taskVars, Sink!OutsideCopies, U!OtherAppends,
     U!taskVars, U!OutsideCopies
<1>5. Sink!Idle <=> U!Idle
  BY DEF Sink!Idle, Sink!vars, Sink!Stopped, Sink!taskVars, Sink!Ended, U!Idle, U!vars,
     U!Stopped, U!taskVars, U!Ended
<1>. QED
  BY <1>1, <1>2, <1>3, <1>4, <1>5

LEMMA SameInit == Sink!Init <=> U!Init
BY DEF Sink!Init, Sink!OutsideCopies, U!Init, U!OutsideCopies

LEMMA SameVars == Sink!vars = U!vars
BY DEF Sink!vars, Sink!taskVars, U!vars, U!taskVars

LEMMA SameNext == [Sink!Next]_(Sink!vars) <=> [U!Next]_(U!vars)
<1>1. Sink!Next <=> U!Next
  BY SameDriver, SameStarts, SameClient, SameAnswer, SameSteps DEF Sink!Next, U!Next
<1>. QED
  BY <1>1, SameVars DEF Sink!vars, U!vars, Sink!taskVars, U!taskVars

LEMMA SameSpec == Sink!Spec <=> U!Spec
BY SameInit, SameNext, PTL DEF Sink!Spec, U!Spec

(* The datasink's source is what the dataset becomes.                       *)
LEMMA SinkSourceRow == U!SourceRow = TransformedRow
BY RequestsPartitionRows DEF U!SourceRow

(* Both modules classify errors alike: each has RetryPolicy.                *)
LEMMA SameMarkers ==
  /\ U!Markers = Markers
  /\ \A e : /\ U!IsDefinitelyNotApplied(e) <=> IsDefinitelyNotApplied(e)
            /\ U!IsCommitConflict(e) <=> IsCommitConflict(e)
            /\ U!IsArrowAlignmentError(e) <=> IsArrowAlignmentError(e)
<1>1. U!Markers = Markers
  BY DEF Markers, U!Markers, TRANSIENT_MARKERS, U!TRANSIENT_MARKERS,
     TRANSIENT_STATUS, U!TRANSIENT_STATUS, COMMIT_CONFLICT_MARKERS, U!COMMIT_CONFLICT_MARKERS,
     NOT_APPLIED_MARKERS, U!NOT_APPLIED_MARKERS, ALIGNMENT_MARKERS, U!ALIGNMENT_MARKERS
<1>2. \A e : U!IsDefinitelyNotApplied(e) <=> IsDefinitelyNotApplied(e)
  BY DEF IsDefinitelyNotApplied, U!IsDefinitelyNotApplied, NOT_APPLIED_MARKERS,
     U!NOT_APPLIED_MARKERS, NOT_APPLIED_STATUS, U!NOT_APPLIED_STATUS
<1>3. \A e : U!IsCommitConflict(e) <=> IsCommitConflict(e)
  BY DEF IsCommitConflict, U!IsCommitConflict, COMMIT_CONFLICT_MARKERS,
     U!COMMIT_CONFLICT_MARKERS
<1>4. \A e : U!IsArrowAlignmentError(e) <=> IsArrowAlignmentError(e)
  BY DEF IsArrowAlignmentError, U!IsArrowAlignmentError, ALIGNMENT_MARKERS,
     U!ALIGNMENT_MARKERS
<1>. QED
  BY <1>1, <1>2, <1>3, <1>4

(* What Datasink assumes holds of the tasks and requests of a write.        *)
LEMMA SinkIsAssumed ==
  /\ Mode \in {"create", "append", "overwrite", "upsert"}
  /\ OnBatchError \in {"raise", "skip"}
  /\ MaxAttempts \in Nat \ {0}
  /\ Outside \notin WriteTask
  /\ PlannedRequests \in [WriteTask -> Seq((SUBSET Row) \ {{}})]
  /\ Errors \subseteq SUBSET U!Markers
  /\ OldRow \subseteq Row /\ OtherRow \subseteq Row
  /\ (OldRow \cup OtherRow) \cap U!SourceRow = {}
  /\ \A t, u \in WriteTask : \A i \in DOMAIN PlannedRequests[t], j \in DOMAIN PlannedRequests[u] :
       PlannedRequests[t][i] \cap PlannedRequests[u][j] # {} => t = u /\ i = j
  /\ Ambiguous \subseteq Errors
  /\ \A e \in Ambiguous :
       ~U!IsDefinitelyNotApplied(e) /\ ~U!IsCommitConflict(e) /\ ~U!IsArrowAlignmentError(e)
<1>1. Outside \notin WriteTask
  BY SinkAssumption, TasksKeepRows
<1>2. OldRow \subseteq Row /\ OtherRow \subseteq Row /\ (OldRow \cup OtherRow) \cap U!SourceRow = {}
  BY SinkAssumption, SinkSourceRow
<1>3. Errors \subseteq SUBSET U!Markers
  BY SinkAssumption, SameMarkers
<1>4. \A e \in Ambiguous :
        ~U!IsDefinitelyNotApplied(e) /\ ~U!IsCommitConflict(e) /\ ~U!IsArrowAlignmentError(e)
  BY SinkAssumption, SameMarkers
<1>. QED
  BY <1>1, <1>2, <1>3, <1>4, SinkAssumption, RequestsPartitionRows

-----------------------------------------------------------------------------

LEMMA SameUnique == Sink!KeysAreUnique <=> U!KeysAreUnique
BY DEF Sink!KeysAreUnique, U!KeysAreUnique

LEMMA SameResends == Sink!RepeatsAreResends <=> U!RepeatsAreResends
BY DEF Sink!RepeatsAreResends, U!RepeatsAreResends

LEMMA SameMerges == Sink!SuccessMergesEverything <=> U!SuccessMergesEverything
BY DEF Sink!SuccessMergesEverything, U!SuccessMergesEverything, Sink!SourceRow, U!SourceRow,
   Sink!NumSkippedRows, U!NumSkippedRows, Sink!RequestsIn, U!RequestsIn

LEMMA SameBystanders == Sink!BystandersSurvive <=> U!BystandersSurvive
<1>1. Sink!SourceKeys = U!SourceKeys
  BY DEF Sink!SourceKeys, U!SourceKeys, Sink!Keys, U!Keys, Sink!SourceRow, U!SourceRow
<1>2. [Mode # "overwrite" \/ job # "listed" =>
         \A c \in table \ table' :
           KeyOf[c.row] \in Sink!SourceKeys \/ c.row \in DeleteWhere]_(Sink!vars)
      <=> [Mode # "overwrite" \/ job # "listed" =>
             \A c \in table \ table' :
               KeyOf[c.row] \in U!SourceKeys \/ c.row \in DeleteWhere]_(U!vars)
  BY <1>1, SameVars DEF Sink!vars, U!vars, Sink!taskVars, U!taskVars
<1>. QED
  BY <1>2, PTL DEF Sink!BystandersSurvive, U!BystandersSurvive

(* Rows under keys that the transformed dataset does not mention outlive    *)
(* the write, whatever the bundling, the ceilings, the retries and the      *)
(* replays.                                                                 *)
THEOREM WriteKeepsBystanders == Spec => BystandersSurvive
<1>1. U!Spec => U!BystandersSurvive
  BY U!Bystanders, SinkIsAssumed
<1>. QED
  BY <1>1, SameSpec, SameBystanders DEF Spec, BystandersSurvive

(* The table starts without a repeated key, and the other writers bring     *)
(* keys the transformed dataset does not have.                              *)
OthersBringOwnKeys ==
  /\ \A r, s \in OldRow \cup OtherRow : KeyOf[r] = KeyOf[s] => r = s
  /\ \A r \in OtherRow, s \in TransformedRow : KeyOf[r] # KeyOf[s]

LEMMA TasksHoldTheirKeys ==
  ASSUME Partitioned, TransformKeepsKeys
  PROVE  U!KeysApart
<1>1. SUFFICES ASSUME NEW t \in WriteTask, NEW u \in WriteTask,
                      NEW i \in DOMAIN PlannedRequests[t], NEW j \in DOMAIN PlannedRequests[u],
                      NEW r \in PlannedRequests[t][i], NEW s \in PlannedRequests[u][j],
                      KeyOf[r] = KeyOf[s]
               PROVE  t = u
  BY DEF U!KeysApart
<1>2. r \in SentRowsOf(t) /\ s \in SentRowsOf(u)
  BY TaskSendsItsRows
<1>. QED
  BY <1>1, <1>2, SentKeysApart

(***************************************************************************)
(* A partitioned upsert stores a key twice only by two sendings of one      *)
(* task, for any dataset, bundling, ceilings, number of tasks at once,      *)
(* errors, retries and replays, and however late a request lands that its   *)
(* client has given up on: if transform_fn keeps each row's key in its      *)
(* block's, the table starts without a repeated key, and other writers      *)
(* bring keys of their own.                                                 *)
(***************************************************************************)
THEOREM WriteRepeatsResent ==
  ASSUME Partitioned, TransformKeepsKeys, OthersBringOwnKeys
  PROVE  Spec => []RepeatsAreResends
<1>1. Mode = "upsert" /\ U!KeysApart
  BY TasksHoldTheirKeys DEF Partitioned
<1>2. U!OthersKeepKeys
  BY SinkSourceRow DEF OthersBringOwnKeys, U!OthersKeepKeys, U!SourceKeys, U!Keys
<1>3. U!Spec => []U!RepeatsAreResends
  BY <1>1, <1>2, U!RepeatsResent, SinkIsAssumed
<1>. QED
  BY <1>3, SameSpec, SameResends, PTL DEF Spec, RepeatsAreResends

(***************************************************************************)
(* Where no request lands after its client has given up on it, and under    *)
(* the same assumptions on the other writers, an upsert stores no key twice *)
(* if its tasks run one at a time, or it is partitioned and transform_fn    *)
(* keeps each row's key in its block's.  With late requests that is false   *)
(* (the run upsert_late).                                                   *)
(***************************************************************************)
THEOREM WriteKeepsKeysUnique ==
  ASSUME Mode = "upsert", ~LateRequests, OthersBringOwnKeys,
         \/ ~CanRace(EffectiveConcurrency)
         \/ PartitionOnKeys /\ TransformKeepsKeys
  PROVE  Spec => []KeysAreUnique
<1>1. U!KeysApart \/ TasksAtOnce = 1
  <2>1. CASE ~CanRace(EffectiveConcurrency)
    BY <2>1, ConcurrencyOne
  <2>2. CASE CanRace(EffectiveConcurrency)
    BY <2>2, TasksHoldTheirKeys DEF Partitioned
  <2>. QED
    BY <2>1, <2>2
<1>2. U!OthersKeepKeys
  BY SinkSourceRow DEF OthersBringOwnKeys, U!OthersKeepKeys, U!SourceKeys, U!Keys
<1>3. U!Spec => []U!KeysAreUnique
  BY <1>1, <1>2, U!KeysUnique, SinkIsAssumed
<1>. QED
  BY <1>3, SameSpec, SameUnique, PTL DEF Spec, KeysAreUnique

(* when_not_matched_by_source_delete names no row the write may store or    *)
(* rely on.                                                                 *)
DeletesSpareDataset ==
  \A r \in DeleteWhere :
    IF UpdateAll THEN r \notin TransformedRow ELSE \A s \in TransformedRow : KeyOf[r] # KeyOf[s]

DistinctKeys == \A r, s \in TransformedRow : KeyOf[r] = KeyOf[s] => r = s

LEMMA RequestsHoldTheirKeys ==
  ASSUME DistinctKeys \/ (Partitioned /\ TransformKeepsKeys /\ NoCeilings)
  PROVE  U!KeysInOneRequest
<1>1. SUFFICES ASSUME NEW t \in WriteTask, NEW u \in WriteTask,
                      NEW i \in DOMAIN PlannedRequests[t], NEW j \in DOMAIN PlannedRequests[u],
                      NEW r \in PlannedRequests[t][i], NEW s \in PlannedRequests[u][j],
                      KeyOf[r] = KeyOf[s]
               PROVE  t = u /\ i = j
  BY DEF U!KeysInOneRequest
<1>2. r \in SentRowsOf(t) /\ s \in SentRowsOf(u)
  BY TaskSendsItsRows
<1>3. CASE DistinctKeys
  <2>1. r \in TransformedRow /\ s \in TransformedRow
    BY <1>2, TransformedTasks
  <2>2. r = s
    BY <1>1, <1>3, <2>1 DEF DistinctKeys
  <2>. QED
    BY <2>2, RequestsPartitionRows
<1>4. CASE Partitioned /\ TransformKeepsKeys /\ NoCeilings
  <2>1. t = u
    BY <1>1, <1>2, <1>4, SentKeysApart
  <2>. QED
    BY <1>4, <2>1, TaskSendsItsRows
<1>. QED
  BY <1>3, <1>4

(***************************************************************************)
(* An upsert that inserts leaves, when it reports success, every row it     *)
(* does not report as dropped under its key, as the current version if it   *)
(* updates: if the transformed dataset repeats no key, or is partitioned,   *)
(* transform_fn keeps the keys in their blocks, and no ceiling cuts a       *)
(* task's rows into several requests; and if when_not_matched_by_source_    *)
(* delete names none of its rows.                                           *)
(***************************************************************************)
THEOREM WriteMergesEverything ==
  ASSUME Mode = "upsert", InsertAll, DeletesSpareDataset,
         DistinctKeys \/ (Partitioned /\ TransformKeepsKeys /\ NoCeilings)
  PROVE  Spec => []SuccessMergesEverything
<1>1. U!KeysInOneRequest
  BY RequestsHoldTheirKeys
<1>2. U!DeletesSpareSource
  BY SinkSourceRow DEF DeletesSpareDataset, U!DeletesSpareSource, U!SourceKeys, U!Keys
<1>3. U!Spec => []U!SuccessMergesEverything
  BY <1>1, <1>2, U!SuccessMerges, SinkIsAssumed
<1>. QED
  BY <1>3, SameSpec, SameMerges, PTL DEF Spec, SuccessMergesEverything

(* A write that reports success stored every row transform_fn makes of the  *)
(* dataset that it does not report as dropped, for any bundling and any     *)
(* ceilings: each row is in one request of one task, and the datasink loses *)
(* no request.                                                              *)
THEOREM WriteKeepsDataset ==
  ASSUME Mode # "upsert"
  PROVE  Spec => [](job = "complete" => TransformedRow \ Sink!NumSkippedRows \subseteq Sink!StoredRows)
<1>1. U!Spec => []U!SuccessLosesNothing
  BY U!SuccessLoses, SinkIsAssumed
<1>2. U!SuccessLosesNothing =>
        (job = "complete" => TransformedRow \ Sink!NumSkippedRows \subseteq Sink!StoredRows)
  BY SinkSourceRow DEF U!SuccessLosesNothing,
     Sink!NumSkippedRows, U!NumSkippedRows, Sink!RequestsIn, U!RequestsIn,
     Sink!StoredRows, U!StoredRows
<1>. QED
  BY <1>1, <1>2, SameSpec, PTL DEF Spec

(* And it stored none of them twice, in one request or in two, whatever     *)
(* replies were lost and however late requests land, under the datasink's   *)
(* own retry predicate and without replays.                                 *)
THEOREM WriteStoresOnce ==
  ASSUME Mode # "upsert", Policy = "default", MaxReplays = 0
  PROVE  Spec => []Sink!AtMostOnce
<1>1. U!Spec => []U!AtMostOnce
  BY U!StoredAtMostOnce, SinkIsAssumed
<1>2. U!AtMostOnce <=> Sink!AtMostOnce
  BY DEF U!AtMostOnce, Sink!AtMostOnce
<1>. QED
  BY <1>1, <1>2, SameSpec, PTL DEF Spec

(* mode="create" leaves alone a table that another client made between the  *)
(* listing and create_table, for any dataset, bundling and ceilings.        *)
THEOREM WriteCreatesExclusively == Spec => []Sink!CreateIsExclusive
<1>1. U!Spec => []U!CreateIsExclusive
  BY U!CreateExclusive, SinkIsAssumed
<1>2. U!CreateIsExclusive <=> Sink!CreateIsExclusive
  BY DEF U!CreateIsExclusive, Sink!CreateIsExclusive
<1>. QED
  BY <1>1, <1>2, SameSpec, PTL DEF Spec

=============================================================================
