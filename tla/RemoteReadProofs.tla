-------------------------- MODULE RemoteReadProofs --------------------------
(***************************************************************************)
(* Reads, for every table, call, number of workers and bound: the shards    *)
(* partition the row space, the tasks read the version the shards were      *)
(* planned for, every variable keeps its type, each task yields the rows of *)
(* its range, a read that completes is the answer of one version, and the   *)
(* read implements SnapshotRead.                                            *)
(***************************************************************************)
EXTENDS RemoteRead, SequenceProofs

-----------------------------------------------------------------------------
(* The arithmetic of plan_offset_shards.                                    *)

LEMMA Division ==
  ASSUME NEW n \in Nat, NEW k \in Nat \ {0}
  PROVE  /\ Base(n, k) \in Nat
         /\ Remainder(n, k) \in 0..(k - 1)
         /\ n = k * Base(n, k) + Remainder(n, k)
BY SMT DEF Base, Remainder

(* Each shard is base rows long, the first ones one more.                   *)
LEMMA ShardLength ==
  ASSUME NEW n \in Nat, NEW k \in Nat \ {0}, NEW i \in Nat
  PROVE  StartOf(n, k, i + 1) - StartOf(n, k, i) =
           Base(n, k) + (IF i < Remainder(n, k) THEN 1 ELSE 0)
<1> DEFINE b == Base(n, k)
           r == Remainder(n, k)
<1>1. b \in Nat /\ r \in Nat
  BY Division
<1> HIDE DEF b, r
<1>2. (i + 1) * b = i * b + b
  BY <1>1, SMT
<1>3. Least(i + 1, r) - Least(i, r) = IF i < r THEN 1 ELSE 0
  BY <1>1, SMT DEF Least
<1>4. i * b \in Nat /\ (i + 1) * b \in Nat /\ Least(i, r) \in Nat /\ Least(i + 1, r) \in Nat
  BY <1>1, SMT DEF Least
<1>5. ((i + 1) * b + Least(i + 1, r)) - (i * b + Least(i, r)) = b + (IF i < r THEN 1 ELSE 0)
  BY <1>1, <1>2, <1>3, <1>4, SMT
<1>6. QED
  BY <1>5 DEF StartOf, b, r

(* plan_offset_shards: "Contiguous, non-overlapping ranges covering         *)
(* [0, num_rows) in order", none of them empty, as many as asked for or as  *)
(* there are rows; the assertion at its end holds for every input.          *)
THEOREM ShardsPartition ==
  ASSUME NEW n \in Nat \ {0}, NEW p \in Nat \ {0}
  PROVE  LET k == NumShards(n, p)
             s == PlanOffsetShards(n, p)
         IN /\ DOMAIN s = 1..k /\ k \in 1..p
            /\ s[1].start = 0
            /\ s[k].end = n
            /\ \A i \in 1..(k - 1) : s[i].end = s[i + 1].start
            /\ \A i \in 1..k : s[i].start < s[i].end
<1> DEFINE k == NumShards(n, p)
           s == PlanOffsetShards(n, p)
           b == Base(n, k)
           r == Remainder(n, k)
<1>1. k \in Nat \ {0} /\ k <= n /\ k <= p
  BY SMT DEF NumShards, Least
<1>2. b \in Nat /\ r \in 0..(k - 1) /\ n = k * b + r
  BY <1>1, Division
<1>3. DOMAIN s = 1..k
  BY DEF PlanOffsetShards
<1>4. \A i \in 1..k : s[i].start = StartOf(n, k, i - 1) /\ s[i].end = StartOf(n, k, i)
  BY DEF PlanOffsetShards
<1> HIDE DEF k, s
<1>5. s[1].start = 0
  <2>1. s[1].start = StartOf(n, k, 0)
    BY <1>1, <1>4, SMT
  <2>2. StartOf(n, k, 0) = 0 * b + Least(0, r)
    BY DEF StartOf
  <2> HIDE DEF b, r
  <2>3. 0 * b + Least(0, r) = 0
    BY <1>1, <1>2, SMT DEF Least
  <2>4. QED
    BY <2>1, <2>2, <2>3
<1>6. s[k].end = n
  <2>1. s[k].end = StartOf(n, k, k)
    BY <1>1, <1>4, SMT
  <2>2. StartOf(n, k, k) = k * b + Least(k, r)
    BY DEF StartOf
  <2> HIDE DEF b, r
  <2>3. Least(k, r) = r
    BY <1>1, <1>2, SMT DEF Least
  <2>4. QED
    BY <1>2, <2>1, <2>2, <2>3
<1>7. \A i \in 1..(k - 1) : s[i].end = s[i + 1].start
  <2>1. TAKE i \in 1..(k - 1)
  <2>2. i \in 1..k /\ i + 1 \in 1..k /\ (i + 1) - 1 = i
    BY <1>1, SMT
  <2>3. QED
    BY <1>4, <2>2
<1>8. b >= 1
  <2> HIDE DEF b, r
  <2>1. SUFFICES ASSUME b = 0 PROVE FALSE
    BY <1>2, SMT
  <2>2. n = r
    BY <1>1, <1>2, <2>1, SMT
  <2>3. QED
    BY <1>1, <1>2, <2>2, SMT
<1>9. \A i \in 1..k : s[i].start < s[i].end
  <2>1. TAKE i \in 1..k
  <2>2. i - 1 \in Nat /\ (i - 1) + 1 = i
    BY <1>1, SMT
  <2>3. StartOf(n, k, i) - StartOf(n, k, i - 1) = b + (IF i - 1 < r THEN 1 ELSE 0)
    BY <1>1, <2>2, ShardLength
  <2>4. StartOf(n, k, i) \in Int /\ StartOf(n, k, i - 1) \in Int
    BY <1>1, <1>2, <2>2, SMT DEF StartOf, Least
  <2> HIDE DEF b, r
  <2>5. StartOf(n, k, i - 1) < StartOf(n, k, i)
    BY <1>2, <1>8, <2>3, <2>4, SMT
  <2>6. QED
    BY <1>4, <2>5
<1>10. QED
  BY <1>1, <1>3, <1>5, <1>6, <1>7, <1>9, SMT DEF k, s

-----------------------------------------------------------------------------
(* One snapshot.                                                            *)

Planned == driver \notin {"open", "pinned", "sized"}

(* A cached handle of a numbered version is of that version.                *)
HandlesHonest == \A h \in cache : h.key # Tag => h.version = h.key

(* What the driver counted is what it pinned.                               *)
SizedAsPinned ==
  Numbered /\ (driver \in {"sized", "running", "complete"} \/ Task # {}) => sized = pinned

(* There are tasks, each with its handle, only once there is a plan.        *)
TasksShape ==
  /\ handle = [t \in Task |-> handle[t]]
  /\ ~Planned => Task = {}

SnapInv == TasksShape /\ HandlesHonest /\ SizedAsPinned /\ OneSnapshot

LEMMA SnapInit == Init => SnapInv
<1> SUFFICES ASSUME Init PROVE SnapInv
  OBVIOUS
<1>1. Task = {} /\ handle = <<>>
  BY DEF Init, Task
<1>2. TasksShape
  BY <1>1 DEF TasksShape
<1>3. HandlesHonest
  BY DEF Init, EarlierHandles, HandlesHonest, Resolve
<1>4. QED
  BY <1>1, <1>2, <1>3 DEF Init, SnapInv, SizedAsPinned, OneSnapshot

(* What a task opens is the numbered version the read is pinned to.         *)
LEMMA OpenedIsPinned ==
  ASSUME SnapInv, Numbered, NEW w \in Worker, NEW h \in Opened(w)
  PROVE  h.version = pinned /\ h.key = pinned
<1>1. CASE Cached(w, pinned) # {}
  BY <1>1 DEF Opened, Cached, SnapInv, HandlesHonest, Numbered
<1>2. CASE Cached(w, pinned) = {}
  BY <1>2 DEF Opened, Resolve, Numbered
<1>3. QED
  BY <1>1, <1>2

LEMMA OpenedIsHonest ==
  ASSUME SnapInv, NEW w \in Worker, NEW h \in Opened(w)
  PROVE  h.key # Tag => h.version = h.key
<1>1. CASE Cached(w, pinned) # {}
  BY <1>1 DEF Opened, Cached, SnapInv, HandlesHonest
<1>2. CASE Cached(w, pinned) = {}
  BY <1>2 DEF Opened, Resolve
<1>3. QED
  BY <1>1, <1>2

(* Steps that leave the tasks' handles, the cache and the plan alone.       *)
LEMMA SnapFrame ==
  ASSUME SnapInv, UNCHANGED <<shards, handle, pinned, sized>>, cache' \subseteq cache,
         driver' = driver \/ (driver' = "failed")
                          \/ (driver = "running" /\ driver' = "complete")
  PROVE  SnapInv'
<1>1. Task' = Task /\ (Numbered' <=> Numbered)
  BY DEF Task, Numbered
<1>2. TasksShape'
  BY <1>1 DEF SnapInv, TasksShape, Planned
<1>3. HandlesHonest'
  BY DEF SnapInv, HandlesHonest
<1>4. SizedAsPinned'
  BY <1>1 DEF SnapInv, SizedAsPinned
<1>5. OneSnapshot'
  BY <1>1 DEF SnapInv, OneSnapshot
<1>6. QED
  BY <1>2, <1>3, <1>4, <1>5 DEF SnapInv

LEMMA SnapPin == ASSUME SnapInv, PinVersion \/ PinDataset PROVE SnapInv'
<1>1. driver = "open" /\ driver' = "pinned" /\ UNCHANGED <<shards, handle, cache>>
  BY DEF PinVersion, PinDataset, taskVars
<1>2. Task = {} /\ Task' = {}
  BY <1>1 DEF SnapInv, TasksShape, Planned, Task
<1>3. QED
  BY <1>1, <1>2 DEF SnapInv, TasksShape, Planned, HandlesHonest, SizedAsPinned, OneSnapshot

LEMMA SnapSize == ASSUME SnapInv, SizeScan PROVE SnapInv'
<1>1. Task = {} /\ Task' = {}
  BY DEF SizeScan, SnapInv, TasksShape, Planned, Task
<1>2. SizedAsPinned'
  BY <1>1 DEF SizeScan, SizedAsPinned, Resolve, Numbered
<1>3. QED
  BY <1>1, <1>2 DEF SizeScan, SnapInv, TasksShape, Planned, HandlesHonest, OneSnapshot, taskVars

LEMMA SnapPlan == ASSUME SnapInv, NEW ranges, Plan(ranges) PROVE SnapInv'
<1>1. Task' = DOMAIN ranges /\ handle' = [t \in DOMAIN ranges |-> 0]
  BY DEF Plan, Task
<1>2. TasksShape' /\ OneSnapshot'
  BY <1>1 DEF Plan, TasksShape, Planned, OneSnapshot
<1>3. SizedAsPinned' /\ HandlesHonest'
  BY DEF Plan, SnapInv, SizedAsPinned, Numbered, HandlesHonest
<1>4. QED
  BY <1>2, <1>3 DEF SnapInv

LEMMA SnapStart ==
  ASSUME SnapInv, NEW t \in Task, NEW w \in Worker, StartTask(t, w)
  PROVE  SnapInv'
<1>1. PICK h \in Opened(w) :
        handle' = [handle EXCEPT ![t] = h.version] /\ cache' = cache \cup {h}
  BY DEF StartTask
<1>2. UNCHANGED <<driver, pinned, sized, shards>> /\ driver = "running"
  BY DEF StartTask, driverVars
<1>3. Task' = Task /\ (Numbered' <=> Numbered)
  BY <1>2 DEF Task, Numbered
<1>4. TasksShape'
  BY <1>1, <1>2, <1>3 DEF SnapInv, TasksShape, Planned
<1>5. HandlesHonest'
  BY <1>1, OpenedIsHonest DEF SnapInv, HandlesHonest
<1>6. SizedAsPinned'
  BY <1>2, <1>3 DEF SnapInv, SizedAsPinned
<1>7. OneSnapshot'
  <2>1. SUFFICES ASSUME Numbered PROVE \A u \in Task : handle'[u] # 0 => handle'[u] = sized
    BY <1>2, <1>3 DEF OneSnapshot
  <2>2. h.version = sized
    BY <1>1, <1>2, <2>1, OpenedIsPinned DEF SnapInv, SizedAsPinned
  <2>3. QED
    BY <1>1, <2>1, <2>2 DEF SnapInv, OneSnapshot, TasksShape
<1>8. QED
  BY <1>4, <1>5, <1>6, <1>7 DEF SnapInv

(* lance-ray opens a numbered version as the driver did.                    *)
LEMMA SnapOpen ==
  ASSUME SnapInv, NEW t \in Task, OpenDataset(t)
  PROVE  SnapInv'
<1>1. handle' = [handle EXCEPT ![t] = Resolve(pinned)]
      /\ UNCHANGED <<driver, pinned, sized, shards, cache>> /\ driver = "running"
  BY DEF OpenDataset, driverVars
<1>2. Task' = Task /\ (Numbered' <=> Numbered)
  BY <1>1 DEF Task, Numbered
<1>3. Numbered => Resolve(pinned) = sized
  BY <1>1 DEF Resolve, Numbered, SnapInv, SizedAsPinned
<1>4. TasksShape'
  BY <1>1, <1>2 DEF SnapInv, TasksShape, Planned
<1>5. HandlesHonest' /\ SizedAsPinned'
  BY <1>1, <1>2 DEF SnapInv, HandlesHonest, SizedAsPinned
<1>6. OneSnapshot'
  BY <1>1, <1>2, <1>3 DEF SnapInv, OneSnapshot, TasksShape
<1>7. QED
  BY <1>4, <1>5, <1>6 DEF SnapInv

LEMMA SnapDies ==
  ASSUME SnapInv, NEW t \in Task, WorkerDies(t)
  PROVE  SnapInv'
<1>1. handle' = [handle EXCEPT ![t] = 0]
      /\ UNCHANGED <<driver, pinned, sized, shards, cache>>
  BY DEF WorkerDies, driverVars
<1>2. Task' = Task /\ (Numbered' <=> Numbered)
  BY <1>1 DEF Task, Numbered
<1>3. QED
  BY <1>1, <1>2 DEF SnapInv, TasksShape, Planned, HandlesHonest, SizedAsPinned, OneSnapshot

LEMMA SnapStep == SnapInv /\ [Next]_vars => SnapInv'
<1> SUFFICES ASSUME SnapInv, [Next]_vars PROVE SnapInv'
  OBVIOUS
<1> USE DEF callVars, driverVars, taskVars, vars
<1>1. CASE PinVersion \/ PinDataset \/ SizeScan
  BY <1>1, SnapPin, SnapSize
<1>12. CASE PlanTasks \/ PlanFragments
  BY <1>12, SnapPlan DEF PlanTasks, PlanFragments
<1>2. CASE DriverFails
  BY <1>2, SnapFrame DEF DriverFails
<1>3. CASE FinishRead
  BY <1>3, SnapFrame DEF FinishRead
<1>4. ASSUME NEW t \in Task, Starts(t) PROVE SnapInv'
  <2>1. CASE StartTaskFails(t)
    BY <2>1, SnapFrame DEF StartTaskFails
  <2>2. ASSUME NEW w \in Worker, StartTask(t, w) PROVE SnapInv'
    BY <2>2, SnapStart
  <2>3. CASE OpenDataset(t)
    BY <2>3, SnapOpen
  <2>4. QED
    BY <1>4, <2>1, <2>2, <2>3 DEF Starts
<1>5. ASSUME NEW t \in Task, Reads(t) PROVE SnapInv'
  <2>1. UNCHANGED <<shards, handle, pinned, sized, cache, driver>>
    BY <1>5 DEF Reads, TakeOffsets, ReadPage, Yield, OpenStream, StreamBatch, StreamBreaks,
                RequestFails, ScanFragment
  <2>2. QED
    BY <2>1, SnapFrame
<1>6. ASSUME NEW t \in Task, WorkerDies(t) PROVE SnapInv'
  BY <1>6, SnapDies
<1>7. ASSUME NEW c \in Contents, Commit(c) PROVE SnapInv'
  BY <1>7, SnapFrame DEF Commit
<1>8. ASSUME NEW v \in DOMAIN versions, MoveTag(v) PROVE SnapInv'
  BY <1>8, SnapFrame DEF MoveTag
<1>9. ASSUME NEW h \in cache, EvictHandle(h) PROVE SnapInv'
  BY <1>9, SnapFrame DEF EvictHandle
<1>10. CASE UNCHANGED vars
  BY <1>10, SnapFrame
<1>11. QED
  BY <1>1, <1>2, <1>3, <1>4, <1>5, <1>6, <1>7, <1>8, <1>9, <1>10, <1>12 DEF Next, Driver, Idle

(* Every task that has opened the table reads the version its shard was     *)
(* planned for, when the read is pinned to a number: for any table, call,   *)
(* cached handles, commits and deaths of workers.                           *)
THEOREM ReadsOneSnapshot == Spec => []OneSnapshot
<1>1. SnapInv => OneSnapshot
  BY DEF SnapInv
<1>2. QED
  BY <1>1, SnapInit, SnapStep, PTL DEF Spec

-----------------------------------------------------------------------------
(* The ranges the driver plans, and the types of what they are made of.     *)

Ranges == Seq([start : Nat, end : Nat])

(* Ranges that cut n rows into consecutive pieces.                          *)
Partitions(ranges, n) ==
  IF ranges = <<>> THEN n = 0
  ELSE /\ ranges[1].start = 0
       /\ ranges[Len(ranges)].end = n
       /\ \A i \in 1..(Len(ranges) - 1) : ranges[i].end = ranges[i + 1].start

(* Under a limit: the first range alone is the rows asked for.              *)
StartsWithLimit(ranges) ==
  /\ call.limit # None
  /\ ranges # <<>>
  /\ ranges[1].start = 0
  /\ ranges[1].end = call.limit

Within(ranges, n) ==
  \A i \in DOMAIN ranges : ranges[i].start <= ranges[i].end /\ ranges[i].end <= n

LEMMA CallType ==
  ASSUME TypeOK
  PROVE  /\ call.remote \in BOOLEAN /\ call.filter \in BOOLEAN
         /\ call.batchSize \in Nat \ {0} /\ call.parallelism \in Nat \ {0}
         /\ call.limit # None => call.limit \in Nat \ {0}
         /\ call.version \in Nat \cup {None, Tag}
         /\ call.strategy \in {"auto", "offsets", "pagination", "single"}
BY CallsAssumption DEF TypeOK, ArgsOf

LEMMA SelectedType ==
  ASSUME TypeOK, NEW v \in DOMAIN versions
  PROVE  /\ versions[v] \in Seq(Row) /\ Len(versions[v]) \in Nat
         /\ Selected(v) \in Seq(Row) /\ Len(Selected(v)) \in Nat
         /\ Len(Selected(v)) <= Len(versions[v])
<1>1. versions[v] \in Seq(Row) /\ Len(versions[v]) \in Nat
  BY ElementOfSeq DEF TypeOK
<1>2. /\ Accepted(versions[v], Matching) \in Seq(Row)
      /\ Len(Accepted(versions[v], Matching)) <= Len(versions[v])
  BY <1>1, AcceptedType
<1>. QED
  BY <1>1, <1>2 DEF Selected

-----------------------------------------------------------------------------
(* What the driver plans.                                                   *)

LEMMA IsSequence ==
  ASSUME NEW S, NEW n \in Nat, NEW f \in [1..n -> S]
  PROVE  f \in Seq(S) /\ DOMAIN f = 1..n /\ Len(f) = n
OBVIOUS

LEMMA PlannedShards ==
  ASSUME NEW n \in Nat \ {0}, NEW p \in Nat \ {0}
  PROVE  LET s == PlanOffsetShards(n, p)
         IN /\ s \in Ranges /\ s # <<>>
            /\ Partitions(s, n)
            /\ Within(s, n)
            /\ \A i \in DOMAIN s : s[i].end - s[i].start <= s[1].end
<1> DEFINE k == NumShards(n, p)
           s == PlanOffsetShards(n, p)
           b == Base(n, k)
           r == Remainder(n, k)
<1>1. k \in Nat \ {0}
  BY SMT DEF NumShards, Least
<1>2. /\ DOMAIN s = 1..k
      /\ s[1].start = 0 /\ s[k].end = n
      /\ \A i \in 1..(k - 1) : s[i].end = s[i + 1].start
      /\ \A i \in 1..k : s[i].start < s[i].end
  BY ShardsPartition
<1>12. s = [i \in 1..k |-> [start |-> StartOf(n, k, i - 1), end |-> StartOf(n, k, i)]]
  BY DEF PlanOffsetShards
<1>14. \A i \in 1..k : s[i].start = StartOf(n, k, i - 1) /\ s[i].end = StartOf(n, k, i)
  BY DEF PlanOffsetShards
<1> HIDE DEF k, s
<1>13. \A i \in Nat : StartOf(n, k, i + 1) - StartOf(n, k, i) = b + (IF i < r THEN 1 ELSE 0)
  BY <1>1, ShardLength
<1>10. b \in Nat /\ r \in Nat
  BY <1>1, Division
<1>11. \A i \in Nat : StartOf(n, k, i) = i * b + Least(i, r)
  BY DEF StartOf
<1> HIDE DEF b, r
<1>3. \A i \in Nat : StartOf(n, k, i) \in Nat
  <2> TAKE i \in Nat
  <2>1. i * b \in Nat /\ Least(i, r) \in Nat
    BY <1>10, SMT DEF Least
  <2>. QED
    BY <1>11, <2>1
<1>4. \A i \in 1..k : i - 1 \in Nat /\ i \in Nat /\ (i - 1) + 1 = i
  BY <1>1
<1>5. s \in Ranges /\ Len(s) = k /\ s # <<>>
  <2>1. ASSUME NEW i \in 1..k PROVE s[i] \in [start : Nat, end : Nat]
    <3>1. s[i] = [start |-> StartOf(n, k, i - 1), end |-> StartOf(n, k, i)]
      BY <1>12
    <3>. QED
      BY <1>3, <1>4, <3>1
  <2>2. s \in [1..k -> [start : Nat, end : Nat]]
    BY <1>12, <2>1
  <2>3. s \in Ranges /\ Len(s) = k
    BY <1>1, <2>2, IsSequence DEF Ranges
  <2>. QED
    BY <1>1, <2>3
<1>6. Partitions(s, n)
  BY <1>2, <1>5 DEF Partitions
<1>7. \A i \in 1..k : s[i].start \in Nat /\ s[i].end \in Nat
  BY <1>3, <1>4, <1>14
<1>8. \A i \in 1..k : s[i].end - s[i].start <= s[1].end
  <2>1. TAKE i \in 1..k
  <2>2. s[i].end - s[i].start = b + (IF i - 1 < r THEN 1 ELSE 0)
    <3>1. /\ i - 1 \in Nat /\ (i - 1) + 1 = i
          /\ s[i].start = StartOf(n, k, i - 1) /\ s[i].end = StartOf(n, k, i)
      BY <1>4, <1>14
    <3>2. StartOf(n, k, (i - 1) + 1) - StartOf(n, k, i - 1) = b + (IF i - 1 < r THEN 1 ELSE 0)
      BY <1>13, <3>1
    <3>. QED
      BY <3>1, <3>2
  <2>3. 1 \in 1..k /\ 1 - 1 = 0 /\ 0 \in Nat /\ 0 + 1 = 1
    BY <1>1
  <2>4. s[1].end - s[1].start = b + (IF 0 < r THEN 1 ELSE 0)
    <3>1. s[1].start = StartOf(n, k, 0) /\ s[1].end = StartOf(n, k, 1)
      BY <1>14, <2>3
    <3>2. StartOf(n, k, 0 + 1) - StartOf(n, k, 0) = b + (IF 0 < r THEN 1 ELSE 0)
      BY <1>13, <2>3
    <3>. QED
      BY <2>3, <3>1, <3>2
  <2>. QED
    BY <1>1, <1>2, <1>7, <1>10, <2>2, <2>3, <2>4
<1>9. Within(s, n)
  <2>1. \A j \in Nat : j < k => s[k - j].end <= n
    <3> DEFINE S == {j \in Nat : j < k => s[k - j].end <= n}
    <3>1. 0 \in S
      BY <1>1, <1>2
    <3>2. ASSUME NEW j \in Nat, j \in S PROVE j + 1 \in S
      <4>1. SUFFICES ASSUME j + 1 < k PROVE s[k - (j + 1)].end <= n
        OBVIOUS
      <4>2. k - (j + 1) \in 1..(k - 1) /\ (k - (j + 1)) + 1 = k - j /\ k - j \in 1..k
            /\ k - (j + 1) \in 1..k
        BY <1>1, <4>1
      <4>3. s[k - (j + 1)].end = s[k - j].start /\ s[k - j].start < s[k - j].end
        BY <1>2, <4>2
      <4>4. s[k - j].end <= n
        <5>1. j < k
          BY <1>1, <4>1
        <5>. QED
          BY <3>2, <5>1
      <4>. QED
        BY <1>7, <4>2, <4>3, <4>4
    <3> HIDE DEF S
    <3>3. Nat \subseteq S
      BY <3>1, <3>2, SetInduction
    <3>. QED
      BY <3>3 DEF S
  <2>2. ASSUME NEW i \in 1..k PROVE s[i].start <= s[i].end /\ s[i].end <= n
    <3>1. k - i \in Nat /\ k - i < k /\ k - (k - i) = i
      BY <1>1
    <3>2. s[i].end <= n
      BY <2>1, <3>1
    <3>. QED
      BY <1>2, <1>7, <3>2
  <2>. QED
    BY <1>2, <2>2 DEF Within
<1>. QED
  BY <1>2, <1>5, <1>6, <1>8, <1>9 DEF s

LEMMA TaskShardsCover ==
  ASSUME TypeOK, sized \in DOMAIN versions
  PROVE  /\ TaskShards \in Ranges
         /\ Within(TaskShards, NumRows)
         /\ Partitions(TaskShards, NumRows) \/ StartsWithLimit(TaskShards)
<1> DEFINE n == NumRows
<1>1. n \in Nat
  BY SelectedType DEF NumRows
<1>2. /\ call.parallelism \in Nat \ {0}
      /\ call.limit # None => call.limit \in Nat \ {0}
  BY CallType
<1>3. CASE n = 0
  <2>1. TaskShards = <<>>
    BY <1>3 DEF TaskShards
  <2>. QED
    BY <1>3, <2>1 DEF Ranges, Within, Partitions
<1>4. CASE n > 0 /\ Strategy = "single"
  <2> DEFINE e == IF call.limit = None THEN n ELSE Least(n, call.limit)
  <2>1. TaskShards = <<[start |-> 0, end |-> e]>>
    BY <1>4 DEF TaskShards, WholeTable
  <2>2. e \in Nat /\ e <= n /\ (e = n \/ (call.limit # None /\ e = call.limit))
    BY <1>1, <1>2 DEF Least
  <2> HIDE DEF e, n
  <2>3. TaskShards \in Ranges /\ Len(TaskShards) = 1 /\ TaskShards # <<>>
        /\ DOMAIN TaskShards = {1}
        /\ TaskShards[1].start = 0 /\ TaskShards[1].end = e
    BY <2>1, <2>2 DEF Ranges
  <2>4. Within(TaskShards, n)
    BY <2>2, <2>3 DEF Within
  <2>5. Partitions(TaskShards, n) \/ StartsWithLimit(TaskShards)
    BY <2>2, <2>3 DEF Partitions, StartsWithLimit
  <2>. QED
    BY <2>3, <2>4, <2>5 DEF n
<1>5. CASE n > 0 /\ Strategy # "single"
  <2> DEFINE planned == PlanOffsetShards(n, call.parallelism)
  <2>1. TaskShards = IF call.limit = None THEN planned ELSE Shorten(planned, call.limit)
    BY <1>5 DEF TaskShards
  <2>2. /\ planned \in Ranges /\ planned # <<>>
        /\ Partitions(planned, n)
        /\ Within(planned, n)
        /\ \A i \in DOMAIN planned : planned[i].end - planned[i].start <= planned[1].end
    <3>1. n \in Nat \ {0}
      BY <1>1, <1>5
    <3>. QED
      BY <1>2, <3>1, PlannedShards
  <2> HIDE DEF planned, n
  <2>3. CASE call.limit = None
    BY <2>1, <2>2, <2>3 DEF n
  <2>4. ASSUME call.limit # None
        PROVE  /\ TaskShards \in Ranges
               /\ Within(TaskShards, n)
               /\ Partitions(TaskShards, n) \/ StartsWithLimit(TaskShards)
    <3> DEFINE m == Len(planned)
               short == Shorten(planned, call.limit)
    <3>1. TaskShards = short /\ call.limit \in Nat \ {0}
      BY <1>2, <2>1, <2>4
    <3>2. m \in Nat \ {0} /\ DOMAIN planned = 1..m /\ 1 \in 1..m
      BY <2>2, EmptySeq, LenProperties DEF Ranges
    <3>3. \A i \in 1..m : /\ planned[i] \in [start : Nat, end : Nat]
                          /\ planned[i].start <= planned[i].end /\ planned[i].end <= n
      BY <2>2, <3>2, ElementOfSeq DEF Ranges, Within
    <3>4. \A i \in 1..m : /\ short[i].start = planned[i].start
                          /\ short[i].end = Least(planned[i].end, planned[i].start + call.limit)
                          /\ short[i] \in [start : Nat, end : Nat]
      BY <3>1, <3>2, <3>3 DEF Shorten, Least
    <3>5. short \in Ranges /\ DOMAIN short = 1..m /\ short # <<>>
      <4>1. short = [i \in 1..m |-> short[i]]
        BY <3>2 DEF Shorten
      <4> HIDE DEF short
      <4>2. short \in [1..m -> [start : Nat, end : Nat]]
        BY <3>4, <4>1
      <4>3. short \in Ranges /\ DOMAIN short = 1..m /\ Len(short) = m
        BY <3>2, <4>2, IsSequence DEF Ranges
      <4>. QED
        BY <3>2, <4>3
    <3> HIDE DEF short, m
    <3>6. Within(short, n)
      BY <1>1, <3>1, <3>3, <3>4, <3>5 DEF Within, Least, n
    <3>7. CASE call.limit <= planned[1].end
      <4>1. planned[1].start = 0
        BY <2>2 DEF Partitions
      <4>2. short[1].start = 0 /\ short[1].end = call.limit
        BY <3>1, <3>2, <3>3, <3>4, <3>7, <4>1 DEF Least
      <4>. QED
        BY <2>4, <3>1, <3>5, <3>6, <4>2 DEF StartsWithLimit
    <3>8. CASE ~(call.limit <= planned[1].end)
      <4>1. ASSUME NEW i \in 1..m PROVE short[i].end = planned[i].end
        <5>1. /\ planned[i].start \in Nat /\ planned[i].end \in Nat /\ planned[1].end \in Nat
          BY <3>2, <3>3
        <5>2. planned[i].end - planned[i].start <= planned[1].end
          BY <2>2, <3>2
        <5>3. planned[i].end <= planned[i].start + call.limit
          BY <3>1, <3>8, <5>1, <5>2
        <5>. QED
          BY <3>4, <5>3 DEF Least
      <4>2. Len(short) = m
        BY <3>2, <3>5, LenProperties DEF Ranges
      <4>3. Partitions(short, n)
        BY <2>2, <3>2, <3>4, <3>5, <4>1, <4>2 DEF Partitions, m
      <4>. QED
        BY <3>1, <3>5, <3>6, <4>3
    <3>. QED
      BY <3>7, <3>8
  <2>. QED
    BY <2>3, <2>4 DEF n
<1>. QED
  BY <1>1, <1>3, <1>4, <1>5

LEMMA FragmentsCover ==
  ASSUME NEW n \in Nat, NEW ranges \in Fragments(n)
  PROVE  ranges \in Ranges /\ Within(ranges, n) /\ Partitions(ranges, n)
<1>1. PICK k \in 0..n : \E cut \in Cuts(n, k) :
        ranges = [i \in 1..k |-> [start |-> cut[i - 1], end |-> cut[i]]]
  BY DEF Fragments
<1>. PICK cut \in Cuts(n, k) : ranges = [i \in 1..k |-> [start |-> cut[i - 1], end |-> cut[i]]]
  BY <1>1
<1>2. /\ cut \in [0..k -> 0..n] /\ cut[0] = 0 /\ cut[k] = n
      /\ \A i \in 1..k : cut[i - 1] < cut[i]
  BY DEF Cuts
<1>3. k \in Nat /\ \A i \in 1..k : i \in 0..k /\ i - 1 \in 0..k
  BY <1>1
<1>4. \A i \in 1..k : /\ ranges[i].start = cut[i - 1] /\ ranges[i].end = cut[i]
                      /\ ranges[i] \in [start : Nat, end : Nat]
  BY <1>1, <1>2, <1>3
<1>5. ranges \in [1..k -> [start : Nat, end : Nat]]
  <2>1. ranges = [i \in 1..k |-> ranges[i]]
    OBVIOUS
  <2>. QED
    BY <1>4, <2>1
<1>6. ranges \in Ranges /\ DOMAIN ranges = 1..k /\ Len(ranges) = k
  <2> DEFINE R == [start : Nat, end : Nat]
  <2>1. ranges \in [1..k -> R] /\ k \in Nat
    BY <1>3, <1>5
  <2> HIDE DEF R
  <2>2. ranges \in Seq(R) /\ DOMAIN ranges = 1..k /\ Len(ranges) = k
    BY <2>1, IsSequence
  <2>. QED
    BY <2>2 DEF Ranges, R
<1>7. Within(ranges, n)
  BY <1>2, <1>3, <1>4, <1>6 DEF Within
<1>8. Partitions(ranges, n)
  <2>1. CASE k = 0
    <3>1. ranges = <<>> /\ n = 0
      BY <1>2, <1>6, <2>1, EmptySeq DEF Ranges
    <3>. QED
      BY <3>1 DEF Partitions
  <2>2. CASE k # 0
    <3>0. Len(<<>>) = 0
      OBVIOUS
    <3>1. 1 \in 1..k /\ k \in 1..k /\ 1 - 1 = 0
      BY <1>3, <2>2
    <3>3. ranges # <<>>
      BY <1>6, <2>2, <3>0
    <3>2. \A i \in 1..(k - 1) : i \in 1..k /\ i + 1 \in 1..k /\ (i + 1) - 1 = i
      BY <1>3
    <3>. QED
      BY <1>2, <1>4, <1>6, <3>1, <3>2, <3>3 DEF Partitions
  <2>. QED
    BY <2>1, <2>2
<1>. QED
  BY <1>6, <1>7, <1>8

-----------------------------------------------------------------------------
(* Types.                                                                   *)

Sized == driver \in {"sized", "running", "complete"} \/ Task # {}

(* What the driver counted is a version, and so is what the workers hold.   *)
VersionsExist ==
  /\ Sized => sized \in DOMAIN versions
  /\ \A h \in cache : h.version \in DOMAIN versions
  /\ \A t \in Task : /\ handle[t] \in DOMAIN versions \cup {0}
                     /\ pc[t] \in {"reading", "streaming"} => handle[t] # 0

TypeInv == TypeOK /\ VersionsExist

LEMMA TypeInit == Init => TypeInv
<1> SUFFICES ASSUME Init PROVE TypeInv
  OBVIOUS
<1>1. PICK c \in Contents, d \in Contents : versions = <<c, d>>
  BY DEF Init
<1>2. versions \in Seq(Seq(Row)) \ {<<>>} /\ DOMAIN versions = 1..2
  BY <1>1, ContentsAssumption
<1>3. Task = {} /\ shards = <<>>
  BY DEF Init, Task
<1>4. /\ shards \in Seq([start : Nat, end : Nat])
      /\ pc \in [Task -> {"pending", "reading", "streaming", "done", "failed"}]
      /\ pos \in [Task -> Nat]
      /\ attempt \in [Task -> 1..MaxAttempts]
      /\ handle \in [Task -> Nat]
      /\ got \in [Task -> Seq(Row)]
  BY <1>3 DEF Init
<1>5. ASSUME NEW h \in cache PROVE h \in Handle /\ h.version \in DOMAIN versions
  <2>1. PICK w \in Worker, k \in EarlierKeys :
          h = [worker |-> w, key |-> k, version |-> Resolve(k)]
    BY DEF Init, EarlierHandles
  <2>2. k \in {1, 2, Tag} /\ tag = 1
    BY EarlierKeysAssumption DEF Init
  <2>3. Resolve(k) \in 1..2
    BY <2>2 DEF Resolve
  <2>. QED
    BY <1>2, <2>1, <2>2, <2>3 DEF Handle
<1>6. TypeOK
  BY <1>2, <1>4, <1>5 DEF Init, TypeOK
<1>7. VersionsExist
  BY <1>3, <1>5 DEF Init, VersionsExist, Sized
<1>. QED
  BY <1>6, <1>7 DEF TypeInv

(* Once the table is counted, the version a worker resolves exists.         *)
LEMMA ResolvedExists ==
  ASSUME TypeInv, SnapInv, Sized
  PROVE  Resolve(pinned) \in DOMAIN versions
<1>1. CASE Numbered
  BY <1>1 DEF TypeInv, VersionsExist, SnapInv, SizedAsPinned, Sized, Resolve, Numbered
<1>2. CASE ~Numbered
  BY <1>2 DEF TypeInv, TypeOK, Resolve, Numbered
<1>. QED
  BY <1>1, <1>2

LEMMA RangeType ==
  ASSUME NEW ranges \in Ranges, NEW i \in DOMAIN ranges
  PROVE  ranges[i].start \in Nat /\ ranges[i].end \in Nat
<1> DEFINE R == [start : Nat, end : Nat]
<1>1. ranges[i] \in R
  <2>1. ranges \in Seq(R)
    BY DEF Ranges
  <2> HIDE DEF R
  <2>. QED
    BY <2>1
<1>. QED
  BY <1>1

LEMMA SliceType ==
  ASSUME NEW rows \in Seq(Row), NEW from \in Nat, NEW to \in Nat
  PROVE  Slice(rows, from, to) \in Seq(Row)
<1>1. Least(to, Len(rows)) \in Nat /\ Least(to, Len(rows)) <= Len(rows)
  BY DEF Least
<1>2. \A i \in (from + 1)..Least(to, Len(rows)) : rows[i] \in Row
  BY <1>1, ElementOfSeq
<1>. QED
  BY <1>1, <1>2, SubSeqProperties DEF Slice

LEMMA PageType ==
  ASSUME TypeInv, NEW t \in Task, pc[t] \in {"reading", "streaming"},
         NEW range, range.end \in Nat
  PROVE  /\ handle[t] \in DOMAIN versions
         /\ Page(t, range) \in Seq(Row)
         /\ ChunkEnd(range, pos[t], call.batchSize) \in Nat
<1>1. handle[t] \in DOMAIN versions
  BY DEF TypeInv, VersionsExist
<1>2. pos[t] \in Nat /\ call.batchSize \in Nat \ {0}
  BY CallType DEF TypeInv, TypeOK
<1>3. ChunkEnd(range, pos[t], call.batchSize) \in Nat
  BY <1>2 DEF ChunkEnd, Least
<1>5. versions[handle[t]] \in Seq(Row) /\ Selected(handle[t]) \in Seq(Row)
  BY <1>1, SelectedType DEF TypeInv
<1>. QED
  BY <1>1, <1>2, <1>3, <1>5, SliceType DEF Page

(* A step of one task that leaves the table, the cache and the plan alone.  *)
LEMMA TypeTask ==
  ASSUME TypeInv, NEW t \in Task,
         UNCHANGED <<callVars, driver, pinned, sized, shards, cache>>, replays' \in Nat,
         NEW p \in {"pending", "reading", "streaming", "done", "failed"},
         pc' = [pc EXCEPT ![t] = p],
         pos' \in [Task -> Nat], attempt' \in [Task -> 1..MaxAttempts], got' \in [Task -> Seq(Row)],
         NEW v \in DOMAIN versions \cup {0}, handle' = [handle EXCEPT ![t] = v],
         p \in {"reading", "streaming"} => v # 0
  PROVE  TypeInv'
<1>1. Task' = Task /\ versions' = versions /\ call' = call /\ tag' = tag
  BY DEF Task, callVars
<1>2. DOMAIN versions \subseteq Nat
  BY DEF TypeInv, TypeOK
<1>3. /\ handle' \in [Task -> Nat]
      /\ pc' \in [Task -> {"pending", "reading", "streaming", "done", "failed"}]
  BY <1>2 DEF TypeInv, TypeOK
<1>4. TypeOK'
  BY <1>1, <1>3 DEF TypeInv, TypeOK
<1>5. \A u \in Task : /\ handle'[u] \in DOMAIN versions \cup {0}
                      /\ pc'[u] \in {"reading", "streaming"} => handle'[u] # 0
  BY DEF TypeInv, TypeOK, VersionsExist
<1>6. VersionsExist'
  BY <1>1, <1>5 DEF TypeInv, VersionsExist, Sized
<1>. QED
  BY <1>4, <1>6 DEF TypeInv

LEMMA TypeDriver ==
  ASSUME TypeInv, SnapInv, PinVersion \/ PinDataset \/ SizeScan \/ DriverFails \/ FinishRead
  PROVE  TypeInv'
<1>1. UNCHANGED <<callVars, cache, shards, taskVars, replays>>
  BY DEF PinVersion, PinDataset, SizeScan, DriverFails, FinishRead
<1>2. Task' = Task /\ versions' = versions /\ call' = call /\ tag' = tag /\ replays' = replays
      /\ cache' = cache /\ shards' = shards /\ pc' = pc /\ pos' = pos /\ attempt' = attempt
      /\ handle' = handle /\ got' = got
  BY <1>1 DEF Task, callVars, taskVars
<1>3. driver' \in {"open", "pinned", "sized", "running", "complete", "failed"}
  BY DEF PinVersion, PinDataset, SizeScan, DriverFails, FinishRead
<1>4. pinned' \in Nat \cup {Tag}
  <2>1. Len(versions) \in Nat
    BY DEF TypeInv, TypeOK
  <2>. QED
    BY <2>1, CallType DEF PinVersion, PinDataset, SizeScan, DriverFails, FinishRead, TypeInv, TypeOK
<1>5. sized' \in Nat /\ (Sized' => sized' \in DOMAIN versions)
  <2>1. CASE SizeScan
    BY <2>1 DEF SizeScan, TypeInv, TypeOK
  <2>2. CASE PinVersion \/ PinDataset \/ DriverFails
    <3>1. Task = {} /\ sized' = sized /\ driver' \in {"pinned", "failed"}
      BY <2>2 DEF PinVersion, PinDataset, DriverFails, SnapInv, TasksShape, Planned
    <3>. QED
      BY <1>2, <3>1 DEF Sized, TypeInv, TypeOK
  <2>3. CASE FinishRead
    <3>1. sized' = sized /\ driver = "running"
      BY <2>3 DEF FinishRead
    <3>. QED
      BY <3>1 DEF Sized, TypeInv, TypeOK, VersionsExist
  <2>. QED
    BY <2>1, <2>2, <2>3
<1>6. TypeOK'
  BY <1>2, <1>3, <1>4, <1>5 DEF TypeInv, TypeOK
<1>7. VersionsExist'
  BY <1>2, <1>5 DEF TypeInv, VersionsExist
<1>. QED
  BY <1>6, <1>7 DEF TypeInv

LEMMA TypePlan ==
  ASSUME TypeInv, NEW ranges \in Ranges, Plan(ranges)
  PROVE  TypeInv'
<1>1. /\ Task' = DOMAIN ranges /\ shards' = ranges
      /\ UNCHANGED <<call, versions, tag, cache, pinned, sized, replays>>
      /\ driver = "sized" /\ driver' = "running"
  BY DEF Plan, Task, callVars
<1>2. \A t \in DOMAIN ranges : ranges[t].start \in Nat
  BY RangeType
<1>3. /\ pc' \in [Task' -> {"pending", "reading", "streaming", "done", "failed"}]
      /\ pos' \in [Task' -> Nat]
      /\ attempt' \in [Task' -> 1..MaxAttempts]
      /\ handle' \in [Task' -> Nat]
      /\ got' \in [Task' -> Seq(Row)]
  BY <1>1, <1>2, ReadAttemptsAssumption DEF Plan
<1>4. TypeOK'
  BY <1>1, <1>3 DEF TypeInv, TypeOK, Ranges
<1>5. \A t \in Task' : handle'[t] = 0 /\ pc'[t] = "pending"
  BY <1>1 DEF Plan
<1>6. VersionsExist'
  BY <1>1, <1>5 DEF TypeInv, VersionsExist, Sized
<1>. QED
  BY <1>4, <1>6 DEF TypeInv

LEMMA TypeStart ==
  ASSUME TypeInv, SnapInv, NEW t \in Task, NEW w \in Worker, StartTask(t, w)
  PROVE  TypeInv'
<1>1. PICK h \in Opened(w) :
        handle' = [handle EXCEPT ![t] = h.version] /\ cache' = cache \cup {h}
  BY DEF StartTask
<1>2. /\ Task' = Task
      /\ UNCHANGED <<call, versions, tag, driver, pinned, sized, shards, pos, attempt, got, replays>>
      /\ pc' = [pc EXCEPT ![t] = "reading"]
  BY DEF StartTask, Task, callVars, driverVars
<1>3. h \in Handle /\ h.version \in DOMAIN versions
  <2>1. CASE Cached(w, pinned) # {}
    BY <2>1 DEF Opened, Cached, TypeInv, TypeOK, VersionsExist
  <2>2. CASE Cached(w, pinned) = {}
    <3>1. h = [worker |-> w, key |-> pinned, version |-> Resolve(pinned)]
      BY <2>2 DEF Opened
    <3>2. Resolve(pinned) \in DOMAIN versions
      BY ResolvedExists DEF Sized
    <3>. QED
      BY <3>1, <3>2 DEF Handle, TypeInv, TypeOK
  <2>. QED
    BY <2>1, <2>2
<1>4. h.version \in Nat \ {0}
  BY <1>3 DEF TypeInv, TypeOK
<1>5. TypeOK'
  BY <1>1, <1>2, <1>3, <1>4 DEF TypeInv, TypeOK
<1>6. \A u \in Task : /\ handle'[u] \in DOMAIN versions \cup {0}
                      /\ pc'[u] \in {"reading", "streaming"} => handle'[u] # 0
  BY <1>1, <1>2, <1>3, <1>4 DEF TypeInv, TypeOK, VersionsExist
<1>7. VersionsExist'
  BY <1>1, <1>2, <1>3, <1>6 DEF TypeInv, VersionsExist, Sized
<1>. QED
  BY <1>5, <1>7 DEF TypeInv

LEMMA TypeReads ==
  ASSUME TypeInv, NEW t \in Task, Reads(t)
  PROVE  TypeInv'
<1>1. /\ UNCHANGED <<callVars, driver, pinned, sized, shards, cache, replays>> /\ handle' = handle
  BY DEF Reads, TakeOffsets, ReadPage, Yield, OpenStream, StreamBatch, StreamBreaks,
         RequestFails, ScanFragment, driverVars
<1>2. replays' \in Nat /\ handle' = [handle EXCEPT ![t] = handle[t]]
      /\ handle[t] \in DOMAIN versions \cup {0}
      /\ (pc[t] \in {"reading", "streaming"} => handle[t] # 0)
  BY <1>1 DEF TypeInv, TypeOK, VersionsExist
<1>3. shards[t].start \in Nat /\ shards[t].end \in Nat
  BY RangeType DEF TypeInv, TypeOK, Task, Ranges
<1>4. ASSUME NEW range, range.end \in Nat, NEW last, Yield(t, range, last),
             pc[t] \in {"reading", "streaming"}
      PROVE  TypeInv'
  <2>1. /\ Page(t, range) \in Seq(Row)
        /\ ChunkEnd(range, pos[t], call.batchSize) \in Nat
    BY <1>4, PageType
  <2>2. /\ got' = [got EXCEPT ![t] = got[t] \o Page(t, range)]
        /\ pos' = [pos EXCEPT ![t] = ChunkEnd(range, pos[t], call.batchSize)]
        /\ attempt' = [attempt EXCEPT ![t] = 1]
        /\ pc' = [pc EXCEPT ![t] = IF last THEN "done" ELSE pc[t]]
    BY <1>4 DEF Yield
  <2>3. /\ pos' \in [Task -> Nat] /\ attempt' \in [Task -> 1..MaxAttempts]
        /\ got' \in [Task -> Seq(Row)]
    BY <2>1, <2>2, ReadAttemptsAssumption DEF TypeInv, TypeOK
  <2>4. (IF last THEN "done" ELSE pc[t]) \in {"pending", "reading", "streaming", "done", "failed"}
    BY <1>4
  <2>. QED
    BY <1>1, <1>2, <1>4, <2>2, <2>3, <2>4, TypeTask
<1>5. CASE TakeOffsets(t) \/ ReadPage(t)
  BY <1>3, <1>4, <1>5 DEF TakeOffsets, ReadPage
<1>6. CASE StreamBatch(t)
  <2>1. pc[t] = "streaming" /\ handle[t] \in DOMAIN versions
    BY <1>2, <1>6 DEF StreamBatch
  <2>2. StreamEnd(t) \in Nat
    BY <2>1, SelectedType, CallType DEF StreamEnd, Least, TypeInv
  <2>3. [start |-> 0, end |-> StreamEnd(t)].end \in Nat
    BY <2>2
  <2>. QED
    BY <1>4, <1>6, <2>1, <2>3 DEF StreamBatch
<1>7. CASE OpenStream(t) \/ StreamBreaks(t)
  <2>1. \/ pc' = [pc EXCEPT ![t] = "streaming"]
        \/ pc' = [pc EXCEPT ![t] = "failed"]
    BY <1>7 DEF OpenStream, StreamBreaks
  <2>2. pc[t] \in {"reading", "streaming"} /\ pos' = pos /\ attempt' = attempt /\ got' = got
    BY <1>7 DEF OpenStream, StreamBreaks
  <2>. QED
    BY <1>1, <1>2, <2>1, <2>2, TypeTask DEF TypeInv, TypeOK
<1>8. ASSUME NEW e \in Errors, RequestFails(t, e) PROVE TypeInv'
  <2>1. pc[t] = "reading" /\ pos' = pos /\ got' = got
    BY <1>8 DEF RequestFails
  <2>2. CASE RetriesAgain("custom", "read", MaxAttempts, attempt[t], e)
    <3>1. attempt' = [attempt EXCEPT ![t] = attempt[t] + 1] /\ pc' = pc /\ attempt[t] < MaxAttempts
      BY <1>8, <2>2 DEF RequestFails, RetriesAgain
    <3>2. attempt' \in [Task -> 1..MaxAttempts] /\ pc' = [pc EXCEPT ![t] = pc[t]]
      BY <3>1, ReadAttemptsAssumption DEF TypeInv, TypeOK
    <3>. QED
      BY <1>1, <1>2, <2>1, <3>2, TypeTask DEF TypeInv, TypeOK
  <2>3. CASE ~RetriesAgain("custom", "read", MaxAttempts, attempt[t], e)
    <3>1. attempt' = attempt /\ pc' = [pc EXCEPT ![t] = "failed"]
      BY <1>8, <2>3 DEF RequestFails
    <3>. QED
      BY <1>1, <1>2, <2>1, <3>1, TypeTask DEF TypeInv, TypeOK
  <2>. QED
    BY <2>2, <2>3
<1>9. CASE ScanFragment(t)
  <2> DEFINE rows == Slice(versions[handle[t]], shards[t].start, shards[t].end)
  <2>1. pc[t] = "reading" /\ pos' = pos /\ attempt' = attempt
    BY <1>9 DEF ScanFragment
  <2>2. versions[handle[t]] \in Seq(Row)
    BY <1>2, <2>1, SelectedType DEF TypeInv
  <2>3. rows \in Seq(Row)
    BY <1>3, <2>2, SliceType
  <2>4. (IF call.filter THEN Accepted(rows, Matching) ELSE rows) \in Seq(Row)
    BY <2>3, AcceptedType
  <2>5. /\ \/ pc' = [pc EXCEPT ![t] = "done"]
           \/ pc' = [pc EXCEPT ![t] = "failed"]
        /\ got' \in [Task -> Seq(Row)]
    BY <1>9, <2>4 DEF ScanFragment, TypeInv, TypeOK
  <2>. QED
    BY <1>1, <1>2, <2>1, <2>5, TypeTask DEF TypeInv, TypeOK
<1>. QED
  BY <1>5, <1>6, <1>7, <1>8, <1>9 DEF Reads

LEMMA TypeOtherStarts ==
  ASSUME TypeInv, SnapInv, NEW t \in Task, StartTaskFails(t) \/ OpenDataset(t) \/ WorkerDies(t)
  PROVE  TypeInv'
<1>1. UNCHANGED <<callVars, driver, pinned, sized, shards, cache>>
  BY DEF StartTaskFails, OpenDataset, WorkerDies, driverVars
<1>2. handle[t] \in DOMAIN versions \cup {0} /\ handle = [handle EXCEPT ![t] = handle[t]]
  BY DEF TypeInv, TypeOK, VersionsExist
<1>3. CASE StartTaskFails(t)
  <2>1. /\ pc' = [pc EXCEPT ![t] = "failed"] /\ handle' = handle
        /\ pos' = pos /\ attempt' = attempt /\ got' = got /\ replays' = replays
    BY <1>3 DEF StartTaskFails
  <2>. QED
    BY <1>1, <1>2, <2>1, TypeTask DEF TypeInv, TypeOK
<1>4. CASE OpenDataset(t)
  <2>1. /\ pc' = [pc EXCEPT ![t] = "reading"] /\ handle' = [handle EXCEPT ![t] = Resolve(pinned)]
        /\ pos' = pos /\ attempt' = attempt /\ got' = got /\ replays' = replays
    BY <1>4 DEF OpenDataset
  <2>2. Resolve(pinned) \in DOMAIN versions /\ Resolve(pinned) # 0
    BY <1>4, ResolvedExists DEF OpenDataset, Sized, TypeInv, TypeOK
  <2>. QED
    BY <1>1, <2>1, <2>2, TypeTask DEF TypeInv, TypeOK
<1>5. CASE WorkerDies(t)
  <2>1. /\ pc' = [pc EXCEPT ![t] = "pending"] /\ handle' = [handle EXCEPT ![t] = 0]
        /\ pos' = [pos EXCEPT ![t] = shards[t].start] /\ attempt' = [attempt EXCEPT ![t] = 1]
        /\ got' = [got EXCEPT ![t] = <<>>] /\ replays' = replays + 1
    BY <1>5 DEF WorkerDies
  <2>2. shards[t].start \in Nat
    BY RangeType DEF TypeInv, TypeOK, Task, Ranges
  <2>3. <<>> \in Seq(Row) /\ 1 \in 1..MaxAttempts
    BY ReadAttemptsAssumption
  <2>5. pos' \in [Task -> Nat]
    BY <2>1, <2>2 DEF TypeInv, TypeOK
  <2>6. attempt' \in [Task -> 1..MaxAttempts]
    BY <2>1, <2>3 DEF TypeInv, TypeOK
  <2>7. got' \in [Task -> Seq(Row)]
    BY <2>1, <2>3 DEF TypeInv, TypeOK
  <2>4. replays' \in Nat
    BY <2>1 DEF TypeInv, TypeOK
  <2>. QED
    BY <1>1, <2>1, <2>4, <2>5, <2>6, <2>7, TypeTask
<1>. QED
  BY <1>3, <1>4, <1>5

(* Steps of the table and of the cache.                                     *)
LEMMA TypeOutside ==
  ASSUME TypeInv, UNCHANGED <<call, driverVars, taskVars, replays>>, cache' \subseteq cache,
         versions' \in Seq(Seq(Row)) \ {<<>>}, DOMAIN versions \subseteq DOMAIN versions',
         tag' \in DOMAIN versions'
  PROVE  TypeInv'
<1>1. /\ Task' = Task /\ UNCHANGED <<driver, pinned, sized, shards, pc, pos, attempt, handle, got>>
  BY DEF Task, driverVars, taskVars
<1>2. TypeOK'
  BY <1>1 DEF TypeInv, TypeOK
<1>3. VersionsExist'
  BY <1>1 DEF TypeInv, VersionsExist, Sized
<1>. QED
  BY <1>2, <1>3 DEF TypeInv

LEMMA TypeStep == TypeInv /\ SnapInv /\ [Next]_vars => TypeInv'
<1> SUFFICES ASSUME TypeInv, SnapInv, [Next]_vars PROVE TypeInv'
  OBVIOUS
<1>0. versions \in Seq(Seq(Row)) \ {<<>>} /\ tag \in DOMAIN versions
  BY DEF TypeInv, TypeOK
<1>1. CASE PinVersion \/ PinDataset \/ SizeScan \/ DriverFails \/ FinishRead
  BY <1>1, TypeDriver
<1>2. CASE PlanTasks
  <2>1. sized \in DOMAIN versions
    BY <1>2 DEF PlanTasks, Plan, TypeInv, VersionsExist, Sized
  <2>. QED
    BY <1>2, <2>1, TaskShardsCover, TypePlan DEF PlanTasks, TypeInv
<1>3. CASE PlanFragments
  <2>1. sized \in DOMAIN versions
    BY <1>3 DEF PlanFragments, TypeInv, VersionsExist, Sized
  <2>2. Len(versions[sized]) \in Nat
    BY <2>1, SelectedType DEF TypeInv
  <2>. QED
    BY <1>3, <2>2, FragmentsCover, TypePlan DEF PlanFragments
<1>4. ASSUME NEW t \in Task, Starts(t) \/ WorkerDies(t) PROVE TypeInv'
  BY <1>4, TypeStart, TypeOtherStarts DEF Starts
<1>5. ASSUME NEW t \in Task, Reads(t) PROVE TypeInv'
  BY <1>5, TypeReads
<1>6. ASSUME NEW c \in Contents, Commit(c) PROVE TypeInv'
  <2>1. versions' = Append(versions, c) /\ c \in Seq(Row)
    BY <1>6, ContentsAssumption DEF Commit
  <2>2. versions' \in Seq(Seq(Row)) \ {<<>>} /\ DOMAIN versions \subseteq DOMAIN versions'
    BY <1>0, <2>1
  <2>. QED
    BY <1>0, <1>6, <2>2, TypeOutside DEF Commit
<1>7. ASSUME NEW v \in DOMAIN versions, MoveTag(v) PROVE TypeInv'
  BY <1>0, <1>7, TypeOutside DEF MoveTag
<1>8. ASSUME NEW h \in cache, EvictHandle(h) PROVE TypeInv'
  BY <1>0, <1>8, TypeOutside DEF EvictHandle, callVars
<1>9. CASE UNCHANGED vars
  BY <1>0, <1>9, TypeOutside DEF vars, callVars
<1>. QED
  BY <1>1, <1>2, <1>3, <1>4, <1>5, <1>6, <1>7, <1>8, <1>9 DEF Next, Driver, Idle

(* Every variable keeps its type.                                           *)
THEOREM TypeCorrect == Spec => []TypeOK
<1>1. TypeInv => TypeOK
  BY DEF TypeInv
<1>. QED
  BY <1>1, SnapInit, SnapStep, TypeInit, TypeStep, PTL DEF Spec

-----------------------------------------------------------------------------
(* What the tasks have yielded.                                             *)

(* The rows a task's positions count: those of the table for take_offsets   *)
(* and for a fragment, those its filter leaves for a query.                 *)
Counted == IF Strategy \in {"offsets", "fragments"} THEN versions[sized] ELSE Selected(sized)

(* How many rows the shards were planned for.                               *)
Extent == IF call.remote THEN NumRows ELSE Len(versions[sized])

PlanCovers ==
  /\ Within(shards, Extent)
  /\ driver \in {"running", "complete"} =>
       Partitions(shards, Extent) \/ (call.remote /\ StartsWithLimit(shards))
  /\ Strategy = "single" =>
       \A t \in Task :
         shards[t].end = IF call.limit = None THEN NumRows ELSE Least(NumRows, call.limit)

(* What a remote task has yielded is its range so far.                      *)
Paged(t) ==
  /\ shards[t].start <= pos[t] /\ pos[t] <= shards[t].end
  /\ got[t] = SubSeq(Counted, shards[t].start + 1, pos[t])
  /\ pc[t] = "done" => pos[t] = shards[t].end

Fragment(t) == SubSeq(Counted, shards[t].start + 1, shards[t].end)

(* What a fragment's scan yields is what the filter accepts of it.          *)
Scanned(t) ==
  pc[t] = "done" => got[t] = IF call.filter THEN Accepted(Fragment(t), Matching) ELSE Fragment(t)

Served(t) == IF call.remote THEN Paged(t) ELSE Scanned(t)

Progress == Numbered => \A t \in Task : Served(t)

ControlInv ==
  /\ driver = "open" => pinned = 0
  /\ driver = "complete" => \A t \in Task : pc[t] = "done"
  /\ \A t \in Task : pc[t] = "streaming" => Strategy = "single"

ServeInv == PlanCovers /\ Progress /\ ControlInv

LEMMA Remote ==
  ASSUME TypeInv
  PROVE  Strategy = "fragments" <=> ~call.remote
BY CallType DEF TypeInv, Strategy

LEMMA CountedType ==
  ASSUME TypeInv, sized \in DOMAIN versions
  PROVE  /\ Counted \in Seq(Row) /\ Len(Counted) \in Nat
         /\ Extent \in Nat /\ Extent <= Len(Counted)
         /\ Strategy # "offsets" \/ ~call.filter => Len(Counted) = Extent
BY Remote, SelectedType DEF TypeInv, Counted, Extent, NumRows, Selected

LEMMA SameTable ==
  ASSUME UNCHANGED <<call, sized>>, versions'[sized] = versions[sized]
  PROVE  Counted' = Counted /\ Extent' = Extent /\ NumRows' = NumRows /\ Strategy' = Strategy
BY DEF Counted, Extent, NumRows, Strategy, Selected

LEMMA ServeInit == Init => ServeInv
<1> SUFFICES ASSUME Init PROVE ServeInv
  OBVIOUS
<1>1. Task = {} /\ driver = "open" /\ pinned = 0 /\ DOMAIN shards = {}
  BY DEF Init, Task
<1>. QED
  BY <1>1 DEF ServeInv, PlanCovers, Within, Progress, ControlInv

(* Steps of the driver before there is a plan.                              *)
LEMMA ServeBefore ==
  ASSUME SnapInv, ServeInv, PinVersion \/ PinDataset \/ SizeScan \/ DriverFails
  PROVE  ServeInv'
<1>1. Task = {} /\ shards' = shards /\ driver' \in {"pinned", "sized", "failed"}
  BY DEF PinVersion, PinDataset, SizeScan, DriverFails, SnapInv, TasksShape, Planned
<1>2. Task' = {} /\ DOMAIN shards' = {}
  BY <1>1 DEF Task
<1>. QED
  BY <1>1, <1>2 DEF ServeInv, PlanCovers, Within, Progress, ControlInv

LEMMA ServePlan ==
  ASSUME TypeInv, ServeInv, PlanTasks \/ PlanFragments
  PROVE  ServeInv'
<1>1. sized \in DOMAIN versions /\ TypeOK
  BY DEF PlanTasks, PlanFragments, Plan, TypeInv, VersionsExist, Sized
<1>2. PICK ranges \in Ranges :
        /\ Plan(ranges)
        /\ Within(ranges, Extent)
        /\ Partitions(ranges, Extent) \/ (call.remote /\ StartsWithLimit(ranges))
        /\ call.remote => ranges = TaskShards
  <2>1. CASE PlanTasks
    BY <1>1, <2>1, TaskShardsCover DEF PlanTasks, Extent
  <2>2. CASE PlanFragments
    <3>1. Extent = Len(versions[sized]) /\ Extent \in Nat /\ ~call.remote
      BY <1>1, <2>2, SelectedType DEF PlanFragments, Extent
    <3>2. PICK ranges \in Fragments(Extent) : Plan(ranges)
      BY <2>2, <3>1 DEF PlanFragments
    <3>. QED
      BY <3>1, <3>2, FragmentsCover
  <2>. QED
    BY <2>1, <2>2
<1>3. /\ Task' = DOMAIN ranges /\ shards' = ranges /\ driver' = "running"
      /\ UNCHANGED <<call, versions, sized, pinned>>
  BY <1>2 DEF Plan, Task, callVars
<1>4. Counted' = Counted /\ Extent' = Extent /\ NumRows' = NumRows /\ Strategy' = Strategy
  BY <1>3, SameTable
<1>5. PlanCovers'
  <2>1. (Partitions(shards, Extent) \/ (call.remote /\ StartsWithLimit(shards)))'
    BY <1>2, <1>3, <1>4 DEF Partitions, StartsWithLimit
  <2>2. Within(shards, Extent)'
    BY <1>2, <1>3, <1>4 DEF Within
  <2>3. ASSUME Strategy = "single", NEW t \in DOMAIN ranges
        PROVE  ranges[t].end = IF call.limit = None THEN NumRows ELSE Least(NumRows, call.limit)
    <3>1. ranges = TaskShards
      BY <1>1, <1>2, <2>3, Remote
    <3>2. ranges = WholeTable
      <4>1. NumRows \in Nat
        BY <1>1, SelectedType DEF NumRows
      <4>2. NumRows # 0
        BY <2>3, <3>1 DEF TaskShards
      <4>. QED
        BY <2>3, <3>1, <4>1, <4>2 DEF TaskShards
    <3>3. t = 1
      BY <2>3, <3>2 DEF WholeTable
    <3>. QED
      BY <3>2, <3>3 DEF WholeTable
  <2>. QED
    BY <1>3, <1>4, <2>1, <2>2, <2>3 DEF PlanCovers
<1>6. Progress'
  <2>1. ASSUME NEW t \in DOMAIN ranges PROVE Served(t)'
    <3>1. pc'[t] = "pending" /\ pos'[t] = ranges[t].start /\ got'[t] = <<>>
      BY <1>2 DEF Plan
    <3>2. ranges[t].start \in Nat /\ ranges[t].end \in Nat /\ ranges[t].start <= ranges[t].end
      BY <1>2, RangeType DEF Within
    <3>3. SubSeq(Counted, ranges[t].start + 1, ranges[t].start) = <<>>
      BY <3>2, SubSeqEmpty
    <3>4. Paged(t)'
      BY <1>3, <1>4, <3>1, <3>2, <3>3 DEF Paged
    <3>5. Scanned(t)'
      BY <3>1 DEF Scanned
    <3>. QED
      BY <3>4, <3>5 DEF Served
  <2>. QED
    BY <1>3, <2>1 DEF Progress
<1>7. ControlInv'
  <2>1. \A t \in DOMAIN ranges : pc'[t] = "pending"
    BY <1>2 DEF Plan
  <2>. QED
    BY <1>3, <2>1 DEF ControlInv
<1>. QED
  BY <1>5, <1>6, <1>7 DEF ServeInv

(* Steps that leave the tasks alone.                                        *)
LEMMA ServeFrame ==
  ASSUME TypeInv, SnapInv, ServeInv, UNCHANGED <<call, sized, pinned, shards, pc, pos, got>>,
         sized \in DOMAIN versions => versions'[sized] = versions[sized],
         driver' = driver \/ (driver = "running" /\ driver' \in {"failed", "complete"}),
         driver' = "complete" => \A t \in Task : pc[t] = "done"
  PROVE  ServeInv'
<1>1. Task' = Task
  BY DEF Task
<1>2. CASE ~Sized
  <2>1. Task = {} /\ driver' = driver /\ driver \notin {"running", "complete"} /\ DOMAIN shards' = {}
    BY <1>2 DEF Sized, Task
  <2>. QED
    BY <1>1, <2>1 DEF ServeInv, PlanCovers, Within, Progress, ControlInv
<1>3. CASE Sized
  <2>1. versions'[sized] = versions[sized]
    BY <1>3 DEF TypeInv, VersionsExist
  <2>2. Counted' = Counted /\ Extent' = Extent /\ NumRows' = NumRows /\ Strategy' = Strategy
    BY <2>1, SameTable
  <2>3. PlanCovers'
    <3>1. Within(shards, Extent)'
      BY <2>2 DEF ServeInv, PlanCovers, Within
    <3>2. /\ Partitions(shards, Extent)' <=> Partitions(shards, Extent)
          /\ StartsWithLimit(shards)' <=> StartsWithLimit(shards)
      BY <2>2 DEF Partitions, StartsWithLimit
    <3>. QED
      BY <1>1, <2>2, <3>1, <3>2 DEF ServeInv, PlanCovers
  <2>4. Progress'
    BY <1>1, <2>2 DEF ServeInv, Progress, Numbered, Served, Paged, Scanned, Fragment
  <2>5. ControlInv'
    BY <1>1, <2>2 DEF ServeInv, ControlInv
  <2>. QED
    BY <2>3, <2>4, <2>5 DEF ServeInv
<1>. QED
  BY <1>2, <1>3

(* A step of one task.                                                      *)
LEMMA ServeTask ==
  ASSUME TypeInv, ServeInv, NEW t \in Task, pc[t] # "done", NEW p, pc' = [pc EXCEPT ![t] = p],
         UNCHANGED <<call, versions, driver, pinned, sized, shards>>,
         \A u \in Task \ {t} : pos'[u] = pos[u] /\ got'[u] = got[u],
         p = "streaming" => Strategy = "single",
         Numbered => Served(t)'
  PROVE  ServeInv'
<1>1. Task' = Task
  BY DEF Task
<1>2. Counted' = Counted /\ Extent' = Extent /\ NumRows' = NumRows /\ Strategy' = Strategy
  BY SameTable
<1>3. PlanCovers'
  <2>1. Within(shards, Extent)'
    BY <1>2 DEF ServeInv, PlanCovers, Within
  <2>2. /\ Partitions(shards, Extent)' <=> Partitions(shards, Extent)
        /\ StartsWithLimit(shards)' <=> StartsWithLimit(shards)
    BY <1>2 DEF Partitions, StartsWithLimit
  <2>. QED
    BY <1>1, <1>2, <2>1, <2>2 DEF ServeInv, PlanCovers
<1>4. \A u \in Task \ {t} : pc'[u] = pc[u]
  BY DEF TypeInv, TypeOK
<1>5. Progress'
  <2>1. SUFFICES ASSUME Numbered, NEW u \in Task, u # t PROVE Served(u)'
    BY <1>1 DEF Progress, Numbered
  <2>2. Served(u)
    BY <2>1 DEF ServeInv, Progress
  <2>3. pos'[u] = pos[u] /\ got'[u] = got[u] /\ pc'[u] = pc[u]
    BY <1>4, <2>1
  <2>. QED
    BY <1>2, <2>2, <2>3 DEF Served, Paged, Scanned, Fragment
<1>6. ControlInv'
  BY <1>1, <1>2, <1>4 DEF ServeInv, ControlInv, TypeInv, TypeOK
<1>. QED
  BY <1>3, <1>5, <1>6 DEF ServeInv

LEMMA StartsServe ==
  ASSUME TypeInv, SnapInv, ServeInv, NEW t \in Task, Starts(t) \/ WorkerDies(t)
  PROVE  ServeInv'
<1>1. /\ UNCHANGED <<call, versions, driver, pinned, sized, shards>> /\ pc[t] # "done"
      /\ \A u \in Task \ {t} : pos'[u] = pos[u] /\ got'[u] = got[u]
  BY DEF Starts, StartTask, StartTaskFails, OpenDataset, WorkerDies, driverVars, callVars,
         TypeInv, TypeOK
<1>2. Counted' = Counted
  BY <1>1, SameTable
<1>3. PICK p \in {"pending", "reading", "failed"} : pc' = [pc EXCEPT ![t] = p]
  BY DEF Starts, StartTask, StartTaskFails, OpenDataset, WorkerDies
<1>4. pc'[t] # "done"
  BY <1>3 DEF TypeInv, TypeOK
<1>5. CASE Starts(t)
  <2>1. pos' = pos /\ got' = got
    BY <1>5 DEF Starts, StartTask, StartTaskFails, OpenDataset
  <2>2. Numbered => Served(t)'
    BY <1>1, <1>2, <1>4, <2>1 DEF ServeInv, Progress, Served, Paged, Scanned
  <2>. QED
    BY <1>1, <1>3, <2>2, ServeTask
<1>6. CASE WorkerDies(t)
  <2>1. pos'[t] = shards[t].start /\ got'[t] = <<>>
    BY <1>6 DEF WorkerDies, TypeInv, TypeOK
  <2>2. shards[t].start \in Nat /\ shards[t].end \in Nat
    BY RangeType DEF TypeInv, TypeOK, Task, Ranges
  <2>3. SubSeq(Counted, shards[t].start + 1, shards[t].start) = <<>>
    BY <2>2, SubSeqEmpty
  <2>4. shards[t].start <= shards[t].end
    BY DEF ServeInv, PlanCovers, Within, Task
  <2>5. Paged(t)'
    BY <1>1, <1>2, <1>4, <2>1, <2>2, <2>3, <2>4 DEF Paged
  <2>6. Served(t)'
    BY <1>1, <1>4, <2>5 DEF Served, Scanned
  <2>. QED
    BY <1>1, <1>3, <2>6, ServeTask
<1>. QED
  BY <1>5, <1>6

(* The page a task yields continues what it has yielded.                    *)
LEMMA YieldServes ==
  ASSUME TypeInv, SnapInv, ServeInv, NEW t \in Task, pc[t] \in {"reading", "streaming"},
         NEW range, range.end = shards[t].end,
         call.remote, NEW last, Yield(t, range, last),
         last => pos[t] + call.batchSize >= shards[t].end
                 \/ Len(Page(t, range)) < ChunkEnd(range, pos[t], call.batchSize) - pos[t]
  PROVE  Numbered => Served(t)'
<1> SUFFICES ASSUME Numbered PROVE Served(t)'
  OBVIOUS
<1> DEFINE from == shards[t].start
           to == ChunkEnd(range, pos[t], call.batchSize)
<1>1. /\ UNCHANGED <<call, versions, sized, shards>>
      /\ got' = [got EXCEPT ![t] = got[t] \o Page(t, range)]
      /\ pos' = [pos EXCEPT ![t] = to]
      /\ pc' = [pc EXCEPT ![t] = IF last THEN "done" ELSE pc[t]]
  BY DEF Yield, callVars, driverVars
<1>2. Counted' = Counted
  BY <1>1, SameTable
<1>3. handle[t] = sized /\ sized \in DOMAIN versions
  BY DEF TypeInv, VersionsExist, SnapInv, OneSnapshot, Sized
<1>4. /\ Counted \in Seq(Row) /\ Len(Counted) \in Nat /\ Extent \in Nat
      /\ Extent <= Len(Counted)
  BY <1>3, CountedType
<1>5. Page(t, range) = Slice(Counted, pos[t], to)
  BY <1>3, Remote DEF Page, Counted
<1>6. Paged(t)
  BY DEF ServeInv, Progress, Served
<1>7. /\ from \in Nat /\ shards[t].end \in Nat /\ pos[t] \in Nat /\ call.batchSize \in Nat \ {0}
      /\ shards[t].end <= Extent
  BY RangeType, CallType DEF TypeInv, TypeOK, Task, Ranges, ServeInv, PlanCovers, Within
<1>8. /\ from <= pos[t] /\ pos[t] <= shards[t].end
      /\ got[t] = SubSeq(Counted, from + 1, pos[t])
  BY <1>6 DEF Paged
<1>9. /\ to = IF pos[t] + call.batchSize <= shards[t].end
              THEN pos[t] + call.batchSize ELSE shards[t].end
  BY DEF ChunkEnd, Least
<1>10. to \in Nat /\ pos[t] <= to /\ to <= shards[t].end /\ to <= Len(Counted)
  BY <1>4, <1>7, <1>8, <1>9
<1> HIDE DEF from, to
<1>11. Slice(Counted, pos[t], to) = SubSeq(Counted, pos[t] + 1, to)
  BY <1>4, <1>10 DEF Slice, Least
<1>12. got[t] \o Page(t, range) = SubSeq(Counted, from + 1, to)
  <2>1. from + 1 \in 1..(Len(Counted) + 1) /\ pos[t] \in ((from + 1) - 1)..Len(Counted)
        /\ to \in pos[t]..Len(Counted)
    BY <1>4, <1>7, <1>8, <1>10
  <2>2. SubSeq(Counted, from + 1, pos[t]) \o SubSeq(Counted, pos[t] + 1, to)
          = SubSeq(Counted, from + 1, to)
    BY <1>4, <2>1, ConcatAdjacentSubSeq
  <2>. QED
    BY <1>5, <1>8, <1>11, <2>2
<1>13. last => to = shards[t].end
  <2>1. ASSUME Len(Page(t, range)) < to - pos[t] PROVE FALSE
    <3>1. \A i \in (pos[t] + 1)..to : Counted[i] \in Row
      BY <1>4, <1>7, <1>10
    <3>2. Len(SubSeq(Counted, pos[t] + 1, to)) = to - pos[t]
      <4>1. Len(SubSeq(Counted, pos[t] + 1, to))
              = IF pos[t] + 1 <= to THEN to - (pos[t] + 1) + 1 ELSE 0
        BY <1>7, <1>10, <3>1, SubSeqProperties
      <4>. QED
        BY <1>7, <1>10, <4>1
    <3>. QED
      BY <1>5, <1>7, <1>10, <1>11, <2>1, <3>2
  <2>. QED
    BY <1>7, <1>8, <1>9, <2>1 DEF to
<1>14. Paged(t)'
  <2>1. pos'[t] = to /\ got'[t] = SubSeq(Counted, from + 1, to)
        /\ (pc'[t] = "done" => last)
    BY <1>1, <1>12 DEF TypeInv, TypeOK
  <2>2. from <= to /\ to <= shards[t].end
    BY <1>7, <1>8, <1>10
  <2>3. shards' = shards
    BY <1>1
  <2>. QED
    BY <1>2, <1>13, <2>1, <2>2, <2>3 DEF Paged, from
<1>. QED
  BY <1>1, <1>14 DEF Served

LEMMA ReadsServe ==
  ASSUME TypeInv, SnapInv, ServeInv, NEW t \in Task, Reads(t)
  PROVE  ServeInv'
<1>1. /\ UNCHANGED <<call, versions, driver, pinned, sized, shards>>
      /\ \A u \in Task \ {t} : pos'[u] = pos[u] /\ got'[u] = got[u]
  BY DEF Reads, TakeOffsets, ReadPage, Yield, OpenStream, StreamBatch, StreamBreaks,
         RequestFails, ScanFragment, driverVars, callVars, TypeInv, TypeOK
<1>2. Counted' = Counted
  BY <1>1, SameTable
<1>3. ASSUME NEW range, range.end = shards[t].end, call.remote, NEW last, Yield(t, range, last),
             pc[t] \in {"reading", "streaming"},
             last => pos[t] + call.batchSize >= shards[t].end
                     \/ Len(Page(t, range)) < ChunkEnd(range, pos[t], call.batchSize) - pos[t]
      PROVE  ServeInv'
  <2>1. Numbered => Served(t)'
    BY <1>3, YieldServes
  <2>2. pc' = [pc EXCEPT ![t] = IF last THEN "done" ELSE pc[t]]
    BY <1>3 DEF Yield
  <2>3. (IF last THEN "done" ELSE pc[t]) = "streaming" => Strategy = "single"
    BY <1>3 DEF ServeInv, ControlInv
  <2>. QED
    BY <1>1, <1>3, <2>1, <2>2, <2>3, ServeTask
<1>4. CASE TakeOffsets(t)
  <2>1. call.remote
    BY <1>4, Remote DEF TakeOffsets
  <2>2. /\ Yield(t, shards[t], IsLastPage(t)) /\ pc[t] = "reading"
        /\ IsLastPage(t) => pos[t] + call.batchSize >= shards[t].end
    BY <1>4 DEF TakeOffsets, IsLastPage
  <2>. QED
    BY <1>3, <2>1, <2>2
<1>5. CASE ReadPage(t)
  <2>1. call.remote
    BY <1>5, Remote DEF ReadPage
  <2>2. Yield(t, shards[t], IsLastPage(t) \/ IsShortPage(t)) /\ pc[t] = "reading"
    BY <1>5 DEF ReadPage
  <2>. QED
    BY <1>3, <2>1, <2>2 DEF IsLastPage, IsShortPage
<1>6. CASE StreamBatch(t)
  <2> DEFINE stream == [start |-> 0, end |-> StreamEnd(t)]
             last == pos[t] + call.batchSize >= stream.end
  <2>1. pc[t] = "streaming" /\ Yield(t, stream, last)
    BY <1>6 DEF StreamBatch
  <2>2. Strategy = "single" /\ call.remote
    BY <2>1, Remote DEF ServeInv, ControlInv
  <2>3. CASE Numbered
    <3>1. handle[t] = sized
      BY <2>1, <2>3 DEF TypeInv, VersionsExist, SnapInv, OneSnapshot
    <3>2. stream.end = shards[t].end
      BY <2>2, <3>1 DEF StreamEnd, ServeInv, PlanCovers, NumRows
    <3> HIDE DEF stream
    <3>. QED
      BY <1>3, <2>1, <2>2, <3>2
  <2>4. CASE ~Numbered
    <3>1. pc' = [pc EXCEPT ![t] = IF last THEN "done" ELSE pc[t]]
      BY <2>1 DEF Yield
    <3>. QED
      BY <1>1, <2>1, <2>2, <2>4, <3>1, ServeTask
  <2>. QED
    BY <2>3, <2>4
<1>7. ASSUME OpenStream(t) \/ StreamBreaks(t) \/ \E e \in Errors : RequestFails(t, e)
      PROVE  ServeInv'
  <2>1. pos' = pos /\ got' = got /\ pc[t] \in {"reading", "streaming"}
    BY <1>7 DEF OpenStream, StreamBreaks, RequestFails
  <2>2. PICK p \in {"reading", "streaming", "failed"} :
          pc' = [pc EXCEPT ![t] = p] /\ (p = "streaming" => Strategy = "single")
    <3>1. pc = [pc EXCEPT ![t] = pc[t]]
      BY DEF TypeInv, TypeOK
    <3>. QED
      BY <1>7, <3>1 DEF OpenStream, StreamBreaks, RequestFails
  <2>3. pc'[t] # "done"
    BY <2>2 DEF TypeInv, TypeOK
  <2>4. Numbered => Served(t)'
    BY <1>1, <1>2, <2>1, <2>3 DEF ServeInv, Progress, Served, Paged, Scanned
  <2>. QED
    BY <1>1, <2>1, <2>2, <2>4, ServeTask
<1>8. CASE ScanFragment(t)
  <2> DEFINE rows == Slice(versions[handle[t]], shards[t].start, shards[t].end)
  <2>1. ~call.remote /\ pc[t] = "reading"
    BY <1>8 DEF ScanFragment
  <2>2. PICK p \in {"done", "failed"} :
          /\ pc' = [pc EXCEPT ![t] = p]
          /\ p = "done" => got' = [got EXCEPT ![t] =
                              IF call.filter THEN Accepted(rows, Matching) ELSE rows]
    BY <1>8 DEF ScanFragment
  <2>3. ASSUME Numbered PROVE Served(t)'
    <3>1. handle[t] = sized /\ sized \in DOMAIN versions
      BY <2>1, <2>3 DEF TypeInv, VersionsExist, SnapInv, OneSnapshot, Sized
    <3>2. Counted = versions[sized] /\ Extent = Len(Counted) /\ Extent \in Nat
      BY <2>1, <3>1, Remote, CountedType DEF Counted, Extent
    <3>3. shards[t].end \in Nat /\ shards[t].end <= Extent
      BY RangeType DEF TypeInv, TypeOK, Task, Ranges, ServeInv, PlanCovers, Within
    <3>4. rows = Fragment(t)
      BY <3>1, <3>2, <3>3 DEF Slice, Least, Fragment
    <3>5. pc'[t] = "done" => got'[t] = IF call.filter THEN Accepted(Fragment(t), Matching)
                                       ELSE Fragment(t)
      BY <2>2, <3>4 DEF TypeInv, TypeOK
    <3>6. Fragment(t)' = Fragment(t)
      BY <1>1, <1>2 DEF Fragment
    <3>. QED
      BY <1>1, <2>1, <3>5, <3>6 DEF Served, Scanned
  <2>. QED
    BY <1>1, <2>1, <2>2, <2>3, ServeTask
<1>. QED
  BY <1>4, <1>5, <1>6, <1>7, <1>8 DEF Reads

LEMMA ServeStep == TypeInv /\ SnapInv /\ ServeInv /\ [Next]_vars => ServeInv'
<1> SUFFICES ASSUME TypeInv, SnapInv, ServeInv, [Next]_vars PROVE ServeInv'
  OBVIOUS
<1> USE DEF callVars, driverVars, taskVars, vars
<1>1. CASE PinVersion \/ PinDataset \/ SizeScan \/ DriverFails
  BY <1>1, ServeBefore
<1>2. CASE PlanTasks \/ PlanFragments
  BY <1>2, ServePlan
<1>3. CASE FinishRead
  BY <1>3, ServeFrame DEF FinishRead
<1>4. ASSUME NEW t \in Task, Starts(t) \/ WorkerDies(t) PROVE ServeInv'
  BY <1>4, StartsServe
<1>5. ASSUME NEW t \in Task, Reads(t) PROVE ServeInv'
  BY <1>5, ReadsServe
<1>6. ASSUME driver' = driver, UNCHANGED <<call, sized, pinned, shards, pc, pos, got>>,
             sized \in DOMAIN versions => versions'[sized] = versions[sized]
      PROVE  ServeInv'
  BY <1>6, ServeFrame DEF ServeInv, ControlInv
<1>7. ASSUME NEW c \in Contents, Commit(c) PROVE ServeInv'
  <2>1. versions' = Append(versions, c) /\ versions \in Seq(Seq(Row))
    BY <1>7 DEF Commit, TypeInv, TypeOK
  <2>2. sized \in DOMAIN versions => versions'[sized] = versions[sized]
    BY <2>1
  <2>. QED
    BY <1>6, <1>7, <2>2 DEF Commit
<1>8. ASSUME NEW v \in DOMAIN versions, MoveTag(v) PROVE ServeInv'
  BY <1>6, <1>8 DEF MoveTag
<1>9. ASSUME NEW h \in cache, EvictHandle(h) PROVE ServeInv'
  BY <1>6, <1>9 DEF EvictHandle
<1>10. CASE UNCHANGED vars
  BY <1>6, <1>10
<1>. QED
  BY <1>1, <1>2, <1>3, <1>4, <1>5, <1>7, <1>8, <1>9, <1>10 DEF Next, Driver, Idle

LEMMA ReadInvariant == Spec => [](TypeInv /\ SnapInv /\ ServeInv)
BY SnapInit, SnapStep, TypeInit, TypeStep, ServeInit, ServeStep, PTL DEF Spec

(* The row count a task was announced with is what it yields, whatever the  *)
(* strategy, the filter and the limit.                                      *)
THEOREM CountsAreRight == Spec => []CountsAgree
<1>1. ASSUME TypeInv, SnapInv, ServeInv PROVE CountsAgree
  <2>1. SUFFICES ASSUME Numbered, call.remote, NEW t \in Task, pc[t] = "done"
                 PROVE  Len(got[t]) = shards[t].end - shards[t].start
    BY DEF CountsAgree
  <2> DEFINE from == shards[t].start
             to == shards[t].end
  <2>2. sized \in DOMAIN versions
    BY <1>1 DEF TypeInv, VersionsExist, Sized
  <2>3. /\ Counted \in Seq(Row) /\ Len(Counted) \in Nat /\ Extent \in Nat /\ Extent <= Len(Counted)
    BY <1>1, <2>2, CountedType
  <2>4. from \in Nat /\ to \in Nat /\ from <= to /\ to <= Extent
    BY <1>1, RangeType DEF TypeInv, TypeOK, Task, Ranges, ServeInv, PlanCovers, Within
  <2>5. got[t] = SubSeq(Counted, from + 1, to)
    BY <1>1, <2>1 DEF ServeInv, Progress, Served, Paged
  <2> HIDE DEF from, to
  <2>6. \A i \in (from + 1)..to : Counted[i] \in Row
    BY <2>3, <2>4
  <2>7. Len(SubSeq(Counted, from + 1, to)) = IF from + 1 <= to THEN to - (from + 1) + 1 ELSE 0
    BY <2>4, <2>6, SubSeqProperties
  <2>8. Len(got[t]) = to - from
    BY <2>4, <2>5, <2>7
  <2>. QED
    BY <2>8 DEF from, to
<1>. QED
  BY <1>1, ReadInvariant, PTL

-----------------------------------------------------------------------------
(* What a read that is through has put out.                                 *)

(* take_offsets reads positions of the unfiltered table, so the strategy    *)
(* and a filter do not go together.                                         *)
NoFilteredOffsets == \A c \in Calls : c.remote /\ c.strategy = "offsets" => ~c.filter

LEMMA PrefixOfConcat ==
  ASSUME NEW R, NEW s \in Seq(R), NEW rest \in Seq(R)
  PROVE  IsPrefix(s, s \o rest)
<1>1. s \o rest \in Seq(R) /\ Len(s \o rest) = Len(s) + Len(rest) /\ Len(s) \in Nat /\ Len(rest) \in Nat
  OBVIOUS
<1>2. \A i \in 1..Len(s) : (s \o rest)[i] = s[i]
  OBVIOUS
<1>3. SubSeq(s, 1, Len(s)) = SubSeq(s \o rest, 1, Len(s))
  BY <1>1, <1>2
<1>. QED
  BY <1>1, <1>3 DEF IsPrefix

LEMMA GotType ==
  ASSUME TypeInv
  PROVE  /\ got \in Seq(Seq(Row)) /\ Len(got) = Len(shards) /\ Len(shards) \in Nat
         /\ Task = 1..Len(shards)
<1>1. Task = 1..Len(shards) /\ Len(shards) \in Nat
  BY DEF TypeInv, TypeOK, Task
<1>2. got \in [1..Len(shards) -> Seq(Row)]
  BY <1>1 DEF TypeInv, TypeOK
<1>. QED
  BY <1>1, <1>2, IsSequence

(* Consecutive pieces of a sequence, filtered or not, flatten to the whole. *)
LEMMA PiecesFlatten ==
  ASSUME TypeInv, NEW rows \in Seq(Row), Partitions(shards, Len(rows)), Within(shards, Len(rows)),
         NEW keep,
         \A t \in Task : got[t] = LET piece == SubSeq(rows, shards[t].start + 1, shards[t].end)
                                  IN IF keep THEN Accepted(piece, Matching) ELSE piece
  PROVE  Output = IF keep THEN Accepted(rows, Matching) ELSE rows
<1> DEFINE n == Len(shards)
           upto == [i \in 1..n |-> SubSeq(rows, 1, shards[i].end)]
           part == [i \in 1..n |-> IF keep THEN Accepted(upto[i], Matching) ELSE upto[i]]
<1>1. got \in Seq(Seq(Row)) /\ Len(got) = n /\ n \in Nat /\ Task = 1..n
  BY GotType
<1>2. CASE n = 0
  <2>1. shards = <<>> /\ got = <<>>
    BY <1>1, <1>2, EmptySeq DEF TypeInv, TypeOK
  <2>2. Len(rows) = 0
    BY <2>1 DEF Partitions
  <2>3. rows = <<>>
    BY <2>2, EmptySeq
  <2>4. Output = <<>>
    BY <2>1 DEF Output, FlattenSeq
  <2>. QED
    BY <2>3, <2>4, AcceptedEmpty
<1>3. CASE n # 0
  <2>1. n \in Nat \ {0} /\ 1 \in 1..n /\ n \in 1..n /\ shards # <<>>
    BY <1>1, <1>3
  <2>2. \A i \in 1..n : /\ shards[i].start \in Nat /\ shards[i].end \in Nat
                        /\ shards[i].start <= shards[i].end /\ shards[i].end <= Len(rows)
    BY <1>1, RangeType DEF TypeInv, TypeOK, Task, Ranges, Within
  <2>3. /\ shards[1].start = 0 /\ shards[n].end = Len(rows)
        /\ \A i \in 1..(n - 1) : shards[i].end = shards[i + 1].start
    BY <2>1 DEF Partitions
  <2>4. \A i \in 1..n : upto[i] = SubSeq(rows, 1, shards[i].end)
    OBVIOUS
  <2>5. \A i \in 1..n : part[i] = IF keep THEN Accepted(upto[i], Matching) ELSE upto[i]
    OBVIOUS
  <2> HIDE DEF n, upto, part
  <2>6. ASSUME NEW i \in 2..n PROVE part[i] = part[i - 1] \o got[i]
    <3> DEFINE piece == SubSeq(rows, shards[i].start + 1, shards[i].end)
    <3>1. i \in 1..n /\ i - 1 \in 1..n /\ i - 1 \in 1..(n - 1) /\ (i - 1) + 1 = i
      BY <2>1
    <3>2. shards[i].start = shards[i - 1].end
      BY <2>3, <3>1
    <3>3. /\ shards[i - 1].end \in 0..Len(rows) /\ shards[i].end \in shards[i - 1].end..Len(rows)
          /\ Len(rows) \in Nat
      BY <2>2, <3>1, <3>2
    <3>4. SubSeq(rows, 1, shards[i - 1].end) \o SubSeq(rows, shards[i - 1].end + 1, shards[i].end)
            = SubSeq(rows, 1, shards[i].end)
      <4>1. 1 \in 1..(Len(rows) + 1) /\ shards[i - 1].end \in (1 - 1)..Len(rows)
        BY <3>3
      <4>. QED
        BY <3>3, <4>1, ConcatAdjacentSubSeq
    <3>5. upto[i] = upto[i - 1] \o piece
      BY <2>4, <3>1, <3>2, <3>4
    <3>6. upto[i - 1] \in Seq(Row) /\ piece \in Seq(Row)
      <4>1. \A from \in Nat, to \in 0..Len(rows) : SubSeq(rows, from + 1, to) \in Seq(Row)
        BY <3>3
      <4>2. shards[i].start \in Nat /\ shards[i].end \in 0..Len(rows) /\ 0 \in Nat /\ 0 + 1 = 1
        BY <2>2, <3>1
      <4>. QED
        BY <2>4, <3>1, <3>3, <4>1, <4>2
    <3>7. got[i] = IF keep THEN Accepted(piece, Matching) ELSE piece
      BY <1>1, <3>1
    <3> HIDE DEF piece
    <3>8. Accepted(upto[i - 1] \o piece, Matching)
            = Accepted(upto[i - 1], Matching) \o Accepted(piece, Matching)
      BY <3>6, AcceptedConcat
    <3>9. CASE keep
      <4>1. /\ part[i] = Accepted(upto[i], Matching) /\ got[i] = Accepted(piece, Matching)
            /\ part[i - 1] = Accepted(upto[i - 1], Matching)
        BY <2>5, <3>1, <3>7, <3>9
      <4>. QED
        BY <3>5, <3>8, <4>1
    <3>10. CASE ~keep
      <4>1. part[i] = upto[i] /\ got[i] = piece /\ part[i - 1] = upto[i - 1]
        BY <2>5, <3>1, <3>7, <3>10
      <4>. QED
        BY <3>5, <4>1
    <3>. QED
      BY <3>9, <3>10
  <2>7. part[1] = got[1]
    <3>1. SubSeq(rows, shards[1].start + 1, shards[1].end) = upto[1]
      <4>1. shards[1].start + 1 = 1
        BY <2>3
      <4>. QED
        BY <2>1, <2>4, <4>1
    <3>2. 1 \in Task
      BY <1>1, <2>1 DEF n
    <3>3. got[1] = IF keep THEN Accepted(upto[1], Matching) ELSE upto[1]
      BY <3>1, <3>2
    <3>. QED
      BY <2>1, <2>5, <3>3
  <2>8. FlattenSeq(got) = part[n]
    <3>1. Accumulates(part, got, n)
      BY <2>6, <2>7 DEF Accumulates
    <3>. QED
      BY <1>1, <2>1, <3>1, FlattenIs
  <2>9. part[n] = IF keep THEN Accepted(rows, Matching) ELSE rows
    <3>1. upto[n] = rows
      BY <2>1, <2>3, <2>4, SubSeqFull
    <3>. QED
      BY <2>1, <2>5, <3>1
  <2>. QED
    BY <2>8, <2>9 DEF Output
<1>. QED
  BY <1>1, <1>2, <1>3

LEMMA OutputServes ==
  ASSUME NoFilteredOffsets, TypeInv, SnapInv, ServeInv, Numbered,
         driver \in {"running", "complete"}, \A t \in Task : pc[t] = "done"
  PROVE  LET want == Selected(sized)
         IN /\ sized \in DOMAIN versions
            /\ \/ Output = want
               \/ /\ call.limit # None /\ call.limit <= Len(want)
                  /\ IsPrefix(SubSeq(want, 1, call.limit), Output)
<1> DEFINE want == Selected(sized)
<1>1. sized \in DOMAIN versions
  BY DEF TypeInv, VersionsExist, Sized
<1>2. want \in Seq(Row) /\ Counted \in Seq(Row) /\ Len(Counted) = Extent /\ Len(Counted) \in Nat
  <2>1. Strategy # "offsets" \/ ~call.filter
    BY DEF NoFilteredOffsets, Strategy, TypeInv, TypeOK
  <2>. QED
    BY <1>1, <2>1, SelectedType, CountedType DEF TypeInv
<1>3. /\ Within(shards, Extent)
      /\ Partitions(shards, Extent) \/ (call.remote /\ StartsWithLimit(shards))
      /\ \A t \in Task : Served(t)
  BY DEF ServeInv, PlanCovers, Progress
<1>4. ASSUME call.remote
      PROVE  Counted = want /\ \A t \in Task : got[t] = SubSeq(want, shards[t].start + 1, shards[t].end)
  <2>1. Counted = want
    BY <1>4, Remote DEF Counted, Selected, NoFilteredOffsets, Strategy, TypeInv, TypeOK
  <2>2. \A t \in Task : got[t] = SubSeq(want, shards[t].start + 1, shards[t].end)
    BY <1>3, <1>4, <2>1 DEF Served, Paged
  <2>. QED
    BY <2>1, <2>2
<1>5. CASE Partitions(shards, Extent) /\ call.remote
  <2>1. Output = IF FALSE THEN Accepted(want, Matching) ELSE want
    BY <1>2, <1>3, <1>4, <1>5, PiecesFlatten
  <2>. QED
    BY <1>1, <2>1
<1>6. CASE Partitions(shards, Extent) /\ ~call.remote
  <2>1. Counted = versions[sized]
    BY <1>6, Remote DEF Counted
  <2>2. \A t \in Task : got[t] = LET piece == SubSeq(Counted, shards[t].start + 1, shards[t].end)
                                 IN IF call.filter THEN Accepted(piece, Matching) ELSE piece
    BY <1>3, <1>6 DEF Served, Scanned, Fragment
  <2>3. Output = IF call.filter THEN Accepted(Counted, Matching) ELSE Counted
    BY <1>2, <1>3, <1>6, <2>2, PiecesFlatten
  <2>. QED
    BY <1>1, <2>1, <2>3 DEF Selected
<1>7. CASE call.remote /\ StartsWithLimit(shards)
  <2>1. /\ got \in Seq(Seq(Row)) /\ Len(got) = Len(shards) /\ Len(shards) \in Nat
        /\ Task = 1..Len(shards)
    BY GotType
  <2>2. shards # <<>> /\ shards[1].start = 0 /\ shards[1].end = call.limit /\ call.limit # None
    BY <1>7 DEF StartsWithLimit
  <2>3. 1 \in Task /\ got # <<>>
    <3>1. Len(shards) # 0
      BY <2>2, EmptySeq DEF TypeInv, TypeOK
    <3>. QED
      BY <2>1, <3>1, EmptySeq
  <2>4. call.limit \in Nat /\ call.limit <= Len(want)
    BY <1>2, <1>3, <1>4, <1>7, <2>2, <2>3, CallType DEF Within, Task, TypeInv
  <2>5. got[1] = SubSeq(want, 1, call.limit)
    BY <1>4, <1>7, <2>2, <2>3
  <2>6. PICK rest \in Seq(Row) : Output = got[1] \o rest
    BY <2>1, <2>3, FlattenBegins DEF Output
  <2>7. got[1] \in Seq(Row)
    BY <2>3 DEF TypeInv, TypeOK
  <2>8. IsPrefix(got[1], Output)
    BY <2>6, <2>7, PrefixOfConcat
  <2>. QED
    BY <1>1, <2>2, <2>4, <2>5, <2>8
<1>. QED
  BY <1>3, <1>5, <1>6, <1>7

LEMMA WholePrefix ==
  ASSUME NEW R, NEW s \in Seq(R)
  PROVE  IsPrefix(s, s)
<1>1. s = SubSeq(s, 1, Len(s)) /\ Len(s) \in Nat /\ Len(s) <= Len(s)
  BY SubSeqFull
<1>. QED
  BY <1>1 DEF IsPrefix

LEMMA StartPrefix ==
  ASSUME NEW R, NEW s \in Seq(R), NEW n \in 0..Len(s)
  PROVE  IsPrefix(SubSeq(s, 1, n), s)
<1>1. SubSeq(s, 1, n) \in Seq(R) /\ Len(SubSeq(s, 1, n)) = n /\ Len(s) \in Nat
  BY SubSeqProperties
<1>. QED
  BY <1>1 DEF IsPrefix

(* A read that completes is of one version: its tasks' blocks, in order,    *)
(* are the filtered rows of the version the driver counted, each once; and  *)
(* under a limit Ray can serve it from the front of them.                   *)
THEOREM ReadServes == ASSUME NoFilteredOffsets PROVE Spec => []ReadServesSnapshot
<1>1. ASSUME TypeInv, SnapInv, ServeInv PROVE ReadServesSnapshot
  <2>1. SUFFICES ASSUME Numbered, driver = "complete"
                 PROVE  LET want == Selected(sized)
                            n    == IF call.limit = None THEN Len(want) ELSE Least(call.limit, Len(want))
                        IN /\ IsPrefix(SubSeq(want, 1, n), Output)
                           /\ call.limit = None => Len(Output) = n
    BY DEF ReadServesSnapshot
  <2> DEFINE want == Selected(sized)
             n    == IF call.limit = None THEN Len(want) ELSE Least(call.limit, Len(want))
  <2>2. \A t \in Task : pc[t] = "done"
    BY <1>1, <2>1 DEF ServeInv, ControlInv
  <2>3. /\ sized \in DOMAIN versions
        /\ \/ Output = want
           \/ /\ call.limit # None /\ call.limit <= Len(want)
              /\ IsPrefix(SubSeq(want, 1, call.limit), Output)
    BY <1>1, <2>1, <2>2, OutputServes
  <2>4. want \in Seq(Row) /\ Len(want) \in Nat /\ (call.limit # None => call.limit \in Nat)
    BY <1>1, <2>3, SelectedType, CallType DEF TypeInv
  <2>5. n \in 0..Len(want) /\ (call.limit = None => n = Len(want))
    BY <2>4 DEF Least
  <2>6. call.limit # None /\ call.limit <= Len(want) => n = call.limit
    BY <2>4 DEF Least
  <2> HIDE DEF want, n
  <2>7. IsPrefix(SubSeq(want, 1, n), want)
    BY <2>4, <2>5, StartPrefix
  <2>8. IsPrefix(SubSeq(want, 1, n), Output)
    BY <2>3, <2>6, <2>7
  <2>9. call.limit = None => Len(Output) = n
    BY <2>3, <2>5
  <2>. QED
    BY <2>8, <2>9 DEF want, n
<1>. QED
  BY <1>1, ReadInvariant, PTL

-----------------------------------------------------------------------------
(* The read implements SnapshotRead.                                        *)

LEMMA AnswerServes ==
  ASSUME NoFilteredOffsets, TypeInv, SnapInv, ServeInv, Numbered, driver = "running",
         \A t \in Task : pc[t] = "done"
  PROVE  pinned \in DOMAIN versions /\ Snapshot!Serves(Output)
<1>1. sized = pinned
  BY DEF SnapInv, SizedAsPinned
<1>2. /\ sized \in DOMAIN versions
      /\ \/ Output = Selected(sized)
         \/ /\ call.limit # None /\ call.limit <= Len(Selected(sized))
            /\ IsPrefix(SubSeq(Selected(sized), 1, call.limit), Output)
  BY OutputServes
<1>3. Selected(sized) = Snapshot!Wanted
  BY <1>1 DEF Selected, Snapshot!Wanted, Accepted, Snapshot!Accepted
<1>4. Selected(sized) \in Seq(Row) /\ Len(Selected(sized)) \in Nat
      /\ (call.limit # None => call.limit \in Nat)
  BY <1>2, SelectedType, CallType DEF TypeInv
<1>5. IsPrefix(Selected(sized), Selected(sized))
  BY <1>4, WholePrefix
<1>. QED
  BY <1>1, <1>2, <1>3, <1>4, <1>5 DEF Snapshot!Serves, IsPrefix, Snapshot!IsPrefix

LEMMA RefinesInit == Init => Snapshot!Init
<1> SUFFICES ASSUME Init PROVE Snapshot!Init
  OBVIOUS
<1>1. driver = "open" /\ pinned = 0 /\ versions # <<>>
  BY DEF Init
<1>. QED
  BY <1>1 DEF Snapshot!Init, Over

LEMMA RefinesStep ==
  ASSUME NoFilteredOffsets
  PROVE  TypeInv /\ SnapInv /\ ServeInv /\ [Next]_vars => [Snapshot!Next]_(Snapshot!vars)
<1> SUFFICES ASSUME TypeInv, SnapInv, ServeInv, [Next]_vars
             PROVE  [Snapshot!Next]_(Snapshot!vars)
  OBVIOUS
<1> DEFINE status == IF Over THEN driver ELSE "reading"
           output == IF driver = "complete" THEN Output ELSE <<>>
<1>1. CASE PinVersion \/ PinDataset
  <2>1. /\ driver = "open" /\ driver' = "pinned" /\ UNCHANGED <<call, versions>>
        /\ pinned' = IF call.version = None THEN Len(versions) ELSE call.version
    BY <1>1 DEF PinVersion, PinDataset, callVars
  <2>2. pinned = 0
    BY <2>1 DEF ServeInv, ControlInv
  <2>3. Snapshot!Choose
    BY <2>1, <2>2 DEF Snapshot!Choose, Over
  <2>. QED
    BY <2>3 DEF Snapshot!Next
<1>2. CASE DriverFails \/ (FinishRead /\ driver' = "failed")
  <2>1. /\ ~Over /\ driver' = "failed" /\ driver # "complete"
        /\ UNCHANGED <<call, versions, pinned>>
    BY <1>2 DEF DriverFails, FinishRead, callVars, Over
  <2>2. Snapshot!Fail
    BY <2>1 DEF Snapshot!Fail, Over
  <2>. QED
    BY <2>2 DEF Snapshot!Next
<1>3. CASE FinishRead /\ driver' = "complete"
  <2>1. /\ driver = "running" /\ \A t \in Task : pc[t] = "done"
        /\ UNCHANGED <<call, versions, pinned, got>>
    BY <1>3 DEF FinishRead, callVars, taskVars
  <2>2. Output' = Output
    BY <2>1 DEF Output
  <2>3. pinned = Tag \/ (pinned \in DOMAIN versions /\ Snapshot!Serves(Output))
    BY <2>1, AnswerServes DEF Numbered
  <2>4. Snapshot!Answer
    BY <1>3, <2>1, <2>2, <2>3 DEF Snapshot!Answer, Over
  <2>. QED
    BY <2>4 DEF Snapshot!Next
<1>4. ASSUME NEW c \in Contents, Commit(c) PROVE [Snapshot!Next]_(Snapshot!vars)
  <2>1. UNCHANGED <<call, pinned, driver, got>> /\ versions' = Append(versions, c)
    BY <1>4 DEF Commit, driverVars, taskVars
  <2>2. Snapshot!Commit
    BY <2>1 DEF Snapshot!Commit, Over, Output
  <2>. QED
    BY <2>2 DEF Snapshot!Next
<1>5. ASSUME UNCHANGED <<call, versions, pinned>>, ~Over, ~Over' PROVE [Snapshot!Next]_(Snapshot!vars)
  BY <1>5 DEF Snapshot!vars, Over
<1>6. ASSUME UNCHANGED <<call, versions, pinned, driver, got>> PROVE [Snapshot!Next]_(Snapshot!vars)
  BY <1>6 DEF Snapshot!vars, Over, Output
<1>7. CASE SizeScan \/ PlanTasks \/ PlanFragments
  BY <1>5, <1>7 DEF SizeScan, PlanTasks, PlanFragments, Plan, Over, callVars
<1>8. ASSUME NEW t \in Task, Starts(t) \/ Reads(t) \/ WorkerDies(t)
      PROVE  [Snapshot!Next]_(Snapshot!vars)
  <2>1. UNCHANGED <<call, versions, pinned, driver>> /\ pc[t] # "done"
    BY <1>8 DEF Starts, StartTask, StartTaskFails, OpenDataset, Reads, TakeOffsets, ReadPage, Yield,
                OpenStream, StreamBatch, StreamBreaks, RequestFails, ScanFragment, WorkerDies,
                callVars, driverVars
  <2>2. driver # "complete"
    BY <2>1 DEF ServeInv, ControlInv
  <2>. QED
    BY <2>1, <2>2 DEF Snapshot!vars, Over
<1>9. ASSUME NEW v \in DOMAIN versions, MoveTag(v) PROVE [Snapshot!Next]_(Snapshot!vars)
  BY <1>6, <1>9 DEF MoveTag, driverVars, taskVars
<1>10. ASSUME NEW h \in cache, EvictHandle(h) PROVE [Snapshot!Next]_(Snapshot!vars)
  BY <1>6, <1>10 DEF EvictHandle, callVars, driverVars, taskVars
<1>11. CASE UNCHANGED vars
  BY <1>6, <1>11 DEF vars, callVars, driverVars, taskVars
<1>12. CASE FinishRead
  BY <1>2, <1>3, <1>12 DEF FinishRead
<1>. QED
  BY <1>1, <1>2, <1>4, <1>7, <1>8, <1>9, <1>10, <1>11, <1>12 DEF Next, Driver, Idle

(* The read implements SnapshotRead: what completes is the answer of one    *)
(* version, chosen before anything else is promised, and no commit, cached  *)
(* handle, retry or replay changes it.                                      *)
THEOREM ReadRefines == ASSUME NoFilteredOffsets PROVE Spec => ImplementsSnapshotRead
BY ReadInvariant, RefinesInit, RefinesStep, PTL DEF Spec, ImplementsSnapshotRead, Snapshot!Spec
=============================================================================
