------------------------ MODULE FragmentWriteProofs ------------------------
(***************************************************************************)
(* The fragment path's safety, for any number of other clients.             *)
(*                                                                         *)
(* Both recoveries are safe for the same reason: what was learnt by a probe *)
(* still holds, or is known to have been undone by another client, when the *)
(* recovery commits.  PathInv says what each step of the driver may rely    *)
(* on.                                                                      *)
(***************************************************************************)
EXTENDS FragmentWrite, TLAPS

Early == {"dispatch", "list", "resolve", "before", "write"}
OnPath == {"list", "resolve", "before", "write", "after", "replace", "verify", "state",
           "count", "create", "reverify", "done"}

(* Nothing is committed before lance-ray is called.                         *)
NothingYet == pc \in Early => commits = 0 /\ Job \notin ds.rows

(* The recoveries run only for the writes they are for.                     *)
RightWrite ==
  /\ pc \in OnPath => call.mode \in {"create", "append", "overwrite"}
  /\ pc \in {"after", "replace"} => call.mode = "overwrite"
  /\ pc \in {"create", "reverify"} => input = "empty"
  /\ pc \in {"count", "create", "reverify"} => Before \notin ds.rows

(* A version read before the write is not above the dataset's, and below it *)
(* once the write has committed.                                            *)
VersionsGrow ==
  /\ pc \in {"dispatch", "list"} => before = 0
  /\ pc \in {"resolve", "before"} => exists
  /\ before # 0 => exists
  /\ before # 0 /\ ds # Absent /\ ~recreated =>
       /\ pc = "write" => ds.version >= before
       /\ pc = "after" /\ input = "rows" => ds.version > before

(* A write with rows has committed once, and never starts the replacement.  *)
CommittedOnce ==
  input = "rows" /\ ~recreated =>
    /\ commits <= 1
    /\ pc # "replace"
    /\ pc \in OnPath \ Early => Job \in ds.rows \cup evicted

PathInv == TypeOK /\ NothingYet /\ RightWrite /\ VersionsGrow /\ CommittedOnce


(* Facts about datasets that the steps below use.                           *)
LEMMA DatasetShape ==
  ASSUME NEW d \in Dataset
  PROVE  d.version \in Nat /\ d.rows \in SUBSET Writer /\ (d = Absent <=> d.version = 0)
<1>1. CASE d = Absent
  BY <1>1 DEF Absent
<1>2. CASE d \in [version : Nat \ {0}, rows : SUBSET Writer]
  BY <1>2 DEF Absent
<1>3. QED
  BY <1>1, <1>2 DEF Dataset

LEMMA NewVersion ==
  ASSUME NEW d \in Dataset, NEW rows \in SUBSET Writer
  PROVE  [version |-> d.version + 1, rows |-> rows] \in Dataset
BY DatasetShape DEF Dataset

LEMMA InitPath == Init => PathInv
<1> SUFFICES ASSUME Init PROVE PathInv
  OBVIOUS
<1>1. ds \in Dataset /\ ds.rows \subseteq {Before}
  <2>1. CASE ds = Absent
    BY <2>1 DEF Absent, Dataset
  <2>2. CASE ds \in [version : 1..MaxVersion, rows : {{Before}}]
    BY <2>2 DEF Dataset, Writer
  <2>3. QED
    BY <2>1, <2>2 DEF Init
<1>2. TypeOK
  BY <1>1 DEF Init, TypeOK
<1>3. QED
  BY <1>1, <1>2, WriterAssumption
     DEF Init, PathInv, NothingYet, RightWrite, VersionsGrow, CommittedOnce, Early, OnPath

-----------------------------------------------------------------------------
(* Steps of the driver that leave the dataset alone.                        *)
Asks ==
  \/ Dispatch \/ ListTables \/ ResolveUri \/ ReadVersionBefore \/ CommitNothing
  \/ CallRaises \/ ReadVersionAfter \/ OpenTable \/ ProbeState \/ CountInput
  \/ ReopenTable

LEMMA AsksPath == PathInv /\ Asks => PathInv'
<1> SUFFICES ASSUME PathInv, Asks PROVE PathInv'
  OBVIOUS
<1> USE DEF PathInv
<1>1. /\ ds' = ds /\ UNCHANGED <<call, input, commits, acted, evicted, raced, recreated>>
      /\ ds.version \in Nat /\ ds.rows \in SUBSET Writer /\ (ds = Absent <=> ds.version = 0)
  BY DatasetShape DEF Asks, TypeOK, Dispatch, ListTables, ResolveUri, ReadVersionBefore,
     CommitNothing, CallRaises, ReadVersionAfter, OpenTable, ProbeState, CountInput,
     ReopenTable, Goto, driverVars, history
<1> USE DEF TypeOK, NothingYet, RightWrite, VersionsGrow, CommittedOnce, Early, OnPath,
            Goto, driverVars, history
<1>2. CASE Dispatch
  BY <1>1, <1>2 DEF Dispatch, UseFragmentPath, Blocked, Calls
<1>3. CASE ListTables
  <2>1. exists' \in BOOLEAN /\ (ds # Absent => exists')
    BY <1>3 DEF ListTables
  <2>2. /\ pc = "list" /\ pc' \in {"resolve", "write"} /\ before' = before /\ warned' = warned
        /\ pc' = "resolve" => ds # Absent
    BY <1>3 DEF ListTables
  <2>3. QED
    BY <1>1, <2>1, <2>2
<1>4. CASE ResolveUri
  BY <1>1, <1>4 DEF ResolveUri
<1>5. CASE ReadVersionBefore
  BY <1>1, <1>5 DEF ReadVersionBefore, VersionAnswers
<1>6. CASE CommitNothing
  BY <1>1, <1>6 DEF CommitNothing, AfterWrite, MayNeedEmptying
<1>7. CASE CallRaises
  BY <1>1, <1>7 DEF CallRaises
<1>8. CASE ReadVersionAfter
  BY <1>1, <1>8 DEF ReadVersionAfter, VersionAnswers, NothingCommitted
<1>9. CASE OpenTable
  BY <1>1, <1>9 DEF OpenTable
<1>10. CASE ProbeState
  BY <1>1, <1>10 DEF ProbeState, DatasetStates, Absent
<1>11. CASE CountInput
  BY <1>1, <1>11 DEF CountInput, InputKnownEmpty
<1>12. CASE ReopenTable
  BY <1>1, <1>12 DEF ReopenTable
<1>13. QED
  BY <1>2, <1>3, <1>4, <1>5, <1>6, <1>7, <1>8, <1>9, <1>10, <1>11, <1>12 DEF Asks

(* lance-ray's commit, when a version read before is still comparable.      *)
LEMMA CommitFragmentsPath ==
  ASSUME NEW outcome \in Outcomes, PathInv, CommitFragments(outcome)
  PROVE  PathInv'
<1> USE DEF PathInv
<1>1. ds.version \in Nat /\ ds.rows \in SUBSET Writer /\ (ds = Absent <=> ds.version = 0)
  BY DatasetShape DEF TypeOK
<1> DEFINE stored == (IF LanceMode = "append" THEN ds.rows ELSE {}) \cup {Job}
<1>2. stored \in SUBSET Writer
  BY <1>1 DEF Writer
<1>3. /\ ds' = [version |-> ds.version + 1, rows |-> stored]
      /\ ds'.version = ds.version + 1 /\ ds'.rows = stored
  BY DEF CommitFragments
<1>4. ds' \in Dataset
  <2> HIDE DEF stored
  <2>1. QED
    BY <1>2, <1>3, NewVersion DEF TypeOK
<1>5. /\ pc = "write" /\ pc' \in {"after", "verify", "failed"}
      /\ pc' = "after" => call.mode = "overwrite"
      /\ input = "rows" /\ commits = 0
      /\ UNCHANGED <<call, input, exists, before, warned, acted, evicted, raced>>
  BY DEF CommitFragments, Goto, AfterWrite, MayNeedEmptying, driverVars, NothingYet, Early
<1>6. recreated' \in BOOLEAN /\ (~recreated' => ~recreated /\ ~(ds = Absent /\ before # 0))
  BY <1>5 DEF CommitFragments, TypeOK, Comparing
<1>7. commits' = 1
  BY <1>5 DEF CommitFragments
<1> HIDE DEF stored
<1>8. TypeOK'
  BY <1>4, <1>5, <1>6, <1>7 DEF TypeOK
<1>9. NothingYet' /\ RightWrite'
  BY <1>5 DEF NothingYet, RightWrite, Early, OnPath
<1>10. VersionsGrow'
  BY <1>1, <1>3, <1>5, <1>6 DEF VersionsGrow, TypeOK
<1>11. CommittedOnce'
  <2>1. Job \in ds'.rows
    BY <1>3 DEF stored
  <2>2. QED
    BY <2>1, <1>5, <1>7 DEF CommittedOnce, OnPath, Early
<1>12. QED
  BY <1>8, <1>9, <1>10, <1>11

LEMMA EmptyTableShape ==
  ASSUME TypeOK
  PROVE  EmptyTable \in Dataset /\ EmptyTable.rows = {}
BY NewVersion DEF EmptyTable, TypeOK

LEMMA ReplaceWithEmptyPath ==
  ASSUME NEW outcome \in Outcomes, PathInv, ReplaceWithEmpty(outcome)
  PROVE  PathInv'
<1> USE DEF PathInv
<1>1. /\ pc = "replace" /\ pc' \in {"verify", "failed"} /\ commits' = commits + 1
      /\ UNCHANGED <<driverVars, warned, history>>
      /\ ds' \in Dataset
  BY EmptyTableShape DEF ReplaceWithEmpty, Goto
<1>2. QED
  BY <1>1 DEF TypeOK, NothingYet, RightWrite, VersionsGrow, CommittedOnce, Early, OnPath,
              driverVars, history

LEMMA CreateEmptyDatasetPath ==
  ASSUME NEW outcome \in Outcomes, PathInv, CreateEmptyDataset(outcome)
  PROVE  PathInv'
<1> USE DEF PathInv
<1>1. /\ pc = "create" /\ pc' \in {"reverify", "failed"} /\ commits' = commits + 1
      /\ UNCHANGED <<driverVars, warned, history>>
      /\ ds' \in Dataset /\ ds'.rows = {}
  BY EmptyTableShape DEF CreateEmptyDataset, Goto
<1>2. QED
  BY <1>1 DEF TypeOK, NothingYet, RightWrite, VersionsGrow, CommittedOnce, Early, OnPath,
              driverVars, history

(* Another client only raises the version, or lets go of the whole dataset; *)
(* rows it removes are known as evicted, and it brings none but its own.    *)
LEMMA OtherCommitsPath ==
  ASSUME NEW o \in Other, NEW op \in OtherOps, PathInv, OtherCommits(o, op)
  PROVE  PathInv'
<1> USE DEF PathInv
<1>1. ds.version \in Nat /\ ds.rows \in SUBSET Writer /\ (ds = Absent <=> ds.version = 0)
  BY DatasetShape DEF TypeOK
<1>2. UNCHANGED <<call, input, exists, before, pc, warned, commits>>
  BY DEF OtherCommits, driverVars
<1>3. /\ ds' \in Dataset
      /\ ds' # Absent => ds'.version = ds.version + 1
      /\ ds'.rows \subseteq ds.rows \cup {o}
      /\ ds.rows \subseteq ds'.rows \cup evicted'
      /\ evicted \subseteq evicted' /\ evicted' \subseteq evicted \cup ds.rows
  <2>1. CASE op = "append"
    <3>1. /\ ds' = [version |-> ds.version + 1, rows |-> ds.rows \cup {o}]
          /\ evicted' = evicted
      BY <2>1 DEF OtherCommits
    <3>2. ds.rows \cup {o} \in SUBSET Writer
      BY <1>1 DEF Writer
    <3>3. QED
      BY <3>1, <3>2, NewVersion DEF TypeOK
  <2>2. CASE op \in {"overwrite", "create"}
    <3>1. ds' = [version |-> ds.version + 1, rows |-> {o}]
      BY <2>2 DEF OtherCommits
    <3>2. {o} \in SUBSET Writer
      BY DEF Writer
    <3>3. /\ evicted' = IF op = "overwrite" THEN evicted \cup ds.rows ELSE evicted
          /\ op = "create" => ds.rows = {}
      BY <2>2 DEF OtherCommits, Absent
    <3>4. QED
      BY <2>2, <3>1, <3>2, <3>3, NewVersion DEF TypeOK
  <2>3. CASE op = "drop"
    <3>1. ds' = Absent /\ evicted' = evicted \cup ds.rows
      BY <2>3 DEF OtherCommits
    <3>2. QED
      BY <3>1 DEF Absent, Dataset
  <2>4. QED
    BY <2>1, <2>2, <2>3, OtherOpsAssumption
<1>4. /\ recreated' \in BOOLEAN /\ raced' \in BOOLEAN
      /\ ~recreated' => ~recreated /\ ~(op = "create" /\ Comparing)
      /\ ds = Absent => op = "create"
  BY DEF OtherCommits, TypeOK
<1>5. TypeOK'
  <2>1. acted' \subseteq Other
    BY DEF OtherCommits, TypeOK
  <2>2. evicted' \subseteq Writer
    BY <1>1, <1>3 DEF TypeOK
  <2>3. QED
    BY <1>2, <1>3, <1>4, <2>1, <2>2 DEF TypeOK
<1>6. NothingYet' /\ RightWrite'
  BY <1>2, <1>3, WriterAssumption DEF NothingYet, RightWrite
<1>7. VersionsGrow'
  BY <1>1, <1>2, <1>3, <1>4 DEF VersionsGrow, TypeOK, Comparing
<1>8. CommittedOnce'
  BY <1>2, <1>3, <1>4 DEF CommittedOnce
<1>9. QED
  BY <1>5, <1>6, <1>7, <1>8

LEMMA NextPath == PathInv /\ [Next]_vars => PathInv'
<1>1. ASSUME PathInv, UNCHANGED vars PROVE PathInv'
  BY <1>1 DEF vars, driverVars, history, PathInv, TypeOK, NothingYet, RightWrite,
              VersionsGrow, CommittedOnce
<1>2. ASSUME PathInv, Next PROVE PathInv'
  BY <1>1, <1>2, AsksPath, CommitFragmentsPath, ReplaceWithEmptyPath,
     CreateEmptyDatasetPath, OtherCommitsPath DEF Next, Driver, Asks, Idle
<1>3. QED
  BY <1>1, <1>2

THEOREM PathInvariant == Spec => []PathInv
BY InitPath, NextPath, PTL DEF Spec

(* TypeOK holds of every reachable state.                                   *)
THEOREM FragmentTypeCorrect == Spec => []TypeOK
<1>1. PathInv => TypeOK
  BY DEF PathInv
<1>2. QED
  BY <1>1, PathInvariant, PTL

(* A write that reported success kept its rows: neither recovery takes a    *)
(* completed write for an empty one (io.py 777-827 and 934-991), unless     *)
(* another client dropped the dataset between the two version probes and it *)
(* was made anew before the second: then the code may, and SuccessKeepsInput*)
(* says nothing.                                                            *)
THEOREM InputKept == Spec => []SuccessKeepsInput
<1>1. PathInv => SuccessKeepsInput
  BY DEF PathInv, CommittedOnce, SuccessKeepsInput, OnPath, Early
<1>2. QED
  BY <1>1, PathInvariant, PTL

(* A write with rows commits a second time only in that case, so in any     *)
(* other it advances the table by one version.                              *)
THEOREM CommitsOnce == Spec => []OneVersion
<1>1. PathInv => OneVersion
  BY DEF PathInv, TypeOK, CommittedOnce, OneVersion
<1>2. QED
  BY <1>1, PathInvariant, PTL

(* No step of a create or an append removes the rows the table had.         *)
THEOREM OldRowsKept == Spec => OldRowsSurvive
<1> DEFINE Keeps ==
      call.mode # "overwrite" /\ Before \in ds.rows => Before \in ds'.rows \cup evicted'
<1>1. ASSUME PathInv, [Next]_vars PROVE [Keeps]_vars
  <2>1. ASSUME NEW outcome \in Outcomes, CommitFragments(outcome) PROVE Keeps
    <3>1. ds.rows \subseteq ds'.rows \/ LanceMode # "append"
      BY <2>1 DEF CommitFragments
    <3>2. LanceMode = "create" => ds.rows = {}
      BY <2>1 DEF CommitFragments, Absent
    <3>3. call.mode \in {"create", "append", "overwrite"}
      BY <1>1, <2>1 DEF CommitFragments, Goto, PathInv, RightWrite, OnPath
    <3>4. QED
      BY <3>1, <3>2, <3>3 DEF LanceMode
  <2>2. ASSUME NEW outcome \in Outcomes, ReplaceWithEmpty(outcome) PROVE Keeps
    BY <1>1, <2>2 DEF ReplaceWithEmpty, Goto, PathInv, RightWrite
  <2>3. ASSUME NEW outcome \in Outcomes, CreateEmptyDataset(outcome) PROVE Keeps
    BY <1>1, <2>3 DEF CreateEmptyDataset, Goto, PathInv, RightWrite
  <2>4. ASSUME NEW o \in Other, NEW op \in OtherOps, OtherCommits(o, op) PROVE Keeps
    <3>1. CASE op = "append"
      BY <2>4, <3>1 DEF OtherCommits
    <3>2. CASE op = "create"
      BY <2>4, <3>2 DEF OtherCommits, Absent
    <3>3. CASE op \in {"overwrite", "drop"}
      BY <2>4, <3>3 DEF OtherCommits
    <3>4. QED
      BY <3>1, <3>2, <3>3, OtherOpsAssumption
  <2>5. ASSUME UNCHANGED ds PROVE Keeps
    BY <2>5
  <2>6. Asks \/ Idle => UNCHANGED ds
    BY DEF Asks, Idle, vars, Dispatch, ListTables, ResolveUri, ReadVersionBefore,
       CommitNothing, CallRaises, ReadVersionAfter, OpenTable, ProbeState, CountInput,
       ReopenTable
  <2>7. QED
    BY <1>1, <2>1, <2>2, <2>3, <2>4, <2>5, <2>6 DEF Next, Driver, Asks, vars
<1>2. QED
  BY <1>1, PathInvariant, PTL DEF Spec, OldRowsSurvive

-----------------------------------------------------------------------------
(* An overwrite without rows, when no other client commits between the two  *)
(* probes: while the old rows are there, the driver knows that the table    *)
(* existed and compares the version they are at with itself, so it either   *)
(* replaces or warns.                                                       *)
Confirmed == {"verify", "state", "count", "create", "reverify", "done"}

QuietInv ==
  call.mode = "overwrite" /\ input = "empty" /\ ~raced /\ Before \in ds.rows =>
    /\ pc \in OnPath \ {"list"} => exists
    /\ pc \in {"write", "after"} => before \in {0, ds.version}
    /\ pc \in Confirmed => warned

LEMMA InitQuiet == Init => QuietInv
BY DEF Init, QuietInv, OnPath, Confirmed

LEMMA NextQuiet == PathInv /\ QuietInv /\ [Next]_vars => QuietInv'
<1>1. SUFFICES ASSUME PathInv, QuietInv, [Next]_vars,
                      (call.mode = "overwrite" /\ input = "empty" /\ ~raced
                         /\ Before \in ds.rows)'
               PROVE  QuietInv'
  BY DEF QuietInv
<1>2. Before \in Absent.rows <=> FALSE
  BY DEF Absent
<1> USE DEF OnPath, Confirmed, Goto, driverVars, history
<1>3. CASE Asks
  <2>1. /\ ds' = ds /\ UNCHANGED <<call, input, raced>> /\ ds # Absent
    BY <1>1, <1>2, <1>3 DEF Asks, Dispatch, ListTables, ResolveUri, ReadVersionBefore,
       CommitNothing, CallRaises, ReadVersionAfter, OpenTable, ProbeState, CountInput,
       ReopenTable
  <2>2. /\ pc \in OnPath \ {"list"} => exists
        /\ pc \in {"write", "after"} => before \in {0, ds.version}
        /\ pc \in Confirmed => warned
    BY <1>1, <2>1 DEF QuietInv
  <2>3. call.mode = "overwrite" /\ input = "empty"
    BY <1>1, <2>1
  <2>4. CASE Dispatch
    BY <2>1, <2>4 DEF Dispatch, QuietInv
  <2>5. CASE ListTables
    BY <2>1, <2>5 DEF ListTables, QuietInv
  <2>6. CASE ResolveUri
    BY <2>1, <2>2, <2>6 DEF ResolveUri, QuietInv
  <2>7. CASE ReadVersionBefore
    BY <2>1, <2>2, <2>7 DEF ReadVersionBefore, VersionAnswers, QuietInv
  <2>8. CASE CommitNothing
    BY <2>1, <2>2, <2>3, <2>8 DEF CommitNothing, AfterWrite, MayNeedEmptying, QuietInv
  <2>9. CASE CallRaises
    BY <2>1, <2>9 DEF CallRaises, QuietInv
  <2>10. CASE ReadVersionAfter
    <3>1. PICK after \in {ds.version, 0} :
            /\ pc = "after" /\ pc' = (IF NothingCommitted(after) THEN "replace" ELSE "verify")
            /\ warned' = (before = 0 \/ after = 0)
      BY <2>10 DEF ReadVersionAfter, VersionAnswers
    <3>2. exists /\ exists' = exists /\ before \in {0, ds.version}
      BY <2>2, <2>10, <3>1 DEF ReadVersionAfter
    <3>3. CASE NothingCommitted(after)
      BY <3>1, <3>2, <3>3 DEF QuietInv
    <3>4. CASE ~NothingCommitted(after)
      <4>1. before = 0 \/ after = 0
        BY <3>1, <3>2, <3>4 DEF NothingCommitted
      <4>2. QED
        BY <3>1, <3>2, <3>4, <4>1 DEF QuietInv
    <3>5. QED
      BY <3>3, <3>4
  <2>11. CASE OpenTable \/ ProbeState \/ CountInput \/ ReopenTable
    BY <2>1, <2>2, <2>11 DEF OpenTable, ProbeState, CountInput, ReopenTable, QuietInv
  <2>12. QED
    BY <1>3, <2>4, <2>5, <2>6, <2>7, <2>8, <2>9, <2>10, <2>11 DEF Asks
<1>4. ASSUME NEW outcome \in Outcomes, CommitFragments(outcome) PROVE FALSE
  BY <1>1, <1>4 DEF CommitFragments
<1>5. ASSUME NEW outcome \in Outcomes, ReplaceWithEmpty(outcome) \/ CreateEmptyDataset(outcome)
      PROVE  FALSE
  BY <1>1, <1>5, EmptyTableShape DEF ReplaceWithEmpty, CreateEmptyDataset, PathInv
<1>6. ASSUME NEW o \in Other, NEW op \in OtherOps, OtherCommits(o, op) PROVE QuietInv'
  <2>1. UNCHANGED <<call, input, exists, before, pc, warned>> /\ ~raced /\ ~Comparing
    BY <1>1, <1>6 DEF OtherCommits
  <2>2. Before \in ds.rows
    <3>1. CASE op = "append"
      BY <1>1, <1>6, <3>1, WriterAssumption DEF OtherCommits
    <3>2. CASE op \in {"overwrite", "create", "drop"}
      BY <1>1, <1>2, <1>6, <3>2, WriterAssumption DEF OtherCommits
    <3>. QED
      BY <3>1, <3>2, OtherOpsAssumption
  <2>3. pc \in {"write", "after"} => before = 0
    BY <2>1 DEF Comparing
  <2>. QED
    BY <1>1, <2>1, <2>2, <2>3 DEF QuietInv
<1>7. CASE UNCHANGED vars
  BY <1>1, <1>7 DEF vars, QuietInv
<1>8. QED
  BY <1>1, <1>3, <1>4, <1>5, <1>6, <1>7 DEF Next, Driver, Asks, Idle

(* An overwrite that matched no rows empties the table or warns, unless     *)
(* another client committed between the two probes of the version.          *)
THEOREM QuietOverwrite == Spec => []QuietOverwriteEmpties
<1>1. QuietInv => QuietOverwriteEmpties
  BY DEF QuietInv, QuietOverwriteEmpties, Stale, Confirmed
<1>2. QED
  BY <1>1, InitQuiet, NextQuiet, PathInvariant, PTL DEF Spec

=============================================================================
