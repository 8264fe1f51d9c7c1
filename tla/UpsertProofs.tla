---------------------------- MODULE UpsertProofs ----------------------------
(***************************************************************************)
(* Proofs about Datasink with mode="upsert": what a step may remove, when   *)
(* a successful job has merged everything, when no key is stored twice, and *)
(* which repeats are possible when requests land late.                      *)
(***************************************************************************)
EXTENDS DatasinkProofs

-----------------------------------------------------------------------------
(* What the proofs assume of the job. *)

(* No two tasks hold the same key: what the hash partition of an upsert is  *)
(* for.                                                                     *)
KeysApart ==
  \A t, u \in Task : \A i \in DOMAIN Requests[t], j \in DOMAIN Requests[u] :
    \A r \in Requests[t][i], s \in Requests[u][j] : KeyOf[r] = KeyOf[s] => t = u

(* Nor do two requests of one task; a request may still repeat a key.       *)
KeysInOneRequest ==
  \A t, u \in Task : \A i \in DOMAIN Requests[t], j \in DOMAIN Requests[u] :
    \A r \in Requests[t][i], s \in Requests[u][j] : KeyOf[r] = KeyOf[s] => t = u /\ i = j

(* The table starts without a repeated key, and the other writers bring     *)
(* keys of their own.                                                       *)
OthersKeepKeys ==
  /\ \A r, s \in OldRow \cup OtherRow : KeyOf[r] = KeyOf[s] => r = s
  /\ \A r \in OtherRow : KeyOf[r] \notin SourceKeys

(* when_not_matched_by_source_delete names no row the job may write or rely *)
(* on: each request takes the rows of the others for unmatched.             *)
DeletesSpareSource ==
  \A r \in DeleteWhere : IF UpdateAll THEN r \notin SourceRow ELSE KeyOf[r] \notin SourceKeys

-----------------------------------------------------------------------------
(* What a step may remove. *)

LEMMA RowsOfAreSource ==
  ASSUME TypeInv, NEW q \in flight
  PROVE  RowsOf(q) \subseteq SourceRow /\ Keys(RowsOf(q)) \subseteq SourceKeys
<1>1. q.task \in Task /\ q.req \in DOMAIN Requests[q.task]
  BY DEF TypeInv, TypeOK, ControlOK, Request
<1>2. RowsOf(q) \subseteq SourceRow
  BY <1>1 DEF RowsOf, SourceRow
<1>. QED
  BY <1>2 DEF Keys, SourceKeys

(* A merge replaces rows its request matches, and deletes what the          *)
(* condition names.                                                         *)
LEMMA MergeRemoves ==
  ASSUME TypeInv, NEW q \in flight, NEW c \in Removed(q)
  PROVE  KeyOf[c.row] \in Keys(RowsOf(q)) \/ c.row \in DeleteWhere
BY DEF Removed, Matched

(* In every mode and under every policy: a step of a job that has started,  *)
(* or does not overwrite, takes away only rows under keys of the source and *)
(* rows when_not_matched_by_source_delete names.                            *)
THEOREM Bystanders == Spec => BystandersSurvive
<1>1. ASSUME TypeInv, [Next]_vars, Mode # "overwrite" \/ job # "listed",
             NEW c \in table, KeyOf[c.row] \notin SourceKeys, c.row \notin DeleteWhere
      PROVE  c \in table'
  <2>1. CASE Driver
    BY <1>1, <2>1 DEF Driver, ListTables, RefuseTable, PrepareTable, StartFails, FailJob,
       OnWriteComplete
  <2>2. ASSUME NEW t \in Task, Starts(t) \/ Client(t) \/ WorkerDies(t) \/ TaskKilled(t)
        PROVE  c \in table'
    BY <1>1, <2>2 DEF Starts, StartTask, StartTaskFails, Client, Send, Misaligned, Reply,
       LoseReply, WorkerDies, TaskKilled, StopsRunning
  <2>3. ASSUME NEW q \in flight, LandMerge(q)
        PROVE  c \in table'
    <3>1. c \notin Removed(q)
      BY <1>1, MergeRemoves, RowsOfAreSource
    <3>. QED
      BY <1>1, <2>3, <3>1 DEF LandMerge
  <2>4. ASSUME NEW q \in flight, Answer(q)
        PROVE  c \in table'
    BY <1>1, <2>3, <2>4 DEF Answer, TimeOut, Reject, LandAdd, ReadVersion, CommitConflict,
       RejectAmbiguousMerge, DropLate, taskVars
  <2>5. CASE OtherCreates \/ (\E r \in OtherRow : OtherAppends(r)) \/ UNCHANGED vars
    BY <1>1, <2>5 DEF OtherCreates, OtherAppends, vars
  <2>. QED
    BY <1>1, <2>1, <2>2, <2>4, <2>5 DEF Next, Idle
<1>2. TypeInv /\ [Next]_vars =>
        [Mode # "overwrite" \/ job # "listed" =>
           \A c \in table \ table' : KeyOf[c.row] \in SourceKeys \/ c.row \in DeleteWhere]_vars
  BY <1>1
<1>. QED
  BY <1>2, InitType, NextType, PTL DEF Spec, BystandersSurvive

(* What a merge is matched against is the table it opens, and a step takes  *)
(* rows away only by landing a merge.                                       *)
ReadsNow(p, q) == ReadVersion(p) /\ q = [p EXCEPT !.read = TRUE, !.snap = table]

LEMMA HowFlightsRead ==
  ASSUME TypeInv, [Next]_vars, NEW q \in flight', q.read
  PROVE  q \in flight \/ \E p \in flight : ReadsNow(p, q)
<1>1. ASSUME flight' \subseteq flight
      PROVE  q \in flight
  BY <1>1
<1>2. CASE Driver
  BY <1>2 DEF Driver, ListTables, RefuseTable, PrepareTable, StartFails, FailJob,
     OnWriteComplete
<1>3. ASSUME NEW t \in Task, Starts(t) \/ Client(t) \/ WorkerDies(t) \/ TaskKilled(t)
      PROVE  q \in flight
  BY <1>3 DEF Starts, StartTask, StartTaskFails, Client, Send, Misaligned, Reply, LoseReply,
     WorkerDies, TaskKilled, StopsRunning
<1>4. ASSUME NEW p \in flight, Answer(p)
      PROVE  q \in flight \/ ReadsNow(p, q)
  BY <1>4 DEF Answer, TimeOut, Reject, LandAdd, LandMerge, Finishes, CommitConflict,
     RejectAmbiguousMerge, DropLate, ReadVersion, ReadsNow
<1>5. CASE OtherCreates \/ (\E r \in OtherRow : OtherAppends(r)) \/ UNCHANGED vars
  BY <1>5 DEF OtherCreates, OtherAppends, vars
<1>. QED
  BY <1>2, <1>3, <1>4, <1>5 DEF Next, Idle

LEMMA HowTableChanges ==
  ASSUME Mode = "upsert", [Next]_vars
  PROVE  \/ table' = table
         \/ \E q \in flight : LandMerge(q)
         \/ \E r \in OtherRow : OtherAppends(r)
<1>1. CASE Driver
  BY <1>1 DEF Driver, ListTables, RefuseTable, PrepareTable, StartFails, FailJob,
     OnWriteComplete
<1>2. ASSUME NEW t \in Task, Starts(t) \/ Client(t) \/ WorkerDies(t) \/ TaskKilled(t)
      PROVE  table' = table
  BY <1>2 DEF Starts, StartTask, StartTaskFails, Client, Send, Misaligned, Reply, LoseReply,
     WorkerDies, TaskKilled, StopsRunning
<1>3. ASSUME NEW q \in flight, Answer(q)
      PROVE  table' = table \/ LandMerge(q)
  BY <1>3 DEF Answer, TimeOut, Reject, LandAdd, ReadVersion, CommitConflict,
     RejectAmbiguousMerge, DropLate, taskVars
<1>4. CASE OtherCreates \/ UNCHANGED vars
  BY <1>4 DEF OtherCreates, vars
<1>. QED
  BY <1>1, <1>2, <1>3, <1>4 DEF Next, Idle

-----------------------------------------------------------------------------
(* A successful job has merged everything. *)

IsMerged(t, i) ==
  \A r \in Requests[t][i] :
    \E c \in table : KeyOf[c.row] = KeyOf[r] /\ (UpdateAll => c.row = r)

WrittenIsMerged ==
  \A t \in Task :
    /\ \A i \in written[t] : IsMerged(t, i)
    /\ pc[t] = "landed" => IsMerged(t, chunk[t])

(* Only a source without repeated keys is matched against a version.        *)
ReadIsUnambiguous == \A q \in flight : q.read => ~RepeatsKey(RowsOf(q))

(* Without updates, what a merge has matched stays.                         *)
MatchedStays ==
  ~UpdateAll =>
    \A q \in flight : q.read =>
      \A c \in q.snap : KeyOf[c.row] \in SourceKeys => c \in table

MergeInv == WrittenIsMerged /\ ReadIsUnambiguous /\ MatchedStays

LEMMA InitMerge == Init => MergeInv
BY DEF Init, MergeInv, WrittenIsMerged, ReadIsUnambiguous, MatchedStays

LEMMA NextUnambiguous ==
  ASSUME TypeInv, ReadIsUnambiguous, [Next]_vars
  PROVE  ReadIsUnambiguous'
<1>. SUFFICES ASSUME NEW q \in flight', q.read
              PROVE  ~RepeatsKey(RowsOf(q))
  BY DEF ReadIsUnambiguous, RepeatsKey, RowsOf
<1>1. CASE q \in flight
  BY <1>1 DEF ReadIsUnambiguous
<1>2. ASSUME NEW p \in flight, ReadsNow(p, q)
      PROVE  ~RepeatsKey(RowsOf(q))
  <2>1. q.task = p.task /\ q.req = p.req
    BY <1>2 DEF ReadsNow, TypeInv, TypeOK, Request
  <2>. QED
    BY <1>2, <2>1 DEF ReadsNow, ReadVersion, RowsOf
<1>. QED
  BY <1>1, <1>2, HowFlightsRead

(* Without updates, no step takes away a row under a key of the source.     *)
LEMMA KeptWithoutUpdates ==
  ASSUME Mode = "upsert", DeletesSpareSource, ~UpdateAll, TypeInv, [Next]_vars,
         NEW c \in table, KeyOf[c.row] \in SourceKeys
  PROVE  c \in table'
<1>1. ASSUME NEW q \in flight, LandMerge(q)
      PROVE  c \in table'
  <2>1. c \notin Removed(q)
    BY DEF Removed, DeletesSpareSource
  <2>. QED
    BY <1>1, <2>1 DEF LandMerge
<1>. QED
  BY <1>1, HowTableChanges DEF OtherAppends

LEMMA NextMatched ==
  ASSUME Mode = "upsert", DeletesSpareSource, TypeInv, MatchedStays, [Next]_vars
  PROVE  MatchedStays'
<1>. SUFFICES ASSUME ~UpdateAll, NEW q \in flight', q.read, NEW c \in q.snap,
                     KeyOf[c.row] \in SourceKeys
              PROVE  c \in table'
  BY DEF MatchedStays, SourceKeys, SourceRow, Keys
<1>1. c \in table
  <2>1. CASE q \in flight
    BY <2>1 DEF MatchedStays
  <2>2. ASSUME NEW p \in flight, ReadsNow(p, q)
        PROVE  c \in table
    BY <2>2 DEF ReadsNow, TypeInv, TypeOK, Request
  <2>. QED
    BY <2>1, <2>2, HowFlightsRead
<1>. QED
  BY <1>1, KeptWithoutUpdates

(* What a merge writes in place of the row it matches is its own row.       *)
Replacing(q, c) == [c EXCEPT !.row = CHOOSE r \in RowsOf(q) : KeyOf[r] = KeyOf[c.row]]

LEMMA UpdatesWithOwnRow ==
  ASSUME TypeInv, ReadIsUnambiguous, UpdateAll, NEW q \in flight, q.read,
         NEW c \in Matched(q), NEW own \in RowsOf(q), KeyOf[c.row] = KeyOf[own]
  PROVE  \E d \in Updated(q) : d.row = own
<1> DEFINE chosen == CHOOSE r \in RowsOf(q) : KeyOf[r] = KeyOf[c.row]
<1>1. chosen \in RowsOf(q) /\ KeyOf[chosen] = KeyOf[own]
  OBVIOUS
<1>2. chosen = own
  BY <1>1 DEF ReadIsUnambiguous, RepeatsKey
<1>3. c \in Stored
  BY DEF Matched, TypeInv, TypeOK, Request
<1>4. Replacing(q, c).row = own
  <2>1. Replacing(q, c) = [c EXCEPT !.row = chosen]
    BY DEF Replacing
  <2> HIDE DEF chosen
  <2>. QED
    BY <1>2, <1>3, <2>1 DEF Stored
<1>5. Updated(q) = {Replacing(q, d) : d \in Matched(q)}
  BY DEF Updated, Replacing
<1>. QED
  BY <1>4, <1>5

(* A request that lands has merged every row it carries.                    *)
LEMMA LandingMerges ==
  ASSUME Mode = "upsert", InsertAll, TypeInv, MergeInv, NEW t \in Task, LandsNow(t)
  PROVE  IsMerged(t, chunk[t])'
<1>1. PICK q \in flight : q.task = t /\ q.req = chunk'[t] /\ LandMerge(q)
  BY DEF LandsNow, LandAdd
<1>. SUFFICES ASSUME NEW r \in RowsOf(q)
              PROVE  \E c \in table' : KeyOf[c.row] = KeyOf[r] /\ (UpdateAll => c.row = r)
  BY <1>1 DEF IsMerged, RowsOf
<1>2. q.read /\ table' = (table \ Removed(q)) \cup Updated(q) \cup Inserted(q)
  BY <1>1 DEF LandMerge
<1>3. CASE KeyOf[r] \notin Keys({c.row : c \in q.snap})
  <2>1. [row |-> r, task |-> q.task, send |-> q.send] \in Inserted(q)
    BY <1>3 DEF Inserted, Copies
  <2>. QED
    BY <1>2, <2>1
<1>4. ASSUME NEW c \in q.snap, KeyOf[c.row] = KeyOf[r]
      PROVE  \E d \in table' : KeyOf[d.row] = KeyOf[r] /\ (UpdateAll => d.row = r)
  <2>1. c \in Matched(q)
    BY <1>4 DEF Matched, Keys
  <2>2. CASE UpdateAll
    BY <1>2, <1>4, <2>1, <2>2, UpdatesWithOwnRow DEF MergeInv
  <2>3. CASE ~UpdateAll
    <3>1. KeyOf[c.row] \in SourceKeys
      BY <1>4, RowsOfAreSource DEF Keys
    <3>2. c \in table /\ c \notin Removed(q)
      BY <1>2, <2>1, <2>3, <3>1 DEF MergeInv, MatchedStays, Removed
    <3>. QED
      BY <1>2, <1>4, <2>3, <3>2
  <2>. QED
    BY <2>2, <2>3
<1>. QED
  BY <1>3, <1>4 DEF Keys

(* What is merged stays merged: another merge takes it for neither its own  *)
(* nor unmatched.                                                           *)
LEMMA MergedStays ==
  ASSUME Mode = "upsert", KeysInOneRequest, DeletesSpareSource, TypeInv, MergeInv,
         [Next]_vars, NEW t \in Task, NEW i \in DOMAIN Requests[t], IsMerged(t, i),
         NEW r \in Requests[t][i]
  PROVE  \E c \in table' : KeyOf[c.row] = KeyOf[r] /\ (UpdateAll => c.row = r)
<1>1. PICK c \in table : KeyOf[c.row] = KeyOf[r] /\ (UpdateAll => c.row = r)
  BY DEF IsMerged
<1>2. r \in SourceRow /\ KeyOf[r] \in SourceKeys
  BY DEF SourceRow, SourceKeys, Keys
<1>3. ASSUME NEW q \in flight, LandMerge(q), c \in Removed(q)
      PROVE  \E d \in table' : KeyOf[d.row] = KeyOf[r] /\ (UpdateAll => d.row = r)
  <2>1. q.read /\ Updated(q) \subseteq table'
    BY <1>3 DEF LandMerge
  <2>2. c.row \notin DeleteWhere
    BY <1>1, <1>2 DEF DeletesSpareSource
  <2>3. UpdateAll /\ c \in Matched(q)
    BY <1>3, <2>2 DEF Removed
  <2>4. PICK s \in RowsOf(q) : KeyOf[s] = KeyOf[r]
    BY <1>1, <2>3 DEF Matched, Keys
  <2>5. q.task \in Task /\ q.req \in DOMAIN Requests[q.task]
    BY DEF TypeInv, TypeOK, ControlOK, Request
  <2>6. r \in RowsOf(q)
    BY <2>4, <2>5 DEF KeysInOneRequest, RowsOf
  <2>. QED
    BY <1>1, <2>1, <2>3, <2>6, UpdatesWithOwnRow DEF MergeInv
<1>4. ASSUME NEW q \in flight, LandMerge(q), c \notin Removed(q)
      PROVE  c \in table'
  BY <1>4 DEF LandMerge
<1>. QED
  BY <1>1, <1>3, <1>4, HowTableChanges DEF OtherAppends

LEMMA NextMerged ==
  ASSUME Mode = "upsert", InsertAll, KeysInOneRequest, DeletesSpareSource,
         TypeInv, ProgressInv, MergeInv, [Next]_vars
  PROVE  WrittenIsMerged'
<1>1. ASSUME NEW t \in Task, NEW i \in DOMAIN Requests[t], IsMerged(t, i)
      PROVE  IsMerged(t, i)'
  BY <1>1, MergedStays DEF IsMerged
<1>2. ASSUME NEW t \in Task
      PROVE  /\ \A i \in written'[t] : IsMerged(t, i)'
             /\ pc'[t] = "landed" => IsMerged(t, chunk[t])'
  <2>1. CountsWhatLanded(t)
    BY HowRequestsLand
  <2>2. \A i \in written[t] : i \in DOMAIN Requests[t] /\ IsMerged(t, i)
    BY DEF ProgressInv, Counted, MergeInv, WrittenIsMerged
  <2>3. pc[t] = "landed" => chunk[t] \in DOMAIN Requests[t] /\ IsMerged(t, chunk[t])
    BY DEF TypeInv, ControlOK, MergeInv, WrittenIsMerged
  <2>4. \A i \in written'[t] : IsMerged(t, i)'
    BY <1>1, <2>1, <2>2, <2>3 DEF CountsWhatLanded
  <2>5. CASE LandsNow(t)
    BY <2>4, <2>5, LandingMerges
  <2>6. CASE pc[t] = "landed" /\ chunk'[t] = chunk[t]
    <3>1. \A r \in Requests[t][chunk[t]] :
            \E c \in table' : KeyOf[c.row] = KeyOf[r] /\ (UpdateAll => c.row = r)
      BY <2>3, <2>6, MergedStays
    <3>2. IsMerged(t, chunk[t])'
      BY <2>6, <3>1 DEF IsMerged
    <3>. QED
      BY <2>4, <3>2
  <2>. QED
    BY <2>1, <2>4, <2>5, <2>6 DEF CountsWhatLanded
<1>. QED
  BY <1>2 DEF WrittenIsMerged

LEMMA NextMerge ==
  ASSUME Mode = "upsert", InsertAll, KeysInOneRequest, DeletesSpareSource,
         TypeInv, ProgressInv, MergeInv, [Next]_vars
  PROVE  MergeInv'
BY NextMerged, NextUnambiguous, NextMatched DEF MergeInv

(***************************************************************************)
(* An upsert that inserts and whose source does not spread a key over       *)
(* requests leaves, when it reports success, every row it does not report   *)
(* as dropped under its key, as the current version if it updates: with any *)
(* number of tasks at once, retries, replays, and requests that land after  *)
(* their client gave up on them.                                            *)
(***************************************************************************)
THEOREM SuccessMerges ==
  ASSUME Mode = "upsert", InsertAll, KeysInOneRequest, DeletesSpareSource
  PROVE  Spec => []SuccessMergesEverything
<1>1. Init => TypeInv /\ ProgressInv /\ MergeInv
  BY InitType, InitProgress, InitMerge
<1>2. TypeInv /\ ProgressInv /\ MergeInv /\ [Next]_vars
        => (TypeInv /\ ProgressInv /\ MergeInv)'
  BY NextType, NextProgress, NextMerge
<1>3. TypeInv /\ ProgressInv /\ MergeInv => SuccessMergesEverything
  <2>. SUFFICES ASSUME TypeInv, ProgressInv, MergeInv, job = "complete",
                       NEW r \in SourceRow, r \notin NumSkippedRows
                PROVE  \E c \in table : KeyOf[c.row] = KeyOf[r] /\ (UpdateAll => c.row = r)
    BY DEF SuccessMergesEverything
  <2>1. PICK t \in Task : \E i \in DOMAIN Requests[t] : r \in Requests[t][i]
    BY DEF SourceRow
  <2>2. PICK i \in DOMAIN Requests[t] : r \in Requests[t][i]
    BY <2>1
  <2>3. written[t] \cup skipped[t] = DOMAIN Requests[t]
    BY RequestsType DEF ProgressInv, CompleteIsDone, DoneIsThrough, Counted, TypeInv, TypeOK
  <2>4. i \notin skipped[t]
    BY <2>2 DEF NumSkippedRows, RequestsIn
  <2>. QED
    BY <2>2, <2>3, <2>4 DEF MergeInv, WrittenIsMerged, IsMerged
<1>. QED
  BY <1>1, <1>2, <1>3, PTL DEF Spec

-----------------------------------------------------------------------------
(* No key is stored twice. *)

(* A task has one request in flight at most, the one it waits for.          *)
FlightsAreAwaited ==
  \A q \in flight : Awaited(q) /\ \A p \in flight : p.task = q.task => p = q

OneRuns == Concurrency = 1 => \A t, u \in Running : t = u

(* Of the keys a merge writes, the table holds what the merge has read, or  *)
(* less.                                                                    *)
SnapshotsHold ==
  \A q \in flight : q.read =>
    /\ \A c, d \in q.snap : KeyOf[c.row] = KeyOf[d.row] => c = d
    /\ \A c \in table : KeyOf[c.row] \in Keys(RowsOf(q)) => c \in q.snap

RowsAreKnown == \A c \in table : c.row \in SourceRow \cup OldRow \cup OtherRow

KeyInv ==
  /\ FlightsAreAwaited /\ OneRuns /\ ReadIsUnambiguous /\ SnapshotsHold
  /\ RowsAreKnown /\ KeysAreUnique

LEMMA InitKeys ==
  ASSUME OthersKeepKeys, Init
  PROVE  KeyInv
<1>1. table \subseteq OutsideCopies(OldRow)
  BY DEF Init
<1>2. RowsAreKnown /\ KeysAreUnique
  BY <1>1 DEF OutsideCopies, RowsAreKnown, KeysAreUnique, OthersKeepKeys
<1>3. Running = {}
  BY DEF Init, Running
<1>. QED
  BY <1>2, <1>3 DEF Init, FlightsAreAwaited, OneRuns, ReadIsUnambiguous, SnapshotsHold, KeyInv

(* A task that is no longer waiting has nothing in flight.                  *)
LEMMA StopsWaiting ==
  ASSUME TypeInv, FlightsAreAwaited, NEW t \in Task, sent' = sent,
         \A u \in Task \ {t} : pc'[u] = pc[u],
         \A q \in flight' : q \in flight /\ q.task # t
  PROVE  FlightsAreAwaited'
<1>1. \A q \in flight' : q.task \in Task
  BY DEF TypeInv, TypeOK, Request
<1>. QED
  BY <1>1 DEF FlightsAreAwaited, Awaited

LEMMA ErrorEndsWait ==
  ASSUME TypeInv, FlightsAreAwaited, NEW t \in Task, NEW e, HandleError(t, e),
         \A q \in flight' : q \in flight /\ q.task # t
  PROVE  FlightsAreAwaited'
<1>1. sent' = sent /\ \A u \in Task \ {t} : pc'[u] = pc[u]
  BY DEF HandleError, Retries, Realigns, Raises, Skips, MovesOn, TypeInv, TypeOK
<1>. QED
  BY <1>1, StopsWaiting

LEMMA NextAwaited ==
  ASSUME ~LateRequests, TypeInv, FlightsAreAwaited, [Next]_vars
  PROVE  FlightsAreAwaited'
<1>1. ASSUME NEW t \in Task, pc[t] # "waiting"
      PROVE  \A q \in flight : q.task # t
  BY <1>1 DEF FlightsAreAwaited, Awaited
<1>2. ASSUME NEW q \in flight
      PROVE  q.task \in Task /\ \A p \in flight \ {q} : p.task # q.task
  BY <1>2 DEF FlightsAreAwaited, TypeInv, TypeOK, Request
<1>3. CASE Driver
  BY <1>3 DEF Driver, ListTables, RefuseTable, PrepareTable, StartFails, FailJob,
     OnWriteComplete, taskVars, FlightsAreAwaited, Awaited
<1>4. ASSUME NEW t \in Task, Starts(t) \/ Reply(t) \/ WorkerDies(t) \/ TaskKilled(t)
      PROVE  FlightsAreAwaited'
  <2>1. sent' = sent /\ \A u \in Task \ {t} : pc'[u] = pc[u]
    BY <1>4 DEF Starts, StartTask, StartTaskFails, Reply, MovesOn, WorkerDies, TaskKilled,
       StopsRunning, TypeInv, TypeOK
  <2>2. \A q \in flight' : q \in flight /\ q.task # t
    BY <1>1, <1>4 DEF Starts, StartTask, StartTaskFails, Reply, WorkerDies, TaskKilled,
       StopsRunning
  <2>. QED
    BY <2>1, <2>2, StopsWaiting
<1>5. ASSUME NEW t \in Task, Send(t)
      PROVE  FlightsAreAwaited'
  <2> DEFINE new == [task |-> t, send |-> sent[t] + 1, req |-> chunk[t],
                     read |-> FALSE, snap |-> {}]
  <2>1. flight' = flight \cup {new} /\ new.task = t /\ new.send = sent'[t]
    BY <1>5 DEF Send, TypeInv, TypeOK
  <2> HIDE DEF new
  <2>2. pc'[t] = "waiting" /\ \A u \in Task \ {t} : pc'[u] = pc[u] /\ sent'[u] = sent[u]
    BY <1>5 DEF Send, TypeInv, TypeOK
  <2>3. \A q \in flight : q.task \in Task \ {t}
    BY <1>1, <1>2, <1>5 DEF Send
  <2>. QED
    BY <2>1, <2>2, <2>3 DEF FlightsAreAwaited, Awaited
<1>6. ASSUME NEW t \in Task, NEW e, Misaligned(t, e) \/ LoseReply(t, e)
      PROVE  FlightsAreAwaited'
  BY <1>1, <1>6, ErrorEndsWait DEF Misaligned, LoseReply
<1>7. ASSUME NEW q \in flight, NEW e, TimeOut(q, e) \/ Reject(q, e)
      PROVE  FlightsAreAwaited'
  <2>1. HandleError(q.task, e) /\ flight' = flight \ {q}
    BY <1>7 DEF TimeOut, Reject
  <2>. QED
    BY <1>2, <2>1, ErrorEndsWait
<1>8. ASSUME NEW q \in flight, CommitConflict(q) \/ RejectAmbiguousMerge(q)
      PROVE  FlightsAreAwaited'
  <2>1. flight' = flight \ {q}
    BY <1>8 DEF CommitConflict, RejectAmbiguousMerge
  <2>2. PICK e : HandleError(q.task, e)
    BY <1>8, Zenon DEF CommitConflict, RejectAmbiguousMerge
  <2>. QED
    BY <1>2, <2>1, <2>2, ErrorEndsWait
<1>9. ASSUME NEW q \in flight, LandAdd(q) \/ LandMerge(q)
      PROVE  FlightsAreAwaited'
  <2>1. sent' = sent /\ flight' = flight \ {q} /\ \A u \in Task \ {q.task} : pc'[u] = pc[u]
    BY <1>9 DEF LandAdd, LandMerge, Finishes, TypeInv, TypeOK
  <2>. QED
    BY <1>2, <2>1, StopsWaiting
<1>10. ASSUME NEW q \in flight, ReadVersion(q)
       PROVE  FlightsAreAwaited'
  <2> DEFINE r == [q EXCEPT !.read = TRUE, !.snap = table]
  <2>1. r.task = q.task /\ r.send = q.send
    BY DEF TypeInv, TypeOK, Request
  <2>2. flight' = (flight \ {q}) \cup {r} /\ UNCHANGED <<pc, sent>>
    BY <1>10 DEF ReadVersion, taskVars
  <2> HIDE DEF r
  <2>. QED
    BY <2>1, <2>2 DEF FlightsAreAwaited, Awaited
<1>11. ASSUME NEW q \in flight, DropLate(q)
       PROVE  FlightsAreAwaited'
  BY <1>11 DEF DropLate, FlightsAreAwaited
<1>12. CASE OtherCreates \/ (\E r \in OtherRow : OtherAppends(r)) \/ UNCHANGED vars
  BY <1>12 DEF OtherCreates, OtherAppends, vars, taskVars, FlightsAreAwaited, Awaited
<1>13. ASSUME NEW t \in Task, Client(t)
       PROVE  FlightsAreAwaited'
  BY <1>4, <1>5, <1>6, <1>13 DEF Client
<1>14. ASSUME NEW q \in flight, Answer(q)
       PROVE  FlightsAreAwaited'
  BY <1>7, <1>8, <1>9, <1>10, <1>11, <1>14 DEF Answer
<1>. QED
  BY <1>3, <1>4, <1>12, <1>13, <1>14 DEF Next, Idle

(* Only the start of a task makes it one of the running.                    *)
LEMMA HowTasksRun ==
  ASSUME TypeInv, [Next]_vars
  PROVE  Running' \subseteq Running \/ \E t \in Task : StartTask(t)
<1>1. ASSUME NEW t \in Task, t \in Running \/ pc'[t] \notin {"ready", "waiting", "landed"},
             \A u \in Task \ {t} : pc'[u] = pc[u]
      PROVE  Running' \subseteq Running
  BY <1>1 DEF Running
<1>2. ASSUME pc' = pc
      PROVE  Running' \subseteq Running
  BY <1>2 DEF Running
<1>3. ASSUME NEW t \in Task, NEW e, HandleError(t, e), pc[t] \in {"ready", "waiting", "landed"}
      PROVE  Running' \subseteq Running
  <2>1. t \in Running /\ \A u \in Task \ {t} : pc'[u] = pc[u]
    BY <1>3 DEF HandleError, Retries, Realigns, Raises, Skips, MovesOn, Running, TypeInv,
       TypeOK
  <2>. QED
    BY <1>1, <2>1
<1>4. CASE Driver
  BY <1>2, <1>4 DEF Driver, ListTables, RefuseTable, PrepareTable, StartFails, FailJob,
     OnWriteComplete, taskVars
<1>5. ASSUME NEW t \in Task,
             StartTaskFails(t) \/ Send(t) \/ Reply(t) \/ WorkerDies(t) \/ TaskKilled(t)
      PROVE  Running' \subseteq Running
  <2>1. /\ t \in Running \/ pc'[t] \notin {"ready", "waiting", "landed"}
        /\ \A u \in Task \ {t} : pc'[u] = pc[u]
    BY <1>5 DEF StartTaskFails, Send, Reply, MovesOn, WorkerDies, TaskKilled, Running,
       TypeInv, TypeOK
  <2>. QED
    BY <1>1, <2>1
<1>6. ASSUME NEW t \in Task, Client(t)
      PROVE  Running' \subseteq Running
  BY <1>3, <1>5, <1>6 DEF Client, Misaligned, LoseReply
<1>7. ASSUME NEW q \in flight, Answer(q)
      PROVE  Running' \subseteq Running
  <2>1. q.task \in Task
    BY DEF TypeInv, TypeOK, Request
  <2>2. ASSUME NEW e, TimeOut(q, e) \/ Reject(q, e)
        PROVE  Running' \subseteq Running
    BY <1>3, <2>1, <2>2 DEF TimeOut, Reject, Awaited
  <2>3. CASE CommitConflict(q) \/ RejectAmbiguousMerge(q)
    <3>1. PICK e : HandleError(q.task, e)
      BY <2>3, Zenon DEF CommitConflict, RejectAmbiguousMerge
    <3>. QED
      BY <1>3, <2>1, <2>3, <3>1 DEF CommitConflict, RejectAmbiguousMerge, Awaited
  <2>4. CASE LandAdd(q) \/ LandMerge(q)
    <3>1. pc' = IF Awaited(q) THEN [pc EXCEPT ![q.task] = "landed"] ELSE pc
      BY <2>4 DEF LandAdd, LandMerge, Finishes
    <3>. QED
      BY <2>1, <3>1 DEF Awaited, Running, TypeInv, TypeOK
  <2>5. CASE ReadVersion(q) \/ DropLate(q)
    BY <1>2, <2>5 DEF ReadVersion, DropLate, taskVars
  <2>. QED
    BY <1>7, <2>2, <2>3, <2>4, <2>5 DEF Answer
<1>8. CASE OtherCreates \/ (\E r \in OtherRow : OtherAppends(r)) \/ UNCHANGED vars
  BY <1>2, <1>8 DEF OtherCreates, OtherAppends, taskVars, vars
<1>. QED
  BY <1>4, <1>5, <1>6, <1>7, <1>8 DEF Next, Starts, Idle

LEMMA NextRuns ==
  ASSUME TypeInv, OneRuns, [Next]_vars
  PROVE  OneRuns'
<1>. SUFFICES ASSUME Concurrency = 1
              PROVE  \A t, u \in Running' : t = u
  BY DEF OneRuns
<1>1. \A t, u \in Running : t = u
  BY DEF OneRuns
<1>2. ASSUME NEW t \in Task, StartTask(t)
      PROVE  Running' \subseteq {t}
  <2>1. Running = {}
    <3>1. ASSUME NEW u \in Running
          PROVE  FALSE
      <4>1. Running = {u}
        BY <1>1
      <4>2. Cardinality(Running) = 1
        BY <4>1, FS_Singleton
      <4>. QED
        BY <1>2, <4>2 DEF StartTask
    <3>. QED
      BY <3>1
  <2>. QED
    BY <1>2, <2>1 DEF StartTask, Running, TypeInv, TypeOK
<1>. QED
  BY <1>1, <1>2, HowTasksRun

(* Two requests in flight write different keys.                             *)
LEMMA FlightsApart ==
  ASSUME KeysApart \/ Concurrency = 1, TypeInv, FlightsAreAwaited, OneRuns,
         NEW p \in flight, NEW q \in flight, NEW r \in RowsOf(p), NEW s \in RowsOf(q),
         KeyOf[r] = KeyOf[s]
  PROVE  p = q
<1>1. /\ p.task \in Task /\ p.req \in DOMAIN Requests[p.task]
      /\ q.task \in Task /\ q.req \in DOMAIN Requests[q.task]
  BY DEF TypeInv, TypeOK, ControlOK, Request
<1>2. p.task = q.task
  <2>1. CASE KeysApart
    BY <1>1, <2>1 DEF KeysApart, RowsOf
  <2>2. CASE Concurrency = 1
    BY <1>1, <2>2 DEF OneRuns, Running, FlightsAreAwaited, Awaited
  <2>. QED
    BY <2>1, <2>2
<1>. QED
  BY <1>2 DEF FlightsAreAwaited

(* A merge writes rows under the keys of its request: one in place of each  *)
(* row it matched, and one where it has matched none.                       *)
LEMMA WhatMergesUpdate ==
  ASSUME TypeInv, NEW q \in flight, NEW c \in Updated(q)
  PROVE  /\ c.row \in RowsOf(q)
         /\ \E m \in Matched(q) : c = Replacing(q, m) /\ KeyOf[c.row] = KeyOf[m.row]
<1>1. Updated(q) \subseteq {Replacing(q, d) : d \in Matched(q)}
  <2>1. CASE UpdateAll
    BY <2>1 DEF Updated, Replacing
  <2>2. CASE ~UpdateAll
    BY <2>2 DEF Updated
  <2>. QED
    BY <2>1, <2>2
<1>2. PICK m \in Matched(q) : c = Replacing(q, m)
  BY <1>1
<1> DEFINE chosen == CHOOSE r \in RowsOf(q) : KeyOf[r] = KeyOf[m.row]
<1>3. chosen \in RowsOf(q) /\ KeyOf[chosen] = KeyOf[m.row]
  <2>1. \E r \in RowsOf(q) : KeyOf[r] = KeyOf[m.row]
    BY DEF Matched, Keys
  <2>. QED
    BY <2>1
<1>4. Replacing(q, m) = [m EXCEPT !.row = chosen]
  BY DEF Replacing
<1>5. m \in Stored
  BY DEF Matched, TypeInv, TypeOK, Request
<1> HIDE DEF chosen
<1>6. c.row = chosen
  BY <1>2, <1>4, <1>5 DEF Stored
<1>. QED
  BY <1>2, <1>3, <1>6

LEMMA WhatMergesInsert ==
  ASSUME TypeInv, NEW q \in flight, NEW c \in Inserted(q)
  PROVE  /\ c.row \in RowsOf(q)
         /\ c = [row |-> c.row, task |-> q.task, send |-> q.send]
         /\ \A m \in q.snap : KeyOf[m.row] # KeyOf[c.row]
<1>1. PICK r \in RowsOf(q) : /\ KeyOf[r] \notin Keys({m.row : m \in q.snap})
                            /\ c = [row |-> r, task |-> q.task, send |-> q.send]
  BY DEF Inserted, Copies
<1>. QED
  BY <1>1 DEF Keys

LEMMA NextKnown ==
  ASSUME Mode = "upsert", TypeInv, RowsAreKnown, [Next]_vars
  PROVE  RowsAreKnown'
<1>1. CASE table' = table
  BY <1>1 DEF RowsAreKnown
<1>2. ASSUME NEW q \in flight, LandMerge(q)
      PROVE  RowsAreKnown'
  BY <1>2, WhatMergesUpdate, WhatMergesInsert, RowsOfAreSource DEF LandMerge, RowsAreKnown
<1>3. ASSUME NEW r \in OtherRow, OtherAppends(r)
      PROVE  RowsAreKnown'
  BY <1>3 DEF OtherAppends, OutsideCopies, RowsAreKnown
<1>. QED
  BY <1>1, <1>2, <1>3, HowTableChanges

LEMMA NextHolds ==
  ASSUME Mode = "upsert", KeysApart \/ Concurrency = 1, OthersKeepKeys, TypeInv, KeyInv,
         [Next]_vars
  PROVE  SnapshotsHold'
<1>. SUFFICES ASSUME NEW q \in flight', q.read
              PROVE  /\ \A c, d \in q.snap : KeyOf[c.row] = KeyOf[d.row] => c = d
                     /\ \A c \in table' : KeyOf[c.row] \in Keys(RowsOf(q)) => c \in q.snap
  BY DEF SnapshotsHold, Keys, RowsOf
<1>1. ASSUME NEW p \in flight, ReadsNow(p, q)
      PROVE  q.snap = table /\ table' = table
  BY <1>1 DEF ReadsNow, ReadVersion, TypeInv, TypeOK, Request
<1>2. ASSUME q \in flight, NEW c \in table', c \notin table
      PROVE  KeyOf[c.row] \notin Keys(RowsOf(q))
  <2>1. ASSUME NEW r \in OtherRow, OtherAppends(r)
        PROVE  KeyOf[c.row] \notin Keys(RowsOf(q))
    <3>1. c.row = r
      BY <1>2, <2>1 DEF OtherAppends, OutsideCopies
    <3>. QED
      BY <1>2, <3>1, RowsOfAreSource DEF OthersKeepKeys
  <2>2. ASSUME NEW p \in flight, LandMerge(p)
        PROVE  KeyOf[c.row] \notin Keys(RowsOf(q))
    <3>1. p # q
      BY <2>2 DEF LandMerge, Finishes
    <3>2. c.row \in RowsOf(p)
      BY <1>2, <2>2, WhatMergesUpdate, WhatMergesInsert DEF LandMerge
    <3>. QED
      BY <1>2, <3>1, <3>2, FlightsApart DEF Keys, KeyInv
  <2>. QED
    BY <1>2, <2>1, <2>2, HowTableChanges
<1>3. CASE q \in flight
  BY <1>2, <1>3 DEF KeyInv, SnapshotsHold
<1>. QED
  BY <1>1, <1>3, HowFlightsRead DEF KeyInv, KeysAreUnique

(* A merge that lands leaves one row under each key.                        *)
LEMMA LandingKeepsKeys ==
  ASSUME Mode = "upsert", TypeInv, KeyInv, NEW q \in flight, LandMerge(q),
         NEW c \in table', NEW d \in table', KeyOf[c.row] = KeyOf[d.row]
  PROVE  c = d
<1>1. q.read /\ table' = (table \ Removed(q)) \cup Updated(q) \cup Inserted(q)
  BY DEF LandMerge
<1>2. CASE KeyOf[c.row] \notin Keys(RowsOf(q))
  <2>1. c \in table /\ d \in table
    BY <1>1, <1>2, WhatMergesUpdate, WhatMergesInsert DEF Keys
  <2>. QED
    BY <2>1 DEF KeyInv, KeysAreUnique
<1>3. CASE KeyOf[c.row] \in Keys(RowsOf(q))
  <2>1. ASSUME NEW k \in table', KeyOf[k.row] = KeyOf[c.row]
        PROVE  \/ k \in Inserted(q)
               \/ ~UpdateAll /\ k \in q.snap
               \/ UpdateAll /\ \E m \in Matched(q) :
                    k = Replacing(q, m) /\ KeyOf[m.row] = KeyOf[c.row]
    <3>1. CASE k \in table \ Removed(q)
      <4>1. k \in Matched(q)
        BY <1>1, <1>3, <2>1, <3>1 DEF KeyInv, SnapshotsHold, Matched
      <4>. QED
        BY <3>1, <4>1 DEF Removed, Matched
    <3>2. CASE k \in Updated(q)
      <4>1. UpdateAll
        BY <3>2 DEF Updated
      <4>. QED
        BY <2>1, <3>2, <4>1, WhatMergesUpdate
    <3>. QED
      BY <1>1, <3>1, <3>2
  <2>2. \A m, n \in q.snap : KeyOf[m.row] = KeyOf[n.row] => m = n
    BY <1>1 DEF KeyInv, SnapshotsHold
  <2>3. CASE c \in Inserted(q)
    <3>1. d \in Inserted(q)
      BY <2>1, <2>3, WhatMergesInsert DEF Matched
    <3>2. c.row = d.row
      BY <1>1, <2>3, <3>1, WhatMergesInsert DEF KeyInv, ReadIsUnambiguous, RepeatsKey
    <3>. QED
      BY <2>3, <3>1, <3>2, WhatMergesInsert
  <2>4. CASE c \notin Inserted(q)
    <3>1. d \notin Inserted(q)
      BY <2>1, <2>4, WhatMergesInsert DEF Matched
    <3>. QED
      BY <2>1, <2>2, <2>4, <3>1 DEF Matched
  <2>. QED
    BY <2>3, <2>4
<1>. QED
  BY <1>2, <1>3

LEMMA NextUnique ==
  ASSUME Mode = "upsert", OthersKeepKeys, TypeInv, KeyInv, [Next]_vars
  PROVE  KeysAreUnique'
<1>1. CASE table' = table
  BY <1>1 DEF KeyInv, KeysAreUnique
<1>2. ASSUME NEW q \in flight, LandMerge(q)
      PROVE  KeysAreUnique'
  BY <1>2, LandingKeepsKeys DEF KeysAreUnique
<1>3. ASSUME NEW r \in OtherRow, OtherAppends(r)
      PROVE  KeysAreUnique'
  <2>1. ASSUME NEW c \in table
        PROVE  KeyOf[c.row] # KeyOf[r]
    <3>1. c.row # r
      BY <1>3 DEF OtherAppends
    <3>2. c.row \in SourceRow => KeyOf[c.row] \in SourceKeys
      BY DEF SourceKeys, Keys
    <3>. QED
      BY <3>1, <3>2 DEF KeyInv, RowsAreKnown, OthersKeepKeys
  <2>2. \A c \in table' : c \in table \/ c = [row |-> r, task |-> Outside, send |-> 0]
    BY <1>3 DEF OtherAppends, OutsideCopies
  <2>. QED
    BY <2>1, <2>2 DEF KeyInv, KeysAreUnique
<1>. QED
  BY <1>1, <1>2, <1>3, HowTableChanges

(***************************************************************************)
(* An upsert stores no key twice, whatever its flags, its retries, its      *)
(* replays and what other writers add, if its tasks hold different keys or  *)
(* run one at a time, which is what write_lancedb sees to, and no request   *)
(* lands after its client has given up on it.                               *)
(***************************************************************************)
THEOREM KeysUnique ==
  ASSUME Mode = "upsert", ~LateRequests, KeysApart \/ Concurrency = 1, OthersKeepKeys
  PROVE  Spec => []KeysAreUnique
<1>1. Init => TypeInv /\ KeyInv
  BY InitType, InitKeys
<1>2. TypeInv /\ KeyInv /\ [Next]_vars => (TypeInv /\ KeyInv)'
  <2>. SUFFICES ASSUME TypeInv, KeyInv, [Next]_vars
                PROVE  (TypeInv /\ KeyInv)'
    OBVIOUS
  <2>1. FlightsAreAwaited' /\ OneRuns' /\ ReadIsUnambiguous' /\ RowsAreKnown'
    BY NextAwaited, NextRuns, NextUnambiguous, NextKnown DEF KeyInv
  <2>2. SnapshotsHold' /\ KeysAreUnique'
    BY NextHolds, NextUnique
  <2>. QED
    BY <2>1, <2>2, NextType DEF KeyInv
<1>3. TypeInv /\ KeyInv => KeysAreUnique
  BY DEF KeyInv
<1>. QED
  BY <1>1, <1>2, <1>3, PTL DEF Spec

-----------------------------------------------------------------------------
(* A key is stored twice only by two sendings of one task. *)

(* No two requests, in flight or landed, are the same sending.              *)
SendsDiffer ==
  /\ \A p, q \in flight : p.task = q.task /\ p.send = q.send => p = q
  /\ \A q \in flight : \A c \in table : c.task = q.task => c.send # q.send
  /\ \A c \in table : c.task # Outside => c.send <= sent[c.task]

(* What the table has gained under the keys of a merge since the merge read *)
(* its version is from other sendings of its own task, unless the merge has *)
(* matched the key.                                                         *)
NewsAreOwn ==
  \A q \in flight : q.read =>
    \A c \in table : KeyOf[c.row] \in Keys(RowsOf(q)) =>
      c.task = q.task \/ \E m \in q.snap : KeyOf[m.row] = KeyOf[c.row]

ResendInv ==
  /\ ReadIsUnambiguous /\ RowsAreKnown /\ SendsDiffer /\ NewsAreOwn
  /\ RepeatsAreResends

LEMMA InitResend ==
  ASSUME OthersKeepKeys, Init
  PROVE  ResendInv
<1>1. flight = {} /\ table \subseteq OutsideCopies(OldRow)
  BY DEF Init
<1>2. RowsAreKnown /\ RepeatsAreResends
  BY <1>1 DEF OutsideCopies, RowsAreKnown, RepeatsAreResends, OthersKeepKeys
<1>3. SendsDiffer
  BY <1>1 DEF OutsideCopies, SendsDiffer
<1>. QED
  BY <1>1, <1>2, <1>3 DEF ReadIsUnambiguous, NewsAreOwn, ResendInv

(* A step puts one request on the wire, lets one read its version, or adds  *)
(* none.                                                                    *)
LEMMA HowFlightsMove ==
  ASSUME TypeInv, [Next]_vars
  PROVE  \/ flight' \subseteq flight /\ sent' = sent
         \/ \E t \in Task : Send(t)
         \/ \E q \in flight : ReadVersion(q)
<1> DEFINE Quiet == flight' \subseteq flight /\ sent' = sent
<1>1. CASE Driver
  BY <1>1 DEF Driver, ListTables, RefuseTable, PrepareTable, StartFails, FailJob,
     OnWriteComplete, taskVars
<1>2. ASSUME NEW t \in Task, Starts(t) \/ Client(t) \/ WorkerDies(t) \/ TaskKilled(t)
      PROVE  Quiet \/ Send(t)
  BY <1>2 DEF Starts, StartTask, StartTaskFails, Client, Misaligned, Reply, LoseReply,
     WorkerDies, TaskKilled, StopsRunning, HandleError
<1>3. ASSUME NEW q \in flight, Answer(q)
      PROVE  Quiet \/ ReadVersion(q)
  BY <1>3 DEF Answer, TimeOut, Reject, LandAdd, LandMerge, Finishes, CommitConflict,
     RejectAmbiguousMerge, DropLate, HandleError, taskVars
<1>4. CASE OtherCreates \/ (\E r \in OtherRow : OtherAppends(r)) \/ UNCHANGED vars
  BY <1>4 DEF OtherCreates, OtherAppends, vars, taskVars
<1>. QED
  BY <1>1, <1>2, <1>3, <1>4 DEF Next, Idle

(* What a landing merge leaves was inserted by it, stayed, or is in the     *)
(* place of what it removed.                                                *)
CameFrom(q, c, m) ==
  \/ m \notin Removed(q) /\ c = m
  \/ m \in Removed(q) /\ c = Replacing(q, m)

LEMMA WhereCopiesComeFrom ==
  ASSUME TypeInv, NEW q \in flight, LandMerge(q), NEW c \in table', c \notin Inserted(q)
  PROVE  \E m \in table : /\ CameFrom(q, c, m)
                          /\ c.task = m.task /\ c.send = m.send
                          /\ KeyOf[c.row] = KeyOf[m.row]
<1>1. Removed(q) \subseteq table
      /\ table' = (table \ Removed(q)) \cup Updated(q) \cup Inserted(q)
  BY DEF LandMerge
<1>2. CASE c \in table \ Removed(q)
  BY <1>2 DEF CameFrom
<1>3. CASE c \in Updated(q)
  <2>1. UpdateAll
    BY <1>3 DEF Updated
  <2>2. PICK m \in Matched(q) : c = Replacing(q, m) /\ KeyOf[c.row] = KeyOf[m.row]
    BY <1>3, WhatMergesUpdate
  <2>3. m \in Removed(q) /\ m \in table
    BY <1>1, <2>1 DEF Removed
  <2>4. m \in Stored
    BY <2>3 DEF TypeInv, TypeOK
  <2>5. c.task = m.task /\ c.send = m.send
    BY <2>2, <2>4 DEF Replacing, Stored
  <2>. QED
    BY <2>2, <2>3, <2>5 DEF CameFrom
<1>. QED
  BY <1>1, <1>2, <1>3

LEMMA NextDiffer ==
  ASSUME Mode = "upsert", TypeInv, ProgressInv, SendsDiffer, [Next]_vars
  PROVE  SendsDiffer'
<1>1. \A q \in flight : q.task \in Task /\ q.send \in Nat /\ q.send <= sent[q.task]
  BY DEF ProgressInv, AwaitedIsCurrent, TypeInv, TypeOK, Request
<1>2. \A c \in table : /\ c.task \in Task \cup {Outside} /\ c.send \in Nat
                       /\ c.task # Outside => c.send <= sent[c.task]
  BY DEF SendsDiffer, TypeInv, TypeOK, Stored
<1>3. CASE flight' \subseteq flight /\ sent' = sent
  <2>1. CASE table' = table
    BY <1>3, <2>1 DEF SendsDiffer
  <2>2. ASSUME NEW q \in flight, LandMerge(q)
        PROVE  SendsDiffer'
    <3>1. flight' = flight \ {q}
      BY <2>2 DEF LandMerge, Finishes
    <3>2. \A c \in table' : \/ c.task = q.task /\ c.send = q.send
                            \/ \E m \in table : c.task = m.task /\ c.send = m.send
      BY <2>2, WhereCopiesComeFrom, WhatMergesInsert
    <3>3. ASSUME NEW c \in table', c.task # Outside
          PROVE  c.send <= sent'[c.task]
      <4>1. CASE c.task = q.task /\ c.send = q.send
        BY <1>1, <1>3, <4>1
      <4>2. ASSUME NEW m \in table, c.task = m.task, c.send = m.send
            PROVE  c.send <= sent'[c.task]
        BY <1>2, <1>3, <3>3, <4>2
      <4>. QED
        BY <3>2, <4>1, <4>2
    <3>4. \A p \in flight' : \A c \in table' : c.task = p.task => c.send # p.send
      BY <3>1, <3>2 DEF SendsDiffer
    <3>. QED
      BY <3>1, <3>3, <3>4 DEF SendsDiffer
  <2>3. ASSUME NEW r \in OtherRow, OtherAppends(r)
        PROVE  SendsDiffer'
    <3>1. \A c \in table' : c \in table \/ c.task = Outside
      BY <2>3 DEF OtherAppends, OutsideCopies
    <3>. QED
      BY <1>1, <1>3, <3>1, OutsideAssumption DEF SendsDiffer
  <2>. QED
    BY <2>1, <2>2, <2>3, HowTableChanges
<1>4. ASSUME NEW t \in Task, Send(t)
      PROVE  SendsDiffer'
  <2> DEFINE new == [task |-> t, send |-> sent[t] + 1, req |-> chunk[t],
                     read |-> FALSE, snap |-> {}]
  <2>1. flight' = flight \cup {new} /\ table' = table
    BY <1>4 DEF Send
  <2>2. new.task = t /\ new.send = sent[t] + 1
    OBVIOUS
  <2> HIDE DEF new
  <2>3. sent[t] \in Nat /\ \A u \in Task : sent'[u] = IF u = t THEN sent[t] + 1 ELSE sent[u]
    BY <1>4 DEF Send, TypeInv, TypeOK
  <2>4. \A q \in flight : q.task = t => q.send # new.send
    BY <1>1, <2>2, <2>3
  <2>5. \A c \in table : c.task = t => c.send # new.send
    BY <1>2, <2>2, <2>3, OutsideAssumption
  <2>6. ASSUME NEW c \in table, c.task # Outside
        PROVE  c.send <= sent'[c.task]
    <3>1. c.task \in Task /\ c.send \in Nat /\ c.send <= sent[c.task]
      BY <1>2, <2>6
    <3>2. CASE c.task = t
      BY <2>3, <3>1, <3>2
    <3>3. CASE c.task # t
      BY <2>3, <3>1, <3>3
    <3>. QED
      BY <3>2, <3>3
  <2>. QED
    BY <2>1, <2>2, <2>4, <2>5, <2>6 DEF SendsDiffer
<1>5. ASSUME NEW q \in flight, ReadVersion(q)
      PROVE  SendsDiffer'
  <2> DEFINE r == [q EXCEPT !.read = TRUE, !.snap = table]
  <2>1. r.task = q.task /\ r.send = q.send
    BY DEF TypeInv, TypeOK, Request
  <2>2. flight' = (flight \ {q}) \cup {r} /\ UNCHANGED <<table, sent>>
    BY <1>5 DEF ReadVersion, taskVars
  <2> HIDE DEF r
  <2>. QED
    BY <2>1, <2>2 DEF SendsDiffer
<1>. QED
  BY <1>3, <1>4, <1>5, HowFlightsMove

LEMMA NextNews ==
  ASSUME Mode = "upsert", KeysApart, OthersKeepKeys, TypeInv, ResendInv, [Next]_vars
  PROVE  NewsAreOwn'
<1>. SUFFICES ASSUME NEW q \in flight', q.read, NEW c \in table',
                     KeyOf[c.row] \in Keys(RowsOf(q))
              PROVE  c.task = q.task \/ \E m \in q.snap : KeyOf[m.row] = KeyOf[c.row]
  BY DEF NewsAreOwn, Keys, RowsOf
<1>1. ASSUME NEW p \in flight, ReadsNow(p, q)
      PROVE  c \in q.snap
  BY <1>1 DEF ReadsNow, ReadVersion, TypeInv, TypeOK, Request
<1>2. CASE q \in flight
  <2>1. CASE table' = table
    BY <1>2, <2>1 DEF ResendInv, NewsAreOwn
  <2>2. ASSUME NEW p \in flight, LandMerge(p)
        PROVE  c.task = q.task \/ \E m \in q.snap : KeyOf[m.row] = KeyOf[c.row]
    <3>1. CASE c \in Inserted(p)
      <4>1. c.row \in RowsOf(p) /\ c.task = p.task
        BY <3>1, WhatMergesInsert
      <4>2. /\ p.task \in Task /\ p.req \in DOMAIN Requests[p.task]
            /\ q.task \in Task /\ q.req \in DOMAIN Requests[q.task]
        BY <1>2 DEF TypeInv, TypeOK, ControlOK, Request
      <4>3. p.task = q.task
        BY <4>1, <4>2 DEF KeysApart, RowsOf, Keys
      <4>. QED
        BY <4>1, <4>3
    <3>2. CASE c \notin Inserted(p)
      <4>1. PICK m \in table : c.task = m.task /\ KeyOf[c.row] = KeyOf[m.row]
        BY <2>2, <3>2, WhereCopiesComeFrom
      <4>. QED
        BY <1>2, <4>1 DEF ResendInv, NewsAreOwn
    <3>. QED
      BY <3>1, <3>2
  <2>3. ASSUME NEW r \in OtherRow, OtherAppends(r)
        PROVE  c \in table
    <3>1. c \in table \/ c.row = r
      BY <2>3 DEF OtherAppends, OutsideCopies
    <3>2. KeyOf[c.row] \in SourceKeys
      BY <1>2, RowsOfAreSource
    <3>. QED
      BY <3>1, <3>2 DEF OthersKeepKeys
  <2>. QED
    BY <1>2, <2>1, <2>2, <2>3, HowTableChanges DEF ResendInv, NewsAreOwn
<1>. QED
  BY <1>1, <1>2, HowFlightsRead

(* A landing merge inserts under a key only what it has not matched.        *)
LEMMA LandingResends ==
  ASSUME TypeInv, ResendInv, NEW q \in flight, LandMerge(q),
         NEW c \in table', NEW d \in table', KeyOf[c.row] = KeyOf[d.row]
  PROVE  c = d \/ (c.task = d.task /\ c.send # d.send)
<1>1. q.read
  BY DEF LandMerge
<1>2. ASSUME NEW x \in Inserted(q), NEW y \in table', y \notin Inserted(q),
             KeyOf[x.row] = KeyOf[y.row]
      PROVE  x.task = y.task /\ x.send # y.send
  <2>1. x.row \in RowsOf(q) /\ x = [row |-> x.row, task |-> q.task, send |-> q.send]
    BY WhatMergesInsert
  <2>2. \A m \in q.snap : KeyOf[m.row] # KeyOf[x.row]
    BY WhatMergesInsert
  <2>3. PICK m \in table : y.task = m.task /\ y.send = m.send /\ KeyOf[y.row] = KeyOf[m.row]
    BY <1>2, WhereCopiesComeFrom
  <2>4. KeyOf[m.row] \in Keys(RowsOf(q))
    BY <1>2, <2>1, <2>3 DEF Keys
  <2>5. m.task = q.task
    BY <1>1, <1>2, <2>2, <2>3, <2>4 DEF ResendInv, NewsAreOwn
  <2>6. m.send # q.send
    BY <2>5 DEF ResendInv, SendsDiffer
  <2>7. x.task = q.task /\ x.send = q.send
    BY <2>1
  <2>. QED
    BY <2>3, <2>5, <2>6, <2>7
<1>3. CASE c \in Inserted(q) /\ d \in Inserted(q)
  <2>1. c.row = d.row
    BY <1>1, <1>3, WhatMergesInsert DEF ResendInv, ReadIsUnambiguous, RepeatsKey
  <2>. QED
    BY <1>3, <2>1, WhatMergesInsert
<1>4. CASE c \notin Inserted(q) /\ d \notin Inserted(q)
  <2>1. PICK m \in table : /\ CameFrom(q, c, m) /\ KeyOf[c.row] = KeyOf[m.row]
                           /\ c.task = m.task /\ c.send = m.send
    BY <1>4, WhereCopiesComeFrom
  <2>2. PICK n \in table : /\ CameFrom(q, d, n) /\ KeyOf[d.row] = KeyOf[n.row]
                           /\ d.task = n.task /\ d.send = n.send
    BY <1>4, WhereCopiesComeFrom
  <2>3. CASE m = n
    BY <2>1, <2>2, <2>3 DEF CameFrom
  <2>4. CASE m # n
    <3>1. KeyOf[m.row] = KeyOf[n.row]
      BY <2>1, <2>2
    <3>2. m.task = n.task /\ m.send # n.send
      BY <2>4, <3>1 DEF ResendInv, RepeatsAreResends
    <3>. QED
      BY <2>1, <2>2, <3>2
  <2>. QED
    BY <2>3, <2>4
<1>. QED
  BY <1>2, <1>3, <1>4

LEMMA NextResends ==
  ASSUME Mode = "upsert", OthersKeepKeys, TypeInv, ResendInv, [Next]_vars
  PROVE  RepeatsAreResends'
<1>1. CASE table' = table
  BY <1>1 DEF ResendInv, RepeatsAreResends
<1>2. ASSUME NEW q \in flight, LandMerge(q)
      PROVE  RepeatsAreResends'
  BY <1>2, LandingResends DEF RepeatsAreResends
<1>3. ASSUME NEW r \in OtherRow, OtherAppends(r)
      PROVE  RepeatsAreResends'
  <2>1. ASSUME NEW c \in table
        PROVE  KeyOf[c.row] # KeyOf[r]
    <3>1. c.row # r
      BY <1>3 DEF OtherAppends
    <3>2. c.row \in SourceRow => KeyOf[c.row] \in SourceKeys
      BY DEF SourceKeys, Keys
    <3>. QED
      BY <3>1, <3>2 DEF ResendInv, RowsAreKnown, OthersKeepKeys
  <2>2. \A c \in table' : c \in table \/ c = [row |-> r, task |-> Outside, send |-> 0]
    BY <1>3 DEF OtherAppends, OutsideCopies
  <2>. QED
    BY <2>1, <2>2 DEF ResendInv, RepeatsAreResends
<1>. QED
  BY <1>1, <1>2, <1>3, HowTableChanges

(***************************************************************************)
(* However late a request lands that its client has given up on and sent    *)
(* again: if the tasks of an upsert hold different keys, a key is stored    *)
(* twice only by two sendings of one task, under any flags, errors, retries *)
(* and replays, any number of tasks at once, and other writers of other     *)
(* keys.                                                                    *)
(***************************************************************************)
THEOREM RepeatsResent ==
  ASSUME Mode = "upsert", KeysApart, OthersKeepKeys
  PROVE  Spec => []RepeatsAreResends
<1>1. Init => TypeInv /\ ProgressInv /\ ResendInv
  BY InitType, InitProgress, InitResend
<1>2. TypeInv /\ ProgressInv /\ ResendInv /\ [Next]_vars
        => (TypeInv /\ ProgressInv /\ ResendInv)'
  <2>. SUFFICES ASSUME TypeInv, ProgressInv, ResendInv, [Next]_vars
                PROVE  (TypeInv /\ ProgressInv /\ ResendInv)'
    OBVIOUS
  <2>1. ReadIsUnambiguous' /\ RowsAreKnown' /\ SendsDiffer'
    BY NextUnambiguous, NextKnown, NextDiffer DEF ResendInv
  <2>2. NewsAreOwn' /\ RepeatsAreResends'
    BY NextNews, NextResends
  <2>. QED
    BY <2>1, <2>2, NextType, NextProgress DEF ResendInv
<1>3. ResendInv => RepeatsAreResends
  BY DEF ResendInv
<1>. QED
  BY <1>1, <1>2, <1>3, PTL DEF Spec

=============================================================================
