--------------------------- MODULE DatasinkProofs ---------------------------
(***************************************************************************)
(* Proofs about Datasink, for every value of its constants.                 *)
(***************************************************************************)
EXTENDS Datasink, FiniteSetTheorems, TLAPS

(***************************************************************************)
(* The control part of the state: a task that is at work is at one of its   *)
(* requests, and a request in flight is one of its task's.                  *)
(***************************************************************************)
ControlOK ==
  /\ \A t \in Task : pc[t] = "pending" => chunk[t] = 1
  /\ \A t \in Task :
       pc[t] \in {"ready", "waiting", "landed"} => chunk[t] \in DOMAIN Requests[t]
  /\ \A q \in flight : q.req \in DOMAIN Requests[q.task]

TypeInv == TypeOK /\ ControlOK

(* A task's requests are sets of rows, indexed from 1 on.                   *)
LEMMA RequestsType ==
  ASSUME NEW t \in Task
  PROVE  /\ Len(Requests[t]) \in Nat
         /\ DOMAIN Requests[t] = 1..Len(Requests[t])
         /\ \A i \in DOMAIN Requests[t] : Requests[t][i] \subseteq Row /\ Requests[t][i] # {}
BY RequestsAssumption

(* Requests in flight carry rows.                                           *)
LEMMA RowsOfType ==
  ASSUME TypeInv, NEW q \in flight
  PROVE  RowsOf(q) \subseteq Row
<1>1. q.task \in Task /\ q.req \in DOMAIN Requests[q.task]
  BY DEF TypeInv, TypeOK, ControlOK, Request
<1>. QED
  BY <1>1, RequestsType DEF RowsOf

(* Whatever call_with_retry, the realigning and on_batch_error make of an   *)
(* error, the task's variables keep their types.                            *)
LEMMA HandleErrorType ==
  ASSUME TypeInv, NEW t \in Task, NEW e, pc[t] \in {"ready", "waiting", "landed"},
         HandleError(t, e)
  PROVE  /\ pc' \in [Task -> {"pending", "ready", "waiting", "landed", "done", "failed"}]
         /\ chunk' \in [Task -> Nat \ {0}]
         /\ attempt' \in [Task -> 1..MaxAttempts]
         /\ realigned' \in [Task -> BOOLEAN]
         /\ written' \in [Task -> SUBSET Nat]
         /\ skipped' \in [Task -> SUBSET Nat]
         /\ \A u \in Task : pc'[u] = "pending" => chunk'[u] = 1
         /\ \A u \in Task :
              pc'[u] \in {"ready", "waiting", "landed"} => chunk'[u] \in DOMAIN Requests[u]
<1>. USE DEF TypeInv, TypeOK, ControlOK
<1>1. CASE Retries(t, e)
  BY <1>1, MaxAttemptsAssumption DEF Retries, Retryable, RetriesAgain
<1>2. CASE Realigns(t, e)
  BY <1>2, MaxAttemptsAssumption DEF Realigns
<1>3. CASE Raises(t, e)
  BY <1>3 DEF Raises
<1>4. CASE Skips(t, e)
  BY <1>4, RequestsType, MaxAttemptsAssumption DEF Skips, MovesOn
<1>. QED
  BY <1>1, <1>2, <1>3, <1>4 DEF HandleError

-----------------------------------------------------------------------------
(* Type correctness. *)

LEMMA OutsideCopiesType ==
  ASSUME NEW rows, rows \subseteq Row
  PROVE  OutsideCopies(rows) \subseteq Stored
BY DEF OutsideCopies, Stored

LEMMA InitType == Init => TypeInv
<1>. SUFFICES ASSUME Init
              PROVE  TypeInv
  OBVIOUS
<1>1. table \subseteq Stored
  BY OutsideCopiesType, RowAssumption DEF Init
<1>2. job \in {"start", "listed", "writing", "complete", "failed"}
      /\ listing \in BOOLEAN /\ owner \in {"none", "other", "job"} /\ flight \subseteq Request
  BY DEF Init
<1>3. 1 \in 1..MaxAttempts
  BY MaxAttemptsAssumption
<1>. QED
  BY <1>1, <1>2, <1>3 DEF Init, TypeInv, TypeOK, ControlOK

(* Requests that stay in flight stay well-formed.                           *)
LEMMA FewerInFlight ==
  ASSUME TypeInv, flight' \subseteq flight
  PROVE  flight' \subseteq Request /\ \A q \in flight' : q.req \in DOMAIN Requests[q.task]
BY DEF TypeInv, TypeOK, ControlOK

(* Steps in which task t meets an error.                                    *)
LEMMA ErrorStepType ==
  ASSUME TypeInv, NEW t \in Task, NEW e, pc[t] \in {"ready", "waiting", "landed"},
         HandleError(t, e), flight' \subseteq flight, table' = table
  PROVE  TypeInv'
<1>1. UNCHANGED <<job, listing, owner, sent, replays>>
  BY DEF HandleError
<1>2. flight' \subseteq Request /\ \A q \in flight' : q.req \in DOMAIN Requests[q.task]
  BY FewerInFlight
<1>. QED
  BY <1>1, <1>2, HandleErrorType DEF TypeInv, TypeOK, ControlOK

LEMMA FinishesType ==
  ASSUME TypeInv, NEW q \in flight, Finishes(q), table' \subseteq Stored
  PROVE  TypeInv'
<1>1. flight' \subseteq flight
  BY DEF Finishes
<1>2. flight' \subseteq Request /\ \A r \in flight' : r.req \in DOMAIN Requests[r.task]
  BY <1>1, FewerInFlight
<1>3. q.task \in Task
  BY DEF TypeInv, TypeOK, Request
<1>. QED
  BY <1>2, <1>3 DEF Finishes, Awaited, TypeInv, TypeOK, ControlOK

(* What a request inserts are stored rows.                                  *)
LEMMA CopiesType ==
  ASSUME TypeInv, NEW q \in flight, NEW rows, rows \subseteq RowsOf(q)
  PROVE  Copies(rows, q.task, q.send) \subseteq Stored
<1>1. q.task \in Task /\ q.send \in Nat
  BY DEF TypeInv, TypeOK, Request
<1>. QED
  BY <1>1, RowsOfType DEF Copies, Stored

(* What a merge leaves in place of the rows it updates are stored rows.     *)
LEMMA UpdatedType ==
  ASSUME TypeInv, NEW q \in flight
  PROVE  Updated(q) \subseteq Stored
<1>1. SUFFICES ASSUME NEW c \in Matched(q)
               PROVE  [c EXCEPT !.row = CHOOSE r \in RowsOf(q) : KeyOf[r] = KeyOf[c.row]]
                        \in Stored
  BY DEF Updated
<1>2. c \in Stored
  BY DEF Matched, TypeInv, TypeOK, Request
<1>3. \E r \in RowsOf(q) : KeyOf[r] = KeyOf[c.row]
  BY DEF Matched, Keys
<1>4. (CHOOSE r \in RowsOf(q) : KeyOf[r] = KeyOf[c.row]) \in Row
  BY <1>3, RowsOfType
<1>. QED
  BY <1>2, <1>4 DEF Stored

LEMMA NextType == TypeInv /\ [Next]_vars => TypeInv'
<1>. SUFFICES ASSUME TypeInv, [Next]_vars
              PROVE  TypeInv'
  OBVIOUS
<1>1. CASE Driver
  BY <1>1 DEF Driver, ListTables, RefuseTable, PrepareTable, StartFails, FailJob,
              OnWriteComplete, taskVars, TypeInv, TypeOK, ControlOK
<1>2. ASSUME NEW t \in Task, Starts(t)
      PROVE  TypeInv'
  <2>1. Requests[t] # <<>> => 1 \in DOMAIN Requests[t]
    BY RequestsAssumption
  <2>. QED
    BY <1>2, <2>1 DEF Starts, StartTask, StartTaskFails, TypeInv, TypeOK, ControlOK
<1>3. ASSUME NEW t \in Task, Send(t)
      PROVE  TypeInv'
  <2>1. chunk[t] \in DOMAIN Requests[t] /\ chunk[t] \in Nat /\ sent[t] + 1 \in Nat
    BY <1>3 DEF Send, TypeInv, TypeOK, ControlOK
  <2> DEFINE new == [task |-> t, send |-> sent[t] + 1, req |-> chunk[t],
                     read |-> FALSE, snap |-> {}]
  <2>2. new \in Request /\ new.req \in DOMAIN Requests[new.task]
    BY <2>1 DEF Request
  <2>3. flight' = flight \cup {new}
    BY <1>3 DEF Send
  <2>4. flight' \subseteq Request /\ \A q \in flight' : q.req \in DOMAIN Requests[q.task]
    BY <2>2, <2>3 DEF TypeInv, TypeOK, ControlOK
  <2> HIDE DEF new
  <2>. QED
    BY <1>3, <2>1, <2>4 DEF Send, TypeInv, TypeOK, ControlOK
<1>4. ASSUME NEW t \in Task, NEW e, Misaligned(t, e) \/ LoseReply(t, e)
      PROVE  TypeInv'
  BY <1>4, ErrorStepType DEF Misaligned, LoseReply
<1>5. ASSUME NEW t \in Task, Reply(t)
      PROVE  TypeInv'
  BY <1>5, RequestsType, MaxAttemptsAssumption DEF Reply, MovesOn, TypeInv, TypeOK, ControlOK
<1>6. ASSUME NEW t \in Task, WorkerDies(t) \/ TaskKilled(t)
      PROVE  TypeInv'
  <2>1. flight' \subseteq flight
    BY <1>6 DEF WorkerDies, TaskKilled, StopsRunning
  <2>2. flight' \subseteq Request /\ \A q \in flight' : q.req \in DOMAIN Requests[q.task]
    BY <2>1, FewerInFlight
  <2>3. CASE WorkerDies(t)
    <3>1. 1 \in 1..MaxAttempts
      BY MaxAttemptsAssumption
    <3>. QED
      BY <2>2, <2>3, <3>1 DEF WorkerDies, StopsRunning, TypeInv, TypeOK, ControlOK
  <2>4. CASE TaskKilled(t)
    BY <2>2, <2>4 DEF TaskKilled, StopsRunning, TypeInv, TypeOK, ControlOK
  <2>. QED
    BY <1>6, <2>3, <2>4
<1>7. ASSUME NEW q \in flight, NEW e, TimeOut(q, e) \/ Reject(q, e)
      PROVE  TypeInv'
  <2>1. q.task \in Task
    BY DEF TypeInv, TypeOK, Request
  <2>2. flight' \subseteq flight /\ table' = table /\ HandleError(q.task, e)
        /\ pc[q.task] = "waiting"
    BY <1>7 DEF TimeOut, Reject, Awaited
  <2>. QED
    BY <2>1, <2>2, ErrorStepType
<1>8. ASSUME NEW q \in flight, CommitConflict(q) \/ RejectAmbiguousMerge(q)
      PROVE  TypeInv'
  <2>1. q.task \in Task
    BY DEF TypeInv, TypeOK, Request
  <2>2. flight' \subseteq flight /\ table' = table /\ pc[q.task] = "waiting"
    BY <1>8 DEF CommitConflict, RejectAmbiguousMerge, Awaited
  <2>3. PICK e : HandleError(q.task, e)
    BY <1>8, Zenon DEF CommitConflict, RejectAmbiguousMerge
  <2>. QED
    BY <2>1, <2>2, <2>3, ErrorStepType
<1>9. ASSUME NEW q \in flight, LandAdd(q)
      PROVE  TypeInv'
  <2>1. table' \subseteq Stored
    BY <1>9, CopiesType DEF LandAdd, TypeInv, TypeOK
  <2>. QED
    BY <1>9, <2>1, FinishesType DEF LandAdd
<1>10. ASSUME NEW q \in flight, ReadVersion(q)
       PROVE  TypeInv'
  <2>1. [q EXCEPT !.read = TRUE, !.snap = table] \in Request
    BY DEF TypeInv, TypeOK, Request
  <2>2. [q EXCEPT !.read = TRUE, !.snap = table].req = q.req
        /\ [q EXCEPT !.read = TRUE, !.snap = table].task = q.task
    BY DEF TypeInv, TypeOK, Request
  <2>3. flight' \subseteq Request /\ \A r \in flight' : r.req \in DOMAIN Requests[r.task]
    BY <1>10, <2>1, <2>2 DEF ReadVersion, TypeInv, TypeOK, ControlOK
  <2>. QED
    BY <1>10, <2>3 DEF ReadVersion, taskVars, TypeInv, TypeOK, ControlOK
<1>11. ASSUME NEW q \in flight, LandMerge(q)
       PROVE  TypeInv'
  <2>1. Inserted(q) \subseteq Stored
    BY CopiesType DEF Inserted
  <2>2. table' \subseteq Stored
    BY <1>11, <2>1, UpdatedType DEF LandMerge, TypeInv, TypeOK
  <2>. QED
    BY <1>11, <2>2, FinishesType DEF LandMerge
<1>12. ASSUME NEW q \in flight, DropLate(q)
       PROVE  TypeInv'
  <2>1. flight' \subseteq flight
    BY <1>12 DEF DropLate
  <2>. QED
    BY <1>12, <2>1, FewerInFlight DEF DropLate, taskVars, TypeInv, TypeOK, ControlOK
<1>13. CASE OtherCreates
  BY <1>13 DEF OtherCreates, taskVars, TypeInv, TypeOK, ControlOK
<1>14. ASSUME NEW r \in OtherRow, OtherAppends(r)
       PROVE  TypeInv'
  <2>1. OutsideCopies({r}) \subseteq Stored
    BY OutsideCopiesType, RowAssumption
  <2>. QED
    BY <1>14, <2>1 DEF OtherAppends, taskVars, TypeInv, TypeOK, ControlOK
<1>15. CASE UNCHANGED vars
  BY <1>15 DEF vars, taskVars, TypeInv, TypeOK, ControlOK
<1>. QED
  BY <1>1, <1>2, <1>3, <1>4, <1>5, <1>6, <1>7, <1>8, <1>9, <1>10, <1>11, <1>12,
     <1>13, <1>14, <1>15
  DEF Next, Client, Answer, Idle

(* The variables keep their types, a working task is at one of its own      *)
(* requests, and only requests of the job are ever in flight.               *)
THEOREM TypeCorrect == Spec => []TypeOK
<1>1. TypeInv => TypeOK
  BY DEF TypeInv
<1>. QED
  BY <1>1, InitType, NextType, PTL DEF Spec

-----------------------------------------------------------------------------
(* Progress: what the statistics and the control variables say. *)

(* Before the tasks start there is nothing to lose; then every request a    *)
(* task has left behind is counted in one of the two statistics.            *)
Untouched == job \in {"start", "listed"} => \A t \in Task : pc[t] = "pending"

NothingCounted == \A t \in Task : pc[t] = "pending" => written[t] = {} /\ skipped[t] = {}

Counted ==
  \A t \in Task :
    /\ written[t] \cup skipped[t] = {i \in DOMAIN Requests[t] : i < chunk[t]}
    /\ written[t] \cap skipped[t] = {}

DoneIsThrough == \A t \in Task : pc[t] = "done" => chunk[t] > Len(Requests[t])

CompleteIsDone == job = "complete" => \A t \in Task : pc[t] = "done"

(* The request a task waits for is the last it sent, and the current one.   *)
AwaitedIsCurrent ==
  \A q \in flight : q.send <= sent[q.task] /\ (Awaited(q) => q.req = chunk[q.task])

ProgressInv ==
  /\ Untouched /\ NothingCounted /\ Counted /\ DoneIsThrough /\ CompleteIsDone
  /\ AwaitedIsCurrent

LEMMA InitProgress == Init => ProgressInv
<1>. SUFFICES ASSUME Init
              PROVE  ProgressInv
  OBVIOUS
<1>1. Untouched /\ NothingCounted /\ DoneIsThrough /\ CompleteIsDone /\ AwaitedIsCurrent
  BY DEF Init, Untouched, NothingCounted, DoneIsThrough, CompleteIsDone, AwaitedIsCurrent
<1>2. Counted
  BY RequestsType DEF Init, Counted
<1>. QED
  BY <1>1, <1>2 DEF ProgressInv

(* Steps that leave a task's statistics and position alone.                 *)
LEMMA SameProgress ==
  ASSUME TypeInv, ProgressInv, UNCHANGED <<pc, chunk, written, skipped, sent>>,
         \A q \in flight' : \E p \in flight : p.task = q.task /\ p.send = q.send /\ p.req = q.req,
         job' \in {"start", "listed"} => job \in {"start", "listed"},
         job' = "complete" => job = "complete" \/ \A t \in Task : pc[t] = "done"
  PROVE  ProgressInv'
<1>. USE DEF ProgressInv
<1>1. Untouched' /\ NothingCounted' /\ Counted' /\ DoneIsThrough' /\ CompleteIsDone'
  BY DEF Untouched, NothingCounted, Counted, DoneIsThrough, CompleteIsDone
<1>2. AwaitedIsCurrent'
  BY DEF AwaitedIsCurrent, Awaited
<1>. QED
  BY <1>1, <1>2

(* What an error of task t can disturb.                                     *)
LEMMA ErrorStepProgress ==
  ASSUME TypeInv, ProgressInv, NEW t \in Task, NEW e,
         pc[t] \in {"ready", "waiting", "landed"}, HandleError(t, e), flight' \subseteq flight
  PROVE  ProgressInv'
<1>. USE DEF ProgressInv
<1>1. job' = job /\ written' = written
  BY DEF HandleError, Retries, Realigns, Raises, Skips
<1>2. pc' = [pc EXCEPT ![t] = pc'[t]] /\ pc'[t] \in {"ready", "done", "failed"}
  BY DEF HandleError, Retries, Realigns, Raises, Skips, MovesOn, TypeInv, TypeOK
<1>3. Untouched' /\ NothingCounted' /\ CompleteIsDone'
  BY <1>1, <1>2 DEF Untouched, NothingCounted, CompleteIsDone, TypeInv, TypeOK,
     HandleError, Retries, Realigns, Raises, Skips
<1>4. Counted' /\ DoneIsThrough'
  <2>1. CASE Retries(t, e) \/ Realigns(t, e) \/ Raises(t, e)
    BY <2>1, <1>1, <1>2 DEF Retries, Realigns, Raises, Counted, DoneIsThrough, TypeInv, TypeOK
  <2>2. CASE Skips(t, e)
    <3>1. chunk[t] \in DOMAIN Requests[t] /\ DOMAIN Requests[t] = 1..Len(Requests[t])
          /\ Len(Requests[t]) \in Nat
      BY RequestsType DEF TypeInv, ControlOK
    <3>2. {i \in DOMAIN Requests[t] : i < chunk[t] + 1}
            = {i \in DOMAIN Requests[t] : i < chunk[t]} \cup {chunk[t]}
      BY <3>1
    <3>3. Counted'
      BY <2>2, <1>1, <3>1, <3>2 DEF Skips, MovesOn, Counted, TypeInv, TypeOK
    <3>4. DoneIsThrough'
      BY <2>2, <3>1 DEF Skips, MovesOn, DoneIsThrough, TypeInv, TypeOK
    <3>. QED
      BY <3>3, <3>4
  <2>. QED
    BY <2>1, <2>2 DEF HandleError
<1>5. AwaitedIsCurrent'
  <2>1. sent' = sent /\ pc'[t] # "waiting"
    BY <1>2 DEF HandleError
  <2>2. \A u \in Task \ {t} : pc'[u] = pc[u] /\ chunk'[u] = chunk[u]
    BY <1>2 DEF TypeInv, TypeOK, HandleError, Retries, Realigns, Raises, Skips, MovesOn
  <2>3. \A q \in flight' : q.task \in Task
    BY DEF TypeInv, TypeOK, Request
  <2>. QED
    BY <2>1, <2>2, <2>3 DEF AwaitedIsCurrent, Awaited
<1>. QED
  BY <1>3, <1>4, <1>5

LEMMA ReplyProgress ==
  ASSUME TypeInv, ProgressInv, NEW t \in Task, Reply(t)
  PROVE  ProgressInv'
<1>. USE DEF ProgressInv
<1>1. chunk[t] \in DOMAIN Requests[t] /\ DOMAIN Requests[t] = 1..Len(Requests[t])
      /\ Len(Requests[t]) \in Nat
  BY RequestsType DEF Reply, TypeInv, ControlOK
<1>2. {i \in DOMAIN Requests[t] : i < chunk[t] + 1}
        = {i \in DOMAIN Requests[t] : i < chunk[t]} \cup {chunk[t]}
  BY <1>1
<1>3. Counted'
  BY <1>1, <1>2 DEF Reply, MovesOn, Counted, TypeInv, TypeOK
<1>4. Untouched' /\ NothingCounted' /\ CompleteIsDone' /\ DoneIsThrough'
  BY <1>1 DEF Reply, MovesOn, Untouched, NothingCounted, CompleteIsDone, DoneIsThrough,
     TypeInv, TypeOK
<1>5. AwaitedIsCurrent'
  <2>1. \A u \in Task \ {t} : pc'[u] = pc[u] /\ chunk'[u] = chunk[u]
    BY DEF TypeInv, TypeOK, Reply, MovesOn
  <2>2. pc'[t] # "waiting"
    BY DEF Reply, MovesOn, TypeInv, TypeOK
  <2>3. \A q \in flight' : q.task \in Task
    BY DEF TypeInv, TypeOK, Request, Reply
  <2>. QED
    BY <2>1, <2>2, <2>3 DEF AwaitedIsCurrent, Awaited, Reply
<1>. QED
  BY <1>3, <1>4, <1>5

LEMMA FinishesProgress ==
  ASSUME TypeInv, ProgressInv, NEW q \in flight, Finishes(q)
  PROVE  ProgressInv'
<1>. USE DEF ProgressInv
<1>1. q.task \in Task
  BY DEF TypeInv, TypeOK, Request
<1>2. Untouched' /\ NothingCounted' /\ CompleteIsDone' /\ DoneIsThrough' /\ Counted'
  BY <1>1 DEF Finishes, Awaited, Untouched, NothingCounted, CompleteIsDone, DoneIsThrough,
     Counted, TypeInv, TypeOK
<1>3. AwaitedIsCurrent'
  BY <1>1 DEF Finishes, AwaitedIsCurrent, Awaited, TypeInv, TypeOK, Request
<1>. QED
  BY <1>2, <1>3

LEMMA SendProgress ==
  ASSUME TypeInv, ProgressInv, NEW t \in Task, Send(t)
  PROVE  ProgressInv'
<1>. USE DEF ProgressInv
<1>1. Untouched' /\ NothingCounted' /\ Counted' /\ DoneIsThrough' /\ CompleteIsDone'
  BY DEF Send, Untouched, NothingCounted, Counted, DoneIsThrough, CompleteIsDone, TypeInv,
     TypeOK
<1>2. AwaitedIsCurrent'
  <2>1. ASSUME NEW q \in flight, q \in flight'
        PROVE  q.send <= sent'[q.task] /\ (Awaited(q)' => q.req = chunk'[q.task])
    BY <2>1 DEF Send, AwaitedIsCurrent, Awaited, TypeInv, TypeOK, Request
  <2>2. ASSUME NEW q \in flight', q \notin flight
        PROVE  q.send <= sent'[q.task] /\ (Awaited(q)' => q.req = chunk'[q.task])
    BY <2>2 DEF Send, Awaited, TypeInv, TypeOK
  <2>. QED
    BY <2>1, <2>2 DEF AwaitedIsCurrent
<1>. QED
  BY <1>1, <1>2

LEMMA StopProgress ==
  ASSUME TypeInv, ProgressInv, NEW t \in Task, WorkerDies(t) \/ TaskKilled(t)
  PROVE  ProgressInv'
<1>. USE DEF ProgressInv
<1>1. flight' \subseteq flight /\ UNCHANGED <<job, table, sent>>
      /\ pc'[t] \in {"pending", "failed"}
      /\ \A u \in Task \ {t} : pc'[u] = pc[u] /\ chunk'[u] = chunk[u]
                               /\ written'[u] = written[u] /\ skipped'[u] = skipped[u]
  BY DEF WorkerDies, TaskKilled, StopsRunning, TypeInv, TypeOK
<1>2. \/ written'[t] = {} /\ skipped'[t] = {} /\ chunk'[t] = 1
      \/ written'[t] = written[t] /\ skipped'[t] = skipped[t] /\ chunk'[t] = chunk[t]
         /\ pc'[t] = "failed"
  BY DEF WorkerDies, TaskKilled, TypeInv, TypeOK
<1>3. pc[t] # "done" /\ (job \in {"start", "listed"} => pc'[t] = "pending")
  BY DEF WorkerDies, TaskKilled, Running, Untouched
<1>4. Untouched' /\ NothingCounted' /\ DoneIsThrough' /\ CompleteIsDone'
  BY <1>1, <1>2, <1>3 DEF Untouched, NothingCounted, DoneIsThrough, CompleteIsDone
<1>5. Counted'
  BY <1>1, <1>2, RequestsType DEF Counted
<1>6. \A q \in flight' : q.task \in Task
  BY <1>1 DEF TypeInv, TypeOK, Request
<1>7. AwaitedIsCurrent'
  BY <1>1, <1>6 DEF AwaitedIsCurrent, Awaited
<1>. QED
  BY <1>4, <1>5, <1>7

LEMMA StartsProgress ==
  ASSUME TypeInv, ProgressInv, NEW t \in Task, Starts(t)
  PROVE  ProgressInv'
<1>. USE DEF ProgressInv
<1>1. Requests[t] = <<>> => chunk[t] > Len(Requests[t])
  BY RequestsType DEF TypeInv, TypeOK
<1>2. /\ UNCHANGED <<job, table, flight, chunk, sent, written, skipped>>
      /\ job = "writing" /\ pc[t] = "pending"
      /\ pc'[t] \in {"ready", "done", "failed"}
      /\ pc'[t] = "done" => Requests[t] = <<>>
      /\ \A u \in Task \ {t} : pc'[u] = pc[u]
  BY DEF Starts, StartTask, StartTaskFails, TypeInv, TypeOK
<1>3. Untouched' /\ NothingCounted' /\ Counted' /\ DoneIsThrough' /\ CompleteIsDone'
  BY <1>1, <1>2 DEF Untouched, NothingCounted, Counted, DoneIsThrough, CompleteIsDone
<1>4. \A q \in flight : q.task \in Task
  BY DEF TypeInv, TypeOK, Request
<1>5. AwaitedIsCurrent'
  BY <1>2, <1>4 DEF AwaitedIsCurrent, Awaited
<1>. QED
  BY <1>3, <1>5

LEMMA NextProgress == TypeInv /\ ProgressInv /\ [Next]_vars => ProgressInv'
<1>. SUFFICES ASSUME TypeInv, ProgressInv, [Next]_vars
              PROVE  ProgressInv'
  OBVIOUS
<1>1. CASE Driver
  <2>1. UNCHANGED <<flight, taskVars>>
        /\ (job' \in {"start", "listed"} => job \in {"start", "listed"})
        /\ (job' = "complete" => job = "complete" \/ \A t \in Task : pc[t] = "done")
    BY <1>1 DEF Driver, ListTables, RefuseTable, PrepareTable, StartFails, FailJob,
       OnWriteComplete
  <2>. QED
    BY <2>1, SameProgress DEF taskVars
<1>2. ASSUME NEW t \in Task, Starts(t)
      PROVE  ProgressInv'
  BY <1>2, StartsProgress
<1>3. ASSUME NEW t \in Task, Send(t) \/ Reply(t)
      PROVE  ProgressInv'
  BY <1>3, SendProgress, ReplyProgress
<1>4. ASSUME NEW t \in Task, NEW e, Misaligned(t, e) \/ LoseReply(t, e)
      PROVE  ProgressInv'
  BY <1>4, ErrorStepProgress DEF Misaligned, LoseReply
<1>5. ASSUME NEW t \in Task, WorkerDies(t) \/ TaskKilled(t)
      PROVE  ProgressInv'
  BY <1>5, StopProgress
<1>6. ASSUME NEW q \in flight, NEW e, TimeOut(q, e) \/ Reject(q, e)
      PROVE  ProgressInv'
  <2>1. q.task \in Task
    BY DEF TypeInv, TypeOK, Request
  <2>2. flight' \subseteq flight /\ HandleError(q.task, e) /\ pc[q.task] = "waiting"
    BY <1>6 DEF TimeOut, Reject, Awaited
  <2>. QED
    BY <2>1, <2>2, ErrorStepProgress
<1>7. ASSUME NEW q \in flight, CommitConflict(q) \/ RejectAmbiguousMerge(q)
      PROVE  ProgressInv'
  <2>1. q.task \in Task
    BY DEF TypeInv, TypeOK, Request
  <2>2. flight' \subseteq flight /\ pc[q.task] = "waiting"
    BY <1>7 DEF CommitConflict, RejectAmbiguousMerge, Awaited
  <2>3. PICK e : HandleError(q.task, e)
    BY <1>7, Zenon DEF CommitConflict, RejectAmbiguousMerge
  <2>. QED
    BY <2>1, <2>2, <2>3, ErrorStepProgress
<1>8. ASSUME NEW q \in flight, LandAdd(q) \/ LandMerge(q)
      PROVE  ProgressInv'
  BY <1>8, FinishesProgress DEF LandAdd, LandMerge
<1>9. ASSUME NEW q \in flight, ReadVersion(q)
      PROVE  ProgressInv'
  <2> DEFINE r == [q EXCEPT !.read = TRUE, !.snap = table]
  <2>1. r.task = q.task /\ r.send = q.send /\ r.req = q.req
    BY DEF TypeInv, TypeOK, Request
  <2>2. flight' = (flight \ {q}) \cup {r} /\ UNCHANGED <<job, taskVars>>
    BY <1>9 DEF ReadVersion
  <2> HIDE DEF r
  <2>. QED
    BY <2>1, <2>2, SameProgress DEF taskVars
<1>10. ASSUME NEW q \in flight, DropLate(q)
       PROVE  ProgressInv'
  BY <1>10, SameProgress DEF DropLate, taskVars
<1>11. CASE OtherCreates \/ (\E r \in OtherRow : OtherAppends(r)) \/ UNCHANGED vars
  BY <1>11, SameProgress DEF OtherCreates, OtherAppends, taskVars, vars
<1>. QED
  BY <1>1, <1>2, <1>3, <1>4, <1>5, <1>6, <1>7, <1>8, <1>9, <1>10, <1>11
  DEF Next, Client, Answer, Idle

(***************************************************************************)
(* In every mode, a request comes to be counted as written only by landing  *)
(* while its task waits for it.                                             *)
(***************************************************************************)
LandsNow(t) == \E q \in flight : q.task = t /\ q.req = chunk'[t] /\ (LandAdd(q) \/ LandMerge(q))

CountsWhatLanded(t) ==
  /\ \A i \in written'[t] : i \in written[t] \/ (pc[t] = "landed" /\ i = chunk[t])
  /\ pc'[t] = "landed" => (pc[t] = "landed" /\ chunk'[t] = chunk[t]) \/ LandsNow(t)

LEMMA HowRequestsLand ==
  ASSUME TypeInv, ProgressInv, [Next]_vars, NEW t \in Task
  PROVE  CountsWhatLanded(t)
<1>1. ASSUME UNCHANGED <<pc, chunk, written>>
      PROVE  CountsWhatLanded(t)
  BY <1>1 DEF CountsWhatLanded
<1>2. ASSUME NEW u \in Task, pc'[u] # "landed", written'[u] \subseteq written[u],
             t # u => pc'[t] = pc[t] /\ chunk'[t] = chunk[t] /\ written'[t] = written[t]
      PROVE  CountsWhatLanded(t)
  BY <1>2 DEF CountsWhatLanded
<1>3. ASSUME NEW u \in Task, NEW e, HandleError(u, e), pc[u] # "landed" \/ table' = table
      PROVE  CountsWhatLanded(t)
  <2>1. pc'[u] # "landed" /\ written' = written
        /\ (t # u => pc'[t] = pc[t] /\ chunk'[t] = chunk[t])
    BY <1>3 DEF HandleError, Retries, Realigns, Raises, Skips, MovesOn, TypeInv, TypeOK
  <2>. QED
    BY <1>2, <2>1
<1>4. CASE Driver
  BY <1>1, <1>4 DEF Driver, ListTables, RefuseTable, PrepareTable, StartFails, FailJob,
     OnWriteComplete, taskVars
<1>5. ASSUME NEW u \in Task, Starts(u) \/ Send(u) \/ WorkerDies(u) \/ TaskKilled(u)
      PROVE  CountsWhatLanded(t)
  <2>1. pc'[u] # "landed" /\ written'[u] \subseteq written[u]
        /\ (t # u => pc'[t] = pc[t] /\ chunk'[t] = chunk[t] /\ written'[t] = written[t])
    BY <1>5 DEF Starts, StartTask, StartTaskFails, Send, WorkerDies, TaskKilled, TypeInv, TypeOK
  <2>. QED
    BY <1>2, <2>1
<1>6. ASSUME NEW u \in Task, Reply(u)
      PROVE  CountsWhatLanded(t)
  <2>1. pc'[u] # "landed" /\ pc[u] = "landed" /\ written'[u] = written[u] \cup {chunk[u]}
        /\ (t # u => pc'[t] = pc[t] /\ chunk'[t] = chunk[t] /\ written'[t] = written[t])
    BY <1>6 DEF Reply, MovesOn, TypeInv, TypeOK
  <2>. QED
    BY <2>1 DEF CountsWhatLanded
<1>7. ASSUME NEW u \in Task, NEW e, Misaligned(u, e) \/ LoseReply(u, e)
      PROVE  CountsWhatLanded(t)
  BY <1>3, <1>7 DEF Misaligned, LoseReply
<1>8. ASSUME NEW q \in flight, NEW e, TimeOut(q, e) \/ Reject(q, e)
      PROVE  CountsWhatLanded(t)
  <2>1. q.task \in Task
    BY DEF TypeInv, TypeOK, Request
  <2>. QED
    BY <1>3, <1>8, <2>1 DEF TimeOut, Reject
<1>9. ASSUME NEW q \in flight, CommitConflict(q) \/ RejectAmbiguousMerge(q)
      PROVE  CountsWhatLanded(t)
  <2>1. q.task \in Task
    BY DEF TypeInv, TypeOK, Request
  <2>2. table' = table
    BY <1>9 DEF CommitConflict, RejectAmbiguousMerge
  <2>3. PICK e : HandleError(q.task, e)
    BY <1>9, Zenon DEF CommitConflict, RejectAmbiguousMerge
  <2>. QED
    BY <1>3, <2>1, <2>2, <2>3
<1>10. ASSUME NEW q \in flight, LandAdd(q) \/ LandMerge(q)
       PROVE  CountsWhatLanded(t)
  <2>1. q.task \in Task /\ UNCHANGED <<chunk, written>>
        /\ pc' = IF Awaited(q) THEN [pc EXCEPT ![q.task] = "landed"] ELSE pc
    BY <1>10 DEF LandAdd, LandMerge, Finishes, TypeInv, TypeOK, Request
  <2>2. CASE Awaited(q) /\ t = q.task
    <3>1. q.req = chunk[t]
      BY <2>2 DEF ProgressInv, AwaitedIsCurrent
    <3>2. LandsNow(t)
      BY <1>10, <2>1, <2>2, <3>1 DEF LandsNow
    <3>. QED
      BY <2>1, <3>2 DEF CountsWhatLanded
  <2>3. CASE ~(Awaited(q) /\ t = q.task)
    BY <2>1, <2>3 DEF CountsWhatLanded, TypeInv, TypeOK
  <2>. QED
    BY <2>2, <2>3
<1>11. ASSUME NEW q \in flight, ReadVersion(q) \/ DropLate(q)
       PROVE  CountsWhatLanded(t)
  BY <1>1, <1>11 DEF ReadVersion, DropLate, taskVars
<1>12. CASE OtherCreates \/ (\E r \in OtherRow : OtherAppends(r)) \/ UNCHANGED vars
  BY <1>1, <1>12 DEF OtherCreates, OtherAppends, taskVars, vars
<1>13. ASSUME NEW u \in Task, Client(u)
       PROVE  CountsWhatLanded(t)
  BY <1>5, <1>6, <1>7, <1>13 DEF Client
<1>14. ASSUME NEW q \in flight, Answer(q)
       PROVE  CountsWhatLanded(t)
  BY <1>8, <1>9, <1>10, <1>11, <1>14 DEF Answer
<1>. QED
  BY <1>4, <1>5, <1>12, <1>13, <1>14 DEF Next, Idle

-----------------------------------------------------------------------------
(* Accounting: what the statistics say was written is stored. *)

IsStored(t, i) == \A r \in Requests[t][i] : \E c \in table : c.task = t /\ c.row = r

WrittenIsStored ==
  \A t \in Task :
    /\ \A i \in written[t] : IsStored(t, i)
    /\ pc[t] = "landed" => IsStored(t, chunk[t])

AccountInv == ProgressInv /\ WrittenIsStored

LEMMA InitAccount == TypeInv /\ Init => AccountInv
<1>1. Init => WrittenIsStored
  BY DEF Init, WrittenIsStored
<1>. QED
  BY <1>1, InitProgress DEF AccountInv

(* Only the start of an overwrite takes rows away from a write that is not  *)
(* an upsert.                                                               *)
LEMMA TableGrows ==
  ASSUME Mode # "upsert", TypeInv, ProgressInv, [Next]_vars
  PROVE  table \subseteq table' \/ \A t \in Task : pc[t] = "pending" /\ pc'[t] = "pending"
<1>1. CASE Driver
  BY <1>1 DEF Driver, ListTables, RefuseTable, PrepareTable, StartFails, FailJob,
     OnWriteComplete, taskVars, ProgressInv, Untouched
<1>2. ASSUME NEW t \in Task, Starts(t) \/ Client(t) \/ WorkerDies(t) \/ TaskKilled(t)
      PROVE  table' = table
  BY <1>2 DEF Starts, StartTask, StartTaskFails, Client, Send, Misaligned, Reply, LoseReply,
     WorkerDies, TaskKilled, StopsRunning
<1>3. ASSUME NEW q \in flight, Answer(q)
      PROVE  table \subseteq table'
  BY <1>3 DEF Answer, TimeOut, Reject, LandAdd, ReadVersion, LandMerge, CommitConflict,
     RejectAmbiguousMerge, DropLate
<1>4. CASE OtherCreates \/ (\E r \in OtherRow : OtherAppends(r)) \/ UNCHANGED vars
  BY <1>4 DEF OtherCreates, OtherAppends, vars
<1>. QED
  BY <1>1, <1>2, <1>3, <1>4 DEF Next, Idle

(* A request that lands is stored.                                          *)
LEMMA LandingStores ==
  ASSUME Mode # "upsert", TypeInv, NEW t \in Task, LandsNow(t)
  PROVE  IsStored(t, chunk[t])'
<1>1. PICK q \in flight : q.task = t /\ q.req = chunk'[t] /\ LandAdd(q)
  BY DEF LandsNow, LandMerge
<1>2. Copies(Requests[t][chunk'[t]], t, q.send) \subseteq table'
  BY <1>1 DEF LandAdd, RowsOf
<1>3. ASSUME NEW r \in Requests[t][chunk'[t]]
      PROVE  \E c \in table' : c.task = t /\ c.row = r
  <2>1. [row |-> r, task |-> t, send |-> q.send] \in table'
    BY <1>2 DEF Copies
  <2>. QED
    BY <2>1
<1>. QED
  BY <1>3 DEF IsStored

LEMMA NextAccount ==
  ASSUME Mode # "upsert", TypeInv, AccountInv, [Next]_vars
  PROVE  AccountInv'
<1>1. ProgressInv /\ WrittenIsStored /\ ProgressInv'
  BY NextProgress DEF AccountInv
<1>2. CASE \A t \in Task : pc[t] = "pending" /\ pc'[t] = "pending"
  <2>1. \A t \in Task : written'[t] = {} /\ pc'[t] # "landed"
    BY <1>1, <1>2 DEF ProgressInv, NothingCounted
  <2>. QED
    BY <1>1, <2>1 DEF WrittenIsStored, AccountInv
<1>3. CASE table \subseteq table'
  <2>1. \A t \in Task : \A i \in written[t] \cup {chunk[t]} : IsStored(t, i) => IsStored(t, i)'
    BY <1>3 DEF IsStored
  <2>2. ASSUME NEW t \in Task
        PROVE  /\ \A i \in written'[t] : IsStored(t, i)'
               /\ pc'[t] = "landed" => IsStored(t, chunk[t])'
    <3>1. \A i \in written'[t] : IsStored(t, i)'
      BY <1>1, <2>1, HowRequestsLand DEF CountsWhatLanded, WrittenIsStored
    <3>2. CASE LandsNow(t)
      BY <3>1, <3>2, LandingStores
    <3>3. CASE pc[t] = "landed" /\ chunk'[t] = chunk[t]
      <4>1. IsStored(t, chunk[t])'
        BY <1>1, <1>3, <3>3 DEF WrittenIsStored, IsStored
      <4>. QED
        BY <3>1, <4>1
    <3>. QED
      BY <1>1, <3>1, <3>2, <3>3, HowRequestsLand DEF CountsWhatLanded
  <2>3. WrittenIsStored'
    BY <2>2 DEF WrittenIsStored
  <2>. QED
    BY <1>1, <2>3 DEF AccountInv
<1>. QED
  BY <1>1, <1>2, <1>3, TableGrows DEF AccountInv

LEMMA AccountInvariant ==
  ASSUME Mode # "upsert"
  PROVE  Spec => [](TypeInv /\ AccountInv)
<1>1. Init => TypeInv /\ AccountInv
  BY InitType, InitAccount
<1>2. TypeInv /\ AccountInv /\ [Next]_vars => (TypeInv /\ AccountInv)'
  BY NextType, NextAccount
<1>. QED
  BY <1>1, <1>2, PTL DEF Spec

(* Every row num_rows counts is in the table, whatever the policies, the    *)
(* number of attempts and the replays: a request is counted only after the  *)
(* answer that it landed, and nothing a job's tasks do removes a row.       *)
THEOREM CountedRowsStored ==
  ASSUME Mode # "upsert"
  PROVE  Spec => []CountedRowsAreStored
<1>1. TypeInv /\ AccountInv => CountedRowsAreStored
  BY DEF AccountInv, WrittenIsStored, IsStored, CountedRowsAreStored, NumRows, RequestsIn,
     StoredRows
<1>. QED
  BY <1>1, AccountInvariant, PTL

(* A job that reports success has every row it does not report as dropped   *)
(* in the table, and reports no row both ways.                              *)
THEOREM SuccessLoses ==
  ASSUME Mode # "upsert"
  PROVE  Spec => []SuccessLosesNothing
<1>1. ASSUME TypeInv, AccountInv, job = "complete"
      PROVE  /\ NumRows \cup NumSkippedRows = SourceRow
             /\ NumRows \cap NumSkippedRows = {}
             /\ NumRows \subseteq StoredRows
  <2>1. \A t \in Task : /\ written[t] \cup skipped[t] = DOMAIN Requests[t]
                       /\ written[t] \cap skipped[t] = {}
    BY <1>1, RequestsType DEF AccountInv, ProgressInv, CompleteIsDone, DoneIsThrough,
       Counted, TypeInv, TypeOK
  <2>2. NumRows \cup NumSkippedRows = SourceRow
    BY <2>1 DEF NumRows, NumSkippedRows, RequestsIn, SourceRow
  <2>3. NumRows \cap NumSkippedRows = {}
    <3>1. SUFFICES ASSUME NEW t \in Task, NEW u \in Task, NEW i \in written[t],
                          NEW j \in skipped[u], NEW r \in Requests[t][i],
                          r \in Requests[u][j]
                   PROVE  FALSE
      BY DEF NumRows, NumSkippedRows, RequestsIn
    <3>2. i \in DOMAIN Requests[t] /\ j \in DOMAIN Requests[u]
      BY <2>1
    <3>3. t = u /\ i = j
      BY <3>1, <3>2, RowsOnceAssumption
    <3>. QED
      BY <2>1, <3>3
  <2>4. NumRows \subseteq StoredRows
    BY <1>1 DEF AccountInv, WrittenIsStored, IsStored, NumRows, RequestsIn, StoredRows
  <2>. QED
    BY <2>2, <2>3, <2>4
<1>2. TypeInv /\ AccountInv => SuccessLosesNothing
  BY <1>1 DEF SuccessLosesNothing
<1>. QED
  BY <1>2, AccountInvariant, PTL

-----------------------------------------------------------------------------
(* What mode="create" touches, and how often a task may send.               *)

(***************************************************************************)
(* While the table is not the job's, no task of a create has begun, so      *)
(* there is nothing of the job's in flight or stored.                       *)
(***************************************************************************)
CreateInv ==
  Mode = "create" =>
    /\ job \in {"writing", "complete"} => owner = "job"
    /\ owner # "job" =>
         /\ flight = {}
         /\ \A t \in Task : pc[t] \in {"pending", "failed"}
         /\ \A c \in table : c.task = Outside

LEMMA InitCreate == Init => CreateInv
BY DEF Init, CreateInv, OutsideCopies

LEMMA NextCreate == TypeInv /\ CreateInv /\ [Next]_vars => CreateInv'
<1>1. SUFFICES ASSUME TypeInv, CreateInv, [Next]_vars, Mode = "create"
               PROVE  CreateInv'
  BY DEF CreateInv
<1>2. CASE Driver
  BY <1>1, <1>2 DEF Driver, ListTables, RefuseTable, PrepareTable, StartFails, FailJob,
     OnWriteComplete, taskVars, CreateInv
<1>3. ASSUME NEW t \in Task, Starts(t)
      PROVE  CreateInv'
  BY <1>1, <1>3 DEF Starts, StartTask, StartTaskFails, CreateInv
<1>4. ASSUME NEW t \in Task, Client(t) \/ WorkerDies(t)
      PROVE  CreateInv'
  <2>1. pc[t] \in {"ready", "waiting", "landed"}
    BY <1>4 DEF Client, Send, Misaligned, Reply, LoseReply, WorkerDies, Running
  <2>2. owner = "job"
    BY <1>1, <2>1 DEF CreateInv
  <2>3. UNCHANGED owner
    BY <1>4 DEF Client, Send, Misaligned, Reply, LoseReply, HandleError, WorkerDies,
       StopsRunning
  <2>4. QED
    BY <2>2, <2>3 DEF CreateInv
<1>5. ASSUME NEW t \in Task, TaskKilled(t)
      PROVE  CreateInv'
  BY <1>1, <1>5 DEF TaskKilled, StopsRunning, CreateInv, TypeInv, TypeOK
<1>6. ASSUME NEW q \in flight, Answer(q)
      PROVE  CreateInv'
  <2>1. owner = "job"
    BY <1>1 DEF CreateInv
  <2>2. UNCHANGED owner
    BY <1>6 DEF Answer, TimeOut, Reject, LandAdd, ReadVersion, LandMerge, CommitConflict,
       RejectAmbiguousMerge, DropLate, Finishes, HandleError
  <2>3. QED
    BY <2>1, <2>2 DEF CreateInv
<1>7. CASE OtherCreates
  BY <1>1, <1>7 DEF OtherCreates, taskVars, CreateInv
<1>8. ASSUME NEW r \in OtherRow, OtherAppends(r)
      PROVE  CreateInv'
  BY <1>1, <1>8 DEF OtherAppends, OutsideCopies, taskVars, CreateInv
<1>9. CASE UNCHANGED vars
  BY <1>1, <1>9 DEF vars, taskVars, CreateInv
<1>10. QED
  BY <1>1, <1>2, <1>3, <1>4, <1>5, <1>6, <1>7, <1>8, <1>9 DEF Next, Idle

(* mode="create" leaves alone a table that another client made between the  *)
(* listing and create_table.                                                *)
THEOREM CreateExclusive == Spec => []CreateIsExclusive
<1>1. CreateInv => CreateIsExclusive
  BY DEF CreateInv, CreateIsExclusive
<1>2. QED
  BY <1>1, InitCreate, NextCreate, InitType, NextType, PTL DEF Spec

-----------------------------------------------------------------------------
(* How often a task sends. *)

(* Two rounds of max_attempts, the attempt that was refused apart.          *)
SendsEach == 2 * MaxAttempts - 1

(* What the first n requests of this run of the task, and all requests of   *)
(* its earlier runs, may have cost.                                         *)
Budget(t, n) == (replays[t] * Len(Requests[t]) + n) * SendsEach

(* Sends the current request may have had.                                  *)
Used(t) ==
  (IF realigned[t] THEN MaxAttempts - 1 ELSE 0)
    + (IF pc[t] = "ready" THEN attempt[t] - 1 ELSE attempt[t])

SendsInv ==
  \A t \in Task :
    /\ pc[t] = "pending" => sent[t] <= Budget(t, 0)
    /\ pc[t] \in {"ready", "waiting", "landed"} =>
         sent[t] <= Budget(t, chunk[t] - 1) + Used(t)
    /\ pc[t] \in {"done", "failed"} => sent[t] <= Budget(t, Len(Requests[t]))

LEMMA BudgetGrows ==
  ASSUME TypeInv, NEW t \in Task, NEW m \in Nat, NEW n \in Nat, m <= n
  PROVE  /\ Budget(t, m) \in Nat
         /\ Budget(t, m) <= Budget(t, n)
         /\ Budget(t, m + 1) = Budget(t, m) + SendsEach
         /\ SendsEach \in Nat \ {0}
<1>1. SendsEach \in Nat \ {0}
  BY MaxAttemptsAssumption DEF SendsEach
<1>2. \A a, b, c \in Nat : a <= b => a * c \in Nat /\ a * c <= b * c /\ (a + 1) * c = a * c + c
  BY SMT
<1> DEFINE r == replays[t] * Len(Requests[t])
<1>3. r \in Nat
  BY <1>2, RequestsType DEF TypeInv, TypeOK
<1> HIDE DEF r
<1>4. r + m \in Nat /\ r + n \in Nat /\ r + m <= r + n /\ r + (m + 1) = (r + m) + 1
  BY <1>3
<1>5. (r + m) * SendsEach \in Nat /\ (r + m) * SendsEach <= (r + n) * SendsEach
      /\ (r + (m + 1)) * SendsEach = (r + m) * SendsEach + SendsEach
  BY <1>1, <1>2, <1>4
<1>6. QED
  BY <1>1, <1>5 DEF Budget, r

LEMMA BudgetType ==
  ASSUME TypeInv, NEW t \in Task, NEW n \in Nat
  PROVE  Budget(t, n) \in Nat
BY BudgetGrows

(* A request is sent at most SendsEach times.                               *)
LEMMA UsedBound ==
  ASSUME TypeInv, NEW t \in Task
  PROVE  /\ Used(t) \in Nat /\ Used(t) <= SendsEach
         /\ pc[t] = "ready" => Used(t) < SendsEach
<1>1. MaxAttempts \in Nat /\ attempt[t] \in Nat /\ 1 <= attempt[t] /\ attempt[t] <= MaxAttempts
  BY MaxAttemptsAssumption DEF TypeInv, TypeOK
<1>2. CASE realigned[t]
  BY <1>1, <1>2 DEF Used, SendsEach
<1>3. CASE ~realigned[t]
  BY <1>1, <1>3 DEF Used, SendsEach
<1>4. QED
  BY <1>2, <1>3

(* A task at work is within the bound of its run.                           *)
LEMMA WorkingIsBounded ==
  ASSUME TypeInv, SendsInv, NEW t \in Task, pc[t] \in {"ready", "waiting", "landed"}
  PROVE  /\ chunk[t] - 1 \in Nat /\ chunk[t] <= Len(Requests[t]) /\ Len(Requests[t]) \in Nat
         /\ sent[t] \in Nat
         /\ Budget(t, chunk[t] - 1) \in Nat /\ sent[t] <= Budget(t, chunk[t] - 1) + Used(t)
         /\ sent[t] <= Budget(t, chunk[t])
         /\ sent[t] <= Budget(t, Len(Requests[t]))
<1>1. chunk[t] \in 1..Len(Requests[t]) /\ Len(Requests[t]) \in Nat /\ sent[t] \in Nat
  BY RequestsType DEF TypeInv, TypeOK, ControlOK
<1>2. chunk[t] - 1 \in Nat /\ chunk[t] \in Nat /\ (chunk[t] - 1) + 1 = chunk[t]
  BY <1>1
<1>3. Budget(t, chunk[t]) = Budget(t, chunk[t] - 1) + SendsEach
      /\ Budget(t, chunk[t] - 1) \in Nat /\ SendsEach \in Nat
  BY <1>2, BudgetGrows
<1>4. sent[t] <= Budget(t, chunk[t] - 1) + Used(t) /\ Used(t) \in Nat /\ Used(t) <= SendsEach
  BY UsedBound DEF SendsInv
<1>5. Budget(t, chunk[t]) <= Budget(t, Len(Requests[t]))
  <2> DEFINE m == chunk[t]
             n == Len(Requests[t])
  <2>1. m \in Nat /\ n \in Nat /\ m <= n
    BY <1>1
  <2> HIDE DEF m, n
  <2>2. Budget(t, m) <= Budget(t, n)
    BY <2>1, BudgetGrows
  <2>3. QED
    BY <2>2 DEF m, n
<1>6. Budget(t, Len(Requests[t])) \in Nat
  BY <1>1, BudgetType
<1>7. QED
  BY <1>1, <1>2, <1>3, <1>4, <1>5, <1>6

(* A task that has not begun has spent what its earlier runs did.           *)
LEMMA PendingIsBounded ==
  ASSUME TypeInv, SendsInv, NEW t \in Task, pc[t] = "pending"
  PROVE  /\ sent[t] \in Nat /\ sent[t] <= Budget(t, 0)
         /\ Budget(t, 0) \in Nat /\ Budget(t, Len(Requests[t])) \in Nat
         /\ sent[t] <= Budget(t, Len(Requests[t]))
<1>1. Len(Requests[t]) \in Nat /\ sent[t] \in Nat /\ 0 \in Nat /\ 0 <= Len(Requests[t])
  BY RequestsType DEF TypeInv, TypeOK
<1>2. Budget(t, 0) \in Nat /\ Budget(t, 0) <= Budget(t, Len(Requests[t]))
  BY <1>1, BudgetGrows
<1>3. Budget(t, Len(Requests[t])) \in Nat
  BY <1>1, BudgetType
<1>4. sent[t] <= Budget(t, 0)
  BY DEF SendsInv
<1>5. QED
  BY <1>1, <1>2, <1>3, <1>4

(* Tasks other than t are left alone.                                       *)
OthersKeep(t) ==
  \A u \in Task \ {t} :
    /\ pc'[u] = pc[u] /\ chunk'[u] = chunk[u] /\ attempt'[u] = attempt[u]
    /\ realigned'[u] = realigned[u] /\ sent'[u] = sent[u] /\ replays'[u] = replays[u]

(* The invariant of one task.                                               *)
SendsOf(t) ==
  /\ pc[t] = "pending" => sent[t] <= Budget(t, 0)
  /\ pc[t] \in {"ready", "waiting", "landed"} =>
       sent[t] <= Budget(t, chunk[t] - 1) + Used(t)
  /\ pc[t] \in {"done", "failed"} => sent[t] <= Budget(t, Len(Requests[t]))

LEMMA OneTaskMoves ==
  ASSUME SendsInv, NEW t \in Task, OthersKeep(t), SendsOf(t)'
  PROVE  SendsInv'
<1>1. SUFFICES ASSUME NEW u \in Task
               PROVE  SendsOf(u)'
  BY DEF SendsInv, SendsOf
<1>2. CASE u = t
  BY <1>2
<1>3. CASE u # t
  <2>1. SendsOf(u)
    BY DEF SendsInv, SendsOf
  <2>2. QED
    BY <1>3, <2>1 DEF OthersKeep, SendsOf, Budget, Used
<1>4. QED
  BY <1>2, <1>3

(* A task that moves on, or stops, has spent no more than it may.           *)
LEMMA MovingOn ==
  ASSUME TypeInv, SendsInv, NEW t \in Task, pc[t] \in {"ready", "waiting", "landed"},
         MovesOn(t), UNCHANGED <<sent, replays>>
  PROVE  SendsOf(t)' /\ OthersKeep(t)
<1>1. OthersKeep(t)
  BY DEF MovesOn, OthersKeep, TypeInv, TypeOK
<1>2. /\ chunk'[t] = chunk[t] + 1 /\ attempt'[t] = 1 /\ ~realigned'[t]
      /\ sent'[t] = sent[t] /\ replays'[t] = replays[t]
      /\ pc'[t] = IF chunk[t] = Len(Requests[t]) THEN "done" ELSE "ready"
  BY DEF MovesOn, TypeInv, TypeOK
<1>3. sent[t] <= Budget(t, chunk[t]) /\ sent[t] <= Budget(t, Len(Requests[t]))
      /\ sent[t] \in Nat /\ chunk[t] - 1 \in Nat
  BY WorkingIsBounded
<1>4. (chunk[t] + 1) - 1 = chunk[t] /\ chunk[t] \in Nat
  BY <1>3 DEF TypeInv, TypeOK
<1>5. Budget(t, chunk[t]) \in Nat
  BY <1>4, BudgetGrows
<1>7. CASE pc'[t] = "ready"
  <2>1. Used(t)' = 0
    BY <1>2, <1>7 DEF Used
  <2>2. Budget(t, chunk[t] - 1)' = Budget(t, chunk[t])
    BY <1>2, <1>4 DEF Budget
  <2>3. sent'[t] <= Budget(t, chunk[t] - 1)' + Used(t)'
    BY <1>2, <1>3, <1>5, <2>1, <2>2
  <2>4. QED
    BY <1>1, <1>7, <2>3 DEF SendsOf
<1>8. CASE pc'[t] = "done"
  <2>1. Budget(t, Len(Requests[t]))' = Budget(t, Len(Requests[t]))
    BY <1>2 DEF Budget
  <2>2. sent'[t] <= Budget(t, Len(Requests[t]))'
    BY <1>2, <1>3, <2>1
  <2>3. QED
    BY <1>1, <1>8, <2>2 DEF SendsOf
<1>9. QED
  BY <1>1, <1>2, <1>7, <1>8

(* What call_with_retry, the realigning and on_batch_error make of an       *)
(* error costs nothing; only a refused attempt starts a second round.       *)
LEMMA ErrorSends ==
  ASSUME TypeInv, SendsInv, NEW t \in Task, NEW e, pc[t] \in {"ready", "waiting", "landed"},
         HandleError(t, e), IsArrowAlignmentError(e) => pc[t] = "ready"
  PROVE  SendsInv'
<1>1. UNCHANGED <<sent, replays>>
  BY DEF HandleError
<1>2. CASE Retries(t, e)
  <2>1. OthersKeep(t)
    BY <1>1, <1>2 DEF Retries, OthersKeep, TypeInv, TypeOK
  <2>2. pc'[t] = "ready" /\ attempt'[t] = attempt[t] + 1 /\ chunk'[t] = chunk[t]
        /\ realigned'[t] = realigned[t] /\ sent'[t] = sent[t]
    BY <1>1, <1>2 DEF Retries, TypeInv, TypeOK
  <2>3. Used(t) \in Nat /\ Used(t)' \in Nat /\ Used(t) <= Used(t)'
    BY <2>2, MaxAttemptsAssumption DEF Used, TypeInv, TypeOK
  <2>4. Budget(t, chunk[t] - 1)' = Budget(t, chunk[t] - 1)
    BY <1>1, <2>2 DEF Budget
  <2>5. sent[t] <= Budget(t, chunk[t] - 1) + Used(t) /\ Budget(t, chunk[t] - 1) \in Nat
        /\ sent[t] \in Nat
    BY WorkingIsBounded
  <2>6. SendsOf(t)'
    BY <2>2, <2>3, <2>4, <2>5 DEF SendsOf
  <2>7. QED
    BY <2>1, <2>6, OneTaskMoves
<1>3. CASE Realigns(t, e)
  <2>1. OthersKeep(t)
    BY <1>1, <1>3 DEF Realigns, OthersKeep, TypeInv, TypeOK
  <2>2. pc'[t] = "ready" /\ attempt'[t] = 1 /\ chunk'[t] = chunk[t]
        /\ realigned'[t] = TRUE /\ sent'[t] = sent[t]
    BY <1>1, <1>3 DEF Realigns, TypeInv, TypeOK
  <2>3. pc[t] = "ready" /\ ~realigned[t]
    BY <1>3 DEF Realigns, Realignable
  <2>4. Used(t) \in Nat /\ Used(t)' \in Nat /\ Used(t) <= Used(t)'
    BY <2>2, <2>3, MaxAttemptsAssumption DEF Used, TypeInv, TypeOK
  <2>5. Budget(t, chunk[t] - 1)' = Budget(t, chunk[t] - 1)
    BY <1>1, <2>2 DEF Budget
  <2>6. sent[t] <= Budget(t, chunk[t] - 1) + Used(t) /\ Budget(t, chunk[t] - 1) \in Nat
        /\ sent[t] \in Nat
    BY WorkingIsBounded
  <2>7. SendsOf(t)'
    BY <2>2, <2>4, <2>5, <2>6 DEF SendsOf
  <2>8. QED
    BY <2>1, <2>7, OneTaskMoves
<1>4. CASE Raises(t, e)
  <2>1. OthersKeep(t)
    BY <1>1, <1>4 DEF Raises, OthersKeep, TypeInv, TypeOK
  <2>2. pc'[t] = "failed" /\ sent'[t] = sent[t]
    BY <1>1, <1>4 DEF Raises, TypeInv, TypeOK
  <2>3. Budget(t, Len(Requests[t]))' = Budget(t, Len(Requests[t]))
    BY <1>1 DEF Budget
  <2>4. SendsOf(t)'
    BY <2>2, <2>3, WorkingIsBounded DEF SendsOf
  <2>5. QED
    BY <2>1, <2>4, OneTaskMoves
<1>5. CASE Skips(t, e)
  BY <1>1, <1>5, MovingOn, OneTaskMoves DEF Skips
<1>6. QED
  BY <1>2, <1>3, <1>4, <1>5 DEF HandleError

LEMMA InitSends == TypeInv /\ Init => SendsInv
<1>1. SUFFICES ASSUME TypeInv, Init
               PROVE  SendsInv
  OBVIOUS
<1>2. \A t \in Task : Budget(t, 0) \in Nat
  BY <1>1, BudgetGrows
<1>3. QED
  BY <1>1, <1>2 DEF Init, SendsInv

(* Nothing that is counted changes.                                         *)
LEMMA NothingSent ==
  ASSUME SendsInv, UNCHANGED taskVars
  PROVE  SendsInv'
BY DEF SendsInv, taskVars, Budget, Used

LEMMA NextSends == TypeInv /\ SendsInv /\ [Next]_vars => SendsInv'
<1>1. SUFFICES ASSUME TypeInv, SendsInv, [Next]_vars
               PROVE  SendsInv'
  OBVIOUS
<1>2. CASE Driver \/ OtherCreates \/ (\E r \in OtherRow : OtherAppends(r)) \/ UNCHANGED vars
  <2>1. UNCHANGED taskVars
    BY <1>2 DEF Driver, ListTables, RefuseTable, PrepareTable, StartFails, FailJob,
       OnWriteComplete, OtherCreates, OtherAppends, vars
  <2>2. QED
    BY <1>1, <2>1, NothingSent
<1>3. ASSUME NEW t \in Task, Starts(t)
      PROVE  SendsInv'
  <2>1. OthersKeep(t)
    BY <1>1, <1>3 DEF Starts, StartTask, StartTaskFails, OthersKeep, TypeInv, TypeOK
  <2>2. /\ pc[t] = "pending" /\ pc'[t] \in {"ready", "done", "failed"}
        /\ UNCHANGED <<chunk, attempt, realigned, sent, replays>>
    BY <1>1, <1>3 DEF Starts, StartTask, StartTaskFails, TypeInv, TypeOK
  <2>3. chunk[t] - 1 = 0 /\ Len(Requests[t]) \in Nat /\ sent[t] \in Nat
    BY <1>1, <2>2, RequestsType DEF TypeInv, TypeOK, ControlOK
  <2>4. Used(t)' \in Nat
    BY <1>1, <2>2, MaxAttemptsAssumption DEF Used, TypeInv, TypeOK
  <2>5. sent[t] <= Budget(t, 0) /\ Budget(t, 0) \in Nat
        /\ sent[t] <= Budget(t, Len(Requests[t])) /\ Budget(t, Len(Requests[t])) \in Nat
    BY <1>1, <2>2, PendingIsBounded
  <2>6. /\ Budget(t, chunk[t] - 1)' = Budget(t, 0)
        /\ Budget(t, Len(Requests[t]))' = Budget(t, Len(Requests[t]))
    BY <2>2, <2>3 DEF Budget
  <2>7. SendsOf(t)'
    BY <2>2, <2>3, <2>4, <2>5, <2>6 DEF SendsOf
  <2>8. QED
    BY <1>1, <2>1, <2>7, OneTaskMoves
<1>4. ASSUME NEW t \in Task, Send(t)
      PROVE  SendsInv'
  <2>1. OthersKeep(t)
    BY <1>1, <1>4 DEF Send, OthersKeep, TypeInv, TypeOK
  <2>2. /\ pc[t] = "ready" /\ pc'[t] = "waiting" /\ sent'[t] = sent[t] + 1
        /\ UNCHANGED <<chunk, attempt, realigned, replays>>
    BY <1>1, <1>4 DEF Send, TypeInv, TypeOK
  <2>3. Used(t) \in Nat /\ Used(t)' = Used(t) + 1
    BY <1>1, <2>2, MaxAttemptsAssumption DEF Used, TypeInv, TypeOK
  <2>4. Budget(t, chunk[t] - 1)' = Budget(t, chunk[t] - 1)
    BY <2>2 DEF Budget
  <2>5. sent[t] <= Budget(t, chunk[t] - 1) + Used(t) /\ Budget(t, chunk[t] - 1) \in Nat
        /\ sent[t] \in Nat
    BY <1>1, <2>2, WorkingIsBounded
  <2>6. SendsOf(t)'
    BY <2>2, <2>3, <2>4, <2>5 DEF SendsOf
  <2>7. QED
    BY <1>1, <2>1, <2>6, OneTaskMoves
<1>5. ASSUME NEW t \in Task, NEW e \in Errors, Misaligned(t, e)
      PROVE  SendsInv'
  BY <1>1, <1>5, ErrorSends DEF Misaligned
<1>6. ASSUME NEW t \in Task, Reply(t)
      PROVE  SendsInv'
  BY <1>1, <1>6, MovingOn, OneTaskMoves DEF Reply
<1>7. ASSUME NEW t \in Task, NEW e \in Ambiguous, LoseReply(t, e)
      PROVE  SendsInv'
  BY <1>1, <1>7, ErrorSends, AmbiguousAssumption DEF LoseReply
<1>8. ASSUME NEW t \in Task, WorkerDies(t)
      PROVE  SendsInv'
  <2>1. OthersKeep(t)
    BY <1>1, <1>8 DEF WorkerDies, StopsRunning, OthersKeep, TypeInv, TypeOK
  <2>2. pc'[t] = "pending" /\ sent'[t] = sent[t] /\ replays'[t] = replays[t] + 1
        /\ pc[t] \in {"ready", "waiting", "landed"} /\ replays[t] \in Nat
    BY <1>1, <1>8 DEF WorkerDies, StopsRunning, Running, TypeInv, TypeOK
  <2>3. sent[t] <= Budget(t, Len(Requests[t])) /\ Len(Requests[t]) \in Nat
    BY <1>1, <2>2, WorkingIsBounded
  <2>4. (replays[t] + 1) * Len(Requests[t]) + 0
          = replays[t] * Len(Requests[t]) + Len(Requests[t])
    BY <2>2, <2>3
  <2>5. Budget(t, 0)' = Budget(t, Len(Requests[t]))
    BY <2>2, <2>4 DEF Budget
  <2>6. SendsOf(t)'
    BY <2>2, <2>3, <2>5 DEF SendsOf
  <2>7. QED
    BY <1>1, <2>1, <2>6, OneTaskMoves
<1>9. ASSUME NEW t \in Task, TaskKilled(t)
      PROVE  SendsInv'
  <2>1. OthersKeep(t)
    BY <1>1, <1>9 DEF TaskKilled, StopsRunning, OthersKeep, TypeInv, TypeOK
  <2>2. pc'[t] = "failed" /\ sent'[t] = sent[t] /\ replays' = replays
    BY <1>1, <1>9 DEF TaskKilled, StopsRunning, TypeInv, TypeOK
  <2>3. Budget(t, Len(Requests[t]))' = Budget(t, Len(Requests[t]))
    BY <2>2 DEF Budget
  <2>4. CASE pc[t] = "pending"
    <3>1. SendsOf(t)'
      BY <1>1, <2>2, <2>3, <2>4, PendingIsBounded DEF SendsOf
    <3>2. QED
      BY <1>1, <2>1, <3>1, OneTaskMoves
  <2>5. CASE pc[t] \in {"ready", "waiting", "landed"}
    <3>1. SendsOf(t)'
      BY <1>1, <2>2, <2>3, <2>5, WorkingIsBounded DEF SendsOf
    <3>2. QED
      BY <1>1, <2>1, <3>1, OneTaskMoves
  <2>6. QED
    BY <1>9, <2>4, <2>5 DEF TaskKilled
<1>10. ASSUME NEW q \in flight, Answer(q)
       PROVE  SendsInv'
  <2>1. q.task \in Task
    BY <1>1 DEF TypeInv, TypeOK, Request
  <2>2. ASSUME NEW e \in Errors, TimeOut(q, e) \/ Reject(q, e)
        PROVE  SendsInv'
    BY <1>1, <2>1, <2>2, ErrorSends, AmbiguousAssumption DEF TimeOut, Reject, Awaited
  <2>3. CASE CommitConflict(q)
    <3> DEFINE e == {"commit conflict"}
    <3>1. ~IsArrowAlignmentError(e)
      BY DEF IsArrowAlignmentError, ALIGNMENT_MARKERS
    <3>2. HandleError(q.task, e) /\ pc[q.task] = "waiting"
      BY <2>3 DEF CommitConflict, Awaited
    <3> HIDE DEF e
    <3>3. QED
      BY <1>1, <2>1, <3>1, <3>2, ErrorSends
  <2>4. CASE RejectAmbiguousMerge(q)
    <3>1. ~IsArrowAlignmentError({})
      BY DEF IsArrowAlignmentError
    <3>2. QED
      BY <1>1, <2>1, <2>4, <3>1, ErrorSends DEF RejectAmbiguousMerge, Awaited
  <2>5. CASE LandAdd(q) \/ LandMerge(q)
    <3>1. Finishes(q)
      BY <2>5 DEF LandAdd, LandMerge
    <3>2. CASE Awaited(q)
      <4>1. OthersKeep(q.task) /\ pc[q.task] = "waiting" /\ pc'[q.task] = "landed"
            /\ UNCHANGED <<chunk, attempt, realigned, sent, replays>>
        BY <1>1, <2>1, <3>1, <3>2 DEF Finishes, Awaited, OthersKeep, TypeInv, TypeOK
      <4>2. SendsOf(q.task)'
        BY <1>1, <2>1, <4>1 DEF SendsInv, SendsOf, Budget, Used
      <4>3. QED
        BY <1>1, <2>1, <4>1, <4>2, OneTaskMoves
    <3>3. CASE ~Awaited(q)
      BY <1>1, <3>1, <3>3, NothingSent DEF Finishes, taskVars
    <3>4. QED
      BY <3>2, <3>3
  <2>6. CASE ReadVersion(q) \/ DropLate(q)
    BY <1>1, <2>6, NothingSent DEF ReadVersion, DropLate
  <2>7. QED
    BY <1>10, <2>2, <2>3, <2>4, <2>5, <2>6 DEF Answer
<1>11. QED
  BY <1>1, <1>2, <1>3, <1>4, <1>5, <1>6, <1>7, <1>8, <1>9, <1>10 DEF Next, Client, Idle

(* No task sends more often than its requests, its runs and the two rounds  *)
(* of max_attempts allow, whatever errors it meets and in whatever order.   *)
THEOREM SendsBounded == Spec => []SendsAreBounded
<1>1. TypeInv /\ SendsInv => SendsAreBounded
  <2>1. SUFFICES ASSUME TypeInv, SendsInv, NEW t \in Task
                 PROVE  sent[t] <= (replays[t] + 1) * Len(Requests[t]) * SendsEach
    BY DEF SendsAreBounded, SendsEach
  <2>2. replays[t] \in Nat /\ Len(Requests[t]) \in Nat /\ sent[t] \in Nat
    BY <2>1, RequestsType DEF TypeInv, TypeOK
  <2>3. (replays[t] + 1) * Len(Requests[t]) = replays[t] * Len(Requests[t]) + Len(Requests[t])
    BY <2>2
  <2>4. sent[t] <= Budget(t, Len(Requests[t]))
    <3>1. CASE pc[t] = "pending"
      BY <2>1, <3>1, PendingIsBounded
    <3>2. CASE pc[t] \in {"ready", "waiting", "landed"}
      BY <2>1, <3>2, WorkingIsBounded
    <3>3. CASE pc[t] \in {"done", "failed"}
      BY <2>1, <3>3 DEF SendsInv
    <3>4. QED
      BY <2>1, <3>1, <3>2, <3>3 DEF TypeInv, TypeOK
  <2>5. QED
    BY <2>3, <2>4 DEF Budget
<1>2. QED
  BY <1>1, InitSends, NextSends, InitType, NextType, PTL DEF Spec

-----------------------------------------------------------------------------
(***************************************************************************)
(* A create, append or overwrite through the table API stores each of its   *)
(* requests at most once, whatever is lost or late, as long as the          *)
(* datasink's own retry predicate is in charge and no worker is replayed;   *)
(* and such a write therefore implements WriteJob.                          *)
(***************************************************************************)

(* At most once: where the copies of a request can be. *)

(* A request that was not sent yet, or is about to be sent (again).         *)
Unsent(t, i) ==
  pc[t] = "pending" \/ i > chunk[t] \/ (i = chunk[t] /\ pc[t] = "ready")

UnsentIsNowhere ==
  \A t \in Task : \A i \in DOMAIN Requests[t] : Unsent(t, i) =>
    /\ \A q \in flight : ~(q.task = t /\ q.req = i)
    /\ \A c \in table : ~(c.task = t /\ c.row \in Requests[t][i])

FliesOnce == \A p, q \in flight : p.task = q.task /\ p.req = q.req => p = q

FlyingIsNotStored ==
  \A q \in flight : \A c \in table : c.task = q.task => c.row \notin RowsOf(q)

StoredBySameSend ==
  \A c, d \in table : \A t \in Task : \A i \in DOMAIN Requests[t] :
    c.task = t /\ d.task = t /\ c.row \in Requests[t][i] /\ d.row \in Requests[t][i]
      => c.send = d.send

(* Stored rows carry the task they come from.                               *)
StoredOrigin ==
  \A c \in table :
    IF c.task = Outside
    THEN c.row \notin SourceRow
    ELSE \E i \in DOMAIN Requests[c.task] : c.row \in Requests[c.task][i]

OnceInv ==
  UnsentIsNowhere /\ FliesOnce /\ FlyingIsNotStored /\ StoredBySameSend /\ StoredOrigin

(* No request or stored row comes from request i of task t.                 *)
Nowhere(t, i) ==
  /\ \A q \in flight : ~(q.task = t /\ q.req = i)
  /\ \A c \in table : ~(c.task = t /\ c.row \in Requests[t][i])

-----------------------------------------------------------------------------
(* At most once is inductive under the default policy. *)

LEMMA InitOnce == Init => OnceInv
<1>. SUFFICES ASSUME Init
              PROVE  OnceInv
  OBVIOUS
<1>1. \A c \in table : c.task = Outside /\ c.row \in OldRow
  BY DEF Init, OutsideCopies
<1>2. flight = {}
  BY DEF Init
<1>3. OldRow \cap SourceRow = {}
  BY RowAssumption
<1>. QED
  BY <1>1, <1>2, <1>3, OutsideAssumption
  DEF OnceInv, UnsentIsNowhere, FliesOnce, FlyingIsNotStored, StoredBySameSend, StoredOrigin

(* A step that sends and stores nothing keeps the invariant when it leaves  *)
(* a request that is unsent again nowhere.                                  *)
LEMMA NothingNew ==
  ASSUME TypeInv, OnceInv, flight' \subseteq flight, table' \subseteq table,
         \A t \in Task : \A i \in DOMAIN Requests[t] :
            Unsent(t, i)' => Unsent(t, i) \/ Nowhere(t, i)'
  PROVE  OnceInv'
<1>1. UnsentIsNowhere'
  <2>1. SUFFICES ASSUME NEW t \in Task, NEW i \in DOMAIN Requests[t], Unsent(t, i)'
                 PROVE  Nowhere(t, i)'
    BY DEF UnsentIsNowhere, Nowhere
  <2>2. CASE Unsent(t, i)
    BY <2>2 DEF OnceInv, UnsentIsNowhere, Nowhere
  <2>. QED
    BY <2>1, <2>2
<1>2. FliesOnce' /\ FlyingIsNotStored' /\ StoredBySameSend' /\ StoredOrigin'
  BY DEF OnceInv, FliesOnce, FlyingIsNotStored, RowsOf, StoredBySameSend, StoredOrigin
<1>. QED
  BY <1>1, <1>2 DEF OnceInv

(* An error step may send again only what is nowhere.                       *)
LEMMA ErrorStepOnce ==
  ASSUME TypeInv, OnceInv, NEW t \in Task, NEW e,
         pc[t] \in {"ready", "waiting", "landed"}, HandleError(t, e), table' = table,
         flight' \subseteq flight,
         \A i \in DOMAIN Requests[t] :
            i = chunk[t] /\ (Retryable(t, e) \/ Realignable(t, e)) => Nowhere(t, i)'
  PROVE  OnceInv'
<1>1. ASSUME NEW u \in Task, NEW i \in DOMAIN Requests[u], Unsent(u, i)'
      PROVE  Unsent(u, i) \/ Nowhere(u, i)'
  <2>1. CASE u # t
    BY <2>1, <1>1 DEF Unsent, HandleError, Retries, Realigns, Raises, Skips, MovesOn, TypeInv,
       TypeOK
  <2>2. CASE u = t /\ (Retries(t, e) \/ Realigns(t, e))
    <3>1. chunk' = chunk /\ pc'[t] = "ready" /\ (Retryable(t, e) \/ Realignable(t, e))
      BY <2>2 DEF Retries, Realigns, TypeInv, TypeOK
    <3>. QED
      BY <2>2, <3>1, <1>1 DEF Unsent, TypeInv, TypeOK
  <2>3. CASE u = t /\ Raises(t, e)
    BY <2>3, <1>1 DEF Raises, Unsent, TypeInv, TypeOK
  <2>4. CASE u = t /\ Skips(t, e)
    <3>1. chunk'[t] = chunk[t] + 1 /\ pc'[t] # "pending" /\ chunk[t] \in Nat /\ i \in Nat
      BY <2>4, RequestsType DEF Skips, MovesOn, TypeInv, TypeOK
    <3>. QED
      BY <2>4, <3>1, <1>1 DEF Unsent
  <2>. QED
    BY <2>1, <2>2, <2>3, <2>4 DEF HandleError
<1>. QED
  BY <1>1, NothingNew

(* A failure that says nothing about the request is never met with another  *)
(* attempt.                                                                 *)
LEMMA AmbiguousIsFinal ==
  ASSUME Mode # "upsert", Policy = "default", NEW t \in Task, NEW e \in Ambiguous
  PROVE  ~Retryable(t, e) /\ ~Realignable(t, e)
BY AmbiguousAssumption
DEF Retryable, Realignable, RetriesAgain, RetryPredicate, AppendRetryPredicate

LEMMA SendOnce ==
  ASSUME TypeInv, OnceInv, NEW t \in Task, Send(t)
  PROVE  OnceInv'
<1> DEFINE new == [task |-> t, send |-> sent[t] + 1, req |-> chunk[t],
                   read |-> FALSE, snap |-> {}]
<1>1. flight' = flight \cup {new} /\ table' = table /\ chunk' = chunk
  BY DEF Send
<1>2. chunk[t] \in DOMAIN Requests[t] /\ Unsent(t, chunk[t])
  BY DEF Send, TypeInv, ControlOK, Unsent
<1>3. Nowhere(t, chunk[t])
  BY <1>2 DEF OnceInv, UnsentIsNowhere, Nowhere
<1>4. new.task = t /\ new.req = chunk[t] /\ RowsOf(new) = Requests[t][chunk[t]]
  BY DEF RowsOf
<1> HIDE DEF new
<1>5. UnsentIsNowhere'
  <2>1. SUFFICES ASSUME NEW u \in Task, NEW i \in DOMAIN Requests[u], Unsent(u, i)'
                 PROVE  Nowhere(u, i)'
    BY DEF UnsentIsNowhere, Nowhere
  <2>2. Unsent(u, i) /\ ~(u = t /\ i = chunk[t])
    BY <2>1, RequestsType DEF Send, Unsent, TypeInv, TypeOK
  <2>. QED
    BY <2>2, <1>1, <1>4 DEF OnceInv, UnsentIsNowhere, Nowhere
<1>6. FliesOnce'
  BY <1>1, <1>3, <1>4 DEF OnceInv, FliesOnce, Nowhere
<1>7. FlyingIsNotStored'
  BY <1>1, <1>3, <1>4 DEF OnceInv, FlyingIsNotStored, Nowhere, RowsOf
<1>8. StoredBySameSend' /\ StoredOrigin'
  BY <1>1 DEF OnceInv, StoredBySameSend, StoredOrigin
<1>. QED
  BY <1>5, <1>6, <1>7, <1>8 DEF OnceInv

LEMMA LandAddOnce ==
  ASSUME TypeInv, OnceInv, NEW q \in flight, LandAdd(q)
  PROVE  OnceInv'
<1>1. q.task \in Task /\ q.req \in DOMAIN Requests[q.task]
  BY DEF TypeInv, TypeOK, ControlOK, Request
<1>2. flight' = flight \ {q} /\ chunk' = chunk
  BY DEF LandAdd, Finishes
<1>3. \A c \in table' : \/ c \in table
                        \/ c.task = q.task /\ c.send = q.send /\ c.row \in RowsOf(q)
  BY DEF LandAdd, Copies
<1>4. \A t \in Task : \A i \in DOMAIN Requests[t] : Unsent(t, i)' => Unsent(t, i)
  BY <1>1, <1>2 DEF LandAdd, Finishes, Awaited, Unsent, TypeInv, TypeOK
<1>5. \A i \in DOMAIN Requests[q.task] : i # q.req =>
        Requests[q.task][i] \cap RowsOf(q) = {}
  BY <1>1, RowsOnceAssumption DEF RowsOf
<1>6. UnsentIsNowhere'
  <2>1. SUFFICES ASSUME NEW t \in Task, NEW i \in DOMAIN Requests[t], Unsent(t, i)'
                 PROVE  Nowhere(t, i)'
    BY DEF UnsentIsNowhere, Nowhere
  <2>2. Nowhere(t, i)
    BY <2>1, <1>4 DEF OnceInv, UnsentIsNowhere, Nowhere
  <2>3. ~(t = q.task /\ i = q.req)
    BY <2>2 DEF Nowhere
  <2>. QED
    BY <2>2, <2>3, <1>2, <1>3, <1>5 DEF Nowhere
<1>7. FliesOnce'
  BY <1>2 DEF OnceInv, FliesOnce
<1>8. FlyingIsNotStored'
  <2>1. SUFFICES ASSUME NEW p \in flight, p # q, NEW c \in table', c.task = p.task
                 PROVE  c.row \notin RowsOf(p)
    BY <1>2 DEF FlyingIsNotStored, RowsOf
  <2>2. CASE c \in table
    BY <2>1, <2>2 DEF OnceInv, FlyingIsNotStored
  <2>3. CASE c.task = q.task /\ c.row \in RowsOf(q)
    <3>1. p.task = q.task /\ p.req \in DOMAIN Requests[q.task] /\ p.req # q.req
      BY <2>1, <2>3 DEF OnceInv, FliesOnce, TypeInv, ControlOK
    <3>. QED
      BY <2>3, <3>1, <1>5 DEF RowsOf
  <2>. QED
    BY <2>2, <2>3, <1>3
<1>9. StoredBySameSend'
  <2>1. SUFFICES ASSUME NEW c \in table', NEW d \in table', NEW t \in Task,
                        NEW i \in DOMAIN Requests[t], c.task = t, d.task = t,
                        c.row \in Requests[t][i], d.row \in Requests[t][i]
                 PROVE  c.send = d.send
    BY DEF StoredBySameSend
  <2>2. CASE c \in table /\ d \in table
    BY <2>1, <2>2 DEF OnceInv, StoredBySameSend
  <2>3. CASE t = q.task /\ i = q.req
    <3>1. RowsOf(q) = Requests[t][i]
      BY <2>3 DEF RowsOf
    <3>2. c \notin table /\ d \notin table
      BY <2>1, <2>3, <3>1 DEF OnceInv, FlyingIsNotStored
    <3>. QED
      BY <3>2, <1>3
  <2>4. CASE t # q.task \/ i # q.req
    <3>1. c \in table /\ d \in table
      BY <2>1, <2>4, <1>3, <1>5
    <3>. QED
      BY <3>1, <2>2
  <2>. QED
    BY <2>3, <2>4
<1>10. StoredOrigin'
  <2>1. SUFFICES ASSUME NEW c \in table', c \notin table
                 PROVE  /\ c.task # Outside
                        /\ \E i \in DOMAIN Requests[c.task] : c.row \in Requests[c.task][i]
    BY DEF OnceInv, StoredOrigin
  <2>. QED
    BY <2>1, <1>1, <1>3, OutsideAssumption DEF RowsOf
<1>. QED
  BY <1>6, <1>7, <1>8, <1>9, <1>10 DEF OnceInv

LEMMA NextOnce ==
  ASSUME Mode # "upsert", Policy = "default", MaxReplays = 0,
         TypeInv, AccountInv, OnceInv, [Next]_vars
  PROVE  OnceInv'
<1>1. ASSUME flight' \subseteq flight, table' \subseteq table,
             pc' = pc /\ chunk' = chunk
      PROVE  OnceInv'
  <2>1. \A t \in Task : \A i \in DOMAIN Requests[t] : Unsent(t, i)' => Unsent(t, i)
    BY <1>1 DEF Unsent
  <2>. QED
    BY <1>1, <2>1, NothingNew
<1>2. CASE Driver
  BY <1>1, <1>2 DEF Driver, ListTables, RefuseTable, PrepareTable, StartFails, FailJob,
     OnWriteComplete, taskVars
<1>3. ASSUME NEW t \in Task, Starts(t) \/ TaskKilled(t)
      PROVE  OnceInv'
  <2>1. \A u \in Task : \A i \in DOMAIN Requests[u] : Unsent(u, i)' => Unsent(u, i)
    BY <1>3, RequestsType DEF Starts, StartTask, StartTaskFails, TaskKilled, Unsent, TypeInv,
       TypeOK
  <2>2. flight' \subseteq flight /\ table' = table
    BY <1>3 DEF Starts, StartTask, StartTaskFails, TaskKilled, StopsRunning
  <2>. QED
    BY <2>1, <2>2, NothingNew
<1>4. ASSUME NEW t \in Task, Send(t)
      PROVE  OnceInv'
  BY <1>4, SendOnce
<1>5. ASSUME NEW t \in Task, NEW e, Misaligned(t, e)
      PROVE  OnceInv'
  <2>1. chunk[t] \in DOMAIN Requests[t] /\ Unsent(t, chunk[t])
    BY <1>5 DEF Misaligned, TypeInv, ControlOK, Unsent
  <2>2. flight' = flight /\ table' = table /\ HandleError(t, e) /\ pc[t] = "ready"
    BY <1>5 DEF Misaligned
  <2>3. \A i \in DOMAIN Requests[t] : i = chunk[t] => Nowhere(t, i)'
    BY <2>1, <2>2 DEF OnceInv, UnsentIsNowhere, Nowhere
  <2>. QED
    BY <2>2, <2>3, ErrorStepOnce
<1>6. ASSUME NEW t \in Task, NEW e \in Ambiguous, LoseReply(t, e)
      PROVE  OnceInv'
  BY <1>6, AmbiguousIsFinal, ErrorStepOnce DEF LoseReply
<1>7. ASSUME NEW t \in Task, Reply(t)
      PROVE  OnceInv'
  <2>1. \A u \in Task : \A i \in DOMAIN Requests[u] : Unsent(u, i)' => Unsent(u, i)
    BY <1>7, RequestsType DEF Reply, MovesOn, Unsent, TypeInv, TypeOK
  <2>. QED
    BY <1>7, <2>1, NothingNew DEF Reply
<1>8. ASSUME NEW q \in flight, NEW e, TimeOut(q, e)
      PROVE  OnceInv'
  <2>1. q.task \in Task /\ pc[q.task] = "waiting" /\ e \in Ambiguous
        /\ flight' \subseteq flight /\ table' = table /\ HandleError(q.task, e)
    BY <1>8 DEF TimeOut, Awaited, TypeInv, TypeOK, Request
  <2>. QED
    BY <2>1, AmbiguousIsFinal, ErrorStepOnce
<1>9. ASSUME NEW q \in flight, NEW e, Reject(q, e)
      PROVE  OnceInv'
  <2>1. q.task \in Task /\ pc[q.task] = "waiting" /\ Awaited(q)
        /\ flight' = flight \ {q} /\ table' = table /\ HandleError(q.task, e)
    BY <1>9 DEF Reject, Awaited, TypeInv, TypeOK, Request
  <2>2. q.req = chunk[q.task]
    BY <2>1 DEF AccountInv, ProgressInv, AwaitedIsCurrent
  <2>3. \A p \in flight' : ~(p.task = q.task /\ p.req = chunk[q.task])
    BY <2>1, <2>2 DEF OnceInv, FliesOnce
  <2>4. \A c \in table' : ~(c.task = q.task /\ c.row \in Requests[q.task][chunk[q.task]])
    BY <2>1, <2>2 DEF OnceInv, FlyingIsNotStored, RowsOf
  <2>5. \A i \in DOMAIN Requests[q.task] : i = chunk[q.task] => Nowhere(q.task, i)'
    BY <2>3, <2>4 DEF Nowhere
  <2>. QED
    BY <2>1, <2>5, ErrorStepOnce
<1>10. ASSUME NEW q \in flight, LandAdd(q)
       PROVE  OnceInv'
  BY <1>10, LandAddOnce
<1>11. ASSUME NEW q \in flight, DropLate(q)
       PROVE  OnceInv'
  BY <1>1, <1>11 DEF DropLate, taskVars
<1>12. CASE OtherCreates
  BY <1>1, <1>12 DEF OtherCreates, taskVars
<1>13. ASSUME NEW r \in OtherRow, OtherAppends(r)
       PROVE  OnceInv'
  <2>1. \A c \in table' : c \in table \/ (c.task = Outside /\ c.row \notin SourceRow)
    BY <1>13, RowAssumption DEF OtherAppends, OutsideCopies
  <2>2. flight' = flight /\ pc' = pc /\ chunk' = chunk
    BY <1>13 DEF OtherAppends, taskVars
  <2>3. \A q \in flight : q.task \in Task
    BY DEF TypeInv, TypeOK, Request
  <2>4. UnsentIsNowhere'
    BY <2>1, <2>2, OutsideAssumption DEF OnceInv, UnsentIsNowhere, Unsent
  <2>5. FliesOnce' /\ FlyingIsNotStored' /\ StoredBySameSend'
    BY <2>1, <2>2, <2>3, OutsideAssumption DEF OnceInv, FliesOnce, FlyingIsNotStored, RowsOf,
       StoredBySameSend
  <2>6. StoredOrigin'
    BY <2>1 DEF OnceInv, StoredOrigin
  <2>. QED
    BY <2>4, <2>5, <2>6 DEF OnceInv
<1>14. ASSUME NEW t \in Task
       PROVE  ~WorkerDies(t)
  BY DEF WorkerDies, TypeInv, TypeOK
<1>15. CASE UNCHANGED vars
  BY <1>1, <1>15 DEF vars, taskVars
<1>. QED
  BY <1>2, <1>3, <1>4, <1>5, <1>6, <1>7, <1>8, <1>9, <1>10, <1>11, <1>12, <1>13, <1>14, <1>15
  DEF Next, Client, Answer, Idle, ReadVersion, LandMerge, CommitConflict,
      RejectAmbiguousMerge

LEMMA OnceInvariant ==
  ASSUME Mode # "upsert", Policy = "default", MaxReplays = 0
  PROVE  Spec => [](TypeInv /\ AccountInv /\ OnceInv)
<1>1. Init => TypeInv /\ AccountInv /\ OnceInv
  BY InitType, InitAccount, InitOnce
<1>2. TypeInv /\ AccountInv /\ OnceInv /\ [Next]_vars => (TypeInv /\ AccountInv /\ OnceInv)'
  BY NextType, NextAccount, NextOnce
<1>. QED
  BY <1>1, <1>2, PTL DEF Spec

(* An append stores no row of its input twice, whatever replies are lost    *)
(* and however late requests land: the only failures _append_retry_predicate*)
(* and the realigning answer with another attempt leave nothing behind.     *)
THEOREM StoredAtMostOnce ==
  ASSUME Mode # "upsert", Policy = "default", MaxReplays = 0
  PROVE  Spec => []AtMostOnce
<1>1. ASSUME TypeInv, OnceInv, NEW c \in table, NEW d \in table, c.task # Outside,
             c.row = d.row
      PROVE  c = d
  <2>1. c \in Stored /\ d \in Stored
    BY <1>1 DEF TypeInv, TypeOK
  <2>2. c.task \in Task
    BY <2>1, <1>1 DEF Stored
  <2>3. PICK i \in DOMAIN Requests[c.task] : c.row \in Requests[c.task][i]
    BY <1>1 DEF OnceInv, StoredOrigin
  <2>4. c.row \in SourceRow
    BY <2>2, <2>3 DEF SourceRow
  <2>5. d.task # Outside /\ d.task \in Task
    BY <1>1, <2>1, <2>4 DEF OnceInv, StoredOrigin, Stored
  <2>6. PICK j \in DOMAIN Requests[d.task] : d.row \in Requests[d.task][j]
    BY <1>1, <2>5 DEF OnceInv, StoredOrigin
  <2>7. c.task = d.task /\ i = j
    BY <1>1, <2>2, <2>3, <2>5, <2>6, RowsOnceAssumption
  <2>8. c.send = d.send
    BY <1>1, <2>2, <2>3, <2>6, <2>7 DEF OnceInv, StoredBySameSend
  <2>. QED
    BY <2>1, <2>7, <2>8, <1>1 DEF Stored
<1>2. TypeInv /\ OnceInv => AtMostOnce
  BY <1>1 DEF AtMostOnce
<1>. QED
  BY <1>2, OnceInvariant, PTL

-----------------------------------------------------------------------------
(* The write implements WriteJob. *)

AbstractOutcome == IF Ended THEN job ELSE "running"
AbstractCopies == [u \in Unit |-> Cardinality(SendsStored(u[1], u[2]))]
AbstractDropped == {u \in Unit : u[2] \in skipped[u[1]]}

LEMMA UnitType ==
  ASSUME NEW u \in Unit
  PROVE  u[1] \in Task /\ u[2] \in DOMAIN Requests[u[1]] /\ u = <<u[1], u[2]>>
BY DEF Unit

LEMMA UnitOf ==
  ASSUME NEW t \in Task, NEW i \in DOMAIN Requests[t]
  PROVE  <<t, i>> \in Unit
BY DEF Unit

(* A set whose elements are all the same has one element or none.           *)
LEMMA OneOrNone ==
  ASSUME NEW S, \A m, n \in S : m = n
  PROVE  Cardinality(S) = IF S = {} THEN 0 ELSE 1
<1>1. CASE S = {}
  BY <1>1, FS_EmptySet
<1>2. CASE S # {}
  <2>1. PICK n : n \in S
    BY <1>2
  <2>2. S = {n}
    BY <2>1
  <2>. QED
    BY <2>2, FS_Singleton
<1>. QED
  BY <1>1, <1>2

(* A request has one copy if a row of it is stored, none otherwise.         *)
LEMMA CopiesAre ==
  ASSUME StoredBySameSend, NEW t \in Task, NEW i \in DOMAIN Requests[t]
  PROVE  Cardinality(SendsStored(t, i)) = IF SendsStored(t, i) = {} THEN 0 ELSE 1
<1>1. \A m, n \in SendsStored(t, i) : m = n
  BY DEF SendsStored, StoredBySameSend
<1>. QED
  BY <1>1, OneOrNone

(* Steps that store nothing new leave the copies alone.                     *)
LEMMA SameSends ==
  ASSUME NEW t \in Task, NEW i,
         \A c \in table \cup table' :
            c.task = t /\ c.row \in Requests[t][i] => c \in table /\ c \in table'
  PROVE  SendsStored(t, i)' = SendsStored(t, i)
BY DEF SendsStored

LEMMA SameCopies ==
  ASSUME \A t \in Task : \A c \in table \cup table' :
           c.task = t => c \in table /\ c \in table'
  PROVE  AbstractCopies' = AbstractCopies
<1>1. \A t \in Task : \A i \in DOMAIN Requests[t] : SendsStored(t, i)' = SendsStored(t, i)
  BY SameSends
<1>2. \A u \in Unit : SendsStored(u[1], u[2])' = SendsStored(u[1], u[2])
  BY <1>1, UnitType
<1>. QED
  BY <1>2 DEF AbstractCopies

(* Landing an add is Store.                                                 *)
LEMMA LandAddStores ==
  ASSUME TypeInv, OnceInv, OnceInv', NEW q \in flight, LandAdd(q)
  PROVE  \E u \in Unit : /\ AbstractCopies[u] = 0
                         /\ AbstractCopies' = [AbstractCopies EXCEPT ![u] = 1]
<1>1. q.task \in Task /\ q.req \in DOMAIN Requests[q.task]
  BY DEF TypeInv, TypeOK, ControlOK, Request
<1>2. \A c \in table' : \/ c \in table
                        \/ c.task = q.task /\ c.send = q.send /\ c.row \in RowsOf(q)
  BY DEF LandAdd, Copies
<1>3. table \subseteq table' /\ Copies(RowsOf(q), q.task, q.send) \subseteq table'
  BY DEF LandAdd
<1>4. SendsStored(q.task, q.req) = {}
  BY <1>1 DEF SendsStored, OnceInv, FlyingIsNotStored, RowsOf
<1>5. SendsStored(q.task, q.req)' # {}
  <2>1. PICK r \in RowsOf(q) : TRUE
    BY <1>1, RequestsType DEF RowsOf
  <2>2. [row |-> r, task |-> q.task, send |-> q.send] \in table'
    BY <1>3, <2>1 DEF Copies
  <2>3. \E c \in table' : c.task = q.task /\ c.row \in Requests[q.task][q.req]
    BY <2>1, <2>2 DEF RowsOf
  <2>. QED
    BY <2>3 DEF SendsStored
<1>6. ASSUME NEW t \in Task, NEW i \in DOMAIN Requests[t], ~(t = q.task /\ i = q.req)
      PROVE  SendsStored(t, i)' = SendsStored(t, i)
  <2>1. t = q.task => Requests[t][i] \cap RowsOf(q) = {}
    BY <1>1, <1>6, RowsOnceAssumption DEF RowsOf
  <2>. QED
    BY <1>2, <1>3, <2>1, SameSends
<1>7. Cardinality(SendsStored(q.task, q.req)) = 0
  BY <1>4, FS_EmptySet
<1>8. Cardinality(SendsStored(q.task, q.req)') = 1
  <2>1. \A m, n \in SendsStored(q.task, q.req)' : m = n
    BY <1>1 DEF SendsStored, OnceInv, StoredBySameSend
  <2>. QED
    BY <2>1, <1>5, OneOrNone
<1> DEFINE u == <<q.task, q.req>>
<1>9. u \in Unit /\ AbstractCopies[u] = 0
  BY <1>1, <1>7, UnitOf DEF AbstractCopies
<1>10. \A v \in Unit : AbstractCopies'[v] = IF v = u THEN 1 ELSE AbstractCopies[v]
  <2>1. SUFFICES ASSUME NEW v \in Unit
                 PROVE  Cardinality(SendsStored(v[1], v[2])')
                          = IF v = u THEN 1 ELSE Cardinality(SendsStored(v[1], v[2]))
    BY DEF AbstractCopies
  <2>2. CASE v = u
    BY <1>8, <2>2
  <2>3. CASE v # u
    <3>1. ~(v[1] = q.task /\ v[2] = q.req)
      BY <2>3, UnitType
    <3>2. SendsStored(v[1], v[2])' = SendsStored(v[1], v[2])
      BY <3>1, <1>6, UnitType
    <3>. QED
      BY <2>3, <3>2
  <2>. QED
    BY <2>2, <2>3
<1>11. AbstractCopies' = [AbstractCopies EXCEPT ![u] = 1]
  <2>1. AbstractCopies' = [v \in Unit |-> AbstractCopies'[v]]
        /\ AbstractCopies = [v \in Unit |-> AbstractCopies[v]]
    BY DEF AbstractCopies
  <2> HIDE DEF u
  <2>. QED
    BY <2>1, <1>10
<1>. QED
  BY <1>9, <1>11

AbstractVars == <<AbstractOutcome, AbstractCopies, AbstractDropped>>

(* A step that leaves the outcome, the stored rows of the job and the       *)
(* statistics of skipped requests alone stutters.                           *)
LEMMA Stutters ==
  ASSUME job' = job, skipped' = skipped,
         \A t \in Task : \A c \in table \cup table' :
            c.task = t => c \in table /\ c \in table'
  PROVE  UNCHANGED AbstractVars
<1>1. AbstractCopies' = AbstractCopies
  BY SameCopies
<1>. QED
  BY <1>1 DEF AbstractVars, AbstractOutcome, Ended, AbstractDropped

(* The driver ends the job once, as Succeed or Fail.                        *)
LEMMA DriverRefines ==
  ASSUME Mode # "upsert", TypeInv, AccountInv, OnceInv, Driver
  PROVE  [Job!Next]_AbstractVars
<1>1. skipped' = skipped /\ AbstractDropped' = AbstractDropped
  BY DEF Driver, ListTables, RefuseTable, PrepareTable, StartFails, FailJob,
     OnWriteComplete, taskVars, AbstractDropped
<1>2. AbstractCopies' = AbstractCopies
  <2>1. CASE table' = table
    BY <2>1, SameCopies
  <2>2. CASE table' # table
    <3>1. job = "listed" /\ table' = {}
      BY <2>2 DEF Driver, ListTables, RefuseTable, PrepareTable, StartFails, FailJob,
         OnWriteComplete
    <3>2. \A t \in Task : pc[t] = "pending"
      BY <3>1 DEF AccountInv, ProgressInv, Untouched
    <3>3. \A c \in table : c.task \notin Task
      BY <3>2, OutsideAssumption DEF OnceInv, StoredOrigin, UnsentIsNowhere, Unsent
    <3>. QED
      BY <3>1, <3>3, SameCopies
  <2>. QED
    BY <2>1, <2>2
<1>3. CASE OnWriteComplete
  <2>1. AbstractOutcome = "running" /\ AbstractOutcome' = "complete"
    BY <1>3 DEF OnWriteComplete, AbstractOutcome, Ended
  <2>2. ASSUME NEW u \in Unit, u \notin AbstractDropped
        PROVE  AbstractCopies[u] = 1
    <3>1. u[1] \in Task /\ u[2] \in DOMAIN Requests[u[1]]
      BY UnitType
    <3>2. u[2] \in written[u[1]]
      BY <1>3, <2>2, <3>1, RequestsType DEF OnWriteComplete, AbstractDropped, AccountInv,
         ProgressInv, DoneIsThrough, Counted, TypeInv, TypeOK
    <3>3. PICK r : r \in Requests[u[1]][u[2]]
      BY <3>1, RequestsType
    <3>4. SendsStored(u[1], u[2]) # {}
      BY <3>1, <3>2, <3>3 DEF AccountInv, WrittenIsStored, IsStored, SendsStored
    <3>. QED
      BY <3>1, <3>4, CopiesAre DEF OnceInv, AbstractCopies
  <2>. QED
    BY <1>1, <1>2, <2>1, <2>2
    DEF Job!Next, Job!Succeed, AbstractOutcome, AbstractCopies, AbstractDropped
<1>4. CASE ~OnWriteComplete
  <2>1. AbstractOutcome = "running" /\ AbstractOutcome' \in {"running", "failed"}
    BY <1>4 DEF Driver, ListTables, RefuseTable, PrepareTable, StartFails, FailJob,
       AbstractOutcome, Ended
  <2>. QED
    BY <1>1, <1>2, <2>1
    DEF Job!Next, Job!Fail, AbstractOutcome, AbstractCopies, AbstractDropped, AbstractVars
<1>. QED
  BY <1>3, <1>4

(* An error is a stutter, or gives the current request up.                  *)
LEMMA ErrorStepRefines ==
  ASSUME TypeInv, NEW t \in Task, NEW e, pc[t] \in {"ready", "waiting", "landed"},
         HandleError(t, e), table' = table
  PROVE  [Job!Next]_AbstractVars
<1>1. job' = job /\ AbstractCopies' = AbstractCopies /\ AbstractOutcome' = AbstractOutcome
  BY SameCopies DEF HandleError, AbstractOutcome, Ended
<1>2. CASE Skips(t, e)
  <2>1. chunk[t] \in DOMAIN Requests[t] /\ <<t, chunk[t]>> \in Unit /\ OnBatchError = "skip"
    BY <1>2, UnitOf DEF Skips, TypeInv, ControlOK
  <2>2. AbstractDropped' = AbstractDropped \cup {<<t, chunk[t]>>}
    <3>1. skipped' = [skipped EXCEPT ![t] = @ \cup {chunk[t]}]
      BY <1>2 DEF Skips
    <3>2. \A u \in Unit : u \in AbstractDropped'
                            <=> u \in AbstractDropped \/ u = <<t, chunk[t]>>
      BY <3>1, UnitType DEF AbstractDropped, TypeInv, TypeOK
    <3>. QED
      BY <2>1, <3>2 DEF AbstractDropped
  <2>. QED
    BY <1>1, <2>1, <2>2
    DEF Job!Next, Job!GiveUp, AbstractOutcome, AbstractCopies, AbstractDropped
<1>3. CASE ~Skips(t, e)
  <2>1. skipped' = skipped
    BY <1>3 DEF HandleError, Retries, Realigns, Raises
  <2>. QED
    BY <1>1, <2>1, Stutters
<1>. QED
  BY <1>2, <1>3

LEMMA InitRefines == Init => Job!Init
<1>. SUFFICES ASSUME Init
              PROVE  Job!Init
  OBVIOUS
<1>1. \A t \in Task : \A i : SendsStored(t, i) = {}
  BY OutsideAssumption DEF Init, OutsideCopies, SendsStored
<1>2. AbstractCopies = [u \in Unit |-> 0]
  BY <1>1, FS_EmptySet, UnitType DEF AbstractCopies
<1>3. AbstractDropped = {} /\ AbstractOutcome = "running"
  BY UnitType DEF Init, AbstractDropped, AbstractOutcome, Ended
<1>. QED
  BY <1>2, <1>3 DEF Job!Init, AbstractCopies, AbstractDropped, AbstractOutcome

LEMMA NextRefines ==
  ASSUME Mode # "upsert", Policy = "default", MaxReplays = 0,
         TypeInv, AccountInv, OnceInv, OnceInv', [Next]_vars
  PROVE  [Job!Next]_AbstractVars
<1>1. CASE Driver
  BY <1>1, DriverRefines
<1>2. ASSUME NEW t \in Task, Starts(t) \/ Send(t) \/ Reply(t) \/ TaskKilled(t)
      PROVE  [Job!Next]_AbstractVars
  <2>1. job' = job /\ skipped' = skipped /\ table' = table
    BY <1>2 DEF Starts, StartTask, StartTaskFails, Send, Reply, TaskKilled, StopsRunning
  <2>. QED
    BY <2>1, Stutters
<1>3. ASSUME NEW t \in Task, NEW e, Misaligned(t, e) \/ LoseReply(t, e)
      PROVE  [Job!Next]_AbstractVars
  BY <1>3, ErrorStepRefines DEF Misaligned, LoseReply
<1>4. ASSUME NEW q \in flight, NEW e, TimeOut(q, e) \/ Reject(q, e)
      PROVE  [Job!Next]_AbstractVars
  <2>1. q.task \in Task
    BY DEF TypeInv, TypeOK, Request
  <2>. QED
    BY <1>4, <2>1, ErrorStepRefines DEF TimeOut, Reject, Awaited
<1>5. ASSUME NEW q \in flight, LandAdd(q)
      PROVE  [Job!Next]_AbstractVars
  <2>1. PICK u \in Unit : /\ AbstractCopies[u] = 0
                          /\ AbstractCopies' = [AbstractCopies EXCEPT ![u] = 1]
    BY <1>5, LandAddStores
  <2>2. AbstractOutcome' = AbstractOutcome /\ AbstractDropped' = AbstractDropped
    BY <1>5 DEF LandAdd, Finishes, AbstractOutcome, AbstractDropped, Ended
  <2>. QED
    BY <2>1, <2>2 DEF Job!Next, Job!Store, AbstractOutcome, AbstractCopies, AbstractDropped
<1>6. ASSUME NEW q \in flight, DropLate(q)
      PROVE  [Job!Next]_AbstractVars
  BY <1>6, Stutters DEF DropLate, taskVars
<1>7. CASE OtherCreates
  BY <1>7, Stutters DEF OtherCreates, taskVars
<1>8. ASSUME NEW r \in OtherRow, OtherAppends(r)
      PROVE  [Job!Next]_AbstractVars
  BY <1>8, Stutters, OutsideAssumption DEF OtherAppends, OutsideCopies, taskVars
<1>9. ASSUME NEW t \in Task
      PROVE  ~WorkerDies(t)
  BY DEF WorkerDies, TypeInv, TypeOK
<1>10. CASE UNCHANGED vars
  BY <1>10, Stutters DEF vars, taskVars
<1>. QED
  BY <1>1, <1>2, <1>3, <1>4, <1>5, <1>6, <1>7, <1>8, <1>9, <1>10
  DEF Next, Client, Answer, Idle, ReadVersion, LandMerge, CommitConflict,
      RejectAmbiguousMerge

(* What callers of a create, append or overwrite rely on: each request is   *)
(* stored at most once, success means that every request was stored or      *)
(* skipped with leave, and the job ends once.                               *)
THEOREM ImplementsJob ==
  ASSUME Mode # "upsert", Policy = "default", MaxReplays = 0
  PROVE  Spec => ImplementsWriteJob
<1>1. Init => Job!Init
  BY InitRefines
<1>2. /\ TypeInv /\ AccountInv /\ OnceInv /\ (TypeInv /\ AccountInv /\ OnceInv)'
      /\ [Next]_vars
      => [Job!Next]_AbstractVars
  BY NextRefines
<1>3. [Job!Next]_AbstractVars => [Job!Next]_(Job!jobVars)
  BY DEF AbstractVars, Job!jobVars, AbstractOutcome, AbstractCopies, AbstractDropped
<1>. QED
  BY <1>1, <1>2, <1>3, OnceInvariant, PTL DEF Spec, Job!Spec, ImplementsWriteJob

=============================================================================
