------------------------------ MODULE Datasink ------------------------------
(***************************************************************************)
(* LanceDBDatasink (lancedb_ray/datasink.py): one distributed write through *)
(* the table API.  The driver runs on_write_start, Ray runs write() once    *)
(* per task, at most Concurrency at a time, and on_write_complete adds the  *)
(* tasks' statistics up.  A task sends its requests one after the other,    *)
(* each through call_with_retry.                                            *)
(*                                                                         *)
(* The LanceDB service is external: it lands an add atomically, runs a      *)
(* merge_insert as a snapshot read followed by a commit, may refuse a       *)
(* request without applying it, and may lose the answer to one.  A request  *)
(* its client has given up on may still be travelling (LateRequests).       *)
(***************************************************************************)
EXTENDS RetryPolicy, FiniteSets, Sequences

CONSTANTS
  Task,            \* write tasks Ray makes out of the dataset
  Row,             \* row identities: no row of the input equals another
  KeyOf,           \* the value of the `on` columns of each row
  Requests,        \* for each task, the sequence of requests it cuts its rows into
  Mode,            \* "create", "append", "overwrite" or "upsert"
  UpdateAll,       \* when_matched_update_all
  InsertAll,       \* when_not_matched_insert_all
  DeleteWhere,     \* rows when_not_matched_by_source_delete may delete ({}: False)
  OnBatchError,    \* "raise" or "skip"
  Policy,          \* "default" or "custom" (see RetryPolicy)
  MaxAttempts,     \* RetryPolicy.max_attempts
  HasSchema,       \* the driver has a schema to create the table with
  Concurrency,     \* write tasks Ray runs at once
  Errors,          \* the messages the service and the network produce
  Ambiguous,       \* those that say nothing about whether the request landed
  LateRequests,    \* a request may land after its client gave up on it
  MaxReplays,      \* bound: times Ray replays a task whose worker died
  OldRow,          \* rows another writer left in the table before the job
  OtherRow,        \* rows another writer may append while the job runs
  Outside          \* the "task" of a row this job did not write

SourceRow == UNION {UNION {Requests[t][i] : i \in DOMAIN Requests[t]} : t \in Task}

ASSUME ModeAssumption == Mode \in {"create", "append", "overwrite", "upsert"}
ASSUME OnBatchErrorAssumption == OnBatchError \in {"raise", "skip"}
ASSUME MaxAttemptsAssumption == MaxAttempts \in Nat \ {0}
ASSUME OutsideAssumption == Outside \notin Task
ASSUME RequestsAssumption == Requests \in [Task -> Seq((SUBSET Row) \ {{}})]
ASSUME ErrorsAssumption == Errors \subseteq SUBSET Markers
ASSUME RowAssumption ==
  /\ OldRow \subseteq Row /\ OtherRow \subseteq Row
  /\ (OldRow \cup OtherRow) \cap SourceRow = {}

(* A row of the input sits in one request of one task.                      *)
ASSUME RowsOnceAssumption ==
  \A t, u \in Task : \A i \in DOMAIN Requests[t], j \in DOMAIN Requests[u] :
     Requests[t][i] \cap Requests[u][j] # {} => t = u /\ i = j

(* A refused connection, a failed resolution, a rate limit or a losing      *)
(* commit is never the answer to a request that landed: what the retry      *)
(* predicate for appends takes for granted.                                 *)
ASSUME AmbiguousAssumption ==
  /\ Ambiguous \subseteq Errors
  /\ \A e \in Ambiguous :
        ~IsDefinitelyNotApplied(e) /\ ~IsCommitConflict(e) /\ ~IsArrowAlignmentError(e)

-----------------------------------------------------------------------------
VARIABLES
  job,        \* the driver: where on_write_start and Ray's execution are
  listing,    \* whether list_table_names contained the table
  owner,      \* who created the table: "none", "other" or "job"
  table,      \* the stored rows, each with the request that inserted it
  flight,     \* requests the service may still act on
  pc,         \* each task's control state
  chunk,      \* index of the request a task is at
  attempt,    \* attempt number within call_with_retry (1-based)
  realigned,  \* whether the current request's payload was realigned
  sent,       \* requests a task has put on the wire
  written,    \* requests counted in the task's num_rows
  skipped,    \* requests counted in the task's num_skipped_rows
  replays     \* times Ray has replayed the task

taskVars == <<pc, chunk, attempt, realigned, sent, written, skipped, replays>>
vars == <<job, listing, owner, table, flight, taskVars>>

Stored == [row : Row, task : Task \cup {Outside}, send : Nat]

Request == [task : Task, send : Nat, req : Nat, read : BOOLEAN, snap : SUBSET Stored]

TypeOK ==
  /\ job \in {"start", "listed", "writing", "complete", "failed"}
  /\ listing \in BOOLEAN
  /\ owner \in {"none", "other", "job"}
  /\ table \subseteq Stored
  /\ flight \subseteq Request
  /\ pc \in [Task -> {"pending", "ready", "waiting", "landed", "done", "failed"}]
  /\ chunk \in [Task -> Nat \ {0}]
  /\ attempt \in [Task -> 1..MaxAttempts]
  /\ realigned \in [Task -> BOOLEAN]
  /\ sent \in [Task -> Nat]
  /\ written \in [Task -> SUBSET Nat]
  /\ skipped \in [Task -> SUBSET Nat]
  /\ replays \in [Task -> Nat]

(* Rows another writer stored.                                              *)
OutsideCopies(rows) == {[row |-> r, task |-> Outside, send |-> 0] : r \in rows}

Init ==
  /\ job = "start"
  /\ listing = FALSE
  /\ \/ owner = "none" /\ table = {}
     \/ owner = "other" /\ table = OutsideCopies(OldRow)
  /\ flight = {}
  /\ pc = [t \in Task |-> "pending"]
  /\ chunk = [t \in Task |-> 1]
  /\ attempt = [t \in Task |-> 1]
  /\ realigned = [t \in Task |-> FALSE]
  /\ sent = [t \in Task |-> 0]
  /\ written = [t \in Task |-> {}]
  /\ skipped = [t \in Task |-> {}]
  /\ replays = [t \in Task |-> 0]

-----------------------------------------------------------------------------
(* The driver: on_write_start.                                              *)

(* existing = set(list_table_names(db)).                                    *)
ListTables ==
  /\ job = "start"
  /\ job' = "listed"
  /\ listing' = (owner # "none")
  /\ UNCHANGED <<owner, table, flight, taskVars>>

MustRefuse ==
  \/ Mode = "create" /\ listing
  \/ ~HasSchema /\ (Mode \in {"create", "overwrite"} \/ ~listing)

(* The ValueErrors, and create_table(mode="create") meeting a table created *)
(* since the listing.                                                       *)
RefuseTable ==
  /\ job = "listed"
  /\ MustRefuse \/ (Mode = "create" /\ owner # "none")
  /\ job' = "failed"
  /\ UNCHANGED <<listing, owner, table, flight, taskVars>>

(* Mutant: create_table(exist_ok=True) for mode="create" too. *)
PrepareTableExistOk(outcome) ==
  /\ job = "listed"
  /\ ~MustRefuse
  /\ outcome = "writing"
  /\ owner' = IF owner = "none" \/ Mode = "overwrite" THEN "job" ELSE owner
  /\ table' = IF Mode = "overwrite" THEN {} ELSE table
  /\ job' = outcome
  /\ UNCHANGED <<listing, flight, taskVars>>

(* create_table took effect (or was not needed); outcome is "failed" when   *)
(* its answer was lost, which nothing retries.                              *)
PrepareTable(outcome) ==
  /\ job = "listed"
  /\ ~MustRefuse
  /\ \/ Mode = "create" /\ owner = "none"
     \/ Mode = "overwrite"
     \/ Mode \in {"append", "upsert"}
  /\ outcome = "failed" => Mode \in {"create", "overwrite"} \/ ~listing
  /\ owner' = IF owner = "none" \/ Mode = "overwrite" THEN "job" ELSE owner
  /\ table' = IF Mode = "overwrite" THEN {} ELSE table
  /\ job' = outcome
  /\ UNCHANGED <<listing, flight, taskVars>>

(* connect, the listing or create_table failed before any effect.           *)
StartFails ==
  /\ job \in {"start", "listed"}
  /\ job' = "failed"
  /\ UNCHANGED <<listing, owner, table, flight, taskVars>>

(* Ray: one failed task fails the job; on_write_complete needs them all.    *)
FailJob ==
  /\ job = "writing"
  /\ \E t \in Task : pc[t] = "failed"
  /\ job' = "failed"
  /\ UNCHANGED <<listing, owner, table, flight, taskVars>>

OnWriteComplete ==
  /\ job = "writing"
  /\ \A t \in Task : pc[t] = "done"
  /\ job' = "complete"
  /\ UNCHANGED <<listing, owner, table, flight, taskVars>>

-----------------------------------------------------------------------------
(* A write task: write(), _write_in_chunks and _write_once.                 *)

Running == {t \in Task : pc[t] \in {"ready", "waiting", "landed"}}

(* Mutant: each task overwrites the table, besides the driver. *)
StartTaskOverwriting(t) ==
  /\ job = "writing"
  /\ pc[t] = "pending"
  /\ Cardinality(Running) < Concurrency
  /\ pc' = [pc EXCEPT ![t] = IF Requests[t] = <<>> THEN "done" ELSE "ready"]
  /\ table' = IF Mode = "overwrite" THEN {} ELSE table
  /\ UNCHANGED <<job, listing, owner, flight, chunk, attempt, realigned,
                 sent, written, skipped, replays>>

(* open_table and the blocks succeed; a task with no rows returns at once.  *)
StartTask(t) ==
  /\ job = "writing"
  /\ pc[t] = "pending"
  /\ Cardinality(Running) < Concurrency
  /\ pc' = [pc EXCEPT ![t] = IF Requests[t] = <<>> THEN "done" ELSE "ready"]
  /\ UNCHANGED <<job, listing, owner, table, flight, chunk, attempt, realigned,
                 sent, written, skipped, replays>>

(* open_table, transform_fn or _align_to_schema raised: neither the retry   *)
(* policy nor on_batch_error has a say.                                     *)
StartTaskFails(t) ==
  /\ job = "writing"
  /\ pc[t] = "pending"
  /\ Cardinality(Running) < Concurrency
  /\ pc' = [pc EXCEPT ![t] = "failed"]
  /\ UNCHANGED <<job, listing, owner, table, flight, chunk, attempt, realigned,
                 sent, written, skipped, replays>>

(* Mutant: the last request is left out. *)
MovesOnEarly(t) ==
  /\ pc' = [pc EXCEPT ![t] = IF chunk[t] + 1 >= Len(Requests[t]) THEN "done" ELSE "ready"]
  /\ chunk' = [chunk EXCEPT ![t] = @ + 1]
  /\ attempt' = [attempt EXCEPT ![t] = 1]
  /\ realigned' = [realigned EXCEPT ![t] = FALSE]

(* The task is through with its current request.                            *)
MovesOn(t) ==
  /\ pc' = [pc EXCEPT ![t] = IF chunk[t] = Len(Requests[t]) THEN "done" ELSE "ready"]
  /\ chunk' = [chunk EXCEPT ![t] = @ + 1]
  /\ attempt' = [attempt EXCEPT ![t] = 1]
  /\ realigned' = [realigned EXCEPT ![t] = FALSE]

(***************************************************************************)
(* An attempt raised e.  call_with_retry tries again, or raises; then an    *)
(* alignment rejection is met with a realigned copy and a fresh set of      *)
(* attempts, and anything else is left to on_batch_error.                   *)
(***************************************************************************)
Retryable(t, e) == RetriesAgain(Policy, Mode, MaxAttempts, attempt[t], e)

Realignable(t, e) == IsArrowAlignmentError(e) /\ ~realigned[t]

Retries(t, e) ==
  /\ Retryable(t, e)
  /\ pc' = [pc EXCEPT ![t] = "ready"]
  /\ attempt' = [attempt EXCEPT ![t] = @ + 1]
  /\ UNCHANGED <<chunk, realigned, written, skipped>>

(* Mutant: an alignment rejection is realigned again and again. *)
RealignsForever(t, e) ==
  /\ ~Retryable(t, e) /\ Realignable(t, e)
  /\ pc' = [pc EXCEPT ![t] = "ready"]
  /\ attempt' = [attempt EXCEPT ![t] = 1]
  /\ UNCHANGED <<chunk, realigned, written, skipped>>

Realigns(t, e) ==
  /\ ~Retryable(t, e) /\ Realignable(t, e)
  /\ pc' = [pc EXCEPT ![t] = "ready"]
  /\ attempt' = [attempt EXCEPT ![t] = 1]
  /\ realigned' = [realigned EXCEPT ![t] = TRUE]
  /\ UNCHANGED <<chunk, written, skipped>>

(* Mutant: the error is lost and the task goes on waiting. *)
RaisesNothing(t, e) ==
  /\ ~Retryable(t, e) /\ ~Realignable(t, e)
  /\ OnBatchError = "raise"
  /\ pc' = [pc EXCEPT ![t] = "waiting"]
  /\ UNCHANGED <<chunk, attempt, realigned, written, skipped>>

Raises(t, e) ==
  /\ ~Retryable(t, e) /\ ~Realignable(t, e)
  /\ OnBatchError = "raise"
  /\ pc' = [pc EXCEPT ![t] = "failed"]
  /\ UNCHANGED <<chunk, attempt, realigned, written, skipped>>

(* Mutant: a skipped request is counted as written (the missing return). *)
SkipsAndCounts(t, e) ==
  /\ ~Retryable(t, e) /\ ~Realignable(t, e)
  /\ OnBatchError = "skip"
  /\ skipped' = [skipped EXCEPT ![t] = @ \cup {chunk[t]}]
  /\ written' = [written EXCEPT ![t] = @ \cup {chunk[t]}]
  /\ MovesOn(t)

(* Mutant: a skipped request is only logged. *)
SkipsUncounted(t, e) ==
  /\ ~Retryable(t, e) /\ ~Realignable(t, e)
  /\ OnBatchError = "skip"
  /\ MovesOn(t)
  /\ UNCHANGED <<written, skipped>>

(* Mutant: a skipped request is counted, and still waited for. *)
SkipsWaiting(t, e) ==
  /\ ~Retryable(t, e) /\ ~Realignable(t, e)
  /\ OnBatchError = "skip"
  /\ skipped' = [skipped EXCEPT ![t] = @ \cup {chunk[t]}]
  /\ pc' = [pc EXCEPT ![t] = "waiting"]
  /\ UNCHANGED <<chunk, attempt, realigned, written>>

Skips(t, e) ==
  /\ ~Retryable(t, e) /\ ~Realignable(t, e)
  /\ OnBatchError = "skip"
  /\ skipped' = [skipped EXCEPT ![t] = @ \cup {chunk[t]}]
  /\ MovesOn(t)
  /\ UNCHANGED written

HandleError(t, e) ==
  /\ Retries(t, e) \/ Realigns(t, e) \/ Raises(t, e) \/ Skips(t, e)
  /\ UNCHANGED <<job, listing, owner, sent, replays>>

(* The request task t is waiting for, while the service still holds it.     *)
Awaited(q) == pc[q.task] = "waiting" /\ q.send = sent[q.task]

(* table.add or merge_insert(...).execute leaves the client.                *)
Send(t) ==
  /\ pc[t] = "ready"
  /\ pc' = [pc EXCEPT ![t] = "waiting"]
  /\ sent' = [sent EXCEPT ![t] = @ + 1]
  /\ flight' = flight \cup {[task |-> t, send |-> sent[t] + 1, req |-> chunk[t],
                             read |-> FALSE, snap |-> {}]}
  /\ UNCHANGED <<job, listing, owner, table, chunk, attempt, realigned, written,
                 skipped, replays>>

(* The Arrow import refuses the buffers before anything is sent; a          *)
(* realigned payload is in fresh buffers.                                   *)
Misaligned(t, e) ==
  /\ pc[t] = "ready"
  /\ IsArrowAlignmentError(e) /\ ~realigned[t]
  /\ HandleError(t, e)
  /\ UNCHANGED <<table, flight>>

Reply(t) ==
  /\ pc[t] = "landed"
  /\ written' = [written EXCEPT ![t] = @ \cup {chunk[t]}]
  /\ MovesOn(t)
  /\ UNCHANGED <<job, listing, owner, table, flight, sent, skipped, replays>>

(* The request landed and its answer was lost.                              *)
LoseReply(t, e) ==
  /\ pc[t] = "landed"
  /\ e \in Ambiguous
  /\ HandleError(t, e)
  /\ UNCHANGED <<table, flight>>

(* The client gives up waiting for a request that has not landed (yet).     *)
TimeOut(q, e) ==
  /\ Awaited(q)
  /\ e \in Ambiguous
  /\ HandleError(q.task, e)
  /\ flight' = IF LateRequests THEN flight ELSE flight \ {q}
  /\ UNCHANGED table

(* The service answers that it did not apply the request.                   *)
Reject(q, e) ==
  /\ Awaited(q)
  /\ e \in Errors \ Ambiguous
  /\ ~IsArrowAlignmentError(e)
  /\ HandleError(q.task, e)
  /\ flight' = flight \ {q}
  /\ UNCHANGED table

(* The worker running t dies, or is cancelled once the job has failed.  Ray *)
(* replays a dead worker's task from its blocks, with new statistics.       *)
StopsRunning(t) ==
  /\ flight' = IF LateRequests THEN flight ELSE {q \in flight : q.task # t}
  /\ UNCHANGED <<job, listing, owner, table, sent>>

WorkerDies(t) ==
  /\ t \in Running
  /\ replays[t] < MaxReplays
  /\ pc' = [pc EXCEPT ![t] = "pending"]
  /\ chunk' = [chunk EXCEPT ![t] = 1]
  /\ attempt' = [attempt EXCEPT ![t] = 1]
  /\ realigned' = [realigned EXCEPT ![t] = FALSE]
  /\ written' = [written EXCEPT ![t] = {}]
  /\ skipped' = [skipped EXCEPT ![t] = {}]
  /\ replays' = [replays EXCEPT ![t] = @ + 1]
  /\ StopsRunning(t)

TaskKilled(t) ==
  /\ pc[t] \in {"pending", "ready", "waiting", "landed"}
  /\ job = "failed" \/ (t \in Running /\ replays[t] = MaxReplays)
  /\ pc' = [pc EXCEPT ![t] = "failed"]
  /\ UNCHANGED <<chunk, attempt, realigned, written, skipped, replays>>
  /\ StopsRunning(t)

-----------------------------------------------------------------------------
(* The LanceDB service, as _write_reader and its comments rely on it.       *)

Keys(rows) == {KeyOf[r] : r \in rows}

RepeatsKey(rows) == \E r1, r2 \in rows : r1 # r2 /\ KeyOf[r1] = KeyOf[r2]

RowsOf(q) == Requests[q.task][q.req]

Copies(rows, t, n) == {[row |-> r, task |-> t, send |-> n] : r \in rows}

(* A request leaves the service; its client learns it landed if it is still *)
(* waiting for it.                                                          *)
Finishes(q) ==
  /\ flight' = flight \ {q}
  /\ pc' = IF Awaited(q) THEN [pc EXCEPT ![q.task] = "landed"] ELSE pc
  /\ UNCHANGED <<job, listing, owner, chunk, attempt, realigned, sent, written,
                 skipped, replays>>

(* table.add: every row of the request, in one commit.                      *)
LandAdd(q) ==
  /\ Mode # "upsert"
  /\ table' = table \cup Copies(RowsOf(q), q.task, q.send)
  /\ Finishes(q)

(* merge_insert: the source is matched against the version it opens.        *)
ReadVersion(q) ==
  /\ Mode = "upsert"
  /\ ~q.read
  /\ ~RepeatsKey(RowsOf(q))
  /\ flight' = (flight \ {q}) \cup {[q EXCEPT !.read = TRUE, !.snap = table]}
  /\ UNCHANGED <<job, listing, owner, table, taskVars>>

Matched(q) == {c \in q.snap : KeyOf[c.row] \in Keys(RowsOf(q))}

(* Mutant: unmatched rows are deleted although that was not asked for. *)
RemovedUnasked(q) == (IF UpdateAll THEN Matched(q) ELSE {}) \cup (q.snap \ Matched(q))

(* The stored rows the merge replaces or deletes.                           *)
Removed(q) ==
  (IF UpdateAll THEN Matched(q) ELSE {})
    \cup {c \in q.snap \ Matched(q) : c.row \in DeleteWhere}

Updated(q) ==
  IF UpdateAll
  THEN {[c EXCEPT !.row = CHOOSE r \in RowsOf(q) : KeyOf[r] = KeyOf[c.row]] :
          c \in Matched(q)}
  ELSE {}

Inserted(q) ==
  IF InsertAll
  THEN Copies({r \in RowsOf(q) : KeyOf[r] \notin Keys({c.row : c \in q.snap})},
              q.task, q.send)
  ELSE {}

(* The commit lands when every row it removes is still there: inserts of    *)
(* the same key by two merges do not conflict.                              *)
LandMerge(q) ==
  /\ Mode = "upsert"
  /\ q.read
  /\ Removed(q) \subseteq table
  /\ table' = (table \ Removed(q)) \cup Updated(q) \cup Inserted(q)
  /\ Finishes(q)

CommitConflict(q) ==
  /\ Mode = "upsert"
  /\ q.read /\ Awaited(q)
  /\ ~(Removed(q) \subseteq table)
  /\ HandleError(q.task, {"commit conflict"})
  /\ flight' = flight \ {q}
  /\ UNCHANGED table

(* "Ambiguous merge": two source rows for one key.                          *)
RejectAmbiguousMerge(q) ==
  /\ Mode = "upsert"
  /\ Awaited(q)
  /\ RepeatsKey(RowsOf(q))
  /\ HandleError(q.task, {})
  /\ flight' = flight \ {q}
  /\ UNCHANGED table

(* A request nobody waits for dies on its way.                              *)
DropLate(q) ==
  /\ ~Awaited(q)
  /\ flight' = flight \ {q}
  /\ UNCHANGED <<job, listing, owner, table, taskVars>>

(* Other clients of the same table.                                         *)
OtherCreates ==
  /\ owner = "none"
  /\ owner' = "other"
  /\ UNCHANGED <<job, listing, table, flight, taskVars>>

OtherAppends(r) ==
  /\ owner # "none"
  /\ r \notin {c.row : c \in table}
  /\ table' = table \cup OutsideCopies({r})
  /\ UNCHANGED <<job, listing, owner, flight, taskVars>>

-----------------------------------------------------------------------------
Ended == job \in {"complete", "failed"}

Stopped == Ended /\ (\A t \in Task : pc[t] \in {"done", "failed"}) /\ flight = {}

(* Everything is over: not a deadlock.                                      *)
Idle == Stopped /\ UNCHANGED vars

Driver ==
  \/ ListTables
  \/ RefuseTable
  \/ \E outcome \in {"writing", "failed"} : PrepareTable(outcome)
  \/ StartFails
  \/ FailJob
  \/ OnWriteComplete

Starts(t) == StartTask(t) \/ StartTaskFails(t)

Client(t) ==
  \/ Send(t)
  \/ \E e \in Errors : Misaligned(t, e)
  \/ Reply(t)
  \/ \E e \in Ambiguous : LoseReply(t, e)

(* What ends the wait for, or the life of, a request in flight.             *)
Answer(q) ==
  \/ \E e \in Errors : TimeOut(q, e) \/ Reject(q, e)
  \/ LandAdd(q)
  \/ ReadVersion(q)
  \/ LandMerge(q)
  \/ CommitConflict(q)
  \/ RejectAmbiguousMerge(q)
  \/ DropLate(q)

Next ==
  \/ Driver
  \/ \E t \in Task : Starts(t) \/ Client(t) \/ WorkerDies(t) \/ TaskKilled(t)
  \/ \E q \in flight : Answer(q)
  \/ OtherCreates
  \/ \E r \in OtherRow : OtherAppends(r)
  \/ Idle

Spec == Init /\ [][Next]_vars

(* The driver, Ray's scheduler and the tasks keep going, and every request  *)
(* is answered or given up on: the client's timeouts see to it.  Worker     *)
(* deaths and other writers are never owed.                                 *)
Fairness ==
  /\ WF_vars(Driver)
  /\ \A t \in Task :
       /\ WF_vars(Starts(t))
       /\ WF_vars(Client(t))
       /\ WF_vars(job = "failed" /\ TaskKilled(t))
  /\ WF_vars(\E q \in flight : Answer(q))

FairSpec == Spec /\ Fairness

-----------------------------------------------------------------------------
(* Properties *)

StoredRows == {c.row : c \in table}

RequestsIn(marks) == UNION {{Requests[t][i] : i \in marks[t]} : t \in Task}

(* The rows on_write_complete reports as written and as dropped.            *)
NumRows == UNION RequestsIn(written)
NumSkippedRows == UNION RequestsIn(skipped)

(* An append never stores a row of the input twice, whatever replies are    *)
(* lost and however late a request lands: _append_retry_predicate resends   *)
(* only what provably did not land.  (No worker is replayed.)               *)
AtMostOnce ==
  \A c, d \in table : c.task # Outside /\ c.row = d.row => c = d

(* A row the statistics count as written is in the table, at every moment   *)
(* of the job and not only at its end (datasink.py 439-440).                *)
CountedRowsAreStored == NumRows \subseteq StoredRows

(* A job that reports success accounts for every row of the input: the ones *)
(* on_write_complete does not report as dropped are in the table, and no    *)
(* row is reported both ways.                                               *)
SuccessLosesNothing ==
  job = "complete" =>
    /\ SourceRow \ NumSkippedRows \subseteq StoredRows
    /\ NumRows \cup NumSkippedRows = SourceRow
    /\ NumRows \cap NumSkippedRows = {}

(* mode="create" only ever adds to a table this job made: one that another  *)
(* client made between the listing and create_table is left alone.          *)
CreateIsExclusive ==
  Mode = "create" /\ (\E c \in table : c.task # Outside) => owner = "job"

(* Rows of the table the job has nothing to say about outlive it: once the  *)
(* tasks may write, no step removes a row whose key no source row has and   *)
(* which when_not_matched_by_source_delete does not name, and only          *)
(* mode="overwrite" removes any when it starts.                             *)
SourceKeys == Keys(SourceRow)

BystandersSurvive ==
  [][Mode # "overwrite" \/ job # "listed" =>
       \A c \in table \ table' : KeyOf[c.row] \in SourceKeys \/ c.row \in DeleteWhere]_vars

(* No task puts more on the wire than two rounds of max_attempts for each   *)
(* of its requests allow, in each of its runs; the second round follows     *)
(* realigning: the first round's last attempt is the one the import refused.*)
SendsAreBounded ==
  \A t \in Task :
    sent[t] <= (replays[t] + 1) * Len(Requests[t]) * (2 * MaxAttempts - 1)

(* Ray is not left waiting: the job ends, every task stops, and no request  *)
(* is left in flight.                                                       *)
Terminates == <>[]Stopped

(* mode="upsert": no key is stored twice, across tasks, retries and lost    *)
(* replies.                                                                 *)
KeysAreUnique == \A c, d \in table : KeyOf[c.row] = KeyOf[d.row] => c = d

(* What is left of that when a request may land after its client has given  *)
(* up on it and sent it again: a key is stored twice only by two sendings   *)
(* of one task.                                                             *)
RepeatsAreResends ==
  \A c, d \in table :
    KeyOf[c.row] = KeyOf[d.row] => c = d \/ (c.task = d.task /\ c.send # d.send)

(* A job that reports success stored every row it did not report as dropped *)
(* under its key, and under on_batch_error="raise" it dropped none.         *)
SuccessMergesEverything ==
  job = "complete" =>
    \A r \in SourceRow \ NumSkippedRows :
       \E c \in table : KeyOf[c.row] = KeyOf[r] /\ (UpdateAll => c.row = r)

-----------------------------------------------------------------------------
(* The abstract job this write implements when mode is not "upsert" and no  *)
(* worker is replayed.                                                      *)
Unit == UNION {{<<t, i>> : i \in DOMAIN Requests[t]} : t \in Task}

SendsStored(t, i) ==
  {c.send : c \in {c \in table : c.task = t /\ c.row \in Requests[t][i]}}

Job == INSTANCE WriteJob WITH
  MaySkip <- OnBatchError = "skip",
  outcome <- IF Ended THEN job ELSE "running",
  copies  <- [u \in Unit |-> Cardinality(SendsStored(u[1], u[2]))],
  dropped <- {u \in Unit : u[2] \in skipped[u[1]]}

(* Whatever the interleaving of tasks, lost replies and late requests, the  *)
(* caller sees a job that stores each request at most once and reports      *)
(* success only for what it stored or was allowed to skip.                  *)
ImplementsWriteJob == Job!Spec

=============================================================================
