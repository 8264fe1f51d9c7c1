----------------------------- MODULE RemoteRead -----------------------------
(***************************************************************************)
(* read_lancedb.  Of a Cloud or Enterprise table, LanceDBDatasource          *)
(* (lancedb_ray/datasource.py): the driver pins a version, counts its rows  *)
(* and plans the read tasks; each task opens the pinned table on its        *)
(* worker, through the per-process cache of connection.py, and reads its    *)
(* shard page by page.  Of a local table, _read_local (lancedb_ray/io.py):  *)
(* the driver pins a version and lance-ray, which is external, reads its    *)
(* fragments.  Meanwhile other clients commit versions and move tags.       *)
(*                                                                         *)
(* A version's contents are the sequence of its rows in storage order.      *)
(***************************************************************************)
EXTENDS RetryPolicy, ReadPlan, RowFilter, SequencesExt

CONSTANTS
  Calls,         \* arguments of read_lancedb and of Ray's get_read_tasks
  EarlierKeys,   \* versions that earlier reads of these workers named
  None,          \* the Python value: no version, no limit
  Tag,           \* the name of a tag, as a version
  Row,           \* rows
  Matching,      \* the rows the filter accepts
  Contents,      \* what a commit may make of the table
  MaxVersions,   \* bound: versions of the table
  Worker,        \* worker processes
  MaxAttempts,   \* RetryPolicy.max_attempts
  Errors,        \* the messages requests fail with
  MaxReplays     \* bound: times Ray replays the tasks of dead workers

ASSUME ContentsAssumption == Contents \subseteq Seq(Row)
ASSUME TagAssumption == Tag \notin Nat /\ None \notin Nat /\ None # Tag
ASSUME EarlierKeysAssumption == EarlierKeys \subseteq {1, 2, Tag}
ASSUME ReadAttemptsAssumption == MaxAttempts \in Nat \ {0}

ArgsOf(version, limit) ==
  [remote : BOOLEAN, strategy : {"auto", "offsets", "pagination", "single"}, filter : BOOLEAN,
   version : version, batchSize : Nat \ {0}, parallelism : Nat \ {0}, limit : limit]

ASSUME CallsAssumption ==
  Calls \subseteq ArgsOf((Nat \ {0}) \cup {None, Tag}, (Nat \ {0}) \cup {None})

VARIABLES
  call,        \* the arguments of this read
  versions,    \* contents of the table's versions
  tag,         \* the version the tag names
  cache,       \* _open_pinned_table's handles, per worker
  driver,      \* where the driver is
  pinned,      \* self._version
  sized,       \* the version the driver counted
  shards,      \* the row ranges of the read tasks
  pc, pos, attempt, handle, got,   \* each task: control, next offset, attempt
                                   \* number, version of its handle, rows yielded
  replays

callVars == <<call, versions, tag>>
driverVars == <<driver, pinned, sized, shards>>
taskVars == <<pc, pos, attempt, handle, got>>
vars == <<callVars, cache, driverVars, taskVars, replays>>

Task == DOMAIN shards

(* The branch of read_lancedb, then _resolve_strategy.                      *)
Strategy ==
  CASE ~call.remote                              -> "fragments"
    [] call.remote /\ call.strategy # "auto"     -> call.strategy
    [] OTHER -> IF call.filter THEN "pagination" ELSE "offsets"

(* What where(filter) leaves of a version.                                  *)
Selected(v) ==
  IF call.filter THEN Accepted(versions[v], Matching) ELSE versions[v]

(* What checkout(version) resolves to now.                                  *)
Resolve(version) == IF version = Tag THEN tag ELSE version

Handle == [worker : Worker, key : Nat \cup {Tag}, version : Nat]

(* Handles earlier reads may have left behind in the workers.               *)
EarlierHandles ==
  {[worker |-> w, key |-> k, version |-> Resolve(k)] : w \in Worker, k \in EarlierKeys}

TypeOK ==
  /\ call \in Calls
  /\ versions \in Seq(Seq(Row)) \ {<<>>}
  /\ tag \in DOMAIN versions
  /\ cache \subseteq Handle
  /\ driver \in {"open", "pinned", "sized", "running", "complete", "failed"}
  /\ pinned \in Nat \cup {Tag}
  /\ sized \in Nat
  /\ shards \in Seq([start : Nat, end : Nat])
  /\ pc \in [Task -> {"pending", "reading", "streaming", "done", "failed"}]
  /\ pos \in [Task -> Nat]
  /\ attempt \in [Task -> 1..MaxAttempts]
  /\ handle \in [Task -> Nat]
  /\ got \in [Task -> Seq(Row)]
  /\ replays \in Nat

Init ==
  /\ call \in Calls
  /\ versions \in {<<c, d>> : c \in Contents, d \in Contents}
  /\ tag = 1
  /\ cache \in SUBSET EarlierHandles
  /\ driver = "open"
  /\ pinned = 0
  /\ sized = 0
  /\ shards = <<>>
  /\ pc = <<>> /\ pos = <<>> /\ attempt = <<>> /\ handle = <<>> /\ got = <<>>
  /\ replays = 0

-----------------------------------------------------------------------------
(* The driver: _read_local, or __init__ and get_read_tasks.                 *)

(* A local read: the version of the dataset just opened, unless one was     *)
(* named; lance-ray is told to read that version.                           *)
PinDataset ==
  /\ ~call.remote
  /\ driver = "open"
  /\ driver' = "pinned"
  /\ pinned' = IF call.version = None THEN Len(versions) ELSE call.version
  /\ UNCHANGED <<callVars, cache, sized, shards, taskVars, replays>>

(* Mutant: the version of a handle the process has cached. *)
PinVersionCached ==
  /\ call.remote
  /\ driver = "open"
  /\ driver' = "pinned"
  /\ pinned' = IF call.version # None THEN call.version
               ELSE IF cache = {} THEN Len(versions) ELSE (CHOOSE h \in cache : TRUE).version
  /\ UNCHANGED <<callVars, cache, sized, shards, taskVars, replays>>

(* open_table without a version, then table.version unless one was named.   *)
PinVersion ==
  /\ call.remote
  /\ driver = "open"
  /\ driver' = "pinned"
  /\ pinned' = IF call.version = None THEN Len(versions) ELSE call.version
  /\ UNCHANGED <<callVars, cache, sized, shards, taskVars, replays>>

(* Mutant: count_rows before checkout. *)
SizeScanUnpinned ==
  /\ driver = "pinned"
  /\ Resolve(pinned) \in DOMAIN versions
  /\ sized' = Len(versions)
  /\ driver' = "sized"
  /\ UNCHANGED <<callVars, cache, pinned, shards, taskVars, replays>>

(* table.checkout(self._version), then count_rows of that version; lance-   *)
(* ray opens the dataset at the version it was told.                        *)
SizeScan ==
  /\ driver = "pinned"
  /\ Resolve(pinned) \in DOMAIN versions
  /\ sized' = Resolve(pinned)
  /\ driver' = "sized"
  /\ UNCHANGED <<callVars, cache, pinned, shards, taskVars, replays>>

(* Connecting, opening, checking out or counting raised; nothing retries.   *)
DriverFails ==
  /\ driver \in {"open", "pinned"}
  /\ driver' = "failed"
  /\ UNCHANGED <<callVars, cache, pinned, sized, shards, taskVars, replays>>

NumRows == Len(Selected(sized))

WholeTable ==
  <<[start |-> 0, end |-> IF call.limit = None THEN NumRows ELSE Least(NumRows, call.limit)]>>

TaskShards ==
  CASE NumRows = 0 -> <<>>
    [] NumRows > 0 /\ Strategy = "single" -> WholeTable
    [] OTHER ->
         LET planned == PlanOffsetShards(NumRows, call.parallelism)
         IN IF call.limit = None THEN planned ELSE Shorten(planned, call.limit)

(* lance-ray: the fragments of a version cut its rows anywhere.             *)
Cuts(n, k) ==
  {cut \in [0..k -> 0..n] :
     cut[0] = 0 /\ cut[k] = n /\ \A i \in 1..k : cut[i - 1] < cut[i]}

Fragments(n) ==
  UNION {{[i \in 1..k |-> [start |-> cut[i - 1], end |-> cut[i]]] : cut \in Cuts(n, k)} :
           k \in 0..n}

Plan(ranges) ==
  /\ driver = "sized"
  /\ driver' = "running"
  /\ shards' = ranges
  /\ pc' = [t \in DOMAIN ranges |-> "pending"]
  /\ pos' = [t \in DOMAIN ranges |-> ranges[t].start]
  /\ attempt' = [t \in DOMAIN ranges |-> 1]
  /\ handle' = [t \in DOMAIN ranges |-> 0]
  /\ got' = [t \in DOMAIN ranges |-> <<>>]
  /\ UNCHANGED <<callVars, cache, pinned, sized, replays>>

PlanTasks == call.remote /\ Plan(TaskShards)

PlanFragments ==
  /\ ~call.remote
  /\ driver = "sized"
  /\ \E ranges \in Fragments(Len(versions[sized])) : Plan(ranges)

(* Ray: the read is over when every task is, or when one fails.             *)
FinishRead ==
  /\ driver = "running"
  /\ \/ (\A t \in Task : pc[t] = "done") /\ driver' = "complete"
     \/ (\E t \in Task : pc[t] = "failed") /\ driver' = "failed"
  /\ UNCHANGED <<callVars, cache, pinned, sized, shards, taskVars, replays>>

-----------------------------------------------------------------------------
(* A read task.                                                             *)

Cached(w, key) == {h \in cache : h.worker = w /\ h.key = key}

(* open_table(version=...): the worker's cached handle, or a new one.       *)
Opened(w) ==
  IF Cached(w, pinned) # {}
  THEN Cached(w, pinned)
  ELSE {[worker |-> w, key |-> pinned, version |-> Resolve(pinned)]}

StartTask(t, w) ==
  /\ call.remote
  /\ driver = "running"
  /\ pc[t] = "pending"
  /\ \E h \in Opened(w) :
       /\ handle' = [handle EXCEPT ![t] = h.version]
       /\ cache' = cache \cup {h}
  /\ pc' = [pc EXCEPT ![t] = "reading"]
  /\ UNCHANGED <<callVars, driverVars, pos, attempt, got, replays>>

(* Opening the table is outside call_with_retry.                            *)
StartTaskFails(t) ==
  /\ driver = "running"
  /\ pc[t] = "pending"
  /\ pc' = [pc EXCEPT ![t] = "failed"]
  /\ UNCHANGED <<callVars, driverVars, cache, pos, attempt, handle, got, replays>>

(* The rows [from, to) of a sequence, cut off at its end.                   *)
Slice(rows, from, to) == SubSeq(rows, from + 1, Least(to, Len(rows)))

(* lance-ray: a task opens the dataset at the version of the read and scans *)
(* its fragment for the rows the filter accepts; it may fail.               *)
OpenDataset(t) ==
  /\ ~call.remote
  /\ driver = "running"
  /\ pc[t] = "pending"
  /\ handle' = [handle EXCEPT ![t] = Resolve(pinned)]
  /\ pc' = [pc EXCEPT ![t] = "reading"]
  /\ UNCHANGED <<callVars, driverVars, cache, pos, attempt, got, replays>>

ScanFragment(t) ==
  LET rows == Slice(versions[handle[t]], shards[t].start, shards[t].end)
  IN /\ ~call.remote
     /\ pc[t] = "reading"
     /\ \/ /\ pc' = [pc EXCEPT ![t] = "done"]
           /\ got' = [got EXCEPT ![t] =
                        IF call.filter THEN Accepted(rows, Matching) ELSE rows]
        \/ pc' = [pc EXCEPT ![t] = "failed"] /\ UNCHANGED got
     /\ UNCHANGED <<callVars, driverVars, cache, pos, attempt, handle, replays>>

(* The rows of a task's next page: take_offsets reads positions of the whole *)
(* table, a query those of the rows its filter leaves.                      *)
Page(t, range) ==
  Slice(IF Strategy = "offsets" THEN versions[handle[t]] ELSE Selected(handle[t]),
        pos[t], ChunkEnd(range, pos[t], call.batchSize))

IsLastPage(t) == pos[t] + call.batchSize >= shards[t].end

IsShortPage(t) ==
  Len(Page(t, shards[t])) < ChunkEnd(shards[t], pos[t], call.batchSize) - pos[t]

(* A page of the range is yielded as one block.                             *)
Yield(t, range, last) ==
  /\ got' = [got EXCEPT ![t] = @ \o Page(t, range)]
  /\ pos' = [pos EXCEPT ![t] = ChunkEnd(range, @, call.batchSize)]
  /\ attempt' = [attempt EXCEPT ![t] = 1]
  /\ pc' = [pc EXCEPT ![t] = IF last THEN "done" ELSE @]
  /\ UNCHANGED <<callVars, driverVars, cache, handle, replays>>

(* _read_offsets: take_offsets of the next chunk of the shard.              *)
TakeOffsets(t) ==
  /\ Strategy = "offsets"
  /\ pc[t] = "reading"
  /\ Yield(t, shards[t], IsLastPage(t))

(* _read_pagination: a short page ends the shard.                           *)
ReadPage(t) ==
  /\ Strategy = "pagination"
  /\ pc[t] = "reading"
  /\ Yield(t, shards[t], IsLastPage(t) \/ IsShortPage(t))

(* _read_single: the query is opened with retries, its batches are not.     *)
OpenStream(t) ==
  /\ Strategy = "single"
  /\ pc[t] = "reading"
  /\ pc' = [pc EXCEPT ![t] = "streaming"]
  /\ UNCHANGED <<callVars, driverVars, cache, pos, attempt, handle, got, replays>>

StreamEnd(t) ==
  LET n == Len(Selected(handle[t])) IN IF call.limit = None THEN n ELSE Least(n, call.limit)

StreamBatch(t) ==
  LET stream == [start |-> 0, end |-> StreamEnd(t)]
  IN /\ pc[t] = "streaming"
     /\ Yield(t, stream, pos[t] + call.batchSize >= stream.end)

(* Mutant: a stream that breaks is opened again. *)
StreamBreaksReopening(t) ==
  /\ pc[t] = "streaming"
  /\ pc' = [pc EXCEPT ![t] = "reading"]
  /\ pos' = [pos EXCEPT ![t] = shards[t].start]
  /\ got' = [got EXCEPT ![t] = <<>>]
  /\ UNCHANGED <<callVars, driverVars, cache, attempt, handle, replays>>

StreamBreaks(t) ==
  /\ pc[t] = "streaming"
  /\ pc' = [pc EXCEPT ![t] = "failed"]
  /\ UNCHANGED <<callVars, driverVars, cache, pos, attempt, handle, got, replays>>

(* Mutant: the page is passed over when its attempts are used up. *)
RequestFailsOver(t, e) ==
  /\ call.remote
  /\ pc[t] = "reading"
  /\ IF RetriesAgain("custom", "read", MaxAttempts, attempt[t], e)
     THEN attempt' = [attempt EXCEPT ![t] = @ + 1] /\ UNCHANGED <<pc, pos>>
     ELSE /\ pc' = [pc EXCEPT ![t] = IF IsLastPage(t) THEN "done" ELSE @]
          /\ pos' = [pos EXCEPT ![t] = ChunkEnd(shards[t], @, call.batchSize)]
          /\ attempt' = [attempt EXCEPT ![t] = 1]
  /\ UNCHANGED <<callVars, driverVars, cache, handle, got, replays>>

(* Mutant: one attempt too many. *)
RequestFailsOnceMore(t, e) ==
  /\ call.remote
  /\ pc[t] = "reading"
  /\ IF RetriesAgain("custom", "read", MaxAttempts + 1, attempt[t], e)
     THEN attempt' = [attempt EXCEPT ![t] = @ + 1] /\ UNCHANGED pc
     ELSE pc' = [pc EXCEPT ![t] = "failed"] /\ UNCHANGED attempt
  /\ UNCHANGED <<callVars, driverVars, cache, pos, handle, got, replays>>

(* A request raised e: RetryPolicy() retries what is_transient accepts.     *)
RequestFails(t, e) ==
  /\ call.remote
  /\ pc[t] = "reading"
  /\ IF RetriesAgain("custom", "read", MaxAttempts, attempt[t], e)
     THEN attempt' = [attempt EXCEPT ![t] = @ + 1] /\ UNCHANGED pc
     ELSE pc' = [pc EXCEPT ![t] = "failed"] /\ UNCHANGED attempt
  /\ UNCHANGED <<callVars, driverVars, cache, pos, handle, got, replays>>

(* The worker dies; Ray discards the task's blocks and runs it again.       *)
WorkerDies(t) ==
  /\ pc[t] \in {"reading", "streaming"}
  /\ replays < MaxReplays
  /\ replays' = replays + 1
  /\ pc' = [pc EXCEPT ![t] = "pending"]
  /\ pos' = [pos EXCEPT ![t] = shards[t].start]
  /\ attempt' = [attempt EXCEPT ![t] = 1]
  /\ handle' = [handle EXCEPT ![t] = 0]
  /\ got' = [got EXCEPT ![t] = <<>>]
  /\ UNCHANGED <<callVars, driverVars, cache>>

-----------------------------------------------------------------------------
(* Other clients, and the cache's own eviction.                             *)

Commit(c) ==
  /\ Len(versions) < MaxVersions
  /\ versions' = Append(versions, c)
  /\ UNCHANGED <<call, tag, cache, driverVars, taskVars, replays>>

MoveTag(v) ==
  /\ call.version = Tag
  /\ tag' = v
  /\ UNCHANGED <<call, versions, cache, driverVars, taskVars, replays>>

(* The LRU cache is full, or the process is gone.                           *)
EvictHandle(h) ==
  /\ cache' = cache \ {h}
  /\ UNCHANGED <<callVars, driverVars, taskVars, replays>>

-----------------------------------------------------------------------------
Over == driver \in {"complete", "failed"}

(* Everything is over: not a deadlock.                                      *)
Idle == Over /\ UNCHANGED vars

Driver ==
  PinVersion \/ PinDataset \/ SizeScan \/ DriverFails \/ PlanTasks \/ PlanFragments \/ FinishRead

Starts(t) == StartTaskFails(t) \/ OpenDataset(t) \/ \E w \in Worker : StartTask(t, w)

Reads(t) ==
  \/ TakeOffsets(t) \/ ReadPage(t) \/ ScanFragment(t)
  \/ OpenStream(t) \/ StreamBatch(t) \/ StreamBreaks(t)
  \/ \E e \in Errors : RequestFails(t, e)

Next ==
  \/ Driver
  \/ \E t \in Task : Starts(t) \/ Reads(t) \/ WorkerDies(t)
  \/ \E c \in Contents : Commit(c)
  \/ \E v \in DOMAIN versions : MoveTag(v)
  \/ \E h \in cache : EvictHandle(h)
  \/ Idle

Spec == Init /\ [][Next]_vars

(* The driver runs on, Ray runs some task while there is one to run, and    *)
(* each request is answered, if only by a timeout.                          *)
FairSpec ==
  /\ Spec
  /\ WF_vars(Driver)
  /\ WF_vars(\E t \in Task : Starts(t) \/ Reads(t))

-----------------------------------------------------------------------------
(* Properties *)

(* The read is pinned to a number: the latest version, or one the caller    *)
(* named.  A tag is pinned by name only and each worker resolves it anew.   *)
Numbered == pinned # Tag

Output == FlattenSeq(got)

(* A read that completes is of one version: its tasks' blocks, in order,    *)
(* are the filtered rows of the version the driver counted, each once; and  *)
(* under a limit Ray can serve it from the front of them.                   *)
ReadServesSnapshot ==
  Numbered /\ driver = "complete" =>
    LET want == Selected(sized)
        n    == IF call.limit = None THEN Len(want) ELSE Least(call.limit, Len(want))
    IN /\ IsPrefix(SubSeq(want, 1, n), Output)
       /\ call.limit = None => Len(Output) = n

(* A task that has opened the table reads the version its shard was planned *)
(* for, whatever has been committed and whatever its worker had cached      *)
(* (datasource.py, __init__: "Pin *before* sizing the scan").               *)
OneSnapshot == Numbered => \A t \in Task : handle[t] # 0 => handle[t] = sized

(* The row count a task was announced with, which Dataset.count() reports   *)
(* without running the read, is what it yields.                             *)
CountsAgree ==
  Numbered /\ call.remote => \A t \in Task : pc[t] = "done" => Len(got[t]) = shards[t].end - shards[t].start

(* The read implements SnapshotRead: what completes is one version's rows,  *)
(* and without a version that of the moment the driver looked, which is in  *)
(* the call; after that no commit, cached handle or replay changes it.      *)
Snapshot == INSTANCE SnapshotRead WITH
  version <- pinned,
  status <- IF Over THEN driver ELSE "reading",
  output <- IF driver = "complete" THEN Output ELSE <<>>

ImplementsSnapshotRead == Snapshot!Spec

(* Every read ends, whatever fails and however often tables and tags move.  *)
ReadEnds == <>Over

(* "filter: SQL predicate, evaluated server-side" (README.md): a read with  *)
(* a filter returns only rows it accepts.                                   *)
OnlyMatchingRows ==
  call.filter /\ driver = "complete" => ToSet(Output) \subseteq Matching

=============================================================================
