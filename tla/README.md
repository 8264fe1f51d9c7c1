# lancedb-ray in TLA+

`lancedb-ray` writes Ray Datasets into LanceDB tables and reads tables back as
Datasets. This directory holds TLA+ models of it, TLC runs that check them on
small instances, and theorems proved with TLAPS for every instance. Line numbers
refer to the repository's `src/`; `PROJECT.json` maps every definition to its
lines.

## The system

| Component | Source | State it keeps | Operations |
| --- | --- | --- | --- |
| Retry classification | `lancedb_ray/_retry.py` | none (attempt counter of one call) | `is_transient`, `is_definitely_not_applied`, `is_commit_conflict`, `is_arrow_alignment_error`, `call_with_retry` |
| Datasink | `lancedb_ray/datasink.py` | driver: table listing; per task: current request, attempt, realigned payload, `WriteStats` | `on_write_start`, `write`, `_write_in_chunks`, `_write_once`, `_write_reader`, `on_write_complete` |
| Request planning | `_plan.py`, `datasink.py:136-158, 442-486` | the chunk being collected | `split_arrow_table`, `rows_within_byte_budget`, `_slice_to_ceilings`, the chunk loop |
| `write_lancedb` | `lancedb_ray/io.py` | none across calls | concurrency default, key shuffle, path dispatch, API path, fragment path |
| Fragment path | `io.py:721-1026` | versions read before and after the write | `_write_local_fragments`, `_finish_empty_overwrite`, `_create_empty_dataset` |
| Datasource | `datasource.py`, `_plan.py` | pinned version, row count, strategy | `__init__`, `get_read_tasks`, `_read_offsets`, `_read_pagination`, `_read_single` |
| Local reads | `io.py:251-296` | pinned version | `_read_local`; lance-ray reads the fragments |
| Connections | `connection.py` | per process: LRU caches of connections and of pinned tables | `connect`, `connect_kwargs`, `open_table`, `clear_connection_cache`, `list_table_names`, `table_exists`, `table_uri` |
| Benchmarks, examples, tests, release tooling | `benchmarks/`, `examples/`, `tests/`, `.github/` | - | around the library, not part of it |

How they interact. The driver calls `write_lancedb`, which partitions the
dataset and hands a datasink to Ray. Ray calls `on_write_start` once on the
driver, pickles the datasink to workers and runs `write` once per bundle of
blocks, several at a time; each task opens the table itself and talks to the
LanceDB service on its own. Tasks share nothing but the table. Every request goes
through `call_with_retry`; what is left of an error goes to the realigning retry
and then to `on_batch_error`. Ray hands all `WriteStats` to `on_write_complete`,
or fails the job.

`read_lancedb` pins a version on the driver; read tasks open it on their workers.
Every table and connection comes out of two caches that live as long as the process,
across jobs, and that several threads of a driver or worker use at once; the
credential a spec without a key stands for is read from the environment at each
call.

What is hard. A request may land and its answer be lost; a request may land after
its client gave up on it; two tasks' merges may be in progress at once; a worker
may die after any of its requests; the table may change under the job; a skipped
or retried request must be counted exactly once in the statistics the caller
sees; a cache filled under one credential is asked under another; threads that miss a
cache together each fill it.

What makes each component correct:

* retry classification - an append is resent only when it provably did not land;
  an operation is attempted at most `max_attempts` times;
* datasink - no row twice, no row lost behind a success, statistics that agree
  with the table, other clients' tables and rows left alone, every job ends;
* request planning - the requests partition the task's rows in order and respect
  the ceilings; a task that fits is one transaction;
* `write_lancedb` - all rows of a key in one task whenever two tasks can race;
* fragment path - one commit; never an empty table over a completed write;
* datasource - one snapshot, every row once; the strategies agree;
* connections - a connection never outlives its credentials; a pinned handle
  never drifts; a full cache is not reached by a normal job; a listing is exact.

## Modules

| Module | Models | Extends |
| --- | --- | --- |
| `RetryPolicy` | the marker tables, classifiers and predicates; whether an attempt is followed by another | - |
| `Datasink` | a whole table-API write: driver, tasks, service, other clients | `RetryPolicy` |
| `WriteJob` | the abstract promise of a create, append or overwrite | - |
| `RequestPlan` | how a task's batches become requests | `RowFilter` |
| `PlannedTask` | one write task that plans its requests | `RequestPlan` |
| `WriteLancedb` | the API path of `write_lancedb`: shuffle, bundling, planning, then an instance of `Datasink` on the result | `RequestPlan`, `RetryPolicy` |
| `FragmentWrite` | path dispatch and the fragment path with its two recoveries | - |
| `ReadPlan` | shards of a remote read and the requests of a shard | - |
| `RowFilter` | what a filter leaves of a sequence of rows | - |
| `RemoteRead` | `read_lancedb`, remote and local: driver, tasks, worker caches, other clients | `RetryPolicy`, `ReadPlan`, `RowFilter` |
| `SnapshotRead` | the abstract promise of a read | `RowFilter` |
| `TableListing` | `list_table_names` page by page, `table_exists`, and other clients that create and drop tables | - |
| `Connections` | one process: `connect`, `open_table`, the listing and `clear_connection_cache`, from several threads, with their caches and the environment's key | `TableListing` |
| `DatasinkProofs`, `UpsertProofs` | theorems about `Datasink` | `Datasink`, TLAPS |
| `FragmentWriteProofs` | theorems about `FragmentWrite` | `FragmentWrite`, TLAPS |
| `SequenceProofs` | induction, and lemmas about filtered and flattened sequences | `RowFilter`, TLAPS |
| `RequestPlanProofs` | theorems about `RequestPlan` and `PlannedTask` | `PlannedTask`, `SequenceProofs` |
| `WriteLancedbProofs` | theorems about `WriteLancedb`: those about `Datasink`, of the tasks and requests of any dataset | `WriteLancedb`, `RequestPlanProofs` |
| `RemoteReadProofs` | theorems about `ReadPlan` and `RemoteRead` | `RemoteRead`, `SequenceProofs` |
| `ConnectionsProofs` | theorems about `Connections` | `Connections`, TLAPS |
| `MCDatasink`, `MCWriteLancedb`, `MCRequestPlan`, `MCRemoteRead`, `MCConnections` | instances for TLC | |

### RetryPolicy

An exception is classified by the substrings of its message, so a message is the
set of markers it contains: one message may match several families (`"connection
refused"` is both transient and not-applied) or none. `Policy` tells a
`retry_policy` the caller built, whose predicate defaults to `is_transient`, from
the predicates the datasink picks by mode.

### Datasink

`job` is the driver's place in `on_write_start` and Ray's execution; `listing` is
what `list_table_names` answered, kept apart from `owner` because another client
may create the table after the listing. Each task has `pc` (`pending`, `ready` to
send, `waiting` for an answer, `landed` = applied but the answer not yet read,
`done`, `failed`), the index `chunk` of its request, the `attempt` of
`call_with_retry`, whether the payload was `realigned`, and the requests counted
in `num_rows` (`written`) and `num_skipped_rows` (`skipped`). `table` is the set of
stored rows, each tagged with the task and the send that inserted it, so that
duplicates can be told apart. `flight` holds the requests the service may still
act on, with the version a merge has read.

The steps follow the points at which other actors can act: sending, the service
reading a version, the commit, and the answer are separate actions; everything
between two of them in the code is one action. `HandleError` is the whole path of
an exception: another attempt, else a realigned copy, else `raise` or `skip` (with
the counters and the move to the next chunk). `MovesOn` is the return to the chunk
loop.

The service is external and modelled as the code relies on it: `add` is atomic;
`merge_insert` matches its source against the version it opened and commits if
the rows it replaces or removes are still there, so concurrent *inserts* of one
key do not conflict (README.md:152-154) while concurrent updates do; a source that
repeats a key is rejected. An error message in `Ambiguous` says nothing about
whether the request landed; `AmbiguousAssumption` states that a refused
connection, a rate limit, a conflict or an alignment rejection is never the answer
to a request that landed, which is what `_append_retry_predicate` takes for
granted. With `LateRequests` a request its client timed out on stays in `flight`
and may land later or be dropped.

### RequestPlan and WriteLancedb

`RequestPlan` has the arithmetic as it is in the code, on sequences of rows with
byte widths; ranges stay half-open. `_write_in_chunks` is a recursive function
(`Collected`) whose state is the chunks flushed so far and the one being collected.
`PlannedTask` is one task with any blocks, widths and ceilings. `WriteLancedb` computes the
tasks and requests from a dataset of blocks and runs `Datasink` on them; Ray's
hash repartition and its bundling up to `min_rows_per_write` are external.
`transform_fn` is a constant, `TransformFn`: what it makes of each block. A task applies it
to its blocks after the shuffle (`Transformed`), so what is planned, sent and counted are
the transformed rows (`TransformedRow`), and one that rewrites a key column can bring a
key to two tasks, as io.py:396-398 says. `_require_hash_shuffle` raises before anything is
planned when Ray's shuffle is not a hash-based one; the calls modelled are those it lets
pass (`ShuffleRefused`, `ShuffleAssumption`).

### WriteJob

Each request is stored at most once; the job succeeds only when every request was
stored or given up on, which takes `on_batch_error="skip"`; a job ends once. The
refinement maps `copies` to the number of distinct sends whose rows are stored.

### FragmentWrite

One action per storage call of the driver, in the code's order: list, resolve the
URI, read the version, `lance_ray.write_lance`, read the version again and replace
by an empty table, open the table, probe the dataset's state, count the input,
write an empty dataset, open again. `pc` names the next call; `exists` and `before`
are the local variables the code carries from one call to a later one. Every probe
may fail to answer (version 0 is `None`; state `unknown`), every unguarded call may
raise, and two other clients may append, overwrite, create or drop between any two
calls. lance-ray is external: one commit for all fragments, none for an input
without rows, an answer that may be lost. `commits`, `evicted`, `acted`, `raced` and
`recreated` are history variables for the properties.

`raced` and `recreated` speak of what happens while the driver has one version probe behind
it and the other before it (`Comparing`). `raced`: another client committed then.
`recreated`: the dataset was dropped and made anew then. Version numbers start again from
one with the new dataset, and the code's comparison of two version numbers cannot tell the
two datasets apart: a completed overwrite can be taken for an empty one and replaced.
`SuccessKeepsInput` and `OneVersion` hold of all other behaviours, datasets dropped and made
anew before the first probe or after the second included; without the condition TLC refutes
both.

### ReadPlan and RemoteRead

`ReadPlan` has `plan_offset_shards`' running sum in closed form. In `RemoteRead` a
version's contents are the sequence of its rows, so the output of a read can be
compared with one version row by row. The driver pins (`PinVersion`), checks out
and counts (`SizeScan`) and plans (`PlanTasks`); each is a step because commits may
come between. A task opens the pinned version through its worker's cache (`cache`
holds the handles of `_open_pinned_table`, each with the version it resolved to),
then reads a page per step: positions of the whole version for `offsets`, positions
of the filtered rows for `pagination`, which stops at a short page, batches of a
stream for `single`. A page that fails is retried under `RetryPolicy()`; opening
the table and an open stream are outside any retry, as in the code. A worker that
dies loses the task's blocks; Ray runs the task again.

A local read (`call.remote = FALSE`) takes the branch `_read_local`: the driver opens
the dataset and pins its version (`PinDataset`); lance-ray, which is external, opens
that version, cuts its rows into fragments in any way (`Fragments`), and its tasks
filter the rows of one fragment each (`OpenDataset`, `ScanFragment`), with no cache and
no retries of ours.

`version` may be a tag. The driver pins its name, and the driver and each worker
resolve it on their own (`Resolve`), so the properties are stated for versions that
are numbers (`Numbered`). For a tag that moves during the read `OneSnapshot`,
`ReadServesSnapshot` and `CountsAgree` fail, although README.md:41-43 speaks of
every read and `open_table` says its handles never drift; dropping `Numbered` shows
it.

### SnapshotRead

What `read_lancedb` promises: it chooses one version - the named one, or the latest
at a moment inside the call - and answers once, with that version's filtered rows in
order, or with an error. Under a limit the answer starts with the rows asked for (Ray
cuts the rest). Other clients' commits change nothing once the version is chosen. The
refinement maps its version to `pinned`, and its answer to the tasks' blocks in order
when the driver is through.

### TableListing and Connections

`Connections` is one process. A step is what a thread does between two points at which
another thread, or the service, can act: `functools.lru_cache` looks an entry up under
its lock, runs the function of a miss outside it, and takes the lock again to store the
result, keeping another thread's entry if there is one by then. So a connect is
`ResolveKey` (the cache key), `FindConnection` (hit, or miss), `OpenConnection`
(`connect_kwargs`, which resolves the key a *second* time, and `lancedb.connect`) and
`StoreConnection`; a pinned open has the same shape around it (`FindHandle`,
`OpenTable`, `StoreHandle`), so that its miss may be served by the connection cache.
`clear_connection_cache` empties two caches in two steps. Several threads per process
are what the caches are written for: a driver that reads and writes from several
threads, and Ray's threaded workers.

A credential is a number, 0 for none. The environment's key changes by `Rotate`; a
greater number is a later key. `began`, `stored` and `cleared` are history variables:
the environment's key when a call began, the keys connections were stored under, whether
the caches were ever cleared. A cache is the sequence of its entries, least recently used
first.

`TableListing` has the five kinds of connection that `list_table_names` tells apart: one
with pages, one that answers with a bare list, one without `list_tables`, one without page
tokens and one whose `list_tables` hands out a token with every page. A page is the first
few of the tables after its token, and empty only when none is left. Tables come and go
between pages.
`throughout` and `during` collect, per listing, the tables that were there all the time
and at some time.

## Runs

`create` and `overwrite` bound: two tasks, three requests (`ThreeRequests`: one task with
two requests, one with two rows in one request), `MaxAttempts = 2`, at most one replay
per task (`MaxReplays`). Two tasks suffice for every race of the code, which is
between pairs of merges or between a task and its own earlier request; two
requests in one task are the least that show a partial failure; two attempts are
the least that show a retry and its exhaustion. One message per family of the
classifiers stands for the others: the decisions depend on families only; `overwrite`,
which has replays, takes a timeout and a refusal (`FewErrors`). After the driver's
start an append and a create are the same program: `create` is checked for both, and the
theorems are about both.

| Run | Question | Result |
| --- | --- | --- |
| `create` | `mode="create"`, `skip`, all error families, late requests, a client that makes the same table and writes to it, under fairness | `TypeOK`; `CreateIsExclusive`; `AtMostOnce`; `CountedRowsAreStored`; `SuccessLosesNothing`; `SendsAreBounded`; refinement of `WriteJob`; `Terminates` |
| `overwrite` | `mode="overwrite"`, `raise`, next to another writer, late requests, worker deaths and replays, under fairness | `SuccessLosesNothing`; `BystandersSurvive`; `Terminates` |
| `upsert` | hash-partitioned, transformed upsert of a source with a repeated key, `skip`, late requests, a delete clause and commits that two tasks contend on | `RepeatsAreResends`; `SuccessMergesEverything`; `BystandersSurvive` |
| `request_plan` | all tasks of up to three batches of up to three rows of width 1 or 3, five row and six byte ceilings | rows kept in order; no empty request; ceilings respected; one transaction when it fits |
| `fragment` | every mode, strategy and kind of input; dataset absent or at version 1 or 2; failing probes; two other clients | `TypeOK`; `SuccessKeepsInput`; `OneVersion`; `QuietOverwriteEmpties`; `OldRowsSurvive` |
| `remote_read` | local reads, and every remote strategy (`offsets` without a filter), under fairness; tables of one or three rows that grow and shrink; page sizes 1 and 2, parallelism 1 and 2, with and without a limit; one commit, a handle of an earlier read, two attempts, one replay | `TypeOK`; `ReadServesSnapshot`; `OneSnapshot`; `CountsAgree`; refinement of `SnapshotRead`; `ReadEnds` |
| `connections` | two threads that connect, open pinned and unpinned tables, list and clear; an explicit key, the environment's key that is unset or rotated once, a local database; under fairness | `TypeOK`; `CredentialIsRight`; `CachesAreSound`; `NormalJobsKeepConnections`; `ListingIsExact`; `CallsReturn` |

In `upsert` the two partitions are two tasks. A ceiling of two rows cuts the first into
`{a1, a2}`, which repeats a key and is refused, and `{b1}`, which merges; the second task
has one request, which merges too. The two merges interleave, both remove the row of
`DeleteWhere`, so that one of them loses the commit (`CommitConflict`), and either may time
out, be sent again and land late. There are no replays: with late requests a merge and its
repetition are already in progress together, which is what a replay adds; the theorems have
any number of replays.

In `fragment` two other clients are enough to drop and recreate the dataset, or to
act once before and once after a probe. In `remote_read` three rows make two shards
of unequal length with a remainder, one of them two pages long; the shrunken table
is shorter than either shard's end. In `connections` two threads are the least that
miss together; three calls let one thread fill a cache, another evict or clear it, and
the first use it again. The caches have two places, and the calls use three connection
keys after a rotation and two pinned versions, so that the connection cache evicts and
two entries of the handle cache can be compared. A listing touches neither cache; it
takes the place of all calls (`Weight`), since its pages and other clients' changes
would only multiply the states. Two table names are enough for a table to vanish from a
page already read, or to appear behind it.

Runs that show a disagreement between a document and the code (the property is
what the document says):

| Run | The document | What the code does |
| --- | --- | --- |
| `upsert_delete` | `when_not_matched_by_source_delete` deletes target rows with no match in the source (datasink.py:214-216) | each request's source is only that request: it deletes rows other requests just merged |
| `upsert_late` | upserts are exactly-once, and replaying one converges on the same table (README.md:172-178) | a merge that timed out at the client has read the table, its retry reads it too, and both insert the key |
| `overwrite_raced` | an overwrite that matched no rows must still empty the table (tests/test_write.py:713) | a commit of another client between the two version probes is taken for the overwrite's own: it returns over the old rows without a warning |
| `read_offsets_filter` | `filter` is evaluated server-side (README.md:85) | with `remote_read_strategy="offsets"` the filtered rows are counted and that many positions of the unfiltered table are returned |
| `pinned_after_rotation` | the cache must not outlive the credential it was opened with (tests/test_connection.py, `TestCredentialRotation`; connection.py:230-236) | `_open_pinned_table` is keyed by spec, name and version only: after a rotation a pinned open returns the handle opened with the old key |

Others are in the models and have no run:

* with a per-request ceiling the rows of a repeated key may be in two requests of one task;
  they merge one after the other and the job succeeds, where README.md:162-164 speaks of a
  loud rejection: set `MaxRows` to 1 in `upsert`, and TLC refutes `SuccessMergesEverything`;
* a `transform_fn` that rewrites a row's key into one of another task's lets both tasks
  insert it. io.py:396-398 warns of it; with such a function TLC refutes
  `RepeatsAreResends`;
* an append retries name-resolution failures and an upsert gives up on them at once (the
  markers are in `_NOT_APPLIED_MARKERS` only; README.md:174-178);
* rows of a request whose answer was lost are reported as dropped and are stored
  (README.md:182);
* a tag is not pinned (above);
* `connect` resolves the environment's key for the cache key and again in
  `connect_kwargs` (connection.py:177), so an entry stored under one key may hold a later
  one. It does no harm while keys move forward; if the environment returns to an earlier
  key, a later `connect` under it is given the other key's connection.

`AtMostOnce` and the refinement are stated for the default policy without worker
replays: a policy of the caller's own resends ambiguous failures (its predicate
defaults to `is_transient`), and a replayed append stores its rows again; the
repository documents both as at-least-once.

### Fairness

`Terminates` assumes weak fairness of the driver, of starting each task, of each
task's own steps, of Ray's cancellation of tasks once the job has failed, and of
some end to every request in flight. The first are Python code and Ray's scheduler,
which run whenever they can; the last is the client's timeouts, which turn silence
into an exception. Worker deaths, other writers and the late landing of abandoned
requests are never owed.

`RemoteRead`'s `FairSpec` assumes weak fairness of the driver and of *some* task's start
or step: the code runs on, Ray runs some task while there is one to run, and a request is
answered, if by a timeout. Commits, moving tags, evictions and deaths are not owed, and
deaths are bounded (`MaxReplays`), as Ray's replays are. `Connections`' `FairSpec` assumes
it of each thread that is in a call: it runs on, and the service answers it. Calls,
rotations, errors of the service and other clients are not owed; `CallsReturn` needs no
bound on how many tables others create, because the token only moves forward.

## Proofs

`DatasinkProofs` proves, for every number of tasks, requests and attempts:

* `TypeCorrect`: `TypeOK`, from `TypeInv`, which adds that a working task is at
  one of its own requests and that requests in flight are their task's;
* `CountedRowsStored` and `SuccessLoses` (modes other than upsert, any policy, any
  number of replays): `CountedRowsAreStored` and `SuccessLosesNothing`. The
  inductive invariant has a part that holds in every mode, `ProgressInv`: the two
  statistics partition the requests before the current one (`Counted`), and an
  awaited request in flight is the current one (`AwaitedIsCurrent`), without which
  a late landing could be taken for the current request's. From it follows that a
  request comes to be counted only by landing (`HowRequestsLand`). `AccountInv`
  adds that what is counted as written, or has landed and waits for its answer to
  be read, is stored (`WrittenIsStored`).

It proves, under the default policy, modes other than upsert and no replays:

* `StoredAtMostOnce`: `AtMostOnce`. The invariant `OnceInv` follows each request:
  unsent, or about to be resent, it is nowhere (`UnsentIsNowhere`); it flies at most
  once (`FliesOnce`); while it flies it is not stored (`FlyingIsNotStored`). The
  crux is that the errors after which a task tries again are those after which
  the request is nowhere: rejections (nothing else of the request flies) and
  misaligned buffers (nothing was sent); ambiguous errors are final;
* `ImplementsJob`: `Spec => ImplementsWriteJob`, step by step: `LandAdd` is
  `Store`, a skip is `GiveUp`, `OnWriteComplete` is `Succeed`, the driver's failures
  are `Fail`, everything else stutters.

`FragmentWriteProofs` proves, for any set of other clients: `FragmentTypeCorrect`
(`TypeOK`), `InputKept` (`SuccessKeepsInput`), `CommitsOnce` (`OneVersion`) and
`OldRowsKept` (`OldRowsSurvive`). The second and third exclude, as the properties do, the
dataset that is dropped and made anew between the two version probes (`recreated`), where
the code does commit a second time. The inductive invariant `PathInv` says what each
recovery may rely on when it commits: nothing is committed before lance-ray is
called (`NothingYet`); a recovery runs only for the write it is for - the
replacement for an overwrite, the empty dataset for an input without rows, whose
old rows are gone by then (`RightWrite`); the version read before the write never
exceeds the dataset's and is below it once the write has committed, for as long as the
driver compares (`VersionsGrow`), which is why equal versions mean an empty write; and a write with
rows has committed once and never reaches the replacement (`CommittedOnce`).

`RemoteReadProofs` proves `ShardsPartition`, the assertion at the end of
`plan_offset_shards` and its docstring's promise for every row count and
parallelism, from the division theorem and the length of one shard; and
`ReadsOneSnapshot` (`OneSnapshot`) from `SnapInv`: cached handles of numbered
versions are of that version (`HandlesHonest`), what was counted is what was pinned
(`SizedAsPinned`), and tasks have handles only once there is a plan (`TasksShape`).
Local reads are two more steps of the same argument (`SnapPin`, `SnapOpen`).

What a read puts out is proved too, for every table, call, commit, failure, retry and
replay. The inductive invariant is `TypeInv /\ SnapInv /\ ServeInv`:

* `TypeInv` is `TypeOK` and `VersionsExist`: what was counted, what workers cache and
  what tasks hold are versions of the table. Theorem `TypeCorrect`;
* `PlanCovers`: the shards lie within the rows counted (`Within`) and cut them into
  consecutive pieces (`Partitions`), or, under a limit that shortened them, the first one
  alone is the rows asked for (`StartsWithLimit`). That needs the first shard to be a
  longest one, which the remainder's going to the first shards makes it;
* `Progress`: of the rows its positions count (`Counted`: the table's for `offsets` and
  fragments, the filter's for a query) a task has yielded its range up to `pos`, and all
  of it when it is done (`Paged`, `Scanned`). A page that comes back short would end the
  task early; it never does, because the shards lie within the rows counted;
* `ControlInv`: nothing is pinned before the driver has looked, a read completes with all
  its tasks done, and only `single` streams.

From it follow `CountsAreRight` (`CountsAgree`), in every strategy; `ReadServes`
(`ReadServesSnapshot`), since consecutive pieces, filtered or not, flatten to the whole
(`PiecesFlatten`); and `ReadRefines` (`ImplementsSnapshotRead`): the pinning step is
`Choose`, the end of the read `Answer` or `Fail`, commits are `Commit`, all else
stutters. The last two assume `NoFilteredOffsets`, no `offsets` strategy together with a
filter; the run `read_offsets_filter` shows what such a read returns.

`SequenceProofs` has the induction these rest on. The library's induction theorems take
an operator, so `SetInduction` is stated of a set, from the well-foundedness of the
naturals; the operators are recursive functions (`Accepted`, and `FlattenSeq` of the
community modules), whose existence each first lemma proves.

`RequestPlanProofs` proves what a write task cuts its rows into, for any blocks, row
widths and ceilings: `RequestsKeepTheRows`, `NoRequestIsEmpty`, `CeilingsAreRespected`
and `SmallTasksSendOnce`, one for each property of the run `request_plan`. Its lemmas
first say what the recursive functions do when a row, a piece or a batch is appended
(`NBytesAppend`, `CollectedAppend`, `PiecesAppend`, `FlattenAppend`); everything else is
induction on sequences:

* slices: the limit is at least one row and at most the batch (`SliceLimitBounds`), the
  slices end where the next one begins (`SliceEnds`) and flatten to the batch
  (`SlicesFlatten`); a slice of rows of one width is within the byte budget or a single
  row (`SliceBytes`), because rounding the budget's quotient down is enough;
* the loop: `LoopInv` holds after every piece (`LoopHolds`): what was flushed, with the
  open chunk, is the pieces so far; every chunk is below both ceilings or is one piece
  (`Fits`); none that was flushed is empty. A chunk overflows exactly when adding the
  piece would leave it above a ceiling (`AddedIsWithin`), so pieces that fit together are
  never flushed apart (`SmallLoop`).

`DatasinkProofs` has two more facts, in every mode and for every policy:
`CreateExclusive` (`CreateIsExclusive`), because until the table is the job's no task of a
create has begun (`CreateInv`); and `SendsBounded` (`SendsAreBounded`), from an invariant
that charges each request at most `2 * MaxAttempts - 1` sends (`Budget`, `Used`): only an
attempt refused before it was sent starts the second round.

`UpsertProofs` proves what an upsert promises:

* `KeysUnique` (`KeysAreUnique`), for any flags, errors, policy, replays and other writers
  that bring keys of their own, if no two tasks hold the same key (`KeysApart`, what the
  hash partition is for) *or* one task runs at a time, which is the rule of io.py, and no
  request lands after its client gave up on it. `KeyInv`: a task has one request in flight,
  the one it waits for (`FlightsAreAwaited`), so two requests in flight write different
  keys (`FlightsApart`); then, of the keys a merge writes, the table holds nothing the
  merge has not read (`SnapshotsHold`), although the service lets inserts of one key
  commit side by side. With late requests (run `upsert_late`), or tasks that share a key
  and run together, TLC refutes it;
* `RepeatsResent` (`RepeatsAreResends`): with late requests too, if no two tasks hold the
  same key, a key is stored twice only by two sendings of one task. `ResendInv`: a
  merge's source names each key once (`ReadIsUnambiguous`); no two requests, in flight or
  landed, are the same sending (`SendsDiffer`); and what the table has gained under a key
  since a merge of it read its version and found it absent is from that merge's own task
  (`NewsAreOwn`);
* `SuccessMerges` (`SuccessMergesEverything`), for any number of tasks at once, retries,
  replays and late requests, if the source does not spread a key over requests
  (`KeysInOneRequest`) and the delete condition names no row the job relies on
  (`DeletesSpareSource`): the run `upsert_delete` shows what happens to rows it does
  name, and a repeated key split by a ceiling loses one of its rows. `MergeInv` says that
  what is counted is merged; another merge leaves it alone (`MergedStays`), because a row
  it replaces is replaced by its own request;
* `Bystanders` (`BystandersSurvive`), in every mode.

`WriteLancedbProofs` carries these over to `write_lancedb`, for any dataset, bundling and
ceilings. `RowsOnce` and `RowsIn` say of blocks which rows are in them and that none is in two
places; flattening keeps both (`FlattenMembers`), so they follow a dataset through

* the shuffle: every row is in the block its key's hash selects (`PartitionSplits`);
* `transform_fn`: what it makes of a block it makes of no other, so its rows are in one
  place too (`TransformSplits`, `TransformedTasks`);
* the bundling: the tasks' blocks, in order, are the blocks (`BundlesKeepBlocks`, from an
  invariant of the loop, `Holds`);
* the requests of each task (`TaskSendsItsRows`, from `RequestPlanProofs`' `TaskIsPlanned`).

So each row of the transformed dataset is in one request of one task (`RequestsPartitionRows`), which is
what `Datasink` assumes (`SinkIsAssumed`); and after a shuffle no key is in two tasks
(`TasksHoldTheirKeys`), if what `transform_fn` makes of a block has the block's keys only
(`TransformKeepsKeys`). The theorems of `UpsertProofs` and `DatasinkProofs` are then cited of
an instance, which is the same system as the one `WriteLancedb` runs (`SameSpec`):
`WriteKeepsKeysUnique`, `WriteRepeatsResent`, `WriteMergesEverything`, `WriteKeepsDataset`,
`WriteStoresOnce`, `WriteCreatesExclusively` and `WriteKeepsBystanders`.

* `WriteRepeatsResent` assumes that the write is partitioned, `TransformKeepsKeys`, and that
  the table starts without a repeated key and other writers bring keys of their own
  (`OthersBringOwnKeys`). Late requests are allowed.
* `WriteKeepsKeysUnique` assumes no late requests, `OthersBringOwnKeys`, and one task at a
  time or a partition with `TransformKeepsKeys`. Without the first TLC finds the duplicate
  of `upsert_late`, without the last that of two tasks.
* `WriteMergesEverything` assumes an inserting upsert whose rows the delete condition does
  not name, and that the transformed dataset repeats no key, or that it is partitioned with
  `TransformKeepsKeys` and no ceiling splits a task.
* `WriteKeepsDataset`, `WriteStoresOnce` and `WriteCreatesExclusively` are what the run
  `create` checks of the datasink alone, for a whole `write_lancedb` and about the rows
  `transform_fn` makes of its dataset; `WriteKeepsBystanders` has no assumption at all.

In `FragmentWriteProofs`, `QuietOverwrite` (`QuietOverwriteEmpties`) has an invariant of
its own, `QuietInv`: while the old rows are there and no other client has committed between the
two probes, the driver knows that the table existed, and what it compares is that version
with itself; so
it replaces the table unless a probe did not answer, and then it warns.

`ConnectionsProofs` proves, for any threads, calls, cache sizes and rotations:

* `ConnectionsTypeCorrect` (`TypeOK`), from `TypeInv` and `ListingInv`;
* `CachesSound` (`CachesAreSound`). A step of `Next` changes a cache in one of four ways
  (`CacheSteps`): not at all, a hit that permutes it (`TouchPermutes`), a store that
  appends and may push out the oldest (`InsertShifts`), a clearing. A store looks for its
  key again in the same step, which is what keeps one entry per key when two threads
  missed together;
* `NormalJobsKeep` (`NormalJobsKeepConnections`), from `StoredInv`: each entry's key was
  stored. One entry per key then makes the cache and the new key no more than the keys
  stored (`FewerThanStored`, an injection), so a cache that would evict has seen more keys
  than it has places.

Its end proves `CredentialsRight` (`CredentialIsRight`) under
`ForwardRotations`: the key only moves forward. Its invariant says that a cached
connection holds a key no older than the one it is cached under, that a handle holds one
the environment has had, and that what a thread has in its hands is no older than its
call. `ListingsExact` (`ListingIsExact`) has `ListingInv`: what a listing has gathered is in
order, up to its token, among it every table up to there that has been there throughout;
tables there throughout are there now, and those there now were there at some time. The
last page, or `table_names()`, then has all that is left. That a database's tables can be
put in order at all (`InOrderIs`) is an induction over a bound of their places.

Assumptions are the named `ASSUME`s of the modules; TLC evaluates them in every run.
Those of `Datasink`: rows belong to one request (`RowsOnceAssumption`), requests are
non-empty sets of rows, the job's rows are not the other writers' rows, and
`AmbiguousAssumption`. `WriteLancedb` assumes none of the first two: they are proved of the
tasks it makes. It assumes that the dataset's rows are told apart (a row is an identity; two
equal rows are two), that widths, hashes and arguments are what the code validates them to
be, that a call gets past `_require_hash_shuffle` (`ShuffleAssumption`), that `transform_fn`
makes nothing of an empty block and, rows being identities, of no two blocks the same row
(`TransformAssumption`), and of the other constants what `Datasink` does.
Liveness is only model-checked, because the prover has no rule for it here.

## Not modelled

* Inside `Connections`: how `storage_options` and `client_config` are frozen into a cache
  key (`_freeze`, `_thaw`: a spec is its kind and its explicit key), the validation of
  names and specs.
* Inside lance-ray: its scanner, its options, how it places fragments.
* Inside `FragmentWrite`: schemas, file sizes, storage options; a database whose
  catalogue lags its storage appears as an `OpenTable` that fails.
* Inside `RemoteRead`: column projection, schemas, `estimate_inmemory_data_size`
  (it may fill the cache of the driver's process only); blocks of a finished task
  that Ray loses and rebuilds.
* Inside `WriteLancedb`: a `transform_fn` that raises (it fails the task, as `StartTaskFails`
  does in `Datasink`) or that answers differently when a task is replayed. On the fragment
  path it is a Ray stage of its own before the write, and what `FragmentWrite` calls the
  input is its output.
* Inside `Datasink`: the length of backoffs, `num_batches`, log messages, argument
  validation, the reordering of columns (`_align_to_schema` can only fail the task,
  which `StartTaskFails` covers), `write_parallelism`, which is inside one
  transaction.
* Benchmarks, examples, tests and release tooling are not part of the library's
  behaviour.

## Plan

1. `RetryPolicy`, `Datasink`, `WriteJob`, their runs and proofs (done).
2. `RequestPlan`, `WriteLancedb`, the upsert runs (done).
3. `FragmentWrite`, its runs and proofs (done).
4. `ReadPlan`, `RemoteRead`, their runs and first proofs (done).
5. `TableListing`, `Connections`, their runs and proofs; local reads (done).
6. `SnapshotRead`, which `RemoteRead` implements, and `ReadEnds` (done).
7. Proofs of `SendsAreBounded`, `CreateIsExclusive`, `QuietOverwriteEmpties` (done).
8. Proofs of what upserts and reads promise (done).
9. `PlannedTask`, and proofs of what request planning promises (done).
10. Proofs about listings (done).
11. Proofs about `WriteLancedb` for any dataset (done).
12. Left: more than one driver over one table.
