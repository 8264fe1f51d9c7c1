---------------------------- MODULE WriteLancedb ----------------------------
(***************************************************************************)
(* write_lancedb (lancedb_ray/io.py) on its table-API path: from a dataset  *)
(* of blocks to the tasks of a LanceDBDatasink and their requests, and the  *)
(* run of that datasink.  An upsert's blocks are hash-partitioned on the    *)
(* key first, unless only one task runs at a time or the caller opted out.  *)
(* transform_fn comes after that: a task applies it to each of its blocks.  *)
(***************************************************************************)
EXTENDS RequestPlan, RetryPolicy

CONSTANTS
  Row, KeyOf, Mode, UpdateAll, InsertAll, DeleteWhere, OnBatchError, Policy,
  MaxAttempts, HasSchema, Errors, Ambiguous, LateRequests, MaxReplays, OldRow,
  OtherRow, Outside,    \* as in Datasink
  Blocks,               \* the dataset: a sequence of sequences of rows
  PlanExecuted,         \* the dataset's plan has run, so its size is known
  HashOf,               \* the shuffle's hash of each key
  HashShuffle,          \* Ray's shuffle_strategy is a hash-based one
  TransformFn,          \* what transform_fn makes of each block
  IsRemote,             \* spec.is_remote
  ConcurrencyArgument,  \* the concurrency argument, Unlimited for None
  PartitionOnKeys,      \* partition_on_keys
  RowsPerTransaction,   \* rows_per_transaction
  Width, MaxRows, MaxBytes  \* the limits of RequestPlan

Unlimited == 0

DatasetRow == ToSet(FlattenSeq(Blocks))

ASSUME BlocksAssumption ==
  Blocks \in Seq(Seq(Row)) /\ IsInjective(FlattenSeq(Blocks))
ASSUME CeilingsAssumption ==
  Width \in [Row -> Nat] /\ MaxRows \in Nat /\ MaxBytes \in Nat
ASSUME HashAssumption == \A r \in Row : HashOf[KeyOf[r]] \in Nat
ASSUME ArgumentsAssumption ==
  ConcurrencyArgument \in Nat /\ RowsPerTransaction \in Nat \ {0}

DefaultLocalUpsertConcurrency == 4
DefaultUpsertPartitions == 16

EffectiveConcurrency ==
  IF ConcurrencyArgument = Unlimited /\ ~IsRemote /\ Mode = "upsert"
  THEN DefaultLocalUpsertConcurrency
  ELSE ConcurrencyArgument

(* Mutant: two tasks are taken not to race. *)
CanRaceAboveTwo(concurrency) == concurrency = Unlimited \/ concurrency > 2

(* More than one write task can run at once.                                *)
CanRace(concurrency) == concurrency = Unlimited \/ concurrency > 1

NumRowsOf(blocks) == Len(FlattenSeq(blocks))

(* Sized by the transaction budget when the plan's row count is free.       *)
UpsertPartitionCount(blocks, concurrency) ==
  LET target == IF PlanExecuted /\ NumRowsOf(blocks) > 0
                THEN (NumRowsOf(blocks) + RowsPerTransaction - 1) \div RowsPerTransaction
                ELSE DefaultUpsertPartitions
  IN Max({1, concurrency, target})

(* repartition(num_blocks, keys): every row of a key in the block its hash  *)
(* selects.                                                                 *)
HashPartition(blocks, concurrency) ==
  LET n == UpsertPartitionCount(blocks, concurrency)
  IN [p \in 1..n |->
        Accepted(FlattenSeq(blocks), {r \in Row : HashOf[KeyOf[r]] % n = p - 1})]

Partitioned == Mode = "upsert" /\ PartitionOnKeys /\ CanRace(EffectiveConcurrency)

(* _require_hash_shuffle raises: Ray's shuffle cannot keep a key together.  *)
(* It does so before anything is planned, and what follows is the calls it  *)
(* lets pass.                                                               *)
ShuffleRefused == Partitioned /\ ~HashShuffle

ASSUME ShuffleAssumption == ~ShuffleRefused

SinkBlocks ==
  IF Partitioned THEN HashPartition(Blocks, EffectiveConcurrency) ELSE Blocks

(* Ray bundles whole blocks into a write task until min_rows_per_write is   *)
(* reached; the last task takes what is left.                               *)
BundleBlock(state, block, minRows) ==
  LET bundle == Append(state.open, block)
  IN IF NumRowsOf(bundle) >= minRows
     THEN [tasks |-> Append(state.tasks, bundle), open |-> <<>>]
     ELSE [tasks |-> state.tasks, open |-> bundle]

Bundled(blocks, minRows) ==
  LET state[n \in 0..Len(blocks)] ==
        IF n = 0 THEN [tasks |-> <<>>, open |-> <<>>]
        ELSE BundleBlock(state[n - 1], blocks[n], minRows)
  IN state[Len(blocks)]

BundleBlocks(blocks, minRows) ==
  LET last == Bundled(blocks, minRows)
  IN IF last.open = <<>> THEN last.tasks ELSE Append(last.tasks, last.open)

TaskBlocks == BundleBlocks(SinkBlocks, RowsPerTransaction)

WriteTask == DOMAIN TaskBlocks

-----------------------------------------------------------------------------
(* Rows are identities, and transform_fn's are its own: it makes none of an *)
(* empty block, and what it makes of one block it makes of no other.        *)
ASSUME TransformAssumption ==
  /\ \A block \in ToSet(SinkBlocks) :
        /\ TransformFn[block] \in Seq(Row) /\ IsInjective(TransformFn[block])
        /\ block = <<>> => TransformFn[block] = <<>>
  /\ \A one, other \in ToSet(SinkBlocks) :
        ToSet(TransformFn[one]) \cap ToSet(TransformFn[other]) # {} => one = other

Transformed(blocks) == [i \in DOMAIN blocks |-> TransformFn[blocks[i]]]

(* The rows the write's tasks have to store.                                *)
TransformedRow == UNION {ToSet(TransformFn[block]) : block \in ToSet(SinkBlocks)}

(* What Datasink assumes of the rest.                                       *)
ASSUME SinkAssumption ==
  /\ Mode \in {"create", "append", "overwrite", "upsert"}
  /\ OnBatchError \in {"raise", "skip"}
  /\ MaxAttempts \in Nat \ {0}
  /\ Outside \notin Nat
  /\ OldRow \subseteq Row \ TransformedRow /\ OtherRow \subseteq Row \ TransformedRow
  /\ Ambiguous \subseteq Errors /\ Errors \subseteq SUBSET Markers
  /\ \A e \in Ambiguous :
        ~IsDefinitelyNotApplied(e) /\ ~IsCommitConflict(e) /\ ~IsArrowAlignmentError(e)

SinkLimits == [width |-> Width, maxRows |-> MaxRows, maxBytes |-> MaxBytes]

PlannedRequests ==
  [t \in WriteTask |->
     LET requests == TaskRequests(Transformed(TaskBlocks[t]), SinkLimits)
     IN [i \in DOMAIN requests |-> ToSet(requests[i])]]

TasksAtOnce ==
  IF EffectiveConcurrency = Unlimited THEN Len(TaskBlocks) ELSE EffectiveConcurrency

-----------------------------------------------------------------------------
VARIABLES job, listing, owner, table, flight, pc, chunk, attempt, realigned,
          sent, written, skipped, replays

Sink == INSTANCE Datasink WITH
  Task <- WriteTask, Requests <- PlannedRequests, Concurrency <- TasksAtOnce

Spec == Sink!Spec

-----------------------------------------------------------------------------
(* Properties *)

(* No key is stored twice by an upsert, not even after a lost reply: what   *)
(* "Appends are at-least-once; upserts are exactly-once" (README.md) says.  *)
KeysAreUnique == Sink!KeysAreUnique

(* A partitioned upsert stores a key twice only by two sendings of one      *)
(* task: never from two tasks, whatever their interleaving, retries and     *)
(* replays, requests that land late, and a transform_fn that keeps each     *)
(* row's key (io.py 475-481).                                               *)
RepeatsAreResends == Sink!RepeatsAreResends

(* A successful upsert left every row it does not report as dropped in the  *)
(* table, as the current version of its key.                                *)
SuccessMergesEverything == Sink!SuccessMergesEverything

(* Rows under keys the source does not mention outlive an upsert, unless    *)
(* when_not_matched_by_source_delete names them.                            *)
BystandersSurvive == Sink!BystandersSurvive

(* when_not_matched_by_source_delete deletes "target rows with no match in  *)
(* the source" (datasink.py): a row of the source is stored when the job    *)
(* reports success.                                                         *)
DeletesOnlyUnmatched ==
  job = "complete" => Sink!SourceKeys \subseteq Sink!Keys(Sink!StoredRows)

=============================================================================
