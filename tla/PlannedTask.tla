---------------------------- MODULE PlannedTask ----------------------------
(***************************************************************************)
(* One write task that plans its requests with RequestPlan: what any blocks *)
(* of rows, row widths and ceilings come to.                                *)
(***************************************************************************)
EXTENDS RequestPlan

CONSTANTS
  BlockRow,   \* rows
  Inputs,     \* the blocks a task may be given
  Limits      \* widths of the rows, and ceilings

ASSUME InputsAssumption == Inputs \subseteq Seq(Seq(BlockRow))
ASSUME LimitsAssumption ==
  Limits \subseteq [width : [BlockRow -> Nat], maxRows : Nat, maxBytes : Nat]

VARIABLES
  blocks,     \* the task's blocks
  ceilings,   \* the datasink's limits
  requests,   \* what the task sends
  computed    \* whether requests was computed

taskVars == <<blocks, ceilings, requests, computed>>

TaskInit ==
  /\ blocks \in Inputs
  /\ ceilings \in Limits
  /\ requests = <<>>
  /\ computed = FALSE

WritePlan ==
  /\ ~computed
  /\ computed' = TRUE
  /\ requests' = TaskRequests(blocks, ceilings)
  /\ UNCHANGED <<blocks, ceilings>>

TaskSpec == TaskInit /\ [][WritePlan]_taskVars

-----------------------------------------------------------------------------
(* Properties *)

TaskRows == FlattenSeq(blocks)

WithinCeilings(rows) ==
  /\ ceilings.maxRows # NoCeiling => Len(rows) <= ceilings.maxRows
  /\ ceilings.maxBytes # NoCeiling => NBytes(rows, ceilings) <= ceilings.maxBytes

(* The requests of a task carry its rows, each once and in their order:     *)
(* slicing, flushing early and the final flush lose and repeat nothing.     *)
RequestsKeepRows == computed => FlattenSeq(requests) = TaskRows

(* No request is empty, so none commits a version for nothing.              *)
RequestsAreNotEmpty == \A k \in DOMAIN requests : requests[k] # <<>>

(* The row ceiling is a bound on every request, and so is the byte ceiling  *)
(* except for a slice of one batch that is a single row or whose rows       *)
(* differ in width (the uniform estimate of rows_within_byte_budget).       *)
Uneven(rows) == \E i, j \in DOMAIN rows : ceilings.width[rows[i]] # ceilings.width[rows[j]]

RequestsRespectCeilings ==
  \A k \in DOMAIN requests :
    /\ ceilings.maxRows # NoCeiling => Len(requests[k]) <= ceilings.maxRows
    /\ ceilings.maxBytes # NoCeiling /\ NBytes(requests[k], ceilings) > ceilings.maxBytes =>
         \E b \in DOMAIN blocks :
            /\ ToSet(requests[k]) \subseteq ToSet(blocks[b])
            /\ Len(requests[k]) = 1 \/ Uneven(blocks[b])

(* A task that fits in one request is written as one transaction.           *)
SmallTaskIsOneRequest ==
  computed /\ WithinCeilings(TaskRows) =>
    Len(requests) = (IF TaskRows = <<>> THEN 0 ELSE 1)
=============================================================================
