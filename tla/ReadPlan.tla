------------------------------ MODULE ReadPlan ------------------------------
(***************************************************************************)
(* How a remote read cuts the rows of a table into shards and a shard into  *)
(* requests: plan_offset_shards and chunk_offsets of lancedb_ray/_plan.py.  *)
(* Offsets count from 0 and ranges [start, end) are half-open.              *)
(***************************************************************************)
EXTENDS Integers

Least(a, b) == IF a <= b THEN a ELSE b

NumShards(numRows, parallelism) == Least(parallelism, numRows)

(* divmod(num_rows, num_shards)                                             *)
Base(numRows, k) == numRows \div k
Remainder(numRows, k) == numRows % k

(* Mutant: the remainder is dropped. *)
StartOfEven(numRows, k, i) == i * Base(numRows, k)

(* Where shard i begins, the loop's running sum in closed form: each shard  *)
(* before it has base rows, the first of them one more while the remainder  *)
(* lasts.                                                                   *)
StartOf(numRows, k, i) == i * Base(numRows, k) + Least(i, Remainder(numRows, k))

PlanOffsetShards(numRows, parallelism) ==
  LET k == NumShards(numRows, parallelism)
  IN [i \in 1..k |-> [start |-> StartOf(numRows, k, i - 1), end |-> StartOf(numRows, k, i)]]

(* get_read_tasks: a limit pushed into the read shortens every shard.       *)
Shorten(shards, limit) ==
  [i \in DOMAIN shards |->
     [shards[i] EXCEPT !.end = Least(@, shards[i].start + limit)]]

(* The end of the request that starts at offset pos of a shard.             *)
ChunkEnd(shard, pos, batchSize) == Least(pos + batchSize, shard.end)

=============================================================================
