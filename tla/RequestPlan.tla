---------------------------- MODULE RequestPlan ----------------------------
(***************************************************************************)
(* How a write task cuts its rows into requests: the pure functions of      *)
(* lancedb_ray/_plan.py that the write path uses, and the loops around them *)
(* in datasink.py.  A batch is a sequence of rows (a block of several       *)
(* record batches counts as several blocks).  limits.width[r] is the number *)
(* of bytes row r adds to a payload, limits.maxRows and limits.maxBytes are *)
(* max_rows_per_request and max_bytes_per_request.                          *)
(***************************************************************************)
EXTENDS RowFilter, SequencesExt

(* The ceilings are validated to be positive when they are given: 0 is None.*)
NoCeiling == 0

NBytes(rows, limits) ==
  LET sum[n \in 0..Len(rows)] == IF n = 0 THEN 0 ELSE sum[n - 1] + limits.width[rows[n]]
  IN sum[Len(rows)]

(* Consecutive half-open ranges [start, end) of at most maxRows rows.       *)
SplitArrowTable(numRows, maxRows) ==
  [k \in 1..((numRows + maxRows - 1) \div maxRows) |->
     [start |-> (k - 1) * maxRows, end |-> Min({k * maxRows, numRows})]]

(* The largest slice whose share of nbytes fits in maxBytes, never zero.    *)
RowsWithinByteBudget(numRows, nbytes, maxBytes) ==
  IF numRows = 0 \/ nbytes <= maxBytes
  THEN numRows
  ELSE Max({1, (maxBytes * numRows) \div nbytes})

(* The rows a slice of the batch may hold under both ceilings.              *)
SliceLimit(batch, limits) ==
  LET byRows == IF limits.maxRows = NoCeiling THEN Len(batch)
                ELSE Min({Len(batch), limits.maxRows})
  IN IF limits.maxBytes = NoCeiling
     THEN byRows
     ELSE Min({byRows, RowsWithinByteBudget(Len(batch), NBytes(batch, limits), limits.maxBytes)})

SliceToCeilings(batch, limits) ==
  IF SliceLimit(batch, limits) >= Len(batch)
  THEN <<batch>>
  ELSE LET ranges == SplitArrowTable(Len(batch), SliceLimit(batch, limits))
       IN [k \in DOMAIN ranges |-> SubSeq(batch, ranges[k].start + 1, ranges[k].end)]

(* Mutant: a chunk that exactly meets a ceiling overflows it. *)
OverflowsWhenFull(chunk, piece, limits) ==
  \/ limits.maxRows # NoCeiling /\ Len(chunk) + Len(piece) >= limits.maxRows
  \/ limits.maxBytes # NoCeiling
       /\ NBytes(chunk, limits) + NBytes(piece, limits) >= limits.maxBytes

Overflows(chunk, piece, limits) ==
  \/ limits.maxRows # NoCeiling /\ Len(chunk) + Len(piece) > limits.maxRows
  \/ limits.maxBytes # NoCeiling
       /\ NBytes(chunk, limits) + NBytes(piece, limits) > limits.maxBytes

(* _write_in_chunks: the loop's state is the chunks already flushed and the *)
(* pieces collected for the next one.                                       *)
(* Mutant: an empty chunk is written too. *)
FlushAlways(state) == [flushed |-> Append(state.flushed, state.chunk), chunk |-> <<>>]

Flush(state) ==
  IF state.chunk = <<>>
  THEN state
  ELSE [flushed |-> Append(state.flushed, state.chunk), chunk |-> <<>>]

(* Mutant: the chunk is closed after the piece that overflows it. *)
CollectThenFlush(state, piece, limits) ==
  LET full == [state EXCEPT !.chunk = @ \o piece]
  IN IF Overflows(state.chunk, piece, limits) THEN Flush(full) ELSE full

Collect(state, piece, limits) ==
  LET room == IF Overflows(state.chunk, piece, limits) THEN Flush(state) ELSE state
  IN [flushed |-> room.flushed, chunk |-> room.chunk \o piece]

Collected(pieces, limits) ==
  LET state[n \in 0..Len(pieces)] ==
        IF n = 0 THEN [flushed |-> <<>>, chunk |-> <<>>]
        ELSE Collect(state[n - 1], pieces[n], limits)
  IN state[Len(pieces)]

Pieces(batches, limits) ==
  FlattenSeq([b \in DOMAIN batches |-> SliceToCeilings(batches[b], limits)])

(* Mutant: no flush after the loop. *)
WriteInChunksUnflushed(batches, limits) == Collected(Pieces(batches, limits), limits).flushed

WriteInChunks(batches, limits) == Flush(Collected(Pieces(batches, limits), limits)).flushed

(* write(): empty blocks are passed over, a task without rows sends nothing,*)
(* one without ceilings sends everything at once.                           *)
TaskRequests(blocks, limits) ==
  LET batches == Accepted(blocks, ToSet(blocks) \ {<<>>})
  IN CASE batches = <<>> -> <<>>
       [] batches # <<>> /\ limits.maxRows = NoCeiling /\ limits.maxBytes = NoCeiling ->
            <<FlattenSeq(batches)>>
       [] OTHER -> WriteInChunks(batches, limits)

=============================================================================
