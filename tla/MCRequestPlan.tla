---------------------------- MODULE MCRequestPlan ----------------------------
(***************************************************************************)
(* Checks PlannedTask on every task of up to three blocks of up to MaxBatch *)
(* rows, every assignment of Widths to the rows and every pair of ceilings  *)
(* from RowCeilings and ByteCeilings.                                       *)
(***************************************************************************)
EXTENDS PlannedTask

CONSTANTS MaxBatch, Widths, RowCeilings, ByteCeilings

MCRow == 1..(2 * MaxBatch)

(* Rows are numbered across the blocks.                                     *)
RowsBefore(sizes, k) == FoldLeft(+, 0, SubSeq(sizes, 1, k - 1))

Blocks(sizes) ==
  [k \in DOMAIN sizes |-> [i \in 1..sizes[k] |-> i + RowsBefore(sizes, k)]]

Sizes == UNION {[1..n -> 0..MaxBatch] : n \in 0..2} \cup {<<1, MaxBatch, 1>>}

MCInputs == {Blocks(sizes) : sizes \in Sizes}

MCLimits == [width : [MCRow -> Widths], maxRows : RowCeilings, maxBytes : ByteCeilings]
=============================================================================
