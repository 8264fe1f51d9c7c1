------------------------------ MODULE RowFilter ------------------------------
(***************************************************************************)
(* A filter, as LanceDB and lance-ray evaluate it: the rows of a sequence   *)
(* that it accepts, in order.                                               *)
(***************************************************************************)
EXTENDS Integers, Sequences

Accepted(rows, matching) ==
  LET kept[n \in 0..Len(rows)] ==
        IF n = 0 THEN <<>>
        ELSE IF rows[n] \in matching THEN Append(kept[n - 1], rows[n]) ELSE kept[n - 1]
  IN kept[Len(rows)]

=============================================================================
