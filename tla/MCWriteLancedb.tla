--------------------------- MODULE MCWriteLancedb ---------------------------
(* Small datasets for WriteLancedb: rows a1 and a2 have key ka, b1 and b2   *)
(* key kb, and so on.                                                       *)
EXTENDS WriteLancedb, TLC

CONSTANTS a1, a2, b1, b2, c1, d1, e1, e2, ka, kb, kc, kd, ke

MCRow == {a1, a2, b1, b2, c1, d1, e1, e2}

MCKeyOf ==
  a1 :> ka @@ a2 :> ka @@ b1 :> kb @@ b2 :> kb @@ c1 :> kc @@ d1 :> kd @@ e1 :> ke @@ e2 :> ke

MCHashOf == ka :> 0 @@ kb :> 0 @@ kc :> 0 @@ kd :> 1 @@ ke :> 1

MCWidth == [r \in MCRow |-> 1]

(* Every key once, in two partitions; e2 is another row of ke, and no row   *)
(* of the source has the keys of c1 and d1.                                 *)
UniqueKeys == <<<<a1>>, <<e1>>>>

(* Key ka in two blocks, kb and ke once.  Two partitions of it are two      *)
(* tasks, and a ceiling of two rows makes the first one's requests {a1, a2} *)
(* and {b1}; unpartitioned, both tasks have a row of ka.                    *)
RepeatedKey == <<<<e1, a1>>, <<a2, b1>>>>

NoTransform == [block \in ToSet(SinkBlocks) |-> block]

(* A transform_fn that rewrites a row and keeps its key.                    *)
RewriteRow(r) == IF r = e1 THEN e2 ELSE r
KeepKeys == [block \in ToSet(SinkBlocks) |-> [i \in DOMAIN block |-> RewriteRow(block[i])]]

TimedOut == {"timed out"}
Conflict == {"commit conflict"}

UpsertErrors == {TimedOut, Conflict, {}}
TimeOuts == {TimedOut}

=============================================================================
