----------------------------- MODULE MCDatasink -----------------------------
(* Small instances of Datasink: two tasks, rows named for the request they  *)
(* belong to.                                                               *)
EXTENDS Datasink, TLC

CONSTANTS t1, t2, a1, a2, b1, b2, old, other

MCRow == {a1, a2, b1, b2, old, other}

(* Appends: rows have no key to speak of, so each is its own.               *)
RowIsKey == [r \in MCRow |-> r]

(* t1 sends two requests (a request ceiling is set), t2 one.                *)
ThreeRequests == [t \in {t1, t2} |-> IF t = t1 THEN <<{a1}, {a2}>> ELSE <<{b1, b2}>>]

(* One message per family of the classifiers.                               *)
RateLimited == {"too many requests", "429"}
Unresolved == {"failed to resolve"}
TimedOut == {"timed out"}
Conflict == {"commit conflict"}
NotAligned == {"is not aligned with the specified scalar type"}
SchemaMismatch == {}

AllErrors == {RateLimited, Unresolved, TimedOut, Conflict, NotAligned, SchemaMismatch}
FewErrors == {TimedOut, RateLimited}
TimeOuts == {TimedOut}
=============================================================================
