---------------------------- MODULE SnapshotRead ----------------------------
(***************************************************************************)
(* What read_lancedb promises of a table: the rows of one version, the      *)
(* named one or the latest at some moment of the call, that the filter      *)
(* accepts, each once and in order, or an error (lancedb_ray/io.py,         *)
(* read_lancedb: "The read is always against a single pinned table          *)
(* version").  Under a limit the answer starts with the rows asked for.     *)
(***************************************************************************)
EXTENDS RowFilter, SequencesExt

CONSTANTS Contents, Matching, None, Tag   \* as in RemoteRead

VARIABLES
  call,       \* the arguments of the read
  versions,   \* contents of the table's versions
  version,    \* the version it reads, 0 before it is chosen
  status,     \* "reading", "complete" or "failed"
  output      \* the rows of its answer

vars == <<call, versions, version, status, output>>

Init ==
  /\ versions # <<>>
  /\ version = 0
  /\ status = "reading"
  /\ output = <<>>

Choose ==
  /\ status = "reading"
  /\ version = 0
  /\ version' = IF call.version = None THEN Len(versions) ELSE call.version
  /\ UNCHANGED <<call, versions, status, output>>

Wanted ==
  IF call.filter THEN Accepted(versions[version], Matching) ELSE versions[version]

Serves(rows) ==
  IF call.limit = None THEN rows = Wanted
  ELSE \/ IsPrefix(Wanted, rows)
       \/ Len(Wanted) >= call.limit /\ IsPrefix(SubSeq(Wanted, 1, call.limit), rows)

(* A tag is pinned by name only; nothing is promised of what it yields.     *)
Answer ==
  /\ status = "reading"
  /\ status' = "complete"
  /\ version = Tag \/ (version \in DOMAIN versions /\ Serves(output'))
  /\ UNCHANGED <<call, versions, version>>

Fail ==
  /\ status = "reading"
  /\ status' = "failed"
  /\ UNCHANGED <<call, versions, version, output>>

(* Other clients commit.                                                    *)
Commit ==
  /\ \E rows \in Contents : versions' = Append(versions, rows)
  /\ UNCHANGED <<call, version, status, output>>

Next == Choose \/ Answer \/ Fail \/ Commit

Spec == Init /\ [][Next]_vars
=============================================================================
