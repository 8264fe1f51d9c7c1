--------------------------- MODULE FragmentWrite ---------------------------
(***************************************************************************)
(* write_lancedb's choice of a path (lancedb_ray/io.py) and the fragment    *)
(* path: _write_local_fragments and its two recoveries, _finish_empty_      *)
(* overwrite and _create_empty_dataset.                                     *)
(*                                                                         *)
(* The driver makes one storage call per step; every probe may fail to      *)
(* answer, and other clients may use the same dataset between two calls.    *)
(* lance-ray is external: it commits all fragments at once, and commits     *)
(* nothing for an input without rows.                                       *)
(***************************************************************************)
EXTENDS Integers

CONSTANTS
  Job,           \* the rows this write stores
  Before,        \* the rows the dataset held before
  Other,         \* rows of other clients' commits: one commit each
  OtherOps,      \* what other clients do: "append", "overwrite", "create", "drop"
  MaxVersion     \* bound: the dataset's versions when the write starts

Writer == Other \cup {Job, Before}

ASSUME WriterAssumption == Job # Before /\ Job \notin Other /\ Before \notin Other
ASSUME OtherOpsAssumption == OtherOps \subseteq {"append", "overwrite", "create", "drop"}

VARIABLES
  call,       \* the arguments of write_lancedb
  input,      \* "rows" or "empty": what ds holds
  ds,         \* the Lance dataset at the table's URI
  pc,         \* the driver's next call
  exists,     \* what table_exists answered
  before,     \* version_before
  warned,     \* the "could not confirm" warning was logged
  commits,    \* history: commits this write has made
  acted,      \* other clients that have committed
  evicted,    \* history: rows another client removed
  raced,      \* history: one of them committed between the two version probes
  recreated   \* history: between them the dataset was dropped and made anew

driverVars == <<call, input, exists, before>>
history == <<acted, evicted, raced, recreated>>
vars == <<driverVars, ds, pc, warned, commits, history>>

(* Version 0 stands for a dataset that is not there, and for None as the    *)
(* answer of _dataset_version.                                              *)
Absent == [version |-> 0, rows |-> {}]
Dataset == {Absent} \cup [version : Nat \ {0}, rows : SUBSET Writer]

Calls ==
  [remote : BOOLEAN, mode : {"create", "append", "overwrite", "upsert"},
   strategy : {"auto", "fragment", "api"}, fragmentOnly : BOOLEAN]

TypeOK ==
  /\ call \in Calls
  /\ input \in {"rows", "empty"}
  /\ ds \in Dataset
  /\ pc \in {"dispatch", "list", "resolve", "before", "write", "after", "replace", "verify",
             "state", "count", "create", "reverify", "api", "done", "failed"}
  /\ exists \in BOOLEAN
  /\ before \in Nat
  /\ warned \in BOOLEAN
  /\ commits \in Nat
  /\ acted \subseteq Other
  /\ evicted \subseteq Writer
  /\ raced \in BOOLEAN
  /\ recreated \in BOOLEAN

Init ==
  /\ call \in Calls
  /\ input \in {"rows", "empty"}
  /\ ds \in {Absent} \cup [version : 1..MaxVersion, rows : {{Before}}]
  /\ pc = "dispatch"
  /\ exists = FALSE
  /\ before = 0
  /\ warned = FALSE
  /\ commits = 0
  /\ acted = {}
  /\ evicted = {}
  /\ raced = FALSE
  /\ recreated = FALSE

Goto(from, to) ==
  /\ pc = from
  /\ pc' = to

-----------------------------------------------------------------------------
(* write_lancedb: fragment path or table API.                               *)

Blocked == call.remote \/ call.mode = "upsert"

UseFragmentPath == call.strategy # "api" /\ ~Blocked

(* _should_use_fragment_path and _reject_fragment_only_options raise before *)
(* anything is written.                                                     *)
Refused ==
  \/ Blocked /\ call.strategy = "fragment"
  \/ ~UseFragmentPath /\ call.fragmentOnly

Dispatch ==
  /\ Goto("dispatch", CASE Refused -> "failed"
                        [] UseFragmentPath -> "list"
                        [] OTHER -> "api")
  /\ UNCHANGED <<driverVars, ds, warned, commits, history>>

-----------------------------------------------------------------------------
(* _write_local_fragments                                                   *)

ListTables ==
  /\ Goto("list", IF ds # Absent THEN "resolve" ELSE "write")
  /\ exists' = (ds # Absent)
  /\ UNCHANGED <<call, input, before, ds, warned, commits, history>>

(* table_uri opens a table the listing had; then create refuses it.         *)
ResolveUri ==
  /\ Goto("resolve", IF ds = Absent \/ call.mode = "create" THEN "failed" ELSE "before")
  /\ UNCHANGED <<driverVars, ds, warned, commits, history>>

(* Mutant: storage that would not say is reported as version -1. *)
VersionAnswersMinusOne == {ds.version, -1}

(* _dataset_version: the version, or None when storage would not say.       *)
VersionAnswers == {ds.version, 0}

ReadVersionBefore ==
  /\ Goto("before", "write")
  /\ before' \in VersionAnswers
  /\ UNCHANGED <<call, input, exists, ds, warned, commits, history>>

LanceMode ==
  IF call.mode = "append" /\ ~exists THEN "create" ELSE call.mode

(* Mutant: an empty input is looked for on new tables only. *)
MayNeedEmptyingNew == call.mode = "overwrite" /\ ~exists

MayNeedEmptying == call.mode = "overwrite" /\ exists

AfterWrite == IF MayNeedEmptying THEN "after" ELSE "verify"

(* The driver is between its two probes and has read a version.             *)
Comparing == pc \in {"write", "after"} /\ before # 0

(* lance-ray's single commit.  The answer may be lost: outcome is "failed". *)
CommitFragments(outcome) ==
  /\ input = "rows"
  /\ Goto("write", outcome)
  /\ outcome \in {AfterWrite, "failed"}
  /\ CASE LanceMode = "create"    -> ds = Absent
       [] LanceMode = "append"    -> ds # Absent
       [] LanceMode = "overwrite" -> TRUE
  /\ ds' = [version |-> ds.version + 1,
            rows |-> (IF LanceMode = "append" THEN ds.rows ELSE {}) \cup {Job}]
  /\ commits' = commits + 1
  /\ recreated' = (recreated \/ (ds = Absent /\ Comparing))
  /\ UNCHANGED <<driverVars, warned, acted, evicted, raced>>

CommitNothing ==
  /\ input = "empty"
  /\ Goto("write", AfterWrite)
  /\ UNCHANGED <<driverVars, ds, warned, commits, history>>

(* A call that is not guarded by a try raised: the listing, table_uri,      *)
(* lance-ray, the schema lookup, create_table or write_dataset.             *)
CallRaises ==
  /\ pc \in {"list", "resolve", "write", "replace", "create"}
  /\ pc' = "failed"
  /\ UNCHANGED <<driverVars, ds, warned, commits, history>>

-----------------------------------------------------------------------------
(* _finish_empty_overwrite                                                  *)

(* Mutant: None equals None. *)
NothingCommittedOrNone(after) == after = before

NothingCommitted(after) == before # 0 /\ after # 0 /\ after = before

ReadVersionAfter ==
  \E after \in VersionAnswers :
    /\ Goto("after", IF NothingCommitted(after) THEN "replace" ELSE "verify")
    /\ warned' = (before = 0 \/ after = 0)
    /\ UNCHANGED <<driverVars, ds, commits, history>>

EmptyTable == [version |-> ds.version + 1, rows |-> {}]

(* create_table(mode="overwrite"), whatever the dataset holds by now.       *)
ReplaceWithEmpty(outcome) ==
  /\ outcome \in {"verify", "failed"}
  /\ Goto("replace", outcome)
  /\ ds' = EmptyTable
  /\ commits' = commits + 1
  /\ UNCHANGED <<driverVars, warned, history>>

-----------------------------------------------------------------------------
(* The check that the database resolves the table, and the recovery of a    *)
(* write without rows that left no dataset.                                 *)

OpenTable ==
  /\ \/ ds # Absent /\ Goto("verify", "done")
     \/ Goto("verify", "state")
  /\ UNCHANGED <<driverVars, ds, warned, commits, history>>

(* Mutant: a dataset that cannot be read is taken for absent. *)
DatasetStatesGuessing == {IF ds = Absent THEN "absent" ELSE "present", "absent"}

DatasetStates == {IF ds = Absent THEN "absent" ELSE "present", "unknown"}

ProbeState ==
  /\ \E state \in DatasetStates :
       Goto("state", IF state = "absent" THEN "count" ELSE "failed")
  /\ UNCHANGED <<driverVars, ds, warned, commits, history>>

(* Mutant: the input is not counted. *)
InputKnownEmptyUnasked == TRUE

(* _input_row_count runs the input again; it and _arrow_schema may not know. *)
InputKnownEmpty == input = "empty"

CountInput ==
  /\ \/ InputKnownEmpty /\ Goto("count", "create")
     \/ Goto("count", "failed")
  /\ UNCHANGED <<driverVars, ds, warned, commits, history>>

(* _create_empty_dataset: write_dataset(mode="overwrite").                  *)
CreateEmptyDataset(outcome) ==
  /\ outcome \in {"reverify", "failed"}
  /\ Goto("create", outcome)
  /\ ds' = EmptyTable
  /\ commits' = commits + 1
  /\ UNCHANGED <<driverVars, warned, history>>

ReopenTable ==
  /\ \/ ds # Absent /\ Goto("reverify", "done")
     \/ Goto("reverify", "failed")
  /\ UNCHANGED <<driverVars, ds, warned, commits, history>>

-----------------------------------------------------------------------------
(* Other clients of the dataset, one commit each.                           *)

OtherCommits(o, op) ==
  /\ o \notin acted
  /\ acted' = acted \cup {o}
  /\ CASE op = "create" -> ds = Absent
       [] OTHER -> ds # Absent
  /\ ds' = CASE op = "append" -> [version |-> ds.version + 1, rows |-> ds.rows \cup {o}]
             [] op \in {"overwrite", "create"} -> [version |-> ds.version + 1, rows |-> {o}]
             [] op = "drop" -> Absent
  /\ evicted' = IF op \in {"overwrite", "drop"} THEN evicted \cup ds.rows ELSE evicted
  /\ raced' = (raced \/ Comparing)
  /\ recreated' = (recreated \/ (op = "create" /\ Comparing))
  /\ UNCHANGED <<driverVars, pc, warned, commits>>

-----------------------------------------------------------------------------
Returned == pc \in {"done", "failed", "api"}

(* The call is over: not a deadlock.                                        *)
Idle == Returned /\ UNCHANGED vars

Outcomes == {"after", "verify", "reverify", "failed"}

Driver ==
  \/ Dispatch
  \/ ListTables
  \/ ResolveUri
  \/ ReadVersionBefore
  \/ \E outcome \in Outcomes : CommitFragments(outcome)
  \/ CommitNothing
  \/ CallRaises
  \/ ReadVersionAfter
  \/ \E outcome \in Outcomes : ReplaceWithEmpty(outcome)
  \/ OpenTable
  \/ ProbeState
  \/ CountInput
  \/ \E outcome \in Outcomes : CreateEmptyDataset(outcome)
  \/ ReopenTable

Next ==
  \/ Driver
  \/ \E o \in Other, op \in OtherOps : OtherCommits(o, op)
  \/ Idle

Spec == Init /\ [][Next]_vars

-----------------------------------------------------------------------------
(* Properties *)

(* The rows of a write that reported success are in the dataset, unless     *)
(* another client removed them, or dropped the dataset and had it made anew *)
(* between the driver's two version probes: a new dataset counts its        *)
(* versions from 1, which the comparison cannot tell (io.py 955-965).  In   *)
(* any other case neither recovery mistakes a completed write for an empty  *)
(* one, whichever probes and calls failed.                                  *)
SuccessKeepsInput ==
  pc = "done" /\ input = "rows" /\ ~recreated => Job \in ds.rows \cup evicted

(* "The table advances by exactly one version" (README.md): no recovery     *)
(* commits after a write that has rows, except in that same case.           *)
OneVersion == input = "rows" /\ commits > 1 => recreated

(* Only an overwrite removes the rows the table had: an empty append whose  *)
(* table cannot be opened for a moment does not put an empty one there.     *)
OldRowsSurvive ==
  [][call.mode # "overwrite" /\ Before \in ds.rows => Before \in ds'.rows \cup evicted']_vars

(* An overwrite without rows that returned and left the old ones.           *)
Stale == pc = "done" /\ call.mode = "overwrite" /\ input = "empty" /\ Before \in ds.rows

(* It warns when it does that, unless another client committed between the  *)
(* two probes of the version, whose commit the driver takes for its own     *)
(* (io.py 964-965).  Commits before and after the probes do not excuse it.  *)
QuietOverwriteEmpties == Stale => warned \/ raced

(* "An overwrite that matched no rows must still empty the table"           *)
(* (tests/test_write.py), or warn that it may not have, whoever else writes.*)
EmptyOverwriteEmpties == Stale => warned

=============================================================================
