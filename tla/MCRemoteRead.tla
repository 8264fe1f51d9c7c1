---------------------------- MODULE MCRemoteRead ----------------------------
(* Small instances of RemoteRead: tables of at most three rows.             *)
EXTENDS RemoteRead

CONSTANTS a, b, c

MCRow == {a, b, c}

(* A commit grows the table or shrinks it below a shard's end.              *)
GrowOrShrink == {<<a, b, c>>, <<b>>}

MCMatching == {a, c}

Args(strategies, filters, sought) ==
  [remote : {TRUE}, strategy : strategies, filter : filters, version : sought,
   batchSize : {1, 2}, parallelism : {1, 2}, limit : {None, 1}]

(* Every strategy where it keeps its promise: offsets without a filter.     *)
NumberedCalls ==
  Args({"auto", "pagination", "single"}, BOOLEAN, {None, 1})
    \cup Args({"offsets"}, {FALSE}, {None, 1})

(* A read of a tag.                                                         *)
TagCalls ==
  [remote : {TRUE}, strategy : {"auto"}, filter : {FALSE}, version : {Tag},
   batchSize : {2}, parallelism : {2}, limit : {None}]

(* Reads of a local table; Ray gives lance-ray no limit.                    *)
LocalCalls ==
  [remote : {FALSE}, strategy : {"auto"}, filter : BOOLEAN, version : {None},
   batchSize : {2}, parallelism : {2}, limit : {None}]

SoundCalls == NumberedCalls \cup TagCalls \cup LocalCalls

(* Earlier reads named the first version.                                   *)
FirstVersion == {1}

(* The positional strategy asked for together with a filter.                *)
FilteredOffsets == Args({"offsets"}, {TRUE}, {None})

(* One message of each family the retries tell apart.                       *)
ReadErrors == {{"timed out"}, {}}
=============================================================================
