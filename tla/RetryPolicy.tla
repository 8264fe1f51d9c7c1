---------------------------- MODULE RetryPolicy ----------------------------
(***************************************************************************)
(* Error classification and retry decisions of lancedb_ray/_retry.py, and   *)
(* the two predicates datasink.py builds from them.                         *)
(*                                                                         *)
(* The code classifies an exception by the substrings of its message.  A    *)
(* message is modelled as the set of markers it contains, so one message    *)
(* may carry the markers of several families, or none of them.              *)
(***************************************************************************)
EXTENDS Naturals

(* _TRANSIENT_MARKERS, and the status codes is_transient also accepts.      *)
TRANSIENT_MARKERS ==
  {"timeout", "timed out", "connection reset", "connection aborted",
   "connection refused", "broken pipe", "temporarily unavailable",
   "service unavailable", "too many requests", "internal server error",
   "bad gateway", "gateway timeout"}

TRANSIENT_STATUS == {"429", "502", "503", "504"}

COMMIT_CONFLICT_MARKERS ==
  {"commit conflict", "concurrent", "version already exists",
   "retryable commit", "commit was rejected"}

NOT_APPLIED_MARKERS ==
  {"connection refused", "temporarily unavailable", "service unavailable",
   "too many requests", "name or service not known",
   "nodename nor servname", "failed to resolve"}

NOT_APPLIED_STATUS == {"429", "503"}

ALIGNMENT_MARKERS == {"is not aligned with the specified scalar type"}

Markers == TRANSIENT_MARKERS \cup TRANSIENT_STATUS \cup COMMIT_CONFLICT_MARKERS
             \cup NOT_APPLIED_MARKERS \cup ALIGNMENT_MARKERS

(***************************************************************************)
(* The classifiers: does the message contain a marker of the family?        *)
(***************************************************************************)
IsTransient(error) ==
  error \cap (TRANSIENT_MARKERS \cup TRANSIENT_STATUS) # {}

IsDefinitelyNotApplied(error) ==
  error \cap (NOT_APPLIED_MARKERS \cup NOT_APPLIED_STATUS) # {}

IsCommitConflict(error) == error \cap COMMIT_CONFLICT_MARKERS # {}

IsArrowAlignmentError(error) == error \cap ALIGNMENT_MARKERS # {}

(***************************************************************************)
(* The predicates a datasink's policy uses: by mode when the caller gave    *)
(* no policy, is_transient for a RetryPolicy() built with its defaults.     *)
(***************************************************************************)
IdempotentRetryPredicate(error) == IsTransient(error) \/ IsCommitConflict(error)

(* Mutant: appends retry like upserts. *)
AppendRetriesAmbiguous(error) == IsTransient(error) \/ IsCommitConflict(error)

AppendRetryPredicate(error) ==
  IsDefinitelyNotApplied(error) \/ IsCommitConflict(error)

(* policy is "default" (no retry_policy argument) or "custom" (RetryPolicy(),
   whose predicate defaults to is_transient).                               *)
RetryPredicate(policy, mode, error) ==
  CASE policy = "custom" -> IsTransient(error)
    [] policy = "default" /\ mode = "upsert" -> IdempotentRetryPredicate(error)
    [] OTHER -> AppendRetryPredicate(error)

(* Mutant: attempts are not counted. *)
RetriesForever(policy, mode, maxAttempts, n, error) ==
  RetryPredicate(policy, mode, error)

(* call_with_retry: whether attempt number n, having raised error, is       *)
(* followed by another one.                                                 *)
RetriesAgain(policy, mode, maxAttempts, n, error) ==
  n < maxAttempts /\ RetryPredicate(policy, mode, error)

=============================================================================
