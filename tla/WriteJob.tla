------------------------------ MODULE WriteJob ------------------------------
(***************************************************************************)
(* What a create, append or overwrite through the table API promises its    *)
(* caller, with nothing said of tasks, retries, errors or messages: each    *)
(* request of the job is stored at most once, the job reports success only  *)
(* when every request was stored or given up on, and a request is given up  *)
(* on only if the caller asked for on_batch_error="skip".                   *)
(*                                                                         *)
(* A request may be stored after the job has ended, and may be stored even  *)
(* though it was given up on: no client can recall one.                     *)
(***************************************************************************)
EXTENDS Naturals

CONSTANTS
  Unit,      \* the requests of the job
  MaySkip    \* on_batch_error="skip"

VARIABLES
  outcome,   \* what the caller has been told
  copies,    \* how many times each request is stored
  dropped    \* the requests given up on

jobVars == <<outcome, copies, dropped>>

Init ==
  /\ outcome = "running"
  /\ copies = [u \in Unit |-> 0]
  /\ dropped = {}

Store(u) ==
  /\ copies[u] = 0
  /\ copies' = [copies EXCEPT ![u] = 1]
  /\ UNCHANGED <<outcome, dropped>>

GiveUp(u) ==
  /\ MaySkip
  /\ dropped' = dropped \cup {u}
  /\ UNCHANGED <<outcome, copies>>

Succeed ==
  /\ outcome = "running"
  /\ \A u \in Unit : copies[u] = 1 \/ u \in dropped
  /\ outcome' = "complete"
  /\ UNCHANGED <<copies, dropped>>

Fail ==
  /\ outcome = "running"
  /\ outcome' = "failed"
  /\ UNCHANGED <<copies, dropped>>

Next ==
  \/ \E u \in Unit : Store(u) \/ GiveUp(u)
  \/ Succeed
  \/ Fail

Spec == Init /\ [][Next]_jobVars

=============================================================================
