------------------------------- MODULE Laravel -------------------------------
(***************************************************************************)
(* The endpoint behind POST /api/internal/reviews/{id}/reports, as         *)
(* app/callbacks.py and app/reviewer.py use it.  Laravel is not part of    *)
(* the repository.  It upserts on (review_id, move_number), and it takes   *)
(* the progress of the batch marked final as the review's verdict.         *)
(*                                                                         *)
(* A POST the worker sees fail may have been refused, may have been taken  *)
(* with the answer lost, or may have timed out and be taken much later.    *)
(***************************************************************************)
EXTENDS Integers

CONSTANT MaxFailures   \* BOUND: how many POSTs fail during one review

VARIABLES
  received,   \* turns whose report Laravel holds
  verdicts,   \* statuses of the final batches it has taken
  late,       \* POSTs the worker has given up on that may yet land
  failures    \* POSTs the worker has seen fail

laravelVars == <<received, verdicts, late, failures>>

ASSUME FailuresAssumption == MaxFailures \in Nat

Batch(reports, status, final) ==
  [reports |-> reports, status |-> status, final |-> final]

Batches(turns, statuses) ==
  [reports : SUBSET turns, status : statuses, final : BOOLEAN]

TypeOKLaravel(turns, statuses) ==
  /\ received \subseteq turns
  /\ verdicts \subseteq statuses
  /\ late \subseteq Batches(turns, statuses)
  /\ failures \in 0 .. MaxFailures

InitLaravel ==
  /\ received = {} /\ verdicts = {} /\ late = {}
  /\ failures = 0

Upsert(b) ==
  /\ received' = received \cup b.reports
  /\ verdicts' = verdicts \cup (IF b.final THEN {b.status} ELSE {})

\* The POST is answered with a success.
Acknowledge(b) == Upsert(b) /\ UNCHANGED <<late, failures>>

\* The POST raises in the worker.
Fail(b) ==
  /\ failures < MaxFailures
  /\ failures' = failures + 1
  /\ \/ UNCHANGED <<received, verdicts, late>>
     \/ Upsert(b) /\ UNCHANGED late
     \/ late' = late \cup {b} /\ UNCHANGED <<received, verdicts>>

LateLands ==
  /\ \E b \in late : Upsert(b) /\ late' = late \ {b}
  /\ UNCHANGED failures
=============================================================================
