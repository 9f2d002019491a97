-------------------------------- MODULE Review --------------------------------
(***************************************************************************)
(* One review from submission to its end: app/reviewer.py (run,            *)
(* _run_forever, _run, _drain, _deliver and _deliver_insistently) together *)
(* with the stdout reader of app/engine.py that feeds its listener, the    *)
(* engine process and Laravel.                                             *)
(*                                                                         *)
(* The coroutine is cut at its awaits: an action is everything it does     *)
(* from one await to the next.  While it waits for a delivery the POST in  *)
(* flight is Posting, built from the state it had when it was sent, and    *)
(* the action that ends the wait decides what became of it.  Reports are   *)
(* turn numbers, so the outbox, what was drained and what Laravel holds    *)
(* are sets of turns.  The 1 s poll, the 15 s batch interval and the       *)
(* backoff between attempts are nondeterministic.                          *)
(***************************************************************************)
EXTENDS AnalysisProcess, Laravel, FiniteSets

CONSTANTS
  BatchSize,       \* BATCH_SIZE
  FinalAttempts,   \* FINAL_DELIVERY_ATTEMPTS
  Inline           \* TRUE: Reviewer.run (RunPod); FALSE: the worker's own queue

ASSUME ReviewAssumption ==
  /\ BatchSize \in Nat \ {0}
  /\ FinalAttempts \in Nat \ {0}
  /\ Inline \in BOOLEAN
  /\ ReviewId # OtherId /\ Absent \notin {ReviewId, OtherId}

VARIABLES
  pc,         \* where the review's coroutine waits
  status,     \* job.status
  listening,  \* its listener is on the engine's list
  tracker,    \* the QueryTracker
  complete,   \* the asyncio.Event the listener sets
  drained,    \* turns in job.reports
  pending,    \* the outbox
  fresh,      \* `new` of the poll now flushing was not zero
  attempt,    \* delivery attempts at the final batch, counting this one
  reader,     \* the engine's stdout reader task
  sent        \* history: how many POSTs carried each turn

jobVars == <<pc, status, listening, drained, pending, fresh, attempt>>
hearVars == <<tracker, complete, reader>>
vars == <<processVars, laravelVars, jobVars, hearVars, sent>>

PCs == {"queued", "handshake", "waiting", "flushing", "concluding", "done", "cancelled"}
Statuses == {"queued", "running", "finished", "failed"}

LastTurn == IF NumMoves = 0 THEN 0 ELSE NumMoves - 1
Expected == ExpectedTurns(Requested, LastTurn)

\* MUTANT of Attempts: run() gives a failed review one attempt as well.
AttemptsLikeQueue == IF status = "finished" THEN FinalAttempts ELSE 1

\* A failed review is announced as hard as a finished one only by run().
Attempts == IF Inline \/ status = "finished" THEN FinalAttempts ELSE 1

\* MUTANT of Posting: the batch that ends a review never carries a report.
PostingEmptyEnd ==
  Batch(IF pc = "flushing" THEN pending ELSE {}, status, pc = "concluding")

\* The POST in flight while the coroutine waits for a delivery.
Posting ==
  CASE pc = "handshake"  -> Batch({}, status, FALSE)
    [] pc = "flushing"   -> Batch(pending, status, FALSE)
    [] pc = "concluding" -> Batch(IF status = "finished" THEN pending ELSE {}, status, TRUE)
    [] OTHER             -> Batch({}, status, FALSE)

CountSent ==
  sent' = [t \in Positions |-> sent[t] + IF t \in Posting.reports THEN 1 ELSE 0]

Ended == pc \in {"done", "cancelled"}

TypeOKJob ==
  /\ pc \in PCs
  /\ status \in Statuses
  /\ listening \in BOOLEAN
  /\ drained \subseteq Positions
  /\ pending \subseteq Positions
  /\ fresh \in BOOLEAN
  /\ attempt \in 0 .. FinalAttempts

TypeOKHear ==
  /\ tracker \in Trackers(Positions)
  /\ complete \in BOOLEAN
  /\ reader \in {"reading", "ended", "crashed"}

TypeOK ==
  /\ TypeOKProcess
  /\ TypeOKLaravel(Positions, Statuses)
  /\ TypeOKJob
  /\ TypeOKHear
  /\ sent \in [Positions -> Nat]

Init ==
  /\ InitProcess /\ InitLaravel
  /\ pc = "queued" /\ status = "queued"
  /\ listening = FALSE
  /\ tracker = NewTracker /\ complete = FALSE
  /\ drained = {} /\ pending = {}
  /\ fresh = FALSE /\ attempt = 0
  /\ reader = "reading"
  /\ sent = [t \in Positions |-> 0]

-------------------------------------------------------------------------------
(***************************************************************************)
(* The stdout reader: one line at a time, parsed and offered to the        *)
(* listener before the next is read.                                       *)
(***************************************************************************)
\* readline() raises on a line over its limit before parse_line sees it.
Hear(line) == IF line.shape = "overlong" THEN NoResponse("crash") ELSE ParseLine(line)

\* MUTANT of Listen: the event is set on what the tracker held before.
ListenLate(r) ==
  IF listening /\ Belongs(ReviewId, r)
    THEN /\ tracker' = Accept(tracker, r)
         /\ complete' = (complete \/ IsComplete(tracker, Expected))
    ELSE UNCHANGED <<tracker, complete>>

\* The listener in _run.
Listen(r) ==
  IF listening /\ Belongs(ReviewId, r)
    THEN /\ tracker' = Accept(tracker, r)
         /\ complete' = (complete \/ IsComplete(tracker', Expected))
    ELSE UNCHANGED <<tracker, complete>>

ReadLine ==
  /\ reader = "reading"
  /\ stdout # << >>
  /\ stdout' = Tail(stdout)
  /\ LET r == Hear(Head(stdout))
     IN  /\ Listen(r)
         /\ reader' = IF r.kind = "crash" THEN "crashed" ELSE "reading"
  /\ UNCHANGED <<alive, running, asked, searched, laravelVars, jobVars, sent>>

ReadEof ==
  /\ reader = "reading"
  /\ ~alive /\ stdout = << >>
  /\ reader' = "ended"
  /\ UNCHANGED <<processVars, laravelVars, jobVars, tracker, complete, sent>>

-------------------------------------------------------------------------------
(***************************************************************************)
(* The review's coroutine.                                                 *)
(***************************************************************************)
Begin ==
  /\ pc = "queued"
  /\ pc' = "handshake" /\ status' = "running"
  /\ UNCHANGED <<listening, drained, pending, fresh, attempt>>
  /\ UNCHANGED <<processVars, laravelVars, hearVars, sent>>

\* An exception leaves _run: the listener goes, and whoever called _run marks
\* the job failed and starts delivering a final batch that carries no report.
Raise ==
  /\ pc' = "concluding" /\ status' = "failed"
  /\ listening' = FALSE
  /\ attempt' = 1

\* The handshake is answered: listen, send the query and wait for the event,
\* which nobody can have set yet.  send() does not yield, its line being far
\* below the pipe's high-water mark.  It raises if the engine is not running,
\* and a write to a process that has gone may raise or be lost.
HandshakeTaken ==
  /\ pc = "handshake"
  /\ Acknowledge(Posting)
  /\ \/ /\ running
        /\ asked' = alive
        /\ pc' = "waiting" /\ listening' = TRUE
        /\ UNCHANGED <<status, attempt>>
     \/ /\ ~alive
        /\ Raise /\ UNCHANGED asked
  /\ UNCHANGED <<alive, running, searched, stdout>>
  /\ UNCHANGED <<drained, pending, fresh, hearVars, sent>>

HandshakeFails ==
  /\ pc = "handshake"
  /\ Fail(Posting)
  /\ Raise
  /\ UNCHANGED <<drained, pending, fresh, processVars, hearVars, sent>>

Ending ==
  IF tracker.error
    THEN Raise
    ELSE /\ pc' = "concluding" /\ status' = "finished"
         /\ attempt' = 1
         /\ UNCHANGED listening

\* MUTANT of Conclude: nothing is drained after the loop.
ConcludeUndrained(old, out) == drained' = old /\ pending' = out /\ Ending

\* After the loop: drain once more, then deliver the end of the review.
Conclude(old, out) ==
  /\ drained' = old \cup tracker.reports
  /\ pending' = out \cup (tracker.reports \ old)
  /\ Ending

\* `while not complete.is_set()`, with what is drained and in the outbox.
LoopTest(old, out) ==
  IF complete
    THEN Conclude(old, out)
    ELSE /\ pc' = "waiting"
         /\ drained' = old /\ pending' = out
         /\ UNCHANGED <<status, listening, attempt>>

GiveUp(old, out) == Raise /\ drained' = old /\ pending' = out

\* MUTANT of LoopEnd: nobody looks whether the engine is alive.
LoopEndBlind(old, out, new) == LoopTest(old, out)

\* The end of an iteration: give up on a stopped engine that brought nothing
\* new, or go round again.
LoopEnd(old, out, new) ==
  IF ~new /\ ~running THEN GiveUp(old, out) ELSE LoopTest(old, out)

\* The poll timed out or the event was set: drain, then flush if there is
\* enough in the outbox, or anything and the interval is over.
Wake ==
  /\ pc = "waiting"
  /\ LET new == tracker.reports \ drained
         out == pending \cup new
     IN  \/ /\ out # {}
            /\ pc' = "flushing"
            /\ drained' = drained \cup new /\ pending' = out
            /\ fresh' = (new # {})
            /\ UNCHANGED <<status, listening, attempt>>
         \/ /\ Cardinality(out) < BatchSize
            /\ LoopEnd(drained \cup new, out, new # {})
            /\ UNCHANGED fresh
  /\ UNCHANGED <<processVars, laravelVars, hearVars, sent>>

\* A flush ends and `left` stays in the outbox.
Flushed(left) ==
  /\ pc = "flushing"
  /\ CountSent
  /\ LoopEnd(drained, left, fresh)
  /\ fresh' = FALSE
  /\ UNCHANGED <<processVars, hearVars>>

\* MUTANT of FlushTaken: the outbox is not cleared.
FlushTakenKept == Flushed(pending) /\ Acknowledge(Posting)

FlushTaken == Flushed({}) /\ Acknowledge(Posting)

\* MUTANT of FlushFails: the outbox is cleared although the flush failed.
FlushFailsCleared == Flushed({}) /\ Fail(Posting)

FlushFails == Flushed(pending) /\ Fail(Posting)

\* The review is over, however its last delivery went.
Finish ==
  /\ pc' = "done"
  /\ listening' = FALSE
  /\ pending' = IF status = "finished" THEN {} ELSE pending
  /\ UNCHANGED <<status, drained, fresh, attempt>>

FinalTaken ==
  /\ pc = "concluding"
  /\ Acknowledge(Posting)
  /\ CountSent
  /\ Finish
  /\ UNCHANGED <<processVars, hearVars>>

\* An attempt at the final batch fails, and is made again if `again`.
FinalFailsThen(again) ==
  /\ pc = "concluding"
  /\ Fail(Posting)
  /\ CountSent
  /\ IF again
       THEN attempt' = attempt + 1
            /\ UNCHANGED <<pc, status, listening, drained, pending, fresh>>
       ELSE Finish
  /\ UNCHANGED <<processVars, hearVars>>

\* MUTANT of FinalFails: one attempt too many.
FinalFailsOnceMore == FinalFailsThen(attempt <= Attempts)

FinalFails == FinalFailsThen(attempt < Attempts)

\* MUTANT of Cancel: a cancellation is caught like any other exception.
CancelCaught ==
  /\ ~Inline /\ ~Ended /\ pc # "queued"
  /\ Raise
  /\ UNCHANGED <<drained, pending, fresh, processVars, laravelVars, hearVars, sent>>

\* Reviewer.stop() cancels the queue's worker wherever it waits.  The POST in
\* flight may have been taken already, or be taken later.
Cancel ==
  /\ ~Inline /\ ~Ended
  /\ pc' = "cancelled" /\ listening' = FALSE
  /\ IF pc \in {"handshake", "flushing", "concluding"}
       THEN /\ CountSent
            /\ UNCHANGED failures
            /\ \/ UNCHANGED <<received, verdicts, late>>
               \/ late' = late \cup {Posting} /\ UNCHANGED <<received, verdicts>>
       ELSE UNCHANGED <<laravelVars, sent>>
  /\ UNCHANGED <<status, drained, pending, fresh, attempt>>
  /\ UNCHANGED <<processVars, hearVars>>

-------------------------------------------------------------------------------
Process ==
  /\ \/ \E t \in SearchPlan : SearchLands(t)
     \/ WriteUnasked \/ Exit \/ Reap
  /\ UNCHANGED <<laravelVars, jobVars, hearVars, sent>>

Network ==
  /\ LateLands
  /\ UNCHANGED <<processVars, jobVars, hearVars, sent>>

Reader == ReadLine \/ ReadEof

Coroutine ==
  \/ Begin \/ HandshakeTaken \/ HandshakeFails \/ Wake
  \/ FlushTaken \/ FlushFails \/ FinalTaken \/ FinalFails

Next == Process \/ Network \/ Reader \/ Coroutine \/ Cancel

(***************************************************************************)
(* Fairness: the event loop runs every task that is ready, every POST ends *)
(* in an answer or in the client's timeout, visits are capped so a process *)
(* that lives lands its searches, and the child watcher reaps it.  Nothing *)
(* makes a late POST land, the process exit, or a worker cancel.           *)
(***************************************************************************)
Lands == /\ \E t \in SearchPlan : SearchLands(t)
         /\ UNCHANGED <<laravelVars, jobVars, hearVars, sent>>
Reaps == Reap /\ UNCHANGED <<laravelVars, jobVars, hearVars, sent>>

Fairness ==
  /\ WF_vars(Coroutine) /\ WF_vars(Reader)
  /\ WF_vars(Lands) /\ WF_vars(Reaps)

Safe == Init /\ [][Next]_vars
Spec == Safe /\ Fairness
=============================================================================
