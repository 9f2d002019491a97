-------------------------- MODULE ReviewProperties --------------------------
(***************************************************************************)
(* What a review owes the player: its reports, once each, and one verdict  *)
(* that is true.                                                           *)
(***************************************************************************)
EXTENDS Review

(***************************************************************************)
(* A report taken from the engine is in the outbox until Laravel holds it: *)
(* a flush that fails keeps its moves for the next one, and a poll never   *)
(* clears what arrived behind a batch (reviewer.py:202-212).  Only the end *)
(* of the review discards an outbox that could not be delivered.           *)
(***************************************************************************)
NothingLost == pc # "done" => drained \ pending \subseteq received

(***************************************************************************)
(* Once Laravel has been told the review finished it holds the report of   *)
(* every pair of searches the review waited for, whatever order they       *)
(* landed in and whichever deliveries failed (protocol.py:114-119,         *)
(* reviewer.py:217-220).  A pair the tracker does not expect, that of the  *)
(* last move, is not among them: see NoReportLeftBehind.                   *)
(***************************************************************************)
Awaited == {t \in Requested : t + 1 \in Expected}

AwaitedReportsArrive == "finished" \in verdicts => Awaited \subseteq received

(***************************************************************************)
(* A review is finished only if the engine really searched every position  *)
(* asked for: neither an interim result nor another query's answer counts. *)
(***************************************************************************)
FinishedWasSearched == status = "finished" => Requested \subseteq searched

(***************************************************************************)
(* A report is posted again only because a delivery failed: on the happy   *)
(* path every report is sent exactly once (test_reviewer.py:142-153).      *)
(***************************************************************************)
NoNeedlessResend == \A t \in Positions : sent[t] <= 1 + failures

(***************************************************************************)
(* A review never sleeps on a complete search: once every position asked   *)
(* for has been searched and nothing is left in the pipe, the event the    *)
(* loop waits for is set, whatever the answers were interleaved with and   *)
(* whoever read them when (reviewer.py:168-176, 192-194).  Of a game       *)
(* without moves there is nothing to hear.                                 *)
(***************************************************************************)
Looping == pc \in {"waiting", "flushing"}

NobodyWaitsInVain ==
  Looping /\ Requested # {} /\ Requested \subseteq searched /\ stdout = << >> => complete

(***************************************************************************)
(* Laravel learns how a review ended unless as many deliveries failed as   *)
(* the code insists on: FINAL_DELIVERY_ATTEMPTS of a finished review, or   *)
(* of any run() announces, and one of a failure in the queue               *)
(* (reviewer.py:114-121, 146, 231).                                        *)
(***************************************************************************)
ToldUnlessRefused ==
  pc = "done" /\ verdicts = {} =>
    failures >= (IF Inline \/ status = "finished" THEN FinalAttempts ELSE 1)

Promise == INSTANCE ReviewPromise WITH Turns <- Positions, found <- drained

(***************************************************************************)
(* The review implements what it promises Laravel: reports are delivered   *)
(* and never taken back, at most one verdict is given, and "finished" is   *)
(* said only over a whole review (reviewer.py:222-231).                    *)
(***************************************************************************)
PromiseSpec == Promise!Spec

\* What module ReviewQueue sees of this review, alone in the queue.
Queue == INSTANCE ReviewQueue WITH
  Ids <- {ReviewId}, NoId <- Absent,
  phase <- IF pc = "cancelled" THEN "stopping" ELSE "serving",
  jobs <- [id \in {ReviewId} |-> status],
  queue <- IF status = "queued" THEN <<ReviewId>> ELSE << >>,
  job <- IF status = "queued" THEN Absent ELSE ReviewId,
  stage <- IF pc \in {"queued", "done"} THEN "idle"
           ELSE IF Looping THEN "searching" ELSE pc,
  process <- IF alive THEN "alive" ELSE "exited",
  crashed <- IF reader = "crashed" THEN {"stdout"} ELSE {},
  signal <- "none",
  submitted <- <<ReviewId>>,
  begun <- IF status = "queued" THEN << >> ELSE <<ReviewId>>

(***************************************************************************)
(* Whatever a review does is a step the queue of module ReviewQueue counts *)
(* on: taken once, asked of an engine that runs, settled once, followed by *)
(* its final delivery, and left as it was when the worker is shut down     *)
(* (reviewer.py:133-151).                                                  *)
(***************************************************************************)
QueueSteps == [][Queue!Next]_(Queue!vars)

(***************************************************************************)
(* The inductive invariant behind the promise.                             *)
(***************************************************************************)
\* The job's status says where its coroutine is.
StatusFits ==
  /\ pc = "queued" => status = "queued"
  /\ pc \in {"handshake", "waiting", "flushing"} => status = "running"
  /\ pc \in {"concluding", "done"} => status \in {"finished", "failed"}

\* Laravel is sent, and can yet be sent, only reports that were drained.
OnlyDrained ==
  /\ pending \subseteq drained
  /\ received \subseteq drained
  /\ \A b \in late : b.reports \subseteq drained

\* A final batch says what the job says, and is sent only once that is settled.
FinalIsSettled ==
  /\ verdicts \subseteq {status} \cap {"finished", "failed"}
  /\ \A b \in late : b.final => b.status = status
  /\ (verdicts # {} \/ \E b \in late : b.final) => pc \in {"concluding", "done", "cancelled"}
                                             /\ status \in {"finished", "failed"}

\* A finished review's final batch brings whatever Laravel still lacks.
FinalIsWhole ==
  /\ "finished" \in verdicts => drained \subseteq received
  /\ \A b \in late : b.final /\ b.status = "finished" => drained \ received \subseteq b.reports

PromiseInv ==
  /\ TypeOK /\ StatusFits /\ OnlyDrained /\ FinalIsSettled /\ FinalIsWhole /\ NothingLost

(***************************************************************************)
(* The inductive invariant behind NoNeedlessResend: what is still to be    *)
(* sent has been sent in vain only.                                        *)
(***************************************************************************)
ResendInv ==
  /\ NoNeedlessResend
  /\ \A t \in Positions : t \notin drained => sent[t] = 0
  /\ ~Ended => \A t \in pending : sent[t] <= failures

(***************************************************************************)
(* The inductive invariants behind FinishedWasSearched and                 *)
(* AwaitedReportsArrive.                                                   *)
(***************************************************************************)
\* Reading `line` tells the tracker that the search at `t` is over.
TellsSearched(line, t) ==
  LET r == Hear(line)
  IN  r.kind = "analysis" /\ r.id = ReviewId /\ r.final /\ r.turn = t

\* What the pipe says and the tracker believes has been searched, has been;
\* and the event is set, and the review finished, only on that ground.
SearchInv ==
  /\ TypeOK
  /\ searched \subseteq SearchPlan
  /\ searched # {} => asked
  /\ asked => pc \notin {"queued", "handshake"}
  /\ \A i \in 1 .. Len(stdout), t \in Positions : TellsSearched(stdout[i], t) => t \in searched
  /\ tracker.snapshots \subseteq searched
  /\ complete => tracker.error \/ Expected \subseteq tracker.snapshots
  /\ status = "finished" => Expected \subseteq tracker.snapshots

\* The search at `t` has not been heard of, nor will be from the first `i` lines.
UnheardBefore(i, t) ==
  t \notin tracker.snapshots /\ \A j \in 1 .. i : ~TellsSearched(stdout[j], t)

\* A report reaches the tracker before it knows of both searches of its pair.
ReportsLead ==
  listening => \A t \in Reported :
    \/ t \in tracker.reports
    \/ \E i \in 1 .. Len(stdout) :
          stdout[i] = Report(t) /\ \E u \in {t, t + 1} : UnheardBefore(i, u)

\* A finished review has drained the report of every pair it asked for.
FinishedDrainedAll == status = "finished" => Awaited \subseteq drained

ListensInLoop == Looping => listening

ReportsInv == SearchInv /\ ListensInLoop /\ ReportsLead /\ FinishedDrainedAll

(***************************************************************************)
(* The inductive invariants behind NobodyWaitsInVain and                   *)
(* ToldUnlessRefused.                                                      *)
(***************************************************************************)
\* A listener is told of every search, and wakes its review at the last.
WakeInv ==
  listening =>
    /\ \A t \in searched : t \in tracker.snapshots
                         \/ \E i \in 1 .. Len(stdout) : TellsSearched(stdout[i], t)
    /\ Requested # {} /\ Requested \subseteq tracker.snapshots => complete

\* The attempts at the final batch are POSTs that failed, but for the last.
VerdictInv ==
  ToldUnlessRefused /\ (pc = "concluding" => attempt <= failures + 1)

\* All of them together.
ReviewInv == PromiseInv /\ ResendInv /\ ReportsInv /\ WakeInv /\ VerdictInv

(***************************************************************************)
(* Liveness.                                                               *)
(***************************************************************************)
\* Every review ends: the engine answers it, fails it, or is seen to have died.
ReviewEnds == <>Ended

\* Laravel is told how the review ended, unless the worker was shut down.
VerdictArrives == <>(verdicts # {} \/ pc = "cancelled")

(***************************************************************************)
(* What the repository says of a review and the code does not do.          *)
(***************************************************************************)
\* Once every expected search has reported, every report that will ever arrive
\* has arrived: a review that Laravel has been told finished lacks no report the
\* engine wrote, that of the last move included.
NoReportLeftBehind == "finished" \in verdicts => Reported \subseteq received

\* A review whose every expected search has reported is not failed because the
\* engine stopped afterwards.
SearchedIsNotFailed ==
  status = "failed" /\ Requested # {} /\ Expected \subseteq tracker.snapshots
    => tracker.error

\* A callback that fails costs a retry, not the moves it was carrying: once
\* Laravel has taken the end of the review it holds all it was ever sent.
FailedCallbackCostsARetry ==
  pc = "done" /\ verdicts # {} => {t \in Positions : sent[t] > 0} \subseteq received
=============================================================================
