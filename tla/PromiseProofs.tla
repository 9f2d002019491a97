----------------------------- MODULE PromiseProofs -----------------------------
(***************************************************************************)
(* A review keeps its promise to Laravel: the invariant behind it is       *)
(* inductive, and every step of a review is a step of the promise.  It     *)
(* tells Laravel its verdict unless it is refused, and takes the steps the *)
(* queue it comes from counts on.                                          *)
(***************************************************************************)
EXTENDS ReviewProofs

(***************************************************************************)
(* What the pieces of a step do to the sets the invariant is about.        *)
(***************************************************************************)
\* The batch in flight carries reports of the outbox and the job's own status,
\* and is final exactly when the review is over.
LEMMA PostingFacts ==
  ASSUME PromiseInv
  PROVE  /\ Posting.reports \subseteq pending /\ Posting.status = status
         /\ Posting.final <=> pc = "concluding"
         /\ pc = "flushing" => Posting.reports = pending
         /\ pc = "concluding" /\ status = "finished" => Posting.reports = pending
BY DEF PromiseInv, TypeOK, TypeOKJob, Posting, Batch

\* A POST is taken whole or not at all, now or later.
LEMMA DeliveryFacts ==
  ASSUME NEW b, Acknowledge(b) \/ Fail(b)
  PROVE  /\ Upsert(b) \/ UNCHANGED <<received, verdicts>>
         /\ late' = late \/ late' = late \cup {b}
BY DEF Acknowledge, Fail

\* The end of an iteration goes round again or ends the review, and whatever
\* it drains goes through the outbox.
LEMMA LoopFacts ==
  ASSUME NEW old, NEW out, NEW new, out \subseteq old, status = "running",
         LoopEnd(old, out, new) \/ LoopTest(old, out) \/ GiveUp(old, out)
  PROVE  /\ old \subseteq drained' /\ pending' \subseteq drained'
         /\ drained' \ pending' \subseteq old \ out
         /\ \/ pc' = "waiting" /\ status' = "running"
            \/ pc' = "concluding" /\ status' \in {"finished", "failed"}
BY DEF LoopEnd, GiveUp, LoopTest, Conclude, Ending, Raise

\* While a review runs nothing final has been said, nor can be yet.
LEMMA RunningIsOpen ==
  ASSUME PromiseInv, pc \notin {"concluding", "done", "cancelled"}
  PROVE  verdicts = {} /\ \A b \in late : ~b.final
BY DEF PromiseInv, FinalIsSettled

\* A POST before the final one brings reports of the outbox and no verdict.
LEMMA OpenDelivery ==
  ASSUME PromiseInv, pc # "concluding", Acknowledge(Posting) \/ Fail(Posting)
  PROVE  /\ received \subseteq received' /\ received' \subseteq received \cup pending
         /\ verdicts' = verdicts
         /\ \A b \in late' : b \in late \/ b = Posting
<1> DEFINE post == Posting
<1>1. post.reports \subseteq pending /\ ~post.final
  BY PostingFacts
<1>2. /\ Upsert(post) \/ UNCHANGED <<received, verdicts>>
      /\ late' = late \/ late' = late \cup {post}
  BY DeliveryFacts
<1> HIDE DEF post
<1>3. \A b \in late' : b \in late \/ b = post
  BY <1>2
<1>4. /\ received \subseteq received' /\ received' \subseteq received \cup pending
      /\ verdicts' = verdicts
  BY <1>1, <1>2 DEF Upsert
<1> QED
  BY <1>3, <1>4 DEF post

(***************************************************************************)
(* The invariant is inductive.                                             *)
(***************************************************************************)
LEMMA InitPromise == Init => PromiseInv
BY InitType
   DEF Init, InitLaravel, PromiseInv, StatusFits, OnlyDrained, FinalIsSettled, FinalIsWhole,
       NothingLost

\* Steps before the loop, and between its iterations.
LEMMA OpenStep ==
  ASSUME PromiseInv, TypeOK', pc \notin {"concluding", "done", "cancelled"},
         received \subseteq received', received' \subseteq received \cup pending,
         verdicts' = verdicts, \A b \in late' : b \in late \/ b = Posting,
         drained \subseteq drained', pending' \subseteq drained',
         drained' \ pending' \subseteq received',
         \/ pc' \in {"handshake", "waiting", "flushing"} /\ status' = "running"
         \/ pc' = "concluding" /\ status' \in {"finished", "failed"}
  PROVE  PromiseInv'
<1>1. \A b \in late' : ~b.final /\ b.reports \subseteq drained
  BY PostingFacts, RunningIsOpen DEF PromiseInv, OnlyDrained
<1>2. verdicts' = {}
  BY RunningIsOpen
<1>3. OnlyDrained'
  BY <1>1 DEF PromiseInv, OnlyDrained
<1>4. StatusFits' /\ FinalIsSettled' /\ FinalIsWhole' /\ NothingLost'
  BY <1>1, <1>2 DEF StatusFits, FinalIsSettled, FinalIsWhole, NothingLost
<1> QED
  BY <1>3, <1>4 DEF PromiseInv

\* The steps that neither drain nor deliver.
LEMMA AsideStep ==
  ASSUME PromiseInv, TypeOK', UNCHANGED <<pc, status, drained, pending>>,
         UNCHANGED <<received, verdicts, late>>
  PROVE  PromiseInv'
BY DEF PromiseInv, StatusFits, OnlyDrained, FinalIsSettled, FinalIsWhole, NothingLost

\* A late POST lands: a final one still says what the job says, and still
\* brings whatever Laravel lacks.
LEMMA NetworkStep ==
  ASSUME PromiseInv, TypeOK', Network
  PROVE  PromiseInv'
<1>1. PICK b \in late : Upsert(b) /\ late' = late \ {b}
  BY DEF Network, LateLands
<1>2. UNCHANGED <<pc, status, drained, pending>>
  BY DEF Network, jobVars
<1>3. StatusFits' /\ OnlyDrained' /\ NothingLost'
  BY <1>1, <1>2 DEF Upsert, PromiseInv, StatusFits, OnlyDrained, NothingLost
<1>4. FinalIsSettled'
  BY <1>1, <1>2 DEF Upsert, PromiseInv, FinalIsSettled
<1>5. FinalIsWhole'
  BY <1>1, <1>2 DEF Upsert, PromiseInv, FinalIsWhole, FinalIsSettled
<1> QED
  BY <1>3, <1>4, <1>5 DEF PromiseInv

\* An attempt at the final batch, whether or not it is the last.
LEMMA FinalStep ==
  ASSUME PromiseInv, TypeOK', FinalTaken \/ FinalFails
  PROVE  PromiseInv'
<1>1. /\ pc = "concluding" /\ status \in {"finished", "failed"}
      /\ UNCHANGED <<status, drained>>
      /\ (pc' = "concluding" /\ pending' = pending) \/ (pc' = "done" /\ pending' \in {{}, pending})
  BY DEF FinalTaken, FinalFails, FinalFailsThen, Finish, PromiseInv, StatusFits
<1>2. Acknowledge(Posting) \/ Fail(Posting)
  BY DEF FinalTaken, FinalFails, FinalFailsThen
<1> DEFINE b == Posting
<1>3. /\ b.reports \subseteq pending /\ b.status = status /\ b.final
      /\ status = "finished" => b.reports = pending
  BY <1>1, PostingFacts
<1>4. /\ Upsert(b) \/ UNCHANGED <<received, verdicts>>
      /\ late' = late \/ late' = late \cup {b}
  BY <1>2, DeliveryFacts
<1> HIDE DEF b
<1>5. StatusFits' /\ OnlyDrained' /\ NothingLost'
  BY <1>1, <1>3, <1>4 DEF Upsert, PromiseInv, StatusFits, OnlyDrained, NothingLost
<1>6. FinalIsSettled'
  BY <1>1, <1>3, <1>4 DEF Upsert, PromiseInv, FinalIsSettled
<1>7. FinalIsWhole'
  BY <1>1, <1>3, <1>4 DEF Upsert, PromiseInv, FinalIsWhole, NothingLost
<1> QED
  BY <1>5, <1>6, <1>7 DEF PromiseInv

\* The worker is shut down, perhaps with a POST in flight.
LEMMA CancelStep ==
  ASSUME PromiseInv, TypeOK', Cancel
  PROVE  PromiseInv'
<1>1. /\ pc' = "cancelled" /\ UNCHANGED <<status, drained, pending, received, verdicts>>
      /\ late' = late \/ (late' = late \cup {Posting} /\ pc \in {"handshake", "flushing", "concluding"})
  BY DEF Cancel, laravelVars
<1>2. pc \notin {"done", "cancelled"}
  BY DEF Cancel, Ended
<1>3. StatusFits' /\ OnlyDrained' /\ NothingLost'
  BY <1>1, <1>2, PostingFacts DEF PromiseInv, StatusFits, OnlyDrained, NothingLost
<1>4. FinalIsSettled'
  BY <1>1, PostingFacts DEF PromiseInv, FinalIsSettled, StatusFits
<1>5. FinalIsWhole'
  BY <1>1, <1>2, PostingFacts DEF PromiseInv, FinalIsWhole, NothingLost
<1> QED
  BY <1>3, <1>4, <1>5 DEF PromiseInv

\* Everything the coroutine does before its final batch is an open step.
LEMMA OpenCoroutineStep ==
  ASSUME PromiseInv, TypeOK', Coroutine, ~FinalTaken, ~FinalFails
  PROVE  PromiseInv'
<1>a. pending \subseteq drained /\ (pc # "done" => drained \ pending \subseteq received)
  BY DEF PromiseInv, OnlyDrained, NothingLost
<1>b. pc \in {"handshake", "waiting", "flushing"} => status = "running"
  BY DEF PromiseInv, StatusFits
<1>1. CASE Begin
  BY <1>1, <1>a, OpenStep DEF Begin, laravelVars
<1>2. CASE HandshakeTaken \/ HandshakeFails
  <2>1. pc = "handshake" /\ UNCHANGED <<drained, pending>>
    BY <1>2 DEF HandshakeTaken, HandshakeFails
  <2>2. /\ received \subseteq received' /\ received' \subseteq received \cup pending
        /\ verdicts' = verdicts /\ \A b \in late' : b \in late \/ b = Posting
    BY <1>2, <2>1, OpenDelivery DEF HandshakeTaken, HandshakeFails
  <2>3. (pc' = "waiting" /\ status' = status) \/ (pc' = "concluding" /\ status' = "failed")
    BY <1>2 DEF HandshakeTaken, HandshakeFails, Raise
  <2> QED
    BY <2>1, <2>2, <2>3, <1>a, <1>b, OpenStep
<1>4. CASE Wake
  <2> DEFINE new == tracker.reports \ drained
             out == pending \cup new
  <2>1. pc = "waiting" /\ UNCHANGED <<received, verdicts, late>>
    BY <1>4 DEF Wake, laravelVars
  <2>2. \/ /\ pc' = "flushing" /\ status' = status
           /\ drained' = drained \cup new /\ pending' = out
        \/ LoopEnd(drained \cup new, out, new # {})
    BY <1>4 DEF Wake
  <2>3. (drained \cup new) \ out \subseteq received /\ out \subseteq drained \cup new
    BY <2>1, <1>a
  <2> HIDE DEF new, out
  <2>4. /\ drained \cup new \subseteq drained' /\ pending' \subseteq drained'
        /\ drained' \ pending' \subseteq received
        /\ \/ pc' \in {"waiting", "flushing"} /\ status' = "running"
           \/ pc' = "concluding" /\ status' \in {"finished", "failed"}
    BY <2>1, <2>2, <2>3, <1>b, LoopFacts
  <2> QED
    BY <2>1, <2>4, OpenStep
<1>5. CASE FlushTaken \/ FlushFails
  <2>1. pc = "flushing" /\ Posting.reports = pending
    BY <1>5, PostingFacts DEF FlushTaken, FlushFails, Flushed
  <2>2. /\ received \subseteq received' /\ received' \subseteq received \cup pending
        /\ verdicts' = verdicts /\ \A b \in late' : b \in late \/ b = Posting
    BY <1>5, <2>1, OpenDelivery DEF FlushTaken, FlushFails
  <2>3. PICK left : LoopEnd(drained, left, fresh) /\ left \subseteq drained
                    /\ drained \ left \subseteq received'
    <3>1. CASE FlushTaken
      BY <3>1, <2>1, <1>a DEF FlushTaken, Flushed, Acknowledge, Upsert
    <3>2. CASE FlushFails
      BY <3>2, <2>1, <2>2, <1>a DEF FlushFails, Flushed
    <3> QED
      BY <1>5, <3>1, <3>2
  <2>4. /\ drained \subseteq drained' /\ pending' \subseteq drained'
        /\ drained' \ pending' \subseteq received'
        /\ \/ pc' = "waiting" /\ status' = "running"
           \/ pc' = "concluding" /\ status' \in {"finished", "failed"}
    BY <2>1, <2>3, <1>b, LoopFacts
  <2> QED
    BY <2>1, <2>2, <2>4, OpenStep
<1> QED
  BY <1>1, <1>2, <1>4, <1>5 DEF Coroutine

LEMMA NextPromise == PromiseInv /\ [Next]_vars => PromiseInv'
<1> SUFFICES ASSUME PromiseInv, [Next]_vars PROVE PromiseInv'
  OBVIOUS
<1>1. TypeOK'
  BY NextType DEF PromiseInv
<1>2. CASE Process \/ Reader \/ UNCHANGED vars
  BY <1>1, <1>2, AsideStep
     DEF Process, Reader, ReadLine, ReadEof, vars, jobVars, laravelVars
<1> QED
  BY <1>1, <1>2, NetworkStep, FinalStep, CancelStep, OpenCoroutineStep DEF Next

(***************************************************************************)
(* No report taken from the engine is ever out of both the outbox and      *)
(* Laravel while the review lasts, and Laravel hears nothing but the truth *)
(* about how it ended.                                                     *)
(***************************************************************************)
THEOREM PromiseInvariant == Safe => []PromiseInv
BY InitPromise, NextPromise, PTL DEF Safe

\* A report that was drained is in the outbox or with Laravel.
THEOREM NothingIsLost == Safe => []NothingLost
<1>1. PromiseInv => NothingLost
  BY DEF PromiseInv
<1> QED
  BY <1>1, PromiseInvariant, PTL

(***************************************************************************)
(* Refinement.                                                             *)
(***************************************************************************)
\* Nothing delivered is taken back.
LEMMA LaravelGrows ==
  ASSUME [Next]_vars PROVE received \subseteq received' /\ verdicts \subseteq verdicts'
<1>1. ASSUME NEW b, Upsert(b) PROVE received \subseteq received' /\ verdicts \subseteq verdicts'
  BY <1>1 DEF Upsert
<1>2. CASE Process \/ Reader \/ UNCHANGED vars
  BY <1>2 DEF Process, Reader, ReadLine, ReadEof, vars, laravelVars
<1>3. CASE Network
  BY <1>1, <1>3 DEF Network, LateLands
<1>4. CASE Coroutine
  BY <1>1, <1>4, CoroutineDelivers, DeliveryFacts DEF laravelVars
<1>5. CASE Cancel
  BY <1>5 DEF Cancel, laravelVars
<1> QED
  BY <1>2, <1>3, <1>4, <1>5 DEF Next

\* Until its final batch is being sent a review drains more, and its verdict is open.
LEMMA OpenReview ==
  ASSUME PromiseInv, [Next]_vars, pc \notin {"concluding", "done", "cancelled"}
  PROVE  drained \subseteq drained' /\ verdicts' = verdicts
<1>1. CASE Process \/ Reader \/ UNCHANGED vars
  BY <1>1 DEF Process, Reader, ReadLine, ReadEof, vars, laravelVars, jobVars
<1>2. CASE Network
  BY <1>2, RunningIsOpen DEF Network, LateLands, Upsert, jobVars
<1>3. CASE Cancel
  BY <1>3 DEF Cancel, laravelVars
<1>4. CASE Coroutine
  <2>1. verdicts' = verdicts
    <3>1. Acknowledge(Posting) \/ Fail(Posting) \/ UNCHANGED laravelVars
      BY <1>4, CoroutineDelivers
    <3> QED
      BY <3>1, OpenDelivery DEF laravelVars
  <2>2. ~FinalTaken /\ ~FinalFails
    BY DEF FinalTaken, FinalFails, FinalFailsThen
  <2>3. CASE Begin \/ HandshakeTaken \/ HandshakeFails
    BY <2>1, <2>3 DEF Begin, HandshakeTaken, HandshakeFails
  <2>5. CASE Wake
    BY <2>1, <2>5 DEF Wake, LoopEnd, GiveUp, LoopTest, Conclude
  <2>6. CASE FlushTaken \/ FlushFails
    BY <2>1, <2>6 DEF FlushTaken, FlushFails, Flushed, LoopEnd, GiveUp, LoopTest, Conclude
  <2> QED
    BY <1>4, <2>2, <2>3, <2>5, <2>6 DEF Coroutine
<1> QED
  BY <1>1, <1>2, <1>3, <1>4 DEF Next

\* From then on nothing is drained and the status stands.
LEMMA ClosedReview ==
  ASSUME [Next]_vars, pc \in {"concluding", "done", "cancelled"}
  PROVE  UNCHANGED <<drained, status>>
BY DEF Next, Process, Network, Reader, ReadLine, ReadEof, Coroutine, Begin, HandshakeTaken,
       HandshakeFails, Wake, FlushTaken, FlushFails, Flushed, FinalTaken, FinalFails,
       FinalFailsThen, Finish, Cancel, vars, jobVars

LEMMA PromiseStep ==
  ASSUME PromiseInv, PromiseInv', [Next]_vars
  PROVE  [Promise!Next]_(Promise!vars)
<1>a. /\ drained' \subseteq Positions /\ received \subseteq received'
      /\ received' \subseteq drained'
  BY LaravelGrows DEF PromiseInv, TypeOK, TypeOKJob, OnlyDrained
<1>1. CASE pc \notin {"concluding", "done", "cancelled"}
  <2>1. verdicts = {} /\ verdicts' = verdicts /\ drained \subseteq drained'
    BY <1>1, OpenReview, RunningIsOpen
  <2> QED
    BY <1>a, <2>1 DEF Promise!Next, Promise!Progress
<1>2. CASE pc \in {"concluding", "done", "cancelled"}
  <2>1. UNCHANGED <<drained, status>>
    BY <1>2, ClosedReview
  <2>2. verdicts' \subseteq {status} \cap {"finished", "failed"}
    BY <2>1 DEF PromiseInv, FinalIsSettled
  <2>3. CASE verdicts' = verdicts
    BY <1>a, <2>1, <2>3 DEF Promise!Next, Promise!Progress
  <2>4. CASE verdicts = {} /\ verdicts' # verdicts
    <3>1. verdicts' = {status} /\ status \in {"finished", "failed"}
      BY <2>2, <2>4
    <3>2. status = "finished" => received' = drained
      BY <1>a, <2>1, <3>1 DEF PromiseInv, FinalIsWhole
    <3> QED
      BY <1>a, <2>1, <2>4, <3>1, <3>2 DEF Promise!Next, Promise!Announce
  <2>5. verdicts = {} \/ verdicts' = verdicts
    <3>1. ASSUME verdicts # {} PROVE verdicts = {status} /\ verdicts \subseteq verdicts'
      <4>1. verdicts = {status}
        BY <3>1 DEF PromiseInv, FinalIsSettled
      <4>2. verdicts \subseteq verdicts'
        BY LaravelGrows
      <4> QED
        BY <4>1, <4>2
    <3> QED
      BY <3>1, <2>2
  <2> QED
    BY <2>3, <2>4, <2>5
<1> QED
  BY <1>1, <1>2

(***************************************************************************)
(* A review keeps its promise: only real reports are delivered and none is *)
(* taken back, there is at most one verdict, and a review announced as     *)
(* finished is whole by then, however deliveries fail, time out and land.  *)
(***************************************************************************)
THEOREM ReviewKeepsPromise == Safe => PromiseSpec
<1>1. Init => Promise!Init
  BY DEF Init, InitLaravel, Promise!Init
<1>2. PromiseInv /\ PromiseInv' /\ [Next]_vars => [Promise!Next]_(Promise!vars)
  BY PromiseStep
<1> QED
  BY <1>1, <1>2, PromiseInvariant, PTL DEF Safe, PromiseSpec, Promise!Spec

(***************************************************************************)
(* Nothing is sent again needlessly.                                       *)
(***************************************************************************)
\* The POST in flight is counted once, for each report it carries.
LEMMA CountFacts ==
  ASSUME TypeOK, CountSent, NEW t \in Positions
  PROVE  /\ sent'[t] <= sent[t] + 1
         /\ t \notin Posting.reports => sent'[t] = sent[t]
BY DEF TypeOK, CountSent

\* Steps that send nothing.
LEMMA ResendQuiet ==
  ASSUME PromiseInv, TypeOK', ResendInv, UNCHANGED sent, failures' >= failures,
         drained \subseteq drained', pending' \ pending \subseteq drained' \ drained, Ended => Ended'
  PROVE  ResendInv'
<1>1. /\ failures \in Nat /\ failures' \in Nat /\ sent \in [Positions -> Nat]
      /\ pending' \subseteq Positions
  BY FailuresAssumption DEF PromiseInv, TypeOK, TypeOKLaravel, TypeOKJob
<1>2. Positions' = Positions
  BY DEF Positions
<1>3. NoNeedlessResend'
  BY <1>1 DEF ResendInv, NoNeedlessResend
<1>4. ASSUME NEW t \in pending', ~Ended' PROVE sent[t] <= failures'
  <2>1. CASE t \in pending
    BY <1>1, <1>4, <2>1 DEF ResendInv
  <2>2. CASE t \notin pending
    BY <1>1, <1>4, <2>2 DEF ResendInv
  <2> QED
    BY <2>1, <2>2
<1> QED
  BY <1>3, <1>4 DEF ResendInv

\* Steps that end the wait for a POST: it failed, or what it carried has left
\* the outbox.
LEMMA ResendPosted ==
  ASSUME PromiseInv, TypeOK', ResendInv, CountSent, ~Ended,
         failures' \in {failures, failures + 1}, drained \subseteq drained',
         \A t \in pending' : \/ Ended'
                             \/ t \in drained' \ drained
                             \/ t \in pending /\ failures' = failures + 1
  PROVE  ResendInv'
<1>1. /\ failures \in Nat /\ failures' \in Nat /\ sent \in [Positions -> Nat]
      /\ sent' \in [Positions -> Nat] /\ pending' \subseteq Positions
  BY FailuresAssumption DEF PromiseInv, TypeOK, TypeOKLaravel, TypeOKJob
<1>2. Posting.reports \subseteq pending /\ pending \subseteq drained
  BY PostingFacts DEF PromiseInv, OnlyDrained
<1>3. ASSUME NEW t \in Positions
      PROVE  /\ sent[t] \in Nat /\ sent'[t] \in Nat
             /\ sent'[t] <= sent[t] + 1
             /\ t \notin pending => sent'[t] = sent[t]
  <2>1. sent'[t] <= sent[t] + 1 /\ (t \notin Posting.reports => sent'[t] = sent[t])
    BY <1>3, CountFacts DEF PromiseInv
  <2> QED
    BY <1>1, <1>2, <1>3, <2>1
<1>4. ASSUME NEW t \in Positions PROVE sent'[t] <= 1 + failures'
  <2>1. /\ sent[t] \in Nat /\ sent'[t] \in Nat
        /\ sent'[t] <= sent[t] + 1
        /\ t \notin pending => sent'[t] = sent[t]
    BY <1>3
  <2>2. sent[t] <= 1 + failures /\ (t \in pending => sent[t] <= failures)
    BY DEF ResendInv, NoNeedlessResend
  <2> QED
    BY <1>1, <2>1, <2>2
<1>5. ASSUME NEW t \in Positions, t \notin drained' PROVE sent'[t] = 0
  <2>1. t \notin drained /\ t \notin pending
    BY <1>2, <1>5
  <2>2. sent[t] = 0
    BY <2>1 DEF ResendInv
  <2> QED
    BY <1>3, <2>1, <2>2
<1>6. ASSUME NEW t \in pending', ~Ended' PROVE sent'[t] <= failures'
  <2>a. t \in Positions
    BY <1>1, <1>6
  <2>b. /\ sent[t] \in Nat /\ sent'[t] \in Nat
        /\ sent'[t] <= sent[t] + 1
        /\ t \notin pending => sent'[t] = sent[t]
    BY <1>3, <2>a
  <2>1. CASE t \in drained' \ drained
    <3>1. t \notin pending /\ sent[t] = 0
      BY <1>2, <2>a, <2>1 DEF ResendInv
    <3> QED
      BY <1>1, <2>b, <3>1
  <2>2. CASE t \in pending /\ failures' = failures + 1
    <3>1. sent[t] <= failures
      BY <2>2 DEF ResendInv
    <3> QED
      BY <1>1, <2>b, <2>2, <3>1
  <2> QED
    BY <2>1, <2>2, <1>6
<1>7. Positions' = Positions
  BY DEF Positions
<1> QED
  BY <1>4, <1>5, <1>6, <1>7 DEF ResendInv, NoNeedlessResend

LEMMA InitResend == Init => ResendInv
<1> SUFFICES ASSUME Init PROVE ResendInv
  OBVIOUS
<1>1. failures = 0 /\ sent = [t \in Positions |-> 0] /\ pending = {}
  BY DEF Init, InitLaravel
<1> QED
  BY <1>1 DEF ResendInv, NoNeedlessResend

\* How the loop moves reports: only newly drained ones enter the outbox.
LEMMA LoopMoves ==
  ASSUME NEW old, NEW out, NEW new, LoopEnd(old, out, new) \/ LoopTest(old, out) \/ GiveUp(old, out)
  PROVE  /\ old \subseteq drained' /\ pending' \subseteq out \cup (drained' \ old)
         /\ pc' \in {"waiting", "concluding"}
BY DEF LoopEnd, GiveUp, LoopTest, Conclude, Ending, Raise

LEMMA NextResend == PromiseInv /\ ResendInv /\ [Next]_vars => ResendInv'
<1> SUFFICES ASSUME PromiseInv, ResendInv, [Next]_vars PROVE ResendInv'
  OBVIOUS
<1>a. TypeOK /\ TypeOK' /\ failures \in Nat /\ failures + 0 = failures
  BY NextType, FailuresAssumption DEF PromiseInv, TypeOK, TypeOKLaravel
<1>1. CASE Process \/ Reader \/ Network \/ UNCHANGED vars
  <2>1. UNCHANGED <<pc, drained, pending, failures, sent>>
    BY <1>1 DEF Process, Reader, ReadLine, ReadEof, Network, LateLands, vars, jobVars, laravelVars
  <2> QED
    BY <1>a, <2>1, ResendQuiet DEF Ended
<1>2. CASE Begin \/ HandshakeTaken \/ HandshakeFails
  <2>1. UNCHANGED <<drained, pending, sent>> /\ ~Ended /\ failures' \in {failures, failures + 1}
    BY <1>2 DEF Begin, HandshakeTaken, HandshakeFails, Acknowledge, Fail, laravelVars, Ended
  <2> QED
    BY <1>a, <2>1, ResendQuiet
<1>3. CASE Wake
  <2>1. UNCHANGED <<failures, sent>> /\ ~Ended
    BY <1>3 DEF Wake, laravelVars, Ended
  <2>2. drained \subseteq drained' /\ pending' \ pending \subseteq drained' \ drained
    <3> DEFINE fetched == tracker.reports \ drained
    <3>1. \/ drained' = drained \cup fetched /\ pending' = pending \cup fetched
          \/ \E new : LoopEnd(drained \cup fetched, pending \cup fetched, new)
      BY <1>3 DEF Wake
    <3>2. fetched \cap drained = {}
      OBVIOUS
    <3> HIDE DEF fetched
    <3> QED
      BY <3>1, <3>2, LoopMoves
  <2> QED
    BY <1>a, <2>1, <2>2, ResendQuiet
<1>4. CASE FlushTaken \/ FlushFails
  <2>1. CountSent /\ ~Ended
    BY <1>4 DEF FlushTaken, FlushFails, Flushed, Ended
  <2>2. PICK left : /\ LoopEnd(drained, left, fresh)
                    /\ \/ left = {} /\ failures' = failures
                       \/ left = pending /\ failures' = failures + 1
    BY <1>4 DEF FlushTaken, FlushFails, Flushed, Acknowledge, Fail
  <2>3. drained \subseteq drained' /\ pending' \subseteq left \cup (drained' \ drained)
    BY <2>2, LoopMoves
  <2> QED
    BY <1>a, <2>1, <2>2, <2>3, ResendPosted
<1>5. CASE FinalTaken \/ FinalFails
  <2>1. CountSent /\ ~Ended /\ drained' = drained
    BY <1>5 DEF FinalTaken, FinalFails, FinalFailsThen, Finish, Ended
  <2>2. \/ Ended' /\ failures' \in {failures, failures + 1}
        \/ pending' = pending /\ failures' = failures + 1
    BY <1>5 DEF FinalTaken, FinalFails, FinalFailsThen, Finish, Ended, Acknowledge, Fail
  <2> QED
    BY <1>a, <2>1, <2>2, ResendPosted
<1>6. CASE Cancel
  <2>1. Ended' /\ ~Ended /\ UNCHANGED <<drained, pending, failures>> /\ (CountSent \/ UNCHANGED sent)
    BY <1>6 DEF Cancel, Ended, laravelVars
  <2>2. CASE CountSent
    BY <1>a, <2>1, <2>2, ResendPosted
  <2>3. CASE UNCHANGED sent
    BY <1>a, <2>1, <2>3, ResendQuiet
  <2> QED
    BY <2>1, <2>2, <2>3
<1> QED
  BY <1>1, <1>2, <1>3, <1>4, <1>5, <1>6 DEF Next, Coroutine

(***************************************************************************)
(* A report is posted once more than deliveries fail, at most.             *)
(***************************************************************************)
THEOREM NothingIsResentNeedlessly == Safe => []NoNeedlessResend
<1>1. ResendInv => NoNeedlessResend
  BY DEF ResendInv
<1>2. Safe => []ResendInv
  BY InitResend, NextResend, PromiseInvariant, PTL DEF Safe
<1> QED
  BY <1>1, <1>2, PTL

(***************************************************************************)
(* Laravel is told how a review ended.                                     *)
(***************************************************************************)
\* Until its final batch is being sent a review is not done, and its first
\* attempt at that batch is counted as one.
LEMMA NotYetDone ==
  ASSUME Coroutine, ~FinalTaken, ~FinalFails
  PROVE  pc' # "done" /\ (pc' = "concluding" => attempt' = 1)
<1>1. ASSUME NEW old, NEW out, NEW new, LoopEnd(old, out, new) \/ LoopTest(old, out) \/ GiveUp(old, out)
      PROVE  pc' # "done" /\ (pc' = "concluding" => attempt' = 1)
  BY <1>1 DEF LoopEnd, GiveUp, LoopTest, Conclude, Ending, Raise
<1>2. CASE Begin \/ HandshakeTaken \/ HandshakeFails
  BY <1>2 DEF Begin, HandshakeTaken, HandshakeFails, Raise
<1>3. CASE Wake
  <2>1. pc' = "flushing" \/ \E old, out, new :
          LoopEnd(old, out, new) \/ LoopTest(old, out) \/ GiveUp(old, out)
    BY <1>3 DEF Wake
  <2> QED
    BY <1>1, <2>1
<1>4. CASE FlushTaken \/ FlushFails
  BY <1>1, <1>4 DEF FlushTaken, FlushFails, Flushed
<1> QED
  BY <1>2, <1>3, <1>4 DEF Coroutine

LEMMA NextVerdict == PromiseInv /\ VerdictInv /\ [Next]_vars => VerdictInv'
<1> SUFFICES ASSUME PromiseInv, VerdictInv, [Next]_vars PROVE VerdictInv'
  OBVIOUS
<1>a. /\ failures \in Nat /\ failures' \in Nat /\ attempt \in Nat
      /\ verdicts \subseteq verdicts' /\ FinalAttempts \in Nat
  BY NextType, LaravelGrows, FailuresAssumption, ReviewAssumption
     DEF PromiseInv, TypeOK, TypeOKLaravel, TypeOKJob
<1>1. CASE Process \/ Reader \/ Network \/ UNCHANGED vars
  <2>1. UNCHANGED <<pc, status, attempt, failures>>
    BY <1>1 DEF Process, Reader, ReadLine, ReadEof, Network, LateLands, vars, jobVars,
                laravelVars
  <2> QED
    BY <1>a, <2>1 DEF VerdictInv, ToldUnlessRefused
<1>2. CASE Cancel
  BY <1>2 DEF Cancel, VerdictInv, ToldUnlessRefused
<1>3. CASE FinalTaken
  <2>1. verdicts' # {} /\ pc' = "done"
    BY <1>3, PostingFacts DEF FinalTaken, Finish, Acknowledge, Upsert
  <2> QED
    BY <2>1 DEF VerdictInv, ToldUnlessRefused
<1>4. CASE FinalFails
  <2>1. /\ failures' = failures + 1 /\ attempt <= failures + 1
        /\ status' = status
    BY <1>4 DEF FinalFails, FinalFailsThen, Finish, Fail, VerdictInv
  <2>2. CASE attempt < Attempts
    <3>1. pc' = "concluding" /\ attempt' = attempt + 1
      BY <1>4, <2>2 DEF FinalFails, FinalFailsThen
    <3> QED
      BY <1>a, <2>1, <3>1 DEF VerdictInv, ToldUnlessRefused
  <2>3. CASE ~(attempt < Attempts)
    <3>1. pc' = "done"
      BY <1>4, <2>3 DEF FinalFails, FinalFailsThen, Finish
    <3> QED
      BY <1>a, <2>1, <2>3, <3>1 DEF VerdictInv, ToldUnlessRefused, Attempts
  <2> QED
    BY <2>2, <2>3
<1>5. CASE Coroutine /\ ~FinalTaken /\ ~FinalFails
  BY <1>a, <1>5, NotYetDone DEF VerdictInv, ToldUnlessRefused
<1> QED
  BY <1>1, <1>2, <1>3, <1>4, <1>5 DEF Next

THEOREM VerdictInvariant == Safe => []VerdictInv
<1>1. Init => VerdictInv
  BY DEF Init, VerdictInv, ToldUnlessRefused
<1> QED
  BY <1>1, NextVerdict, PromiseInvariant, PTL DEF Safe

(***************************************************************************)
(* A review is done only when Laravel has its verdict or has refused it as *)
(* often as the code tries, for every number of attempts and failures.     *)
(***************************************************************************)
THEOREM LaravelIsTold == Safe => []ToldUnlessRefused
<1>1. VerdictInv => ToldUnlessRefused
  BY DEF VerdictInv
<1> QED
  BY <1>1, VerdictInvariant, PTL

(***************************************************************************)
(* A review is what the queue takes it for.                                *)
(***************************************************************************)
\* Steps the queue does not see.
LEMMA QueueAside ==
  ASSUME UNCHANGED <<status, alive, running>>, reader = "crashed" <=> reader' = "crashed",
         pc' = pc \/ (Looping /\ Looping') \/ (pc = "handshake" /\ pc' = "handshake")
  PROVE  UNCHANGED Queue!vars
<1>1. UNCHANGED <<IF pc = "cancelled" THEN "stopping" ELSE "serving",
                  IF pc \in {"queued", "done"} THEN "idle"
                  ELSE IF Looping THEN "searching" ELSE pc,
                  IF reader = "crashed" THEN {"stdout"} ELSE {}>>
  BY DEF Looping
<1> QED
  BY <1>1 DEF Queue!vars, Queue!queueVars, Queue!engineVars

\* The steps that take the job from one stage of the queue to another.
LEMMA QueueTakes == Begin /\ PromiseInv => Queue!Begin
<1> SUFFICES ASSUME Begin, PromiseInv PROVE Queue!Begin
  OBVIOUS
<1>1. pc = "queued" /\ status = "queued" /\ pc' = "handshake" /\ status' = "running"
      /\ UNCHANGED <<alive, running, reader>>
  BY DEF Begin, PromiseInv, StatusFits, processVars, hearVars
<1>2. Head(<<ReviewId>>) = ReviewId /\ Tail(<<ReviewId>>) = << >>
      /\ Append(<< >>, ReviewId) = <<ReviewId>> /\ <<ReviewId>> # << >>
  OBVIOUS
<1>3. [[id \in {ReviewId} |-> "queued"] EXCEPT ![ReviewId] = "running"]
        = [id \in {ReviewId} |-> "running"]
  OBVIOUS
<1> QED
  BY <1>1, <1>2, <1>3 DEF Queue!Begin, Queue!Take, Queue!engineVars, Looping

LEMMA QueueSettles ==
  ASSUME pc = "handshake" \/ Looping, status = "running",
         pc' = "concluding", status' \in {"finished", "failed"},
         pc = "handshake" => status' = "failed", UNCHANGED <<alive, running, reader>>
  PROVE  Queue!Next
<1>1. [[id \in {ReviewId} |-> status] EXCEPT ![ReviewId] = status']
        = [id \in {ReviewId} |-> status']
  OBVIOUS
<1>2. Queue!Settle(status')
  BY <1>1 DEF Queue!Settle, Queue!engineVars, Looping
<1> QED
  BY <1>2 DEF Queue!Next, Queue!Work, Queue!Searched, Queue!Raise, Looping

LEMMA QueueConcludes ==
  ASSUME pc = "concluding", pc' = "done", UNCHANGED <<status, alive, running, reader>>
  PROVE  Queue!Conclude
BY DEF Queue!Conclude, Queue!Delivered, Queue!engineVars, Looping

LEMMA QueueStops ==
  ASSUME ~Ended, pc' = "cancelled", UNCHANGED <<status, alive, running, reader>>
  PROVE  Queue!StopReviewer
BY DEF Queue!StopReviewer, Queue!engineVars, Looping, Ended

LEMMA QueueStep == PromiseInv /\ [Next]_vars => [Queue!Next]_(Queue!vars)
<1> SUFFICES ASSUME PromiseInv, [Next]_vars PROVE [Queue!Next]_(Queue!vars)
  OBVIOUS
<1>1. CASE Process
  <2>1. UNCHANGED <<pc, status, reader>>
    BY <1>1 DEF Process, jobVars, hearVars
  <2>2. CASE Exit
    <3>1. alive /\ ~alive' /\ UNCHANGED running
      BY <2>2 DEF Exit
    <3> QED
      BY <2>1, <3>1 DEF Queue!Next, Queue!Exit, Queue!queueVars, Looping
  <2>3. CASE Reap
    <3>1. ~alive /\ running /\ ~running' /\ UNCHANGED alive /\ running' = FALSE
      BY <2>3 DEF Reap
    <3> QED
      BY <2>1, <3>1 DEF Queue!Next, Queue!Reap, Queue!queueVars, Looping
  <2>4. CASE ~Exit /\ ~Reap
    BY <1>1, <2>1, <2>4, QueueAside DEF Process, SearchLands, WriteUnasked
  <2> QED
    BY <2>2, <2>3, <2>4
<1>2. CASE Network \/ Reader \/ UNCHANGED vars
  <2>1. UNCHANGED <<pc, status, alive, running>>
    BY <1>2 DEF Network, Reader, ReadLine, ReadEof, vars, processVars, jobVars
  <2>2. CASE reader = "crashed" <=> reader' = "crashed"
    BY <2>1, <2>2, QueueAside
  <2>3. CASE ~(reader = "crashed" <=> reader' = "crashed")
    <3>1. reader # "crashed" /\ reader' = "crashed"
      BY <1>2, <2>3 DEF Network, Reader, ReadLine, ReadEof, vars, hearVars
    <3> QED
      BY <2>1, <3>1 DEF Queue!Next, Queue!Crash, Queue!Readers, Queue!queueVars, Looping
  <2> QED
    BY <2>2, <2>3
<1>3. CASE Cancel
  BY <1>3, QueueStops DEF Cancel, processVars, hearVars, Queue!Next
<1>4. CASE Coroutine
  <2>a. UNCHANGED <<alive, running, reader>>
    BY <1>4, CoroutineDelivers DEF hearVars
  <2>b. ASSUME NEW old, NEW out, NEW new, Looping,
               LoopEnd(old, out, new) \/ LoopTest(old, out) \/ GiveUp(old, out)
        PROVE  [Queue!Next]_(Queue!vars)
    <3>1. status = "running"
      BY <2>b DEF PromiseInv, StatusFits, Looping
    <3>2. \/ pc' = "waiting" /\ status' = "running"
          \/ pc' = "concluding" /\ status' \in {"finished", "failed"}
      BY <2>b, <3>1 DEF LoopEnd, GiveUp, LoopTest, Conclude, Ending, Raise
    <3> QED
      BY <2>a, <2>b, <3>1, <3>2, QueueAside, QueueSettles DEF Looping
  <2>1. CASE Begin
    BY <2>1, QueueTakes DEF Queue!Next, Queue!Work
  <2>2. CASE HandshakeTaken \/ HandshakeFails
    <3>1. pc = "handshake" /\ status = "running"
      BY <2>2 DEF HandshakeTaken, HandshakeFails, PromiseInv, StatusFits
    <3>2. CASE pc' = "concluding"
      <4>1. status' = "failed"
        BY <2>2, <3>2 DEF HandshakeTaken, HandshakeFails, Raise
      <4> QED
        BY <2>a, <3>1, <3>2, <4>1, QueueSettles
    <3>3. CASE pc' # "concluding"
      <4>1. pc' = "waiting" /\ running /\ status' = status
        BY <2>2, <3>3 DEF HandshakeTaken, HandshakeFails, Raise
      <4> QED
        BY <2>a, <3>1, <4>1 DEF Queue!Next, Queue!Work, Queue!Ask, Queue!engineVars, Looping
    <3> QED
      BY <3>2, <3>3
  <2>4. CASE Wake
    <3>1. CASE pc' = "flushing" /\ UNCHANGED status
      BY <2>a, <2>4, <3>1, QueueAside DEF Wake, Looping
    <3>2. CASE ~(pc' = "flushing" /\ UNCHANGED status)
      <4>1. Looping /\ \E old, out, new : LoopEnd(old, out, new)
        BY <2>4, <3>2 DEF Wake, Looping
      <4> QED
        BY <2>b, <4>1
    <3> QED
      BY <3>1, <3>2
  <2>5. CASE FlushTaken \/ FlushFails
    <3>1. Looping /\ \E old, out, new : LoopEnd(old, out, new)
      BY <2>5 DEF FlushTaken, FlushFails, Flushed, Looping
    <3> QED
      BY <2>b, <3>1
  <2>6. CASE FinalTaken \/ FinalFails
    <3>1. pc = "concluding" /\ UNCHANGED status /\ pc' \in {"concluding", "done"}
      BY <2>6 DEF FinalTaken, FinalFails, FinalFailsThen, Finish
    <3> QED
      BY <2>a, <3>1, QueueAside, QueueConcludes DEF Queue!Next, Queue!Work
  <2> QED
    BY <1>4, <2>1, <2>2, <2>4, <2>5, <2>6 DEF Coroutine
<1> QED
  BY <1>1, <1>2, <1>3, <1>4 DEF Next

(***************************************************************************)
(* Every step of a review is one the queue counts on, or none of its       *)
(* business: what QueueProofs proves of the queue rests on nothing a       *)
(* review does not do.                                                     *)
(***************************************************************************)
THEOREM ReviewFitsTheQueue == Safe => QueueSteps
<1>1. PromiseInv /\ [Next]_vars => [Queue!Next]_(Queue!vars)
  BY QueueStep
<1> QED
  BY <1>1, PromiseInvariant, PTL DEF Safe, QueueSteps
=============================================================================
