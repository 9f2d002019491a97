----------------------------- MODULE ReviewProofs -----------------------------
(***************************************************************************)
(* Theorems about one review, for every game, batch size, number of        *)
(* attempts and number of failing deliveries.                              *)
(***************************************************************************)
EXTENDS ReviewProperties, TLAPS

(***************************************************************************)
(* Type correctness.                                                       *)
(***************************************************************************)
\* The process writes lines of the protocol, whatever it has searched.
LEMMA WrittenLines ==
  /\ UnaskedLines \subseteq EngineLines
  /\ \A t \in Positions : Report(t) \in EngineLines
                       /\ Result(ReviewId, t, TRUE) \in EngineLines
  /\ SearchPlan \subseteq Positions
<1>1. \A t \in Positions : Report(t) \in EngineLines
  BY DEF EngineLines, Lines, Line, Report
<1>2. \A id \in {ReviewId, OtherId}, t \in Positions, final \in BOOLEAN :
         Result(id, t, final) \in EngineLines
  BY DEF EngineLines, Lines, Line, Result
<1>3. /\ Complaint(ReviewId) \in EngineLines /\ Complaint(Absent) \in EngineLines
      /\ Line("text") \in EngineLines /\ Line("overlong") \in EngineLines
  BY DEF EngineLines, Lines, Line, Complaint
<1>4. Requested \subseteq Positions /\ 0 \in Positions
  BY GameAssumption DEF Requested, Positions
<1>5. BareReport \in EngineLines
  BY <1>4 DEF EngineLines, Lines, Line, BareReport
<1>6. SearchPlan \subseteq Positions
  BY GameAssumption DEF SearchPlan, ExpectedTurns, Requested, Positions
<1> QED
  BY <1>1, <1>2, <1>3, <1>4, <1>5, <1>6 DEF UnaskedLines

\* Parsing yields an answer about a position, or no answer.
LEMMA ResponseType ==
  ASSUME NEW line \in EngineLines
  PROVE  /\ Hear(line).kind \in Answers \cup {"ignored", "malformed", "crash"}
         /\ Hear(line).kind \in {"analysis", "teaching"} => Hear(line).turn \in Positions
         /\ Hear(line).final \in BOOLEAN
BY DEF Hear, EngineLines, Lines, ParseLine, NoResponse, Response, Answers

\* Accepting a response keeps a tracker a tracker.
LEMMA AcceptType ==
  ASSUME NEW trk \in Trackers(Positions), NEW r, Belongs(ReviewId, r),
         r.kind \in {"analysis", "teaching"} => r.turn \in Positions,
         r.final \in BOOLEAN
  PROVE  Accept(trk, r) \in Trackers(Positions)
BY DEF Trackers, Belongs, Accept

LEMMA PostingType ==
  ASSUME TypeOK PROVE Posting \in Batches(Positions, Statuses)
BY DEF TypeOK, TypeOKJob, Posting, Batch, Batches

\* However a POST ends, Laravel's state stays well typed.
LEMMA DeliveryType ==
  ASSUME NEW b \in Batches(Positions, Statuses),
         TypeOKLaravel(Positions, Statuses), Acknowledge(b) \/ Fail(b)
  PROVE  TypeOKLaravel(Positions, Statuses)'
BY FailuresAssumption DEF TypeOKLaravel, Batches, Acknowledge, Fail, Upsert

\* The engine process keeps its own variables well typed.
LEMMA ProcessType == TypeOK /\ Process => TypeOK'
<1> SUFFICES ASSUME TypeOK, Process PROVE TypeOK'
  OBVIOUS
<1> USE DEF TypeOK, TypeOKProcess
<1>1. TypeOKProcess'
  <2>1. ASSUME NEW t \in SearchPlan, SearchLands(t) PROVE TypeOKProcess'
    <3> DEFINE before == PairedBefore(t)
               after == PairedAfter(t)
               result == Result(ReviewId, t, TRUE)
    <3>1. result \in EngineLines
      BY WrittenLines
    <3>2. before \in Seq(EngineLines)
      <4>1. t - 1 \in searched => Report(t - 1) \in EngineLines
        BY WrittenLines
      <4> QED
        BY <4>1 DEF PairedBefore
    <3>3. after \in Seq(EngineLines)
      <4>1. Report(t) \in EngineLines
        BY WrittenLines
      <4> QED
        BY <4>1 DEF PairedAfter
    <3>4. stdout' = stdout \o (before \o after \o <<result>>)
      BY <2>1 DEF SearchLands, Landing
    <3> HIDE DEF before, after, result
    <3>5. stdout' \in Seq(EngineLines)
      BY <3>1, <3>2, <3>3, <3>4
    <3> QED
      BY <2>1, <3>5, WrittenLines DEF SearchLands
  <2>2. ASSUME WriteUnasked PROVE TypeOKProcess'
    BY <2>2, WrittenLines DEF WriteUnasked
  <2>3. ASSUME Exit \/ Reap PROVE TypeOKProcess'
    BY <2>3 DEF Exit, Reap
  <2> QED
    BY <2>1, <2>2, <2>3 DEF Process
<1>2. TypeOKLaravel(Positions, Statuses)' /\ TypeOKJob' /\ TypeOKHear'
  BY DEF Process, laravelVars, jobVars, hearVars, TypeOKLaravel, TypeOKJob, TypeOKHear
<1>3. sent' \in [Positions -> Nat]
  BY DEF Process
<1> QED
  BY <1>1, <1>2, <1>3

\* Laravel takes a POST the worker had given up on.
LEMMA NetworkType == TypeOK /\ Network => TypeOK'
BY DEF TypeOK, TypeOKProcess, TypeOKLaravel, TypeOKJob, TypeOKHear, Network, LateLands,
       Upsert, Batches, processVars, jobVars, hearVars

\* The reader: whatever it reads, the tracker stays a tracker.
LEMMA ReaderType == TypeOK /\ Reader => TypeOK'
<1> SUFFICES ASSUME TypeOK, Reader PROVE TypeOK'
  OBVIOUS
<1>1. TypeOKProcess'
  BY DEF TypeOK, TypeOKProcess, Reader, ReadLine, ReadEof, processVars
<1>2. TypeOKHear'
  <2>1. CASE ReadLine
    <3> DEFINE r == Hear(Head(stdout))
    <3>1. Head(stdout) \in EngineLines
      BY <2>1 DEF TypeOK, TypeOKProcess, ReadLine
    <3>2. Belongs(ReviewId, r) => Accept(tracker, r) \in Trackers(Positions)
      BY <3>1, ResponseType, AcceptType DEF TypeOK, TypeOKHear
    <3>3. Listen(r) /\ reader' \in {"crashed", "reading"}
      BY <2>1 DEF ReadLine
    <3> HIDE DEF r
    <3>4. tracker' \in Trackers(Positions) /\ complete' \in BOOLEAN
      BY <3>2, <3>3 DEF Listen, TypeOK, TypeOKHear, IsComplete
    <3> QED
      BY <3>3, <3>4 DEF TypeOKHear
  <2>2. CASE ReadEof
    BY <2>2 DEF ReadEof, TypeOK, TypeOKHear
  <2> QED
    BY <2>1, <2>2 DEF Reader
<1>3. TypeOKLaravel(Positions, Statuses)' /\ TypeOKJob' /\ sent' \in [Positions -> Nat]
  BY DEF TypeOK, TypeOKLaravel, TypeOKJob, Reader, ReadLine, ReadEof, laravelVars, jobVars
<1> QED
  BY <1>1, <1>2, <1>3 DEF TypeOK

\* The end of a loop iteration, and the exit from the loop, leave the job
\* well typed whatever was drained and whatever is in the outbox.
LEMMA LoopType ==
  ASSUME TypeOK, NEW old \in SUBSET Positions, NEW out \in SUBSET Positions,
         NEW new \in BOOLEAN, LoopEnd(old, out, new) \/ LoopTest(old, out) \/ GiveUp(old, out)
  PROVE  /\ pc' \in PCs /\ status' \in Statuses /\ listening' \in BOOLEAN
         /\ drained' \subseteq Positions /\ pending' \subseteq Positions
         /\ attempt' \in 0 .. FinalAttempts
<1>1. tracker.reports \subseteq Positions
  BY DEF TypeOK, TypeOKHear, Trackers
<1>2. 1 \in 0 .. FinalAttempts
  BY ReviewAssumption
<1> QED
  BY <1>1, <1>2 DEF TypeOK, TypeOKJob, PCs, Statuses, LoopEnd, GiveUp, LoopTest, Conclude, Ending, Raise

\* Every step of the coroutine keeps the job well typed.
LEMMA JobType == TypeOK /\ Coroutine => TypeOKJob'
<1> SUFFICES ASSUME TypeOK, Coroutine PROVE TypeOKJob'
  OBVIOUS
<1>a. 1 \in 0 .. FinalAttempts
  BY ReviewAssumption
<1>b. TypeOKJob /\ tracker.reports \subseteq Positions
  BY DEF TypeOK, TypeOKHear, Trackers
<1>1. CASE Begin
  BY <1>1, <1>b DEF Begin, TypeOKJob, PCs, Statuses
<1>2. CASE HandshakeTaken \/ HandshakeFails
  BY <1>2, <1>a, <1>b DEF HandshakeTaken, HandshakeFails, Raise, TypeOKJob, PCs, Statuses
<1>4. CASE Wake
  <2> DEFINE new == tracker.reports \ drained
             out == pending \cup new
  <2>1. /\ drained \cup new \in SUBSET Positions /\ out \in SUBSET Positions
        /\ (new # {}) \in BOOLEAN
    BY <1>b DEF TypeOKJob
  <2>2. \/ /\ pc' = "flushing" /\ drained' = drained \cup new /\ pending' = out
           /\ fresh' = (new # {}) /\ UNCHANGED <<status, listening, attempt>>
        \/ LoopEnd(drained \cup new, out, new # {}) /\ UNCHANGED fresh
    BY <1>4 DEF Wake
  <2> HIDE DEF new, out
  <2>3. CASE pc' = "flushing" /\ drained' = drained \cup new /\ pending' = out
             /\ fresh' = (new # {}) /\ UNCHANGED <<status, listening, attempt>>
    BY <2>1, <2>3, <1>b DEF TypeOKJob, PCs
  <2>4. CASE LoopEnd(drained \cup new, out, new # {}) /\ UNCHANGED fresh
    BY <2>1, <2>4, <1>b, LoopType DEF TypeOKJob
  <2> QED
    BY <2>2, <2>3, <2>4
<1>5. CASE FlushTaken \/ FlushFails
  <2>1. PICK left \in {{}, pending} : Flushed(left)
    BY <1>5 DEF FlushTaken, FlushFails
  <2>2. LoopEnd(drained, left, fresh) /\ fresh' = FALSE
    BY <2>1 DEF Flushed
  <2> QED
    BY <2>2, <1>b, LoopType DEF TypeOKJob
<1>6. CASE FinalTaken
  BY <1>6, <1>b DEF FinalTaken, Finish, TypeOKJob, PCs
<1>7. CASE FinalFails
  <2>1. attempt < Attempts => attempt + 1 \in 0 .. FinalAttempts
    BY <1>b, ReviewAssumption DEF Attempts, TypeOKJob
  <2> QED
    BY <1>7, <2>1, <1>b DEF FinalFails, FinalFailsThen, Finish, TypeOKJob, PCs
<1> QED
  BY <1>1, <1>2, <1>4, <1>5, <1>6, <1>7 DEF Coroutine

\* A delivery or a silence, as far as Laravel and the history go.
LEMMA CoroutineDelivers ==
  ASSUME Coroutine
  PROVE  /\ Acknowledge(Posting) \/ Fail(Posting) \/ UNCHANGED laravelVars
         /\ CountSent \/ UNCHANGED sent
         /\ asked' \in {alive, asked} /\ UNCHANGED <<alive, running, searched, stdout, hearVars>>
BY DEF Coroutine, Begin, HandshakeTaken, HandshakeFails, Wake, FlushTaken, FlushFails,
       Flushed, FinalTaken, FinalFails, FinalFailsThen, processVars

\* Counting a POST keeps the history a function to numbers.
LEMMA CountType == ASSUME TypeOK, CountSent PROVE sent' \in [Positions -> Nat]
BY DEF TypeOK, CountSent

LEMMA CoroutineType == TypeOK /\ Coroutine => TypeOK'
<1> SUFFICES ASSUME TypeOK, Coroutine PROVE TypeOK'
  OBVIOUS
<1>1. TypeOKProcess'
  BY CoroutineDelivers DEF TypeOK, TypeOKProcess
<1>2. TypeOKLaravel(Positions, Statuses)'
  <2>1. CASE Acknowledge(Posting) \/ Fail(Posting)
    BY <2>1, PostingType, DeliveryType DEF TypeOK
  <2>2. CASE UNCHANGED laravelVars
    BY <2>2 DEF TypeOK, TypeOKLaravel, laravelVars
  <2> QED
    BY <2>1, <2>2, CoroutineDelivers
<1>3. TypeOKHear'
  BY CoroutineDelivers DEF TypeOK, TypeOKHear, hearVars
<1>4. sent' \in [Positions -> Nat]
  BY CoroutineDelivers, CountType DEF TypeOK
<1> QED
  BY <1>1, <1>2, <1>3, <1>4, JobType DEF TypeOK

\* So does shutting the worker down.
LEMMA CancelType == TypeOK /\ Cancel => TypeOK'
<1> SUFFICES ASSUME TypeOK, Cancel PROVE TypeOK'
  OBVIOUS
<1>1. TypeOKProcess' /\ TypeOKHear' /\ TypeOKJob'
  BY DEF Cancel, TypeOK, TypeOKProcess, TypeOKHear, TypeOKJob, PCs, processVars, hearVars
<1>2. TypeOKLaravel(Positions, Statuses)'
  BY PostingType DEF Cancel, TypeOK, TypeOKLaravel, laravelVars
<1>3. sent' \in [Positions -> Nat]
  <2>1. CountSent \/ UNCHANGED sent
    BY DEF Cancel
  <2> QED
    BY <2>1, CountType DEF TypeOK
<1> QED
  BY <1>1, <1>2, <1>3 DEF TypeOK

LEMMA InitType == Init => TypeOK
<1> SUFFICES ASSUME Init PROVE TypeOK
  OBVIOUS
<1>1. TypeOKProcess
  <2>1. << >> \in Seq(EngineLines)
    OBVIOUS
  <2> QED
    BY <2>1 DEF Init, InitProcess, TypeOKProcess
<1>2. TypeOKHear
  BY DEF Init, TypeOKHear, Trackers, NewTracker
<1>3. TypeOKLaravel(Positions, Statuses)
  BY FailuresAssumption DEF Init, InitLaravel, TypeOKLaravel
<1>4. TypeOKJob
  <2>1. 0 \in 0 .. FinalAttempts
    BY ReviewAssumption
  <2>2. pc \in PCs /\ status \in Statuses
    BY DEF Init, PCs, Statuses
  <2> QED
    BY <2>1, <2>2 DEF Init, TypeOKJob
<1>5. sent \in [Positions -> Nat]
  BY DEF Init
<1> QED
  BY <1>1, <1>2, <1>3, <1>4, <1>5 DEF TypeOK

LEMMA NextType == TypeOK /\ [Next]_vars => TypeOK'
<1> SUFFICES ASSUME TypeOK, [Next]_vars PROVE TypeOK'
  OBVIOUS
<1>1. CASE UNCHANGED vars
  BY <1>1 DEF TypeOK, TypeOKProcess, TypeOKLaravel, TypeOKJob, TypeOKHear,
              vars, processVars, laravelVars, jobVars, hearVars
<1> QED
  BY <1>1, ProcessType, NetworkType, ReaderType, CoroutineType, CancelType DEF Next

(***************************************************************************)
(* Every variable of a review keeps its type.                              *)
(***************************************************************************)
THEOREM TypeCorrect == Safe => []TypeOK
BY InitType, NextType, PTL DEF Safe
=============================================================================
