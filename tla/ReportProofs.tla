----------------------------- MODULE ReportProofs -----------------------------
(***************************************************************************)
(* No report a finished review waited for is left behind, and no review    *)
(* sleeps on a search that is complete, for every game and for an engine   *)
(* that searches the position after the last move as for one that does     *)
(* not.                                                                    *)
(***************************************************************************)
EXTENDS SearchProofs

\* Reports lead: steps that leave the pipe, the searches and the tracker alone.
LEMMA LeadAside ==
  ASSUME ReportsLead, UNCHANGED <<stdout, searched, tracker>>, listening' => listening
  PROVE  ReportsLead'
BY DEF ReportsLead, Reported, UnheardBefore

\* A landing search writes the reports it completes ahead of its own result.
LEMMA LeadLanding ==
  ASSUME SearchInv, ReportsLead, NEW t \in SearchPlan, SearchLands(t),
         UNCHANGED <<tracker, listening>>
  PROVE  ReportsLead'
<1>1. /\ searched' = searched \cup {t} /\ stdout' = stdout \o Landing(t) /\ t \notin searched
  BY DEF SearchLands
<1>2. TypeOK /\ stdout \in Seq(EngineLines) /\ t \in Positions
  BY WrittenLines DEF SearchInv, TypeOK, TypeOKProcess
<1>3. PICK landing : landing = Landing(t)
  OBVIOUS
<1>4. /\ landing \in Seq(EngineLines)
      /\ \A i \in 1 .. Len(landing), u \in Positions :
           TellsSearched(landing[i], u) => i = Len(landing)
      /\ \A s \in Positions : {s, s + 1} \subseteq searched' /\ t \in {s, s + 1} =>
           \E i \in 1 .. Len(landing) - 1 : landing[i] = Report(s)
  BY <1>1, <1>2, <1>3, LandingFacts
<1>5. /\ Len(stdout') = Len(stdout) + Len(landing)
      /\ \A i \in 1 .. Len(stdout) : stdout'[i] = stdout[i]
      /\ \A i \in 1 .. Len(landing) : stdout'[Len(stdout) + i] = landing[i]
  BY <1>1, <1>2, <1>3, <1>4
<1>6. ASSUME listening, NEW s \in Reported', s \notin tracker.reports
      PROVE  \E i \in 1 .. Len(stdout') :
               stdout'[i] = Report(s) /\ \E u \in {s, s + 1} : UnheardBefore(i, u)'
  <2>1. s \in Positions /\ s \in Requested /\ {s, s + 1} \subseteq searched'
    BY WrittenLines, GameAssumption DEF Reported, Requested, Positions
  <2>2. CASE t \in {s, s + 1}
    <3>1. PICK i \in 1 .. Len(landing) - 1 : landing[i] = Report(s)
      BY <1>4, <2>1, <2>2
    <3>2. PICK k \in Nat : k = Len(stdout) + i
      BY <1>2, <3>1
    <3>3. k \in 1 .. Len(stdout') /\ stdout'[k] = Report(s)
      BY <1>2, <1>4, <1>5, <3>1, <3>2
    <3>4. ASSUME NEW j \in 1 .. k PROVE ~TellsSearched(stdout'[j], t)
      <4>1. CASE j <= Len(stdout)
        <5>1. j \in 1 .. Len(stdout) /\ stdout'[j] = stdout[j]
          BY <1>2, <1>5, <4>1
        <5> QED
          BY <5>1, <1>1, <1>2 DEF SearchInv
      <4>2. CASE j > Len(stdout)
        <5>1. PICK m \in 1 .. i : j = Len(stdout) + m
          <6>1. j - Len(stdout) \in 1 .. i /\ j = Len(stdout) + (j - Len(stdout))
            BY <1>2, <1>4, <3>1, <3>2, <4>2
          <6> QED
            BY <6>1
        <5>2. m \in 1 .. Len(landing) /\ m # Len(landing) /\ stdout'[j] = landing[m]
          BY <1>2, <1>4, <1>5, <3>1, <5>1
        <5> QED
          BY <5>2, <1>2, <1>4
      <4> QED
        BY <4>1, <4>2, <1>2, <3>1, <3>2
    <3>5. t \notin tracker'.snapshots
      BY <1>1 DEF SearchInv
    <3>6. UnheardBefore(k, t)'
      BY <3>4, <3>5 DEF UnheardBefore
    <3> QED
      BY <3>3, <3>6, <2>2
  <2>3. CASE t \notin {s, s + 1}
    <3>1. s \in Reported
      BY <1>1, <2>1, <2>3 DEF Reported
    <3>2. PICK i \in 1 .. Len(stdout), u \in {s, s + 1} :
            stdout[i] = Report(s) /\ UnheardBefore(i, u)
      BY <1>6, <3>1 DEF ReportsLead
    <3>3. i \in 1 .. Len(stdout') /\ stdout'[i] = Report(s)
      BY <1>2, <1>4, <1>5, <3>2
    <3>4. UnheardBefore(i, u)'
      <4>1. \A j \in 1 .. i : stdout'[j] = stdout[j]
        BY <1>2, <1>5, <3>2
      <4> QED
        BY <4>1, <3>2 DEF UnheardBefore
    <3> QED
      BY <3>3, <3>4
  <2> QED
    BY <2>2, <2>3
<1> QED
  BY <1>6 DEF ReportsLead

\* A line nobody asked for goes behind the reports.
LEMMA LeadUnasked ==
  ASSUME SearchInv, ReportsLead, WriteUnasked, UNCHANGED <<tracker, listening>>
  PROVE  ReportsLead'
<1>1. PICK line \in UnaskedLines : stdout' = Append(stdout, line)
  BY DEF WriteUnasked
<1>2. stdout \in Seq(EngineLines) /\ line \in EngineLines
  BY WrittenLines DEF SearchInv, TypeOK, TypeOKProcess
<1>3. /\ Len(stdout') = Len(stdout) + 1
      /\ \A i \in 1 .. Len(stdout) : i \in 1 .. Len(stdout') /\ stdout'[i] = stdout[i]
  BY <1>1, <1>2
<1>4. \A i \in 1 .. Len(stdout) : \A u : UnheardBefore(i, u) => UnheardBefore(i, u)'
  <2> SUFFICES ASSUME NEW i \in 1 .. Len(stdout), NEW u, UnheardBefore(i, u)
               PROVE  UnheardBefore(i, u)'
    OBVIOUS
  <2>1. \A j \in 1 .. i : stdout'[j] = stdout[j]
    BY <1>2, <1>3
  <2> QED
    BY <2>1 DEF UnheardBefore
<1>5. Reported' = Reported
  BY DEF WriteUnasked, Reported
<1> QED
  BY <1>3, <1>4, <1>5 DEF ReportsLead

\* The first line is read: if it is the report it is in the tracker now, and
\* otherwise it does not tell of the search the report leads.
LEMMA LeadReading ==
  ASSUME SearchInv, ReportsLead, ReadLine
  PROVE  ReportsLead'
<1>1. /\ stdout # << >> /\ stdout' = Tail(stdout) /\ Listen(Hear(Head(stdout)))
      /\ UNCHANGED <<searched, listening>>
  BY DEF ReadLine, jobVars
<1>2. TypeOK /\ stdout \in Seq(EngineLines) /\ searched \subseteq Positions
  BY DEF SearchInv, TypeOK, TypeOKProcess
<1>3. /\ Head(stdout) \in EngineLines /\ Head(stdout) = stdout[1]
      /\ Len(stdout') = Len(stdout) - 1
      /\ \A i \in 1 .. Len(stdout') : stdout'[i] = stdout[i + 1]
  BY <1>1, <1>2
<1>4. ASSUME listening, NEW s \in Reported, s \notin tracker'.reports
      PROVE  \E i \in 1 .. Len(stdout') :
               stdout'[i] = Report(s) /\ \E u \in {s, s + 1} : UnheardBefore(i, u)'
  <2>1. s \in Positions /\ {s, s + 1} \subseteq Positions
    BY <1>2 DEF Reported
  <2>2. s \notin tracker.reports
    BY <1>1, <1>2, <1>3, <1>4, ListenFacts
  <2>3. PICK i \in 1 .. Len(stdout), u \in {s, s + 1} :
          stdout[i] = Report(s) /\ UnheardBefore(i, u)
    BY <1>4, <2>2 DEF ReportsLead
  <2>4. i # 1
    <3> SUFFICES ASSUME i = 1 PROVE FALSE
      OBVIOUS
    <3>1. Head(stdout) = Report(s)
      BY <1>3, <2>3
    <3>2. Hear(Head(stdout)) = Response("teaching", ReviewId, s, FALSE)
      BY <3>1, <2>1, ReportHeard
    <3> DEFINE r == Response("teaching", ReviewId, s, FALSE)
    <3>3. r.kind = "teaching" /\ r.id = ReviewId /\ r.turn = s
      BY DEF Response
    <3>4. tracker \in Trackers(Positions)
      BY <1>2 DEF TypeOK, TypeOKHear
    <3> HIDE DEF r
    <3>5. s \in tracker'.reports
      <4>1. Listen(r) /\ Belongs(ReviewId, r)
        BY <1>1, <3>2, <3>3 DEF r, Belongs
      <4>2. tracker' = Accept(tracker, r)
        BY <4>1, <1>4 DEF Listen
      <4> QED
        BY <4>2, <3>3, <3>4 DEF Accept, Trackers
    <3> QED
      BY <3>5, <1>4
  <2>5. i - 1 \in 1 .. Len(stdout') /\ stdout'[i - 1] = Report(s)
    BY <1>2, <1>3, <2>3, <2>4
  <2>6. u \notin tracker'.snapshots
    <3>1. ~TellsSearched(Head(stdout), u) /\ u \notin tracker.snapshots
      BY <1>3, <2>3 DEF UnheardBefore
    <3> QED
      BY <3>1, <2>1, <1>1, <1>2, <1>3, ListenFacts
  <2>7. ASSUME NEW j \in 1 .. i - 1 PROVE ~TellsSearched(stdout'[j], u)
    <3>1. j + 1 \in 1 .. i /\ stdout'[j] = stdout[j + 1]
      BY <1>2, <1>3, <2>3
    <3> QED
      BY <3>1, <2>3 DEF UnheardBefore
  <2>8. UnheardBefore(i - 1, u)'
    BY <2>6, <2>7 DEF UnheardBefore
  <2> QED
    BY <2>5, <2>8
<1>5. Reported' = Reported
  BY <1>1 DEF Reported
<1> QED
  BY <1>1, <1>4, <1>5 DEF ReportsLead

\* The listener comes with the query and stays while the loop turns.
LEMMA ListeningFacts ==
  ASSUME Coroutine, ListensInLoop
  PROVE  /\ ListensInLoop'
         /\ listening' => listening \/ pc = "handshake"
<1>1. ASSUME NEW old, NEW out, NEW new, listening, LoopEnd(old, out, new) \/ LoopTest(old, out) \/ GiveUp(old, out)
      PROVE  pc' \in {"waiting", "flushing"} => listening'
  BY <1>1 DEF LoopEnd, GiveUp, LoopTest, Conclude, Ending, Raise
<1>2. CASE Begin \/ HandshakeTaken \/ HandshakeFails
  BY <1>2 DEF Begin, HandshakeTaken, HandshakeFails, Raise, ListensInLoop, Looping
<1>3. CASE Wake
  <2>1. listening
    BY <1>3 DEF Wake, ListensInLoop, Looping
  <2>2. \/ pc' = "flushing" /\ listening' = listening
        \/ \E old, out, new : LoopEnd(old, out, new) \/ LoopTest(old, out) \/ GiveUp(old, out)
    BY <1>3 DEF Wake
  <2> QED
    BY <1>1, <2>1, <2>2 DEF ListensInLoop, Looping
<1>4. CASE FlushTaken \/ FlushFails
  <2>1. listening /\ \E old, out, new : LoopEnd(old, out, new)
    BY <1>4 DEF FlushTaken, FlushFails, Flushed, ListensInLoop, Looping
  <2> QED
    BY <1>1, <2>1 DEF ListensInLoop, Looping
<1>5. CASE FinalTaken \/ FinalFails
  BY <1>5 DEF FinalTaken, FinalFails, FinalFailsThen, Finish, ListensInLoop, Looping
<1> QED
  BY <1>2, <1>3, <1>4, <1>5 DEF Coroutine

\* When the event is set without an error, every report is in the tracker: a
\* report still in the pipe would lead a search nobody has heard of.
LEMMA AllReportsHeard ==
  ASSUME ReportsInv, listening, complete, ~tracker.error
  PROVE  Awaited \subseteq tracker.reports
<1> SUFFICES ASSUME NEW t \in Awaited PROVE t \in tracker.reports
  OBVIOUS
<1>1. {t, t + 1} \subseteq tracker.snapshots
  BY ExpectedIsRequested DEF ReportsInv, SearchInv, Awaited
<1>2. t \in Reported
  BY <1>1 DEF ReportsInv, SearchInv, Reported, Awaited
<1> QED
  BY <1>1, <1>2 DEF ReportsInv, ReportsLead, UnheardBefore

LEMMA DrainedStays ==
  ASSUME [Next]_vars, status = "finished", StatusFits
  PROVE  UNCHANGED <<drained, status>>
BY ClosedReview DEF StatusFits, Next, Process, Network, Reader, ReadLine, ReadEof, Coroutine,
   Begin, HandshakeTaken, HandshakeFails, Wake, FlushTaken, FlushFails, Flushed,
   FinalTaken, FinalFails, FinalFailsThen, Finish, Cancel, vars, jobVars

LEMMA InitReports == Init => ReportsInv
<1> SUFFICES ASSUME Init PROVE ReportsInv
  OBVIOUS
<1>1. listening = FALSE /\ status = "queued" /\ pc = "queued"
  BY DEF Init
<1> QED
  BY <1>1, InitSearch DEF ReportsInv, ListensInLoop, Looping, ReportsLead, FinishedDrainedAll

LEMMA NextReports == ReportsInv /\ StatusFits /\ [Next]_vars => ReportsInv'
<1> SUFFICES ASSUME ReportsInv, StatusFits, [Next]_vars PROVE ReportsInv'
  OBVIOUS
<1>1. SearchInv /\ SearchInv' /\ ListensInLoop /\ ReportsLead /\ FinishedDrainedAll
  BY NextSearch DEF ReportsInv
<1>2. CASE Process \/ ReadLine
  <2>1. UNCHANGED <<pc, status, listening, drained>> /\ (Process => UNCHANGED tracker)
    BY <1>2 DEF Process, ReadLine, jobVars, hearVars
  <2>2. ReportsLead'
    <3>1. CASE Process /\ \E t \in SearchPlan : SearchLands(t)
      BY <1>1, <2>1, <3>1, LeadLanding
    <3>2. CASE Process /\ WriteUnasked
      BY <1>1, <2>1, <3>2, LeadUnasked
    <3>3. CASE Process /\ (Exit \/ Reap)
      BY <1>1, <2>1, <3>3, LeadAside DEF Exit, Reap
    <3>4. CASE ReadLine
      BY <1>1, <3>4, LeadReading
    <3> QED
      BY <1>2, <3>1, <3>2, <3>3, <3>4 DEF Process
  <2>3. ListensInLoop' /\ FinishedDrainedAll'
    BY <1>1, <2>1 DEF ListensInLoop, Looping, FinishedDrainedAll
  <2> QED
    BY <1>1, <2>2, <2>3 DEF ReportsInv
<1>3. CASE Network \/ ReadEof \/ Cancel \/ UNCHANGED vars
  <2>1. /\ UNCHANGED <<stdout, searched, tracker, status, drained>>
        /\ listening' => listening
        /\ pc' = "cancelled" \/ UNCHANGED <<pc, listening>>
    BY <1>3 DEF Network, ReadEof, Cancel, vars, processVars, jobVars, hearVars
  <2>2. ListensInLoop' /\ FinishedDrainedAll'
    BY <1>1, <2>1 DEF ListensInLoop, Looping, FinishedDrainedAll
  <2> QED
    BY <1>1, <2>1, <2>2, LeadAside DEF ReportsInv
<1>4. CASE Coroutine
  <2>1. UNCHANGED <<searched, stdout, tracker>>
    BY <1>4, CoroutineDelivers DEF hearVars
  <2>2. ListensInLoop' /\ (listening' => listening \/ pc = "handshake")
    BY <1>1, <1>4, ListeningFacts
  <2>3. ReportsLead'
    <3>1. CASE pc = "handshake"
      <4>1. searched = {}
        BY <1>1, <3>1 DEF SearchInv
      <4>2. Reported' = {}
        BY <2>1, <4>1 DEF Reported
      <4> QED
        BY <4>2 DEF ReportsLead
    <3>2. CASE pc # "handshake"
      BY <1>1, <2>1, <2>2, <3>2, LeadAside
    <3> QED
      BY <3>1, <3>2
  <2>4. FinishedDrainedAll'
    <3>1. CASE status = "finished"
      BY <1>1, <3>1, DrainedStays DEF FinishedDrainedAll
    <3>2. CASE status # "finished" /\ status' = "finished"
      <4>1. complete /\ ~tracker.error /\ listening /\ tracker.reports \subseteq drained'
        BY <1>1, <1>4, <3>2, FinishingFacts DEF SearchInv, ListensInLoop, Looping
      <4> QED
        BY <4>1, AllReportsHeard DEF FinishedDrainedAll
    <3> QED
      BY <3>1, <3>2 DEF FinishedDrainedAll
  <2> QED
    BY <1>1, <2>2, <2>3, <2>4 DEF ReportsInv
<1> QED
  BY <1>2, <1>3, <1>4 DEF Next, Reader

THEOREM ReportsInvariant == Safe => []ReportsInv
<1>1. PromiseInv => StatusFits
  BY DEF PromiseInv
<1> QED
  BY <1>1, InitReports, NextReports, PromiseInvariant, PTL DEF Safe

(***************************************************************************)
(* Nobody waits in vain.                                                   *)
(***************************************************************************)
LEMMA NextWake == ReportsInv /\ WakeInv /\ [Next]_vars => WakeInv'
<1> SUFFICES ASSUME ReportsInv, WakeInv, [Next]_vars PROVE WakeInv'
  OBVIOUS
<1>a. SearchInv /\ ListensInLoop
  BY DEF ReportsInv
<1>1. CASE Process
  <2>1. UNCHANGED <<tracker, complete, listening>>
    BY <1>1 DEF Process, jobVars, hearVars
  <2>2. CASE Exit \/ Reap
    BY <2>1, <2>2 DEF Exit, Reap, WakeInv
  <2> QED
    BY <1>a, <1>1, <2>1, <2>2, WakeLanding, WakeUnasked DEF Process
<1>2. CASE ReadLine
  BY <1>a, <1>2, WakeReading
<1>3. CASE Network \/ ReadEof \/ Cancel \/ UNCHANGED vars
  BY <1>3 DEF Network, ReadEof, Cancel, vars, processVars, jobVars, hearVars, WakeInv
<1>4. CASE Coroutine
  <2>1. UNCHANGED <<searched, stdout, tracker, complete>>
    BY <1>4, CoroutineDelivers DEF hearVars
  <2>2. CASE pc = "handshake"
    <3>1. searched = {} /\ tracker.snapshots = {}
      BY <1>a, <2>2 DEF SearchInv
    <3> QED
      BY <2>1, <3>1 DEF WakeInv
  <2>3. CASE pc # "handshake"
    BY <1>a, <1>4, <2>1, <2>3, ListeningFacts DEF WakeInv
  <2> QED
    BY <2>2, <2>3
<1> QED
  BY <1>1, <1>2, <1>3, <1>4 DEF Next, Reader

THEOREM WakeInvariant == Safe => []WakeInv
<1>1. Init => WakeInv
  BY DEF Init, WakeInv
<1> QED
  BY <1>1, NextWake, ReportsInvariant, PTL DEF Safe

(***************************************************************************)
(* Once every position of a game has been searched and the answers read,   *)
(* its review wakes, for every order of searches, answers and deliveries.  *)
(***************************************************************************)
THEOREM NobodySleepsOn == Safe => []NobodyWaitsInVain
<1>1. ReportsInv /\ WakeInv => NobodyWaitsInVain
  <2> SUFFICES ASSUME ReportsInv, WakeInv, Looping, Requested # {},
                      Requested \subseteq searched, stdout = << >>
               PROVE  complete
    BY DEF NobodyWaitsInVain
  <2>1. listening
    BY DEF ReportsInv, ListensInLoop, Looping
  <2>2. 1 .. Len(stdout) = {}
    OBVIOUS
  <2> QED
    BY <2>1, <2>2 DEF WakeInv
<1> QED
  BY <1>1, ReportsInvariant, WakeInvariant, PTL

(***************************************************************************)
(* All the inductive invariants of a review hold together.                 *)
(***************************************************************************)
THEOREM ReviewInvariant == Safe => []ReviewInv
<1>1. Safe => []ResendInv
  BY InitResend, NextResend, PromiseInvariant, PTL DEF Safe
<1>2. PromiseInv /\ ResendInv /\ ReportsInv /\ WakeInv /\ VerdictInv => ReviewInv
  BY DEF ReviewInv
<1> QED
  BY <1>1, <1>2, PromiseInvariant, ReportsInvariant, WakeInvariant, VerdictInvariant, PTL

(***************************************************************************)
(* Once Laravel has been told the review finished it holds the report of   *)
(* every pair of searches the review waited for, whether or not the engine *)
(* searches the position after the last move.                              *)
(***************************************************************************)
THEOREM NothingAwaitedIsMissing == Safe => []AwaitedReportsArrive
<1>1. ReportsInv /\ PromiseInv => AwaitedReportsArrive
  <2> SUFFICES ASSUME ReportsInv, PromiseInv, "finished" \in verdicts
               PROVE  Awaited \subseteq received
    BY DEF AwaitedReportsArrive
  <2>1. status = "finished" /\ drained \subseteq received
    BY DEF PromiseInv, FinalIsSettled, FinalIsWhole
  <2> QED
    BY <2>1 DEF ReportsInv, FinishedDrainedAll
<1> QED
  BY <1>1, ReportsInvariant, PromiseInvariant, PTL
=============================================================================
