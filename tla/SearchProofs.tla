----------------------------- MODULE SearchProofs -----------------------------
(***************************************************************************)
(* A finished review was searched, and no report of it is left behind.     *)
(***************************************************************************)
EXTENDS PromiseProofs, SequenceTheorems

(***************************************************************************)
(* What the lines of the process mean to the tracker.                      *)
(***************************************************************************)
LEMMA ExpectedIsRequested == Expected = Requested
BY GameAssumption DEF Expected, ExpectedTurns, LastTurn, Requested

LEMMA ReportHeard ==
  ASSUME NEW t \in Positions
  PROVE  Hear(Report(t)) = Response("teaching", ReviewId, t, FALSE)
<1> DEFINE line == Report(t)
<1>1. /\ line.shape = "object" /\ line.id = ReviewId /\ line.turn = t /\ line.position = t
      /\ line.error = FALSE /\ line.warning = FALSE /\ line.teaching = TRUE
      /\ line.report = TRUE
  BY DEF Report, Line
<1>2. t # Absent
  BY AbsentAssumption DEF Positions
<1> HIDE DEF line
<1>3. Hear(line) = Response("teaching", ReviewId, t, FALSE)
  BY <1>1, <1>2 DEF Hear, ParseLine
<1> QED
  BY <1>3 DEF line

LEMMA ResultHeard ==
  ASSUME NEW t \in Positions
  PROVE  Hear(Result(ReviewId, t, TRUE)) = Response("analysis", ReviewId, t, TRUE)
<1> DEFINE line == Result(ReviewId, t, TRUE)
<1>1. /\ line.shape = "object" /\ line.id = ReviewId /\ line.turn = t
      /\ line.error = FALSE /\ line.warning = FALSE /\ line.teaching = FALSE
      /\ line.during = FALSE
  BY DEF Result, Line
<1>2. t # Absent
  BY AbsentAssumption DEF Positions
<1> HIDE DEF line
<1>3. Hear(line) = Response("analysis", ReviewId, t, line.during = FALSE)
  BY <1>1, <1>2 DEF Hear, ParseLine
<1>4. (line.during = FALSE) = TRUE
  BY <1>1
<1> QED
  BY <1>3, <1>4 DEF line

\* Only the result of a search tells that it is over.
LEMMA OnlyResultsTell ==
  /\ \A t \in Positions, u \in Positions : ~TellsSearched(Report(t), u)
  /\ \A t \in Positions, u \in Positions : TellsSearched(Result(ReviewId, t, TRUE), u) <=> u = t
  /\ \A line \in UnaskedLines, u \in Positions : ~TellsSearched(line, u)
<1>1. \A t \in Positions, u \in Positions : ~TellsSearched(Report(t), u)
  BY ReportHeard DEF TellsSearched, Response
<1>2. ASSUME NEW t \in Positions, NEW u \in Positions
      PROVE  TellsSearched(Result(ReviewId, t, TRUE), u) <=> u = t
  <2> DEFINE r == Hear(Result(ReviewId, t, TRUE))
  <2>1. r = Response("analysis", ReviewId, t, TRUE)
    BY ResultHeard
  <2> HIDE DEF r
  <2>2. r.kind = "analysis" /\ r.id = ReviewId /\ r.turn = t /\ r.final
    BY <2>1 DEF Response
  <2> QED
    BY <2>2 DEF TellsSearched, r
<1>3. ASSUME NEW line \in UnaskedLines, NEW u \in Positions PROVE ~TellsSearched(line, u)
  <2>1. ASSUME NEW t \in Requested PROVE ~TellsSearched(Result(ReviewId, t, FALSE), u)
    BY ReviewAssumption DEF TellsSearched, Result, Line, Hear, ParseLine, Response, NoResponse
  <2>2. ASSUME NEW t \in Requested PROVE ~TellsSearched(Result(OtherId, t, TRUE), u)
    BY ReviewAssumption DEF TellsSearched, Result, Line, Hear, ParseLine, Response, NoResponse
  <2>3. ~TellsSearched(Line("text"), u) /\ ~TellsSearched(Line("overlong"), u)
    BY DEF TellsSearched, Line, Hear, ParseLine, Response, NoResponse
  <2>4. ~TellsSearched(Complaint(ReviewId), u) /\ ~TellsSearched(Complaint(Absent), u)
    BY DEF TellsSearched, Complaint, Line, Hear, ParseLine, Response, NoResponse
  <2>5. ~TellsSearched(BareReport, u)
    BY DEF TellsSearched, BareReport, Line, Hear, ParseLine, Response, NoResponse
  <2> QED
    BY <2>1, <2>2, <2>3, <2>4, <2>5 DEF UnaskedLines
<1> QED
  BY <1>1, <1>2, <1>3

\* What a landing search writes: lines of the protocol, its own result last,
\* and before it the report of every pair it completes.
LEMMA LandingFacts ==
  ASSUME TypeOK, NEW t \in Positions
  PROVE  /\ Landing(t) \in Seq(EngineLines) /\ Len(Landing(t)) \in Nat \ {0}
         /\ \A i \in 1 .. Len(Landing(t)), u \in Positions :
              TellsSearched(Landing(t)[i], u) <=> i = Len(Landing(t)) /\ u = t
         /\ \A s \in Positions : {s, s + 1} \subseteq searched \cup {t} /\ t \in {s, s + 1} =>
              \E i \in 1 .. Len(Landing(t)) - 1 : Landing(t)[i] = Report(s)
<1> DEFINE result == Result(ReviewId, t, TRUE)
           below == Report(t - 1)
           above == Report(t)
<1>1. /\ result \in EngineLines /\ above \in EngineLines
      /\ t - 1 \in searched => below \in EngineLines /\ t - 1 \in Positions
  BY WrittenLines DEF TypeOK, TypeOKProcess
<1>2. ASSUME NEW u \in Positions
      PROVE  /\ TellsSearched(result, u) <=> u = t
             /\ ~TellsSearched(above, u)
             /\ t - 1 \in searched => ~TellsSearched(below, u)
  BY <1>1, OnlyResultsTell
<1>3. \A s \in Positions : t \in {s, s + 1} /\ {s, s + 1} \subseteq searched \cup {t}
        => (s = t /\ t + 1 \in searched) \/ (s = t - 1 /\ t - 1 \in searched)
  BY DEF Positions
<1>4. /\ PairedBefore(t) = IF t - 1 \in searched THEN <<below>> ELSE << >>
      /\ PairedAfter(t) = IF t + 1 \in searched THEN <<above>> ELSE << >>
      /\ Landing(t) = PairedBefore(t) \o PairedAfter(t) \o <<result>>
  BY DEF PairedBefore, PairedAfter, Landing
<1>5. \A s \in {t, t - 1} : Report(s) = IF s = t THEN above ELSE below
  OBVIOUS
<1> HIDE DEF result, below, above
<1> DEFINE before == PairedBefore(t)
           after == PairedAfter(t)
           two == before \o after
           n == Len(before) + Len(after) + 1
<1>6. /\ before \in Seq(EngineLines) /\ Len(before) = IF t - 1 \in searched THEN 1 ELSE 0
      /\ t - 1 \in searched => before[1] = below
  BY <1>1, <1>4
<1>7. /\ after \in Seq(EngineLines) /\ Len(after) = IF t + 1 \in searched THEN 1 ELSE 0
      /\ t + 1 \in searched => after[1] = above
  BY <1>1, <1>4
<1>8. /\ <<result>> \in Seq(EngineLines) /\ Len(<<result>>) = 1 /\ <<result>>[1] = result
  BY <1>1
<1>9. Landing(t) = two \o <<result>>
  BY <1>4
<1> HIDE DEF before, after
<1>10. /\ two \in Seq(EngineLines) /\ Len(two) = Len(before) + Len(after)
       /\ \A i \in 1 .. Len(two) :
            two[i] = IF i <= Len(before) THEN before[i] ELSE after[i - Len(before)]
  BY <1>6, <1>7, ConcatProperties
<1> HIDE DEF two
<1>11. /\ Landing(t) \in Seq(EngineLines) /\ Len(Landing(t)) = n
       /\ \A i \in 1 .. n : Landing(t)[i] = IF i < n THEN two[i] ELSE result
  BY <1>6, <1>7, <1>8, <1>9, <1>10, ConcatProperties
<1>12. n \in Nat \ {0}
  BY <1>6, <1>7
<1>13. \A i \in 1 .. n : Landing(t)[i] = IF i = n THEN result
                                       ELSE IF i <= Len(before) THEN below ELSE above
  BY <1>6, <1>7, <1>10, <1>11
<1>14. ASSUME NEW i \in 1 .. n, NEW u \in Positions
       PROVE  TellsSearched(Landing(t)[i], u) <=> i = n /\ u = t
  <2>1. CASE i = n
    <3>1. Landing(t)[i] = result
      BY <1>13, <2>1
    <3>2. TellsSearched(result, u) <=> u = t
      BY <1>2
    <3> QED
      BY <3>1, <3>2, <2>1
  <2>2. CASE i # n /\ i <= Len(before)
    <3>1. t - 1 \in searched /\ Landing(t)[i] = below
      BY <1>6, <1>13, <2>2
    <3>2. ~TellsSearched(below, u)
      BY <3>1, <1>2
    <3> QED
      BY <3>1, <3>2, <2>2
  <2>3. CASE i # n /\ ~(i <= Len(before))
    <3>1. Landing(t)[i] = above
      BY <1>13, <2>3
    <3>2. ~TellsSearched(above, u)
      BY <1>2
    <3> QED
      BY <3>1, <3>2, <2>3
  <2> QED
    BY <2>1, <2>2, <2>3
<1>15. ASSUME NEW s \in Positions, {s, s + 1} \subseteq searched \cup {t}, t \in {s, s + 1}
       PROVE  \E i \in 1 .. n - 1 : Landing(t)[i] = Report(s)
  <2>1. CASE s = t /\ t + 1 \in searched
    <3>1. n - 1 \in 1 .. n - 1 /\ Landing(t)[n - 1] = above
      BY <2>1, <1>6, <1>7, <1>13
    <3> QED
      BY <3>1, <2>1, <1>5
  <2>2. CASE s = t - 1 /\ t - 1 \in searched
    <3>1. 1 \in 1 .. n - 1 /\ Landing(t)[1] = below
      BY <2>2, <1>6, <1>7, <1>13
    <3> QED
      BY <3>1, <2>2, <1>5 DEF Positions
  <2> QED
    BY <2>1, <2>2, <1>3, <1>15
<1> QED
  BY <1>11, <1>12, <1>14, <1>15

(***************************************************************************)
(* What the tracker holds has been searched.                               *)
(***************************************************************************)
\* Hearing a line adds to the tracker, and a snapshot only if the line tells
\* that its search is over.
LEMMA ListenFacts ==
  ASSUME TypeOK, NEW line \in EngineLines, Listen(Hear(line))
  PROVE  /\ tracker.reports \subseteq tracker'.reports
         /\ tracker.snapshots \subseteq tracker'.snapshots
         /\ tracker.error => tracker'.error
         /\ \A t \in Positions : t \in tracker'.snapshots =>
              t \in tracker.snapshots \/ TellsSearched(line, t)
         /\ complete' => complete \/ tracker'.error \/ Expected \subseteq tracker'.snapshots
<1> DEFINE r == Hear(line)
<1>1. tracker \in Trackers(Positions)
  BY DEF TypeOK, TypeOKHear
<1>2. CASE ~(listening /\ Belongs(ReviewId, r))
  BY <1>2 DEF Listen
<1>3. CASE listening /\ Belongs(ReviewId, r)
  <2>1. /\ tracker' = Accept(tracker, r)
        /\ complete' = (complete \/ IsComplete(tracker', Expected))
    BY <1>3 DEF Listen
  <2>2. \A t : TellsSearched(line, t) <=>
               r.kind = "analysis" /\ r.id = ReviewId /\ r.final /\ r.turn = t
    BY DEF TellsSearched
  <2>3. r.final \in BOOLEAN
    BY ResponseType
  <2> HIDE DEF r
  <2>4. /\ tracker.reports \subseteq tracker'.reports
        /\ tracker.snapshots \subseteq tracker'.snapshots
        /\ tracker.error => tracker'.error
        /\ \A t \in Positions : t \in tracker'.snapshots =>
             t \in tracker.snapshots \/ TellsSearched(line, t)
    BY <1>1, <1>3, <2>1, <2>2, <2>3 DEF Trackers, Accept, Belongs
  <2>5. complete' => complete \/ tracker'.error \/ Expected \subseteq tracker'.snapshots
    BY <2>1 DEF IsComplete
  <2> QED
    BY <2>4, <2>5
<1> QED
  BY <1>2, <1>3

\* A review turns to finished only when its event is set and it has no error,
\* and then everything the tracker holds is drained.
LEMMA FinishingFacts ==
  ASSUME TypeOK, Coroutine, status' = "finished", status # "finished"
  PROVE  /\ complete /\ ~tracker.error
         /\ pc \in {"waiting", "flushing"}
         /\ tracker.reports \subseteq drained'
<1>1. ASSUME NEW old, NEW out, NEW new, LoopEnd(old, out, new) \/ LoopTest(old, out) \/ GiveUp(old, out)
      PROVE  complete /\ ~tracker.error /\ tracker.reports \subseteq drained'
  BY <1>1 DEF LoopEnd, GiveUp, LoopTest, Conclude, Ending, Raise
<1>2. ~Begin /\ ~HandshakeTaken /\ ~HandshakeFails /\ ~FinalTaken /\ ~FinalFails
  BY DEF Begin, HandshakeTaken, HandshakeFails, Raise, FinalTaken, FinalFails, FinalFailsThen,
         Finish
<1>4. CASE Wake
  <2>1. pc = "waiting"
        /\ \E old, out, new : LoopEnd(old, out, new) \/ UNCHANGED status
    BY <1>4 DEF Wake
  <2> QED
    BY <1>1, <2>1
<1>5. CASE FlushTaken \/ FlushFails
  BY <1>1, <1>5 DEF FlushTaken, FlushFails, Flushed
<1> QED
  BY <1>2, <1>4, <1>5 DEF Coroutine

\* The query is sent once, after the handshake.
LEMMA AskingFacts ==
  ASSUME Coroutine
  PROVE  /\ pc' \notin {"queued"} /\ (pc' = "handshake" => pc = "queued")
         /\ asked' # asked => pc = "handshake" /\ pc' = "waiting"
BY DEF Coroutine, Begin, HandshakeTaken, HandshakeFails, Wake, FlushTaken, FlushFails,
       Flushed, FinalTaken, FinalFails, FinalFailsThen, Finish, Raise, LoopEnd, GiveUp, LoopTest,
       Conclude, Ending, processVars

LEMMA InitSearch == Init => SearchInv
<1> SUFFICES ASSUME Init PROVE SearchInv
  OBVIOUS
<1>1. TypeOK
  BY InitType
<1>2. stdout = << >> /\ searched = {} /\ asked = FALSE /\ complete = FALSE /\ status = "queued"
      /\ tracker.snapshots = {}
  BY DEF Init, InitProcess, NewTracker
<1> QED
  BY <1>1, <1>2 DEF SearchInv

\* Steps that leave the engine, its pipe and the tracker alone.
LEMMA SearchAside ==
  ASSUME SearchInv, TypeOK', UNCHANGED <<searched, stdout, tracker, complete>>,
         asked => asked', asked' => pc' \notin {"queued", "handshake"},
         status' = "finished" => status = "finished" \/ (complete /\ ~tracker.error)
  PROVE  SearchInv'
BY DEF SearchInv

\* A search lands: what is written of it is true.
LEMMA SearchLanding ==
  ASSUME SearchInv, TypeOK', NEW t \in SearchPlan, SearchLands(t),
         UNCHANGED <<tracker, complete, pc, status>>
  PROVE  SearchInv'
<1>1. /\ searched' = searched \cup {t} /\ stdout' = stdout \o Landing(t)
      /\ asked /\ asked' = asked
  BY DEF SearchLands
<1>2. TypeOK /\ stdout \in Seq(EngineLines) /\ t \in Positions
  BY WrittenLines DEF SearchInv, TypeOK, TypeOKProcess
<1>3. /\ Landing(t) \in Seq(EngineLines)
      /\ \A i \in 1 .. Len(Landing(t)), u \in Positions :
           TellsSearched(Landing(t)[i], u) => u = t
  BY <1>2, LandingFacts
<1> DEFINE landing == Landing(t)
<1> HIDE DEF landing
<1>4. ASSUME NEW i \in 1 .. Len(stdout'), NEW u \in Positions, TellsSearched(stdout'[i], u)
      PROVE  u \in searched'
  <2>1. /\ stdout' = stdout \o landing /\ landing \in Seq(EngineLines)
        /\ \A j \in 1 .. Len(landing), v \in Positions : TellsSearched(landing[j], v) => v = t
    BY <1>1, <1>3 DEF landing
  <2>2. CASE i <= Len(stdout)
    <3>1. i \in 1 .. Len(stdout) /\ stdout'[i] = stdout[i]
      BY <1>2, <2>1, <2>2
    <3> QED
      BY <3>1, <1>1, <1>4 DEF SearchInv
  <2>3. CASE i > Len(stdout)
    <3>1. i - Len(stdout) \in 1 .. Len(landing) /\ stdout'[i] = landing[i - Len(stdout)]
      BY <1>2, <2>1, <2>3
    <3> QED
      BY <3>1, <2>1, <1>1, <1>4
  <2> QED
    BY <2>2, <2>3, <1>2
<1> QED
  BY <1>1, <1>4 DEF SearchInv

\* A line nobody asked for is written: it tells of no search.
LEMMA SearchUnasked ==
  ASSUME SearchInv, TypeOK', WriteUnasked, UNCHANGED <<tracker, complete, pc, status>>
  PROVE  SearchInv'
<1>1. PICK line \in UnaskedLines : stdout' = Append(stdout, line)
  BY DEF WriteUnasked
<1>2. stdout \in Seq(EngineLines) /\ line \in EngineLines
  BY WrittenLines DEF SearchInv, TypeOK, TypeOKProcess
<1>3. ASSUME NEW i \in 1 .. Len(stdout'), NEW u \in Positions, TellsSearched(stdout'[i], u)
      PROVE  u \in searched
  <2>1. CASE i <= Len(stdout)
    <3>1. i \in 1 .. Len(stdout) /\ stdout'[i] = stdout[i]
      BY <1>1, <1>2, <2>1
    <3> QED
      BY <3>1, <1>3 DEF SearchInv
  <2>2. CASE i > Len(stdout)
    <3>1. stdout'[i] = line
      BY <1>1, <1>2, <2>2
    <3> QED
      BY <3>1, <1>3, OnlyResultsTell
  <2> QED
    BY <2>1, <2>2, <1>2
<1> QED
  BY <1>3 DEF WriteUnasked, SearchInv

\* A line is read: the tracker learns what the line tells.
LEMMA SearchReading ==
  ASSUME SearchInv, TypeOK', ReadLine
  PROVE  SearchInv'
<1>1. /\ stdout # << >> /\ stdout' = Tail(stdout) /\ Listen(Hear(Head(stdout)))
      /\ UNCHANGED <<searched, asked, pc, status>>
  BY DEF ReadLine, jobVars
<1>2. TypeOK /\ stdout \in Seq(EngineLines)
  BY DEF SearchInv, TypeOK, TypeOKProcess
<1>3. /\ Head(stdout) \in EngineLines /\ Head(stdout) = stdout[1] /\ 1 \in 1 .. Len(stdout)
      /\ Len(stdout') = Len(stdout) - 1
      /\ \A i \in 1 .. Len(stdout') : i + 1 \in 1 .. Len(stdout) /\ stdout'[i] = stdout[i + 1]
  BY <1>1, <1>2
<1>4. ASSUME NEW i \in 1 .. Len(stdout'), NEW u \in Positions, TellsSearched(stdout'[i], u)
      PROVE  u \in searched
  BY <1>3, <1>4 DEF SearchInv
<1>5. tracker'.snapshots \subseteq searched
  <2>1. tracker'.snapshots \subseteq Positions
    BY DEF TypeOK, TypeOKHear, Trackers
  <2>2. \A t \in Positions : TellsSearched(Head(stdout), t) => t \in searched
    BY <1>3 DEF SearchInv
  <2> QED
    BY <2>1, <2>2, <1>1, <1>2, <1>3, ListenFacts DEF SearchInv
<1>6. complete' => tracker'.error \/ Expected \subseteq tracker'.snapshots
  BY <1>1, <1>2, <1>3, ListenFacts DEF SearchInv
<1>7. status = "finished" => Expected \subseteq tracker'.snapshots
  BY <1>1, <1>2, <1>3, ListenFacts DEF SearchInv
<1> QED
  BY <1>1, <1>4, <1>5, <1>6, <1>7 DEF SearchInv

LEMMA NextSearch == SearchInv /\ [Next]_vars => SearchInv'
<1> SUFFICES ASSUME SearchInv, [Next]_vars PROVE SearchInv'
  OBVIOUS
<1>1. TypeOK /\ TypeOK'
  BY NextType DEF SearchInv
<1>2. CASE Process
  <2>1. UNCHANGED <<tracker, complete, pc, status>>
    BY <1>2 DEF Process, hearVars, jobVars
  <2>2. CASE Exit \/ Reap
    BY <2>1, <2>2, <1>1, SearchAside DEF Exit, Reap, SearchInv
  <2> QED
    BY <1>1, <1>2, <2>1, <2>2, SearchLanding, SearchUnasked DEF Process
<1>3. CASE Network \/ ReadEof \/ UNCHANGED vars
  BY <1>1, <1>3, SearchAside
     DEF Network, ReadEof, vars, processVars, hearVars, jobVars, SearchInv
<1>4. CASE Cancel
  BY <1>1, <1>4, SearchAside DEF Cancel, processVars, hearVars
<1>5. CASE Coroutine
  <2>1. UNCHANGED <<searched, stdout, tracker, complete>>
    BY <1>5, CoroutineDelivers DEF hearVars
  <2>2. asked' \in BOOLEAN /\ (asked => asked')
    <3>1. (asked /\ pc # "handshake") \/ ~asked
      BY DEF SearchInv
    <3> QED
      BY <3>1, <1>5, <1>1, AskingFacts DEF TypeOK, TypeOKProcess
  <2>3. asked' => pc' \notin {"queued", "handshake"}
    BY <1>5, <1>1, AskingFacts DEF SearchInv, TypeOK, TypeOKProcess
  <2>4. status' = "finished" => status = "finished" \/ (complete /\ ~tracker.error)
    BY <1>5, <1>1, FinishingFacts
  <2> QED
    BY <1>1, <2>1, <2>2, <2>3, <2>4, SearchAside
<1> QED
  BY <1>1, <1>2, <1>3, <1>4, <1>5, SearchReading DEF Next, Reader

THEOREM SearchInvariant == Safe => []SearchInv
BY InitSearch, NextSearch, PTL DEF Safe

(***************************************************************************)
(* A review is finished only if every position asked for was searched,     *)
(* whatever else the engine writes and however often.                      *)
(***************************************************************************)
THEOREM FinishedIsSearched == Safe => []FinishedWasSearched
<1>1. SearchInv => FinishedWasSearched
  BY ExpectedIsRequested DEF SearchInv, FinishedWasSearched
<1> QED
  BY <1>1, SearchInvariant, PTL

(***************************************************************************)
(* A listener hears of every search.                                       *)
(***************************************************************************)
\* What a listener is told it knows, and it sets the event when it knows all.
LEMMA ListenHears ==
  ASSUME TypeOK, listening, NEW line \in EngineLines, Listen(Hear(line))
  PROVE  /\ \A t \in Positions : TellsSearched(line, t) => t \in tracker'.snapshots
         /\ tracker'.snapshots # tracker.snapshots =>
              complete' \/ ~(Requested \subseteq tracker'.snapshots)
         /\ complete => complete'
<1> DEFINE r == Hear(line)
<1>1. tracker \in Trackers(Positions)
  BY DEF TypeOK, TypeOKHear
<1>2. \A t : TellsSearched(line, t) <=>
             r.kind = "analysis" /\ r.id = ReviewId /\ r.final /\ r.turn = t
  BY DEF TellsSearched
<1>3. CASE Belongs(ReviewId, r)
  <2>1. /\ tracker' = Accept(tracker, r)
        /\ complete' = (complete \/ IsComplete(tracker', Expected))
    BY <1>3 DEF Listen
  <2> HIDE DEF r
  <2>2. \A t \in Positions : TellsSearched(line, t) => t \in tracker'.snapshots
    BY <1>1, <1>2, <2>1 DEF Accept, Trackers
  <2> QED
    BY <2>1, <2>2, ExpectedIsRequested DEF IsComplete
<1>4. CASE ~Belongs(ReviewId, r)
  <2>1. \A t \in Positions : ~TellsSearched(line, t)
    BY <1>2, <1>4 DEF Belongs
  <2> QED
    BY <1>4, <2>1 DEF Listen
<1> QED
  BY <1>3, <1>4

\* A search that lands says so behind what is in the pipe.
LEMMA WakeLanding ==
  ASSUME SearchInv, WakeInv, NEW t \in SearchPlan, SearchLands(t),
         UNCHANGED <<tracker, complete, listening>>
  PROVE  WakeInv'
<1>1. /\ searched' = searched \cup {t} /\ stdout' = stdout \o Landing(t)
  BY DEF SearchLands
<1>2. TypeOK /\ stdout \in Seq(EngineLines) /\ t \in Positions
  BY WrittenLines DEF SearchInv, TypeOK, TypeOKProcess
<1>3. PICK landing : landing = Landing(t)
  OBVIOUS
<1>4. /\ landing \in Seq(EngineLines) /\ Len(landing) \in 1 .. Len(landing)
      /\ TellsSearched(landing[Len(landing)], t)
  BY <1>2, <1>3, LandingFacts
<1>5. /\ Len(stdout') = Len(stdout) + Len(landing)
      /\ \A i \in 1 .. Len(stdout) : i \in 1 .. Len(stdout') /\ stdout'[i] = stdout[i]
      /\ Len(stdout') \in 1 .. Len(stdout') /\ stdout'[Len(stdout')] = landing[Len(landing)]
  BY <1>1, <1>2, <1>3, <1>4
<1>6. ASSUME listening, NEW u \in searched', u \notin tracker.snapshots
      PROVE  \E i \in 1 .. Len(stdout') : TellsSearched(stdout'[i], u)
  <2>1. CASE u = t
    BY <1>4, <1>5, <2>1
  <2>2. CASE u # t
    <3>1. PICK i \in 1 .. Len(stdout) : TellsSearched(stdout[i], u)
      BY <1>1, <1>6, <2>2 DEF WakeInv
    <3> QED
      BY <1>5, <3>1
  <2> QED
    BY <2>1, <2>2
<1> QED
  BY <1>6 DEF WakeInv

LEMMA WakeUnasked ==
  ASSUME SearchInv, WakeInv, WriteUnasked, UNCHANGED <<tracker, complete, listening>>
  PROVE  WakeInv'
<1>1. PICK line \in UnaskedLines : stdout' = Append(stdout, line)
  BY DEF WriteUnasked
<1>2. stdout \in Seq(EngineLines) /\ line \in EngineLines
  BY WrittenLines DEF SearchInv, TypeOK, TypeOKProcess
<1>3. \A i \in 1 .. Len(stdout) : i \in 1 .. Len(stdout') /\ stdout'[i] = stdout[i]
  BY <1>1, <1>2
<1> QED
  BY <1>3 DEF WakeInv, WriteUnasked

\* What is read leaves the pipe for the tracker, and the last of it wakes the review.
LEMMA WakeReading ==
  ASSUME SearchInv, WakeInv, ReadLine
  PROVE  WakeInv'
<1>1. /\ stdout # << >> /\ stdout' = Tail(stdout) /\ Listen(Hear(Head(stdout)))
      /\ UNCHANGED <<searched, listening>>
  BY DEF ReadLine, jobVars
<1>2. TypeOK /\ stdout \in Seq(EngineLines) /\ searched \subseteq Positions
  BY DEF SearchInv, TypeOK, TypeOKProcess
<1>3. /\ Head(stdout) \in EngineLines /\ Head(stdout) = stdout[1]
      /\ \A i \in 1 .. Len(stdout) : i # 1 =>
           i - 1 \in 1 .. Len(stdout') /\ stdout'[i - 1] = stdout[i]
  BY <1>1, <1>2
<1>4. ASSUME listening, NEW t \in searched, t \notin tracker'.snapshots
      PROVE  \E i \in 1 .. Len(stdout') : TellsSearched(stdout'[i], t)
  <2>1. t \notin tracker.snapshots /\ ~TellsSearched(Head(stdout), t)
    BY <1>1, <1>2, <1>3, <1>4, ListenFacts, ListenHears
  <2>2. PICK i \in 1 .. Len(stdout) : TellsSearched(stdout[i], t)
    BY <1>4, <2>1 DEF WakeInv
  <2>3. i # 1
    BY <1>3, <2>1, <2>2
  <2> QED
    BY <1>3, <2>2, <2>3
<1>5. ASSUME listening, Requested # {}, Requested \subseteq tracker'.snapshots
      PROVE  complete'
  <2>1. CASE tracker'.snapshots = tracker.snapshots
    BY <1>1, <1>2, <1>3, <1>5, <2>1, ListenHears DEF WakeInv
  <2>2. CASE tracker'.snapshots # tracker.snapshots
    BY <1>1, <1>2, <1>3, <1>5, <2>2, ListenHears
  <2> QED
    BY <2>1, <2>2
<1> QED
  BY <1>1, <1>4, <1>5 DEF WakeInv
=============================================================================
