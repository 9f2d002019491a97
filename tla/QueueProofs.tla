------------------------------ MODULE QueueProofs ------------------------------
(***************************************************************************)
(* The queue of reviews, for any set of ids and any number of submissions. *)
(***************************************************************************)
EXTENDS ReviewQueue, SequenceTheorems, TLAPS

(***************************************************************************)
(* What the queue does to sequences.                                       *)
(***************************************************************************)
LEMMA JoinsTheQueue ==
  ASSUME NEW s \in Seq(Ids), NEW t \in Seq(Ids), NEW e \in Ids
  PROVE  Append(s \o t, e) = s \o Append(t, e)
OBVIOUS

LEMMA LeavesTheQueue ==
  ASSUME NEW s \in Seq(Ids), NEW t \in Seq(Ids), t # << >>
  PROVE  /\ Head(t) \in Ids /\ Tail(t) \in Seq(Ids)
         /\ s \o t = Append(s, Head(t)) \o Tail(t)
         /\ \A i \in DOMAIN Tail(t) : i + 1 \in DOMAIN t /\ Tail(t)[i] = t[i + 1]
OBVIOUS

LEMMA QueueIsSubmitted ==
  ASSUME NEW s \in Seq(Ids), NEW t \in Seq(Ids)
  PROVE  /\ \A i \in DOMAIN s : i \in DOMAIN (s \o t) /\ (s \o t)[i] = s[i]
         /\ \A i \in DOMAIN t : /\ Len(s) + i \in DOMAIN (s \o t)
                                /\ (s \o t)[Len(s) + i] = t[i]
OBVIOUS

LEMMA StaysDistinct ==
  ASSUME NEW s \in Seq(Ids), Distinct(s), NEW e \in Ids, \A i \in DOMAIN s : s[i] # e
  PROVE  Distinct(Append(s, e))
BY DEF Distinct

(***************************************************************************)
(* The invariant, from the start and along every step.                     *)
(***************************************************************************)
LEMMA InitQueue == Init => QueueInv
<1> SUFFICES ASSUME Init PROVE QueueInv
  OBVIOUS
<1>1. TypeOK
  BY DEF Init, TypeOK, Phases, Statuses, Stages
<1>2. InOrder /\ Distinct(submitted) /\ JobsFit /\ StopsInTurn
  BY DEF Init, InOrder, Distinct, JobsFit, StopsInTurn
<1> QED
  BY <1>1, <1>2 DEF QueueInv

LEMMA PostStep ==
  ASSUME QueueInv, NEW id \in Ids, Post(id)
  PROVE  QueueInv'
<1> USE DEF QueueInv, Post, Submit, engineVars
<1>1. TypeOK'
  BY DEF TypeOK, Statuses
<1>2. InOrder'
  BY JoinsTheQueue DEF InOrder, TypeOK
<1>3. \A i \in DOMAIN submitted : submitted[i] # id
  BY DEF JobsFit
<1>4. Distinct(submitted)'
  BY <1>3, StaysDistinct DEF TypeOK
<1>5. JobsFit'
  <2>1. /\ jobs' = [jobs EXCEPT ![id] = "queued"]
        /\ \A x \in Ids : x # id => jobs'[x] = jobs[x]
        /\ jobs'[id] = "queued" /\ jobs[id] = "unknown"
    BY DEF TypeOK
  <2>2. ASSUME NEW x \in Ids
        PROVE  jobs'[x] = "unknown" <=> \A i \in DOMAIN submitted' : submitted'[i] # x
    <3>1. /\ DOMAIN submitted' = DOMAIN submitted \cup {Len(submitted) + 1}
          /\ \A i \in DOMAIN submitted : submitted'[i] = submitted[i]
          /\ submitted'[Len(submitted) + 1] = id
      BY DEF TypeOK
    <3> QED
      BY <2>1, <3>1 DEF JobsFit
  <2>3. ASSUME NEW x \in Ids
        PROVE  jobs'[x] = "queued" <=> \E i \in DOMAIN queue' : queue'[i] = x
    <3>1. /\ DOMAIN queue' = DOMAIN queue \cup {Len(queue) + 1}
          /\ \A i \in DOMAIN queue : queue'[i] = queue[i]
          /\ queue'[Len(queue) + 1] = id
      BY DEF TypeOK
    <3> QED
      BY <2>1, <3>1 DEF JobsFit
  <2>4. stage' \in {"handshake", "searching"} => jobs'[job'] = "running"
    <3>1. job' = job /\ stage' = stage
      OBVIOUS
    <3>2. ASSUME stage \in {"handshake", "searching"}
          PROVE  job \in Ids /\ jobs[job] = "running"
      BY <3>2 DEF JobsFit, TypeOK
    <3> QED
      BY <2>1, <3>1, <3>2
  <2>5. stage' # "idle" /\ stage' # "cancelled" => job' # NoId
    BY DEF JobsFit
  <2> QED
    BY <2>2, <2>3, <2>4, <2>5 DEF JobsFit
<1>6. StopsInTurn'
  BY DEF StopsInTurn
<1> QED
  BY <1>1, <1>2, <1>4, <1>5, <1>6

LEMMA BeginStep ==
  ASSUME QueueInv, Begin
  PROVE  QueueInv'
<1> DEFINE id == Head(queue)
<1>1. /\ id \in Ids /\ Tail(queue) \in Seq(Ids)
      /\ begun \o queue = Append(begun, id) \o Tail(queue)
      /\ \A i \in DOMAIN Tail(queue) : i + 1 \in DOMAIN queue /\ Tail(queue)[i] = queue[i + 1]
  BY LeavesTheQueue DEF QueueInv, TypeOK, Begin, Take
<1>2. /\ job' = id /\ queue' = Tail(queue) /\ begun' = Append(begun, id)
      /\ submitted' = submitted /\ stage' = "handshake" /\ stage = "idle"
      /\ phase' = phase /\ signal' = signal /\ process' = process /\ running' = running
      /\ crashed' = crashed
      /\ jobs' = [jobs EXCEPT ![id] = "running"]
  BY DEF Begin, Take, engineVars
<1>3. TypeOK'
  BY <1>1, <1>2 DEF QueueInv, TypeOK, Statuses, Stages
<1>4. InOrder' /\ Distinct(submitted)'
  BY <1>1, <1>2 DEF QueueInv, InOrder
<1>5. 1 \in DOMAIN queue /\ queue[1] = id
  BY DEF Begin, Take, QueueInv, TypeOK
<1>6. \A i, k \in DOMAIN queue : queue[i] = queue[k] => i = k
  <2> SUFFICES ASSUME NEW i \in DOMAIN queue, NEW k \in DOMAIN queue, queue[i] = queue[k]
               PROVE  i = k
    OBVIOUS
  <2>1. /\ Len(begun) + i \in DOMAIN submitted /\ submitted[Len(begun) + i] = queue[i]
        /\ Len(begun) + k \in DOMAIN submitted /\ submitted[Len(begun) + k] = queue[k]
    BY QueueIsSubmitted DEF QueueInv, TypeOK, InOrder
  <2>2. Len(begun) + i = Len(begun) + k
    BY <2>1 DEF QueueInv, Distinct
  <2> QED
    BY <2>2 DEF QueueInv, TypeOK
<1>7. \E i \in DOMAIN submitted : submitted[i] = id
  <2>1. /\ Len(begun) + 1 \in DOMAIN submitted
        /\ submitted[Len(begun) + 1] = queue[1]
    BY <1>5, QueueIsSubmitted DEF QueueInv, TypeOK, InOrder
  <2> QED
    BY <2>1, <1>5
<1>8. ASSUME NEW x \in Ids
      PROVE  /\ jobs'[x] = "unknown" <=> \A i \in DOMAIN submitted' : submitted'[i] # x
             /\ jobs'[x] = "queued" <=> \E i \in DOMAIN queue' : queue'[i] = x
  <2>1. CASE x = id
    <3>1. jobs'[x] = "running"
      BY <2>1, <1>2 DEF QueueInv, TypeOK
    <3>2. \A i \in DOMAIN queue' : queue'[i] # x
      BY <2>1, <1>1, <1>2, <1>5, <1>6 DEF QueueInv, TypeOK
    <3> QED
      BY <3>1, <3>2, <2>1, <1>2, <1>7
  <2>2. CASE x # id
    <3>1. jobs'[x] = jobs[x]
      BY <2>2, <1>2 DEF QueueInv, TypeOK
    <3>2. (\E i \in DOMAIN queue : queue[i] = x) <=> \E i \in DOMAIN queue' : queue'[i] = x
      <4>1. ASSUME NEW i \in DOMAIN queue, queue[i] = x
            PROVE  i - 1 \in DOMAIN Tail(queue) /\ Tail(queue)[i - 1] = x
        BY <4>1, <2>2, <1>5 DEF QueueInv, TypeOK
      <4> QED
        BY <4>1, <1>1, <1>2
    <3> QED
      BY <3>1, <3>2, <1>2 DEF QueueInv, JobsFit
  <2> QED
    BY <2>1, <2>2
<1>9. JobsFit'
  <2>1. job' # NoId /\ jobs'[job'] = "running"
    BY <1>1, <1>2, QueueAssumption DEF QueueInv, TypeOK
  <2> QED
    BY <1>8, <2>1 DEF JobsFit
<1>10. StopsInTurn'
  BY <1>2 DEF QueueInv, StopsInTurn
<1> QED
  BY <1>3, <1>4, <1>9, <1>10 DEF QueueInv

LEMMA SettleStep ==
  ASSUME QueueInv, NEW status \in {"finished", "failed"}, Settle(status),
         stage \in {"handshake", "searching"}
  PROVE  QueueInv'
<1>1. job \in Ids /\ jobs[job] = "running"
  BY DEF QueueInv, TypeOK, JobsFit
<1>2. TypeOK'
  BY <1>1 DEF QueueInv, TypeOK, Settle, engineVars, Statuses, Stages
<1>3. InOrder' /\ Distinct(submitted)'
  BY DEF QueueInv, InOrder, Settle
<1>4. JobsFit'
  <2>1. ASSUME NEW x \in Ids
        PROVE  /\ jobs'[x] = "unknown" <=> jobs[x] = "unknown"
               /\ jobs'[x] = "queued" <=> jobs[x] = "queued"
    BY <1>1 DEF QueueInv, TypeOK, Settle
  <2> QED
    BY <1>1, <2>1, QueueAssumption DEF QueueInv, JobsFit, Settle
<1>5. StopsInTurn'
  BY DEF QueueInv, StopsInTurn, Settle, engineVars
<1> QED
  BY <1>2, <1>3, <1>4, <1>5 DEF QueueInv

\* The steps that leave the jobs and the queue alone.
LEMMA QuietStep ==
  ASSUME QueueInv,
         \/ Ask \/ Conclude \/ StopReviewer \/ Shutdown
         \/ Exit \/ Reap \/ Crash \/ UNCHANGED vars
  PROVE  QueueInv'
<1>1. UNCHANGED <<jobs, queue, job, submitted, begun>>
  BY DEF Ask, Conclude, Delivered, StopReviewer, Shutdown, StopEngine, Terminate, EndWait,
         Exit, Reap, Crash, vars, queueVars
<1>2. /\ stage' \in {"handshake", "searching"} => stage \in {"handshake", "searching"}
      /\ stage' # "idle" /\ stage' # "cancelled" => stage # "idle" /\ stage # "cancelled"
  BY DEF Ask, Conclude, Delivered, StopReviewer, Shutdown, StopEngine, Terminate, EndWait,
         Exit, Reap, Crash, vars, queueVars
<1>3. TypeOK'
  <2>1. phase' \in Phases /\ stage' \in Stages /\ signal' \in {"none", "term", "kill"}
    BY DEF QueueInv, TypeOK, Ask, Conclude, Delivered, StopReviewer, Shutdown, StopEngine,
           Terminate, EndWait, Exit, Reap, Crash, vars, queueVars, engineVars, Phases, Stages
  <2>2. process' \in {"alive", "exited"} /\ running' \in BOOLEAN /\ crashed' \subseteq Readers
    BY DEF QueueInv, TypeOK, Ask, Conclude, Delivered, StopReviewer, Shutdown, StopEngine,
           Terminate, EndWait, Exit, Reap, Crash, vars, queueVars, engineVars
  <2> QED
    BY <1>1, <2>1, <2>2 DEF QueueInv, TypeOK
<1>4. InOrder' /\ Distinct(submitted)'
  BY <1>1 DEF QueueInv, InOrder, Distinct
<1>5. JobsFit'
  BY <1>1, <1>2 DEF QueueInv, JobsFit
<1>6. StopsInTurn'
  BY DEF QueueInv, StopsInTurn, Ask, Conclude, Delivered, StopReviewer, Shutdown,
         StopEngine, Terminate, EndWait, Exit, Reap, Crash, vars, queueVars, engineVars
<1> QED
  BY <1>3, <1>4, <1>5, <1>6 DEF QueueInv

LEMMA NextQueue == QueueInv /\ [Next]_vars => QueueInv'
<1> SUFFICES ASSUME QueueInv, [Next]_vars PROVE QueueInv'
  OBVIOUS
<1>1. CASE Searched \/ Raise
  BY <1>1, SettleStep DEF Searched, Raise
<1>2. CASE \E id \in Ids : Post(id)
  BY <1>2, PostStep
<1>3. CASE Begin
  BY <1>3, BeginStep
<1> QED
  BY <1>1, <1>2, <1>3, QuietStep DEF Next, Work

THEOREM QueueInvariant == Safe => []QueueInv
  BY InitQueue, NextQueue, PTL DEF Safe

(***************************************************************************)
(* However often an id is posted, its game is reviewed once.               *)
(***************************************************************************)
THEOREM NoGameIsReviewedTwice == Safe => []ReviewedOnce
<1>1. QueueInv => ReviewedOnce
  <2> SUFFICES ASSUME QueueInv, NEW i \in DOMAIN begun, NEW j \in DOMAIN begun,
                      begun[i] = begun[j]
               PROVE  i = j
    BY DEF ReviewedOnce, Distinct
  <2>1. /\ i \in DOMAIN submitted /\ submitted[i] = begun[i]
        /\ j \in DOMAIN submitted /\ submitted[j] = begun[j]
    BY QueueIsSubmitted DEF QueueInv, TypeOK, InOrder
  <2> QED
    BY <2>1 DEF QueueInv, Distinct
<1> QED
  BY <1>1, QueueInvariant, PTL

(***************************************************************************)
(* The status a client polls advances, and no review is touched once the   *)
(* engine has been told to stop.                                           *)
(***************************************************************************)
LEMMA JobsStep ==
  ASSUME QueueInv, [Next]_vars
  PROVE  /\ \A id \in Ids : jobs'[id] # jobs[id] => Rank[jobs'[id]] > Rank[jobs[id]]
         /\ signal # "none" => UNCHANGED jobs
<1>1. CASE \E id \in Ids : Post(id)
  BY <1>1 DEF QueueInv, TypeOK, StopsInTurn, Post, Submit, Rank
<1>2. CASE Begin
  <2>1. 1 \in DOMAIN queue /\ queue[1] = Head(queue) /\ Head(queue) \in Ids
    BY <1>2 DEF Begin, Take, QueueInv, TypeOK
  <2>2. jobs[Head(queue)] = "queued" /\ stage = "idle"
    BY <1>2, <2>1 DEF Begin, Take, QueueInv, JobsFit
  <2>3. signal = "none"
    BY <2>2 DEF QueueInv, StopsInTurn
  <2> QED
    BY <1>2, <2>1, <2>2, <2>3 DEF Begin, Take, QueueInv, TypeOK, Rank
<1>3. CASE Searched \/ Raise
  <2>1. job \in Ids /\ jobs[job] = "running" /\ stage # "cancelled"
    BY <1>3 DEF Searched, Raise, QueueInv, TypeOK, JobsFit
  <2>2. signal = "none"
    BY <2>1 DEF QueueInv, StopsInTurn
  <2> QED
    BY <1>3, <2>1, <2>2 DEF Searched, Raise, Settle, QueueInv, TypeOK, Rank
<1>4. CASE ~Begin /\ ~Searched /\ ~Raise /\ ~\E id \in Ids : Post(id)
  BY <1>4 DEF Next, Work, Ask, Conclude, Delivered, StopReviewer, Shutdown, StopEngine,
              Terminate, EndWait, Exit, Reap, Crash, vars, queueVars
<1> QED
  BY <1>1, <1>2, <1>3, <1>4

THEOREM StatusOnlyAdvances == Safe => StatusAdvances
<1>1. QueueInv /\ [Next]_vars =>
        [\A id \in Ids : jobs'[id] # jobs[id] => Rank[jobs'[id]] > Rank[jobs[id]]]_vars
  BY JobsStep
<1> QED
  BY <1>1, QueueInvariant, PTL DEF Safe, StatusAdvances

THEOREM ShutdownIsGentle == Safe => ShutdownFailsNobody
<1>1. QueueInv /\ [Next]_vars => [signal # "none" => UNCHANGED jobs]_vars
  BY JobsStep
<1> QED
  BY <1>1, QueueInvariant, PTL DEF Safe, ShutdownFailsNobody
=============================================================================
