----------------------------- MODULE AnalystProofs -----------------------------
(***************************************************************************)
(* Answers reach the request they are for, whatever the requests and the   *)
(* ids they share, however deep the searches and however long the pipe.    *)
(***************************************************************************)
EXTENDS Analyst, SequenceTheorems, TLAPS

(***************************************************************************)
(* A request that shares its id with no other is known by it.              *)
(***************************************************************************)
LEMMA IdFacts ==
  ASSUME NEW r \in Requests, NEW q \in Requests
  PROVE  /\ Id(r) \in Requests \cup {Shared} /\ Id(r) # Absent
         /\ r \notin retries /\ Id(q) = Id(r) => q = r
BY AnalystAssumption DEF Id, Requests

(***************************************************************************)
(* Leaving takes the request off the list, and no other.                   *)
(***************************************************************************)
LEMMA LeaveFacts ==
  ASSUME TypeOK, ListenersFit, NEW r \in Requests, at[r] \in InProgress,
         NEW place \in Places, place \notin InProgress, Leave(r, place)
  PROVE  /\ listeners' \in Seq(Requests) /\ ListenersFit'
         /\ at' \in [Requests -> Places]
         /\ latest' \in [Requests -> Messages \cup {Nothing}]
         /\ failure' \in [Requests -> BOOLEAN]
         /\ latest'[r] = Nothing /\ at'[r] = place
         /\ \A q \in Requests : q # r => latest'[q] = latest[q] /\ at'[q] = at[q]
<1> DEFINE i == CHOOSE k \in DOMAIN listeners : listeners[k] = r
           n == Len(listeners)
           old(k) == IF k < i THEN k ELSE k + 1
<1>1. /\ at' = [at EXCEPT ![r] = place]
      /\ latest' = [latest EXCEPT ![r] = Nothing]
      /\ failure' = [failure EXCEPT ![r] = FALSE]
      /\ listeners' = [k \in 1 .. n - 1 |-> listeners[old(k)]]
  BY DEF Leave, Forget
<1>2. i \in 1 .. n /\ listeners[i] = r /\ n \in Nat
  <2>1. \E k \in DOMAIN listeners : listeners[k] = r
    BY DEF ListenersFit
  <2>2. i \in DOMAIN listeners /\ listeners[i] = r
    BY <2>1, Zenon
  <2> HIDE DEF i
  <2> QED
    BY <2>2 DEF TypeOK
<1>3. \A k \in 1 .. n : listeners[k] \in Requests
  BY DEF TypeOK
<1>4. \A k \in 1 .. n - 1 : old(k) \in 1 .. n /\ old(k) # i
  <2> HIDE DEF i
  <2> QED
    BY <1>2
<1>5. \A k \in 1 .. n : k # i => \E l \in 1 .. n - 1 : old(l) = k
  <2> HIDE DEF i
  <2> SUFFICES ASSUME NEW k \in 1 .. n, k # i
               PROVE  \E l \in 1 .. n - 1 : old(l) = k
    OBVIOUS
  <2>1. CASE k < i
    <3>1. k \in 1 .. n - 1 /\ old(k) = k
      BY <2>1, <1>2
    <3> QED
      BY <3>1
  <2>2. CASE k > i
    <3>1. k - 1 \in 1 .. n - 1 /\ old(k - 1) = k
      BY <2>2, <1>2
    <3> QED
      BY <3>1
  <2> QED
    BY <2>1, <2>2, <1>2
<1>6. \A k, l \in 1 .. n - 1 : old(k) = old(l) => k = l
  BY <1>2
<1> HIDE DEF i, old
<1>7. listeners' \in Seq(Requests) /\ DOMAIN listeners' = 1 .. n - 1
  BY <1>1, <1>2, <1>3, <1>4
<1>8. /\ at' \in [Requests -> Places] /\ latest' \in [Requests -> Messages \cup {Nothing}]
      /\ failure' \in [Requests -> BOOLEAN]
      /\ latest'[r] = Nothing /\ at'[r] = place
      /\ \A q \in Requests : q # r => latest'[q] = latest[q] /\ at'[q] = at[q]
  BY <1>1 DEF TypeOK
<1>9. ListenersFit'
  <2>1. ASSUME NEW q \in Requests
        PROVE  at'[q] \in InProgress <=> \E k \in DOMAIN listeners' : listeners'[k] = q
    <3>1. CASE q = r
      <4>1. \A k \in 1 .. n - 1 : listeners[old(k)] # r
        BY <1>2, <1>4 DEF ListenersFit, TypeOK
      <4> QED
        BY <3>1, <4>1, <1>1, <1>7, <1>8
    <3>2. CASE q # r
      <4>1. at[q] \in InProgress <=> \E k \in 1 .. n : listeners[k] = q
        BY DEF ListenersFit, TypeOK
      <4>2. (\E k \in 1 .. n : listeners[k] = q) <=> \E l \in 1 .. n - 1 : listeners[old(l)] = q
        BY <3>2, <1>2, <1>4, <1>5
      <4> QED
        BY <3>2, <4>1, <4>2, <1>1, <1>7, <1>8
    <3> QED
      BY <3>1, <3>2
  <2>2. ASSUME NEW k \in DOMAIN listeners', NEW l \in DOMAIN listeners',
               listeners'[k] = listeners'[l]
        PROVE  k = l
    <3>1. listeners[old(k)] = listeners[old(l)]
      BY <2>2, <1>1, <1>7
    <3>2. k \in 1 .. n - 1 /\ l \in 1 .. n - 1 /\ DOMAIN listeners = 1 .. n
      BY <1>7 DEF TypeOK
    <3>3. \A x, y \in DOMAIN listeners : listeners[x] = listeners[y] => x = y
      BY DEF ListenersFit
    <3>4. old(k) = old(l)
      BY <3>1, <3>2, <3>3, <1>4
    <3> QED
      BY <3>4, <1>6, <1>7
  <2> QED
    BY <2>1, <2>2 DEF ListenersFit, InProgress
<1> QED
  BY <1>7, <1>8, <1>9

(***************************************************************************)
(* The invariant, from the start and along every step.                     *)
(***************************************************************************)
LEMMA InitAnalyst == Init => AnalystInv
<1> SUFFICES ASSUME Init PROVE AnalystInv
  OBVIOUS
<1>1. TypeOK
  BY DEF Init, TypeOK, Places
<1>2. ListenersFit /\ LinesAreSigned /\ Unasked /\ AnswersItsQuestion
  BY DEF Init, ListenersFit, LinesAreSigned, Unasked, AnswersItsQuestion, InProgress
<1>3. AnswersDeepen /\ TakenIsReached
  BY DEF Init, AnswersDeepen, TakenIsReached, Nothing
<1> QED
  BY <1>1, <1>2, <1>3 DEF AnalystInv

LEMMA LeaveStep ==
  ASSUME AnalystInv, NEW r \in Requests, at[r] \in InProgress,
         NEW place \in Places, place \notin InProgress, place # "away", Leave(r, place),
         UNCHANGED <<engineVars, retries>>
  PROVE  AnalystInv'
<1>1. /\ listeners' \in Seq(Requests) /\ ListenersFit'
      /\ at' \in [Requests -> Places]
      /\ latest' \in [Requests -> Messages \cup {Nothing}]
      /\ failure' \in [Requests -> BOOLEAN]
      /\ latest'[r] = Nothing /\ at'[r] = place
      /\ \A q \in Requests : q # r => latest'[q] = latest[q] /\ at'[q] = at[q]
  BY LeaveFacts DEF AnalystInv
<1>2. UNCHANGED <<search, depth, stdout, alive, running, retries>>
  BY DEF engineVars
<1>3. TypeOK'
  BY <1>1, <1>2 DEF AnalystInv, TypeOK
<1>4. LinesAreSigned' /\ Unasked' /\ AnswersItsQuestion'
  BY <1>1, <1>2 DEF AnalystInv, LinesAreSigned, Unasked, AnswersItsQuestion, Id
<1>5. Nothing.depth = 0
  BY DEF Nothing
<1>6. AnswersDeepen'
  <2> SUFFICES ASSUME NEW i \in DOMAIN stdout, stdout[i].kind = "analysis",
                      stdout[i].from \notin retries
               PROVE  stdout[i].depth > latest'[stdout[i].from].depth
    BY <1>2 DEF AnalystInv, AnswersDeepen
  <2>1. stdout[i].from \in Requests /\ stdout[i].depth > latest[stdout[i].from].depth
        /\ stdout[i].depth > 0
    BY DEF AnalystInv, LinesAreSigned, AnswersDeepen
  <2>2. CASE stdout[i].from = r
    BY <2>1, <2>2, <1>1, <1>5
  <2>3. CASE stdout[i].from # r
    BY <2>1, <2>3, <1>1
  <2> QED
    BY <2>2, <2>3
<1>7. TakenIsReached'
  <2> SUFFICES ASSUME NEW q \in Requests \ retries, search[q] = "searching"
               PROVE  latest'[q].depth <= depth[q]
    BY <1>2 DEF TakenIsReached
  <2>1. CASE q = r
    BY <2>1, <1>1, <1>5 DEF AnalystInv, TypeOK
  <2>2. CASE q # r
    BY <2>2, <1>1 DEF AnalystInv, TakenIsReached
  <2> QED
    BY <2>1, <2>2
<1> QED
  BY <1>1, <1>3, <1>4, <1>6, <1>7 DEF AnalystInv

LEMMA AskStep ==
  ASSUME AnalystInv, NEW r \in Requests, Ask(r), UNCHANGED retries
  PROVE  AnalystInv'
<1>1. /\ at[r] = "away" /\ search[r] = "none" /\ latest[r] = Nothing
      /\ UNCHANGED <<latest, failure, depth, stdout, alive, running, retries>>
  BY DEF Ask, AnalystInv, Unasked, heardVars
<1>2. CASE running
  <2>1. /\ at' = [at EXCEPT ![r] = "sending"] /\ listeners' = Append(listeners, r)
        /\ search' = [search EXCEPT ![r] = IF alive THEN "searching" ELSE "none"]
    BY <1>2 DEF Ask
  <2>2. /\ at'[r] = "sending" /\ \A q \in Requests : q # r => at'[q] = at[q]
        /\ \A q \in Requests : q # r => search'[q] = search[q]
        /\ search'[r] \in {"none", "searching"}
    BY <2>1 DEF AnalystInv, TypeOK
  <2>3. TypeOK'
    BY <1>1, <2>1 DEF AnalystInv, TypeOK, Places
  <2>4. ListenersFit'
    <3>1. /\ DOMAIN listeners' = DOMAIN listeners \cup {Len(listeners) + 1}
          /\ \A i \in DOMAIN listeners : listeners'[i] = listeners[i]
          /\ listeners'[Len(listeners) + 1] = r
      BY <2>1 DEF AnalystInv, TypeOK
    <3>2. \A i \in DOMAIN listeners : listeners[i] # r
      BY <1>1 DEF AnalystInv, ListenersFit, InProgress
    <3> QED
      BY <2>2, <3>1, <3>2 DEF AnalystInv, ListenersFit, InProgress
  <2>5. \A i \in DOMAIN stdout : stdout[i].kind = "analysis" => stdout[i].from # r
    BY <1>1 DEF AnalystInv, LinesAreSigned
  <2>6. LinesAreSigned'
    BY <1>1, <2>2, <2>5 DEF AnalystInv, LinesAreSigned, Id
  <2>7. Unasked' /\ AnswersItsQuestion'
    BY <1>1, <2>2 DEF AnalystInv, Unasked, AnswersItsQuestion, Id
  <2>8. AnswersDeepen'
    BY <1>1, <2>2, <2>5 DEF AnalystInv, AnswersDeepen, LinesAreSigned
  <2>9. TakenIsReached'
    <3>1. Nothing.depth = 0 /\ depth[r] \in Nat
      BY DEF Nothing, AnalystInv, TypeOK
    <3> QED
      BY <1>1, <2>2, <3>1 DEF AnalystInv, TakenIsReached
  <2> QED
    BY <2>3, <2>4, <2>6, <2>7, <2>8, <2>9 DEF AnalystInv
<1>3. CASE ~running
  <2>1. at' = [at EXCEPT ![r] = "error"] /\ UNCHANGED <<listeners, search>>
    BY <1>3 DEF Ask
  <2>2. /\ at'[r] = "error" /\ \A q \in Requests : q # r => at'[q] = at[q]
        /\ TypeOK'
    BY <1>1, <2>1 DEF AnalystInv, TypeOK, Places
  <2>3. ListenersFit' /\ LinesAreSigned'
    BY <1>1, <2>1, <2>2 DEF AnalystInv, ListenersFit, InProgress, LinesAreSigned, Id
  <2>4. Unasked' /\ AnswersItsQuestion' /\ AnswersDeepen' /\ TakenIsReached'
    BY <1>1, <2>1, <2>2
       DEF AnalystInv, Unasked, AnswersItsQuestion, AnswersDeepen, TakenIsReached, Id
  <2> QED
    BY <2>2, <2>3, <2>4 DEF AnalystInv
<1> QED
  BY <1>2, <1>3

LEMMA RequestStep ==
  ASSUME AnalystInv, NEW r \in Requests, Sent(r) \/ Return(r) \/ ReviewLeaves,
         UNCHANGED retries
  PROVE  AnalystInv'
<1>1. CASE Sent(r) /\ at' = [at EXCEPT ![r] = "waiting"] /\ UNCHANGED <<listeners, heardVars>>
  <2>1. /\ at[r] = "sending"
        /\ UNCHANGED <<listeners, latest, failure, search, depth, stdout, alive, running, retries>>
    BY <1>1 DEF Sent, heardVars, engineVars
  <2>2. /\ at'[r] = "waiting" /\ \A q \in Requests : q # r => at'[q] = at[q]
        /\ TypeOK'
    BY <1>1, <2>1 DEF AnalystInv, TypeOK, Places
  <2>3. ListenersFit' /\ LinesAreSigned'
    BY <2>1, <2>2 DEF AnalystInv, ListenersFit, InProgress, LinesAreSigned, Id
  <2>4. Unasked' /\ AnswersItsQuestion' /\ AnswersDeepen' /\ TakenIsReached'
    BY <2>1, <2>2
       DEF AnalystInv, Unasked, AnswersItsQuestion, AnswersDeepen, TakenIsReached, Id
  <2> QED
    BY <2>2, <2>3, <2>4 DEF AnalystInv
<1>2. CASE Sent(r) /\ Leave(r, "error")
  BY <1>2, LeaveStep DEF Sent, InProgress, Places
<1>3. CASE Return(r)
  BY <1>3, LeaveStep DEF Return, Outcome, InProgress, Places
<1>4. CASE ReviewLeaves
  BY <1>4, LeaveStep DEF ReviewLeaves, Requests, InProgress, Places
<1> QED
  BY <1>1, <1>2, <1>3, <1>4 DEF Sent

(***************************************************************************)
(* A line is read: the rest of the pipe is as it was, and an answer is     *)
(* taken, if by anybody, by a request with its id.                         *)
(***************************************************************************)
LEMMA ReadFacts ==
  ASSUME AnalystInv, ReadLine
  PROVE  /\ stdout \in Seq(Messages) /\ stdout # << >> /\ stdout' \in Seq(Messages)
         /\ 1 \in DOMAIN stdout /\ Head(stdout) = stdout[1] /\ stdout[1] \in Messages
         /\ \A i \in DOMAIN stdout' : i + 1 \in DOMAIN stdout /\ stdout'[i] = stdout[i + 1]
                                     /\ i + 1 > 1
         /\ Len(stdout') = Len(stdout) - 1
         /\ UNCHANGED <<at, listeners, search, depth, alive, running>>
BY DEF AnalystInv, TypeOK, ReadLine, requestVars

LEMMA TakeFacts ==
  ASSUME AnalystInv, ReadLine, NEW m, m = Head(stdout)
  PROVE  \/ UNCHANGED <<latest, failure>>
         \/ \E r \in Requests :
              /\ at[r] \in InProgress
              /\ failure' \in [Requests -> BOOLEAN]
              /\ \/ UNCHANGED latest
                 \/ /\ m.kind = "analysis" /\ m.id = Id(r)
                    /\ latest' = [latest EXCEPT ![r] = m]
<1>1. CASE UNCHANGED heardVars
  BY <1>1 DEF heardVars
<1>2. ASSUME NEW i \in DOMAIN listeners, Claims(listeners[i], m), Take(listeners[i], m)
      PROVE  \E r \in Requests :
               /\ at[r] \in InProgress
               /\ failure' \in [Requests -> BOOLEAN]
               /\ \/ UNCHANGED latest
                  \/ /\ m.kind = "analysis" /\ m.id = Id(r)
                     /\ latest' = [latest EXCEPT ![r] = m]
  <2> DEFINE r == listeners[i]
  <2>1. r \in Requests /\ at[r] \in InProgress
    BY DEF AnalystInv, TypeOK, ListenersFit
  <2>2. m.kind \in {"analysis", "error"}
    BY ReadFacts DEF Messages
  <2>3. failure' \in [Requests -> BOOLEAN]
    BY <1>2, <2>1, <2>2 DEF Take, AnalystInv, TypeOK
  <2>4. CASE m.kind = "analysis"
    <3>1. m.id = Id(r)
      BY <1>2, <2>4 DEF Claims, Belongs
    <3>2. latest' = [latest EXCEPT ![r] = m]
      BY <1>2, <2>4 DEF Take
    <3> QED
      BY <2>1, <2>3, <2>4, <3>1, <3>2
  <2>5. CASE m.kind # "analysis"
    <3>1. latest' = latest
      BY <1>2, <2>1, <2>5 DEF Take, AnalystInv, TypeOK
    <3> QED
      BY <2>1, <2>3, <3>1
  <2> QED
    BY <2>4, <2>5
<1> QED
  BY <1>1, <1>2 DEF ReadLine, Dispatch

LEMMA ReadStep ==
  ASSUME AnalystInv, ReadLine, UNCHANGED retries
  PROVE  AnalystInv'
<1> DEFINE m == Head(stdout)
<1>1. /\ stdout # << >> /\ stdout' \in Seq(Messages)
      /\ 1 \in DOMAIN stdout /\ m = stdout[1] /\ m \in Messages
      /\ \A i \in DOMAIN stdout' : i + 1 \in DOMAIN stdout /\ stdout'[i] = stdout[i + 1]
                                  /\ i + 1 > 1
      /\ UNCHANGED <<at, listeners, search, depth, alive, running>>
  BY ReadFacts
<1>2. DOMAIN stdout' \subseteq Nat /\ DOMAIN stdout \subseteq Nat
  BY <1>1 DEF AnalystInv, TypeOK
<1> HIDE DEF m
<1>3. LinesAreSigned' /\ ListenersFit'
  BY <1>1 DEF AnalystInv, LinesAreSigned, ListenersFit, Id
\* What is still in the pipe deepens beyond what was read.
<1>4. ASSUME NEW i \in DOMAIN stdout', stdout'[i].kind = "analysis"
      PROVE  /\ stdout'[i].from \in Requests /\ stdout'[i].depth > 0
             /\ search[stdout'[i].from] = "searching" => stdout'[i].depth <= depth[stdout'[i].from]
             /\ stdout'[i].from \notin retries => stdout'[i].depth > latest[stdout'[i].from].depth
             /\ m.kind = "analysis" /\ m.from = stdout'[i].from => m.depth < stdout'[i].depth
             /\ \A k \in DOMAIN stdout' :
                  k < i /\ stdout'[k].kind = "analysis" /\ stdout'[k].from = stdout'[i].from
                    => stdout'[k].depth < stdout'[i].depth
  <2>1. /\ i + 1 \in DOMAIN stdout /\ stdout'[i] = stdout[i + 1] /\ 1 < i + 1
        /\ stdout[i + 1].kind = "analysis"
    BY <1>1, <1>2, <1>4
  <2>2. ASSUME NEW k \in DOMAIN stdout', k < i
        PROVE  k + 1 \in DOMAIN stdout /\ stdout'[k] = stdout[k + 1] /\ k + 1 < i + 1
    BY <1>1, <1>2, <2>2
  <2> QED
    BY <1>1, <2>1, <2>2 DEF AnalystInv, LinesAreSigned, AnswersDeepen
<1>5. CASE UNCHANGED latest /\ failure' \in [Requests -> BOOLEAN]
  <2>1. TypeOK' /\ Unasked' /\ AnswersItsQuestion' /\ TakenIsReached'
    BY <1>1, <1>5 DEF AnalystInv, TypeOK, Unasked, AnswersItsQuestion, TakenIsReached, Id
  <2>2. AnswersDeepen'
    BY <1>1, <1>4, <1>5 DEF AnswersDeepen
  <2> QED
    BY <1>3, <2>1, <2>2 DEF AnalystInv
<1>6. ASSUME NEW r \in Requests, at[r] \in InProgress, failure' \in [Requests -> BOOLEAN],
             m.kind = "analysis", m.id = Id(r), latest' = [latest EXCEPT ![r] = m]
      PROVE  AnalystInv'
  <2>1. m.from \in Requests /\ Id(m.from) = Id(r)
    BY <1>1, <1>6 DEF AnalystInv, LinesAreSigned
  <2>2. r \notin retries => m.from = r
    BY <2>1, IdFacts
  <2>3. latest'[r] = m /\ \A q \in Requests : q # r => latest'[q] = latest[q]
    BY <1>6 DEF AnalystInv, TypeOK
  <2>4. TypeOK'
    BY <1>1, <1>6 DEF AnalystInv, TypeOK
  <2>5. Unasked' /\ AnswersItsQuestion'
    BY <1>1, <1>6, <2>1, <2>3 DEF AnalystInv, Unasked, AnswersItsQuestion, InProgress, Id
  <2>6. AnswersDeepen'
    <3> SUFFICES ASSUME NEW i \in DOMAIN stdout', stdout'[i].kind = "analysis",
                        stdout'[i].from \notin retries
                 PROVE  stdout'[i].depth > latest'[stdout'[i].from].depth
      BY <1>1, <1>4 DEF AnswersDeepen
    <3>1. CASE stdout'[i].from = r
      <4>1. m.from = stdout'[i].from
        BY <2>2, <3>1
      <4>2. m.depth < stdout'[i].depth
        BY <1>4, <1>6, <4>1
      <4>3. stdout'[i] \in Messages
        BY <1>1
      <4>4. m.depth \in Nat /\ stdout'[i].depth \in Nat
        BY <1>1, <4>3 DEF Messages
      <4> QED
        BY <2>3, <3>1, <4>2, <4>4
    <3>2. CASE stdout'[i].from # r
      BY <1>4, <2>3, <3>2
    <3> QED
      BY <3>1, <3>2
  <2>7. TakenIsReached'
    <3> SUFFICES ASSUME NEW q \in Requests \ retries, search[q] = "searching"
                 PROVE  latest'[q].depth <= depth[q]
      BY <1>1 DEF TakenIsReached
    <3>1. CASE q = r
      BY <1>1, <1>6, <2>2, <2>3, <3>1 DEF AnalystInv, AnswersDeepen
    <3>2. CASE q # r
      BY <2>3, <3>2 DEF AnalystInv, TakenIsReached
    <3> QED
      BY <3>1, <3>2
  <2> QED
    BY <1>3, <2>4, <2>5, <2>6, <2>7 DEF AnalystInv
<1>7. UNCHANGED <<latest, failure>> => failure' \in [Requests -> BOOLEAN]
  BY DEF AnalystInv, TypeOK
<1> QED
  BY <1>5, <1>6, <1>7, TakeFacts DEF m

(***************************************************************************)
(* A line is written.                                                      *)
(***************************************************************************)
LEMMA WriteFacts ==
  ASSUME TypeOK, NEW m \in Messages, Write(m)
  PROVE  /\ stdout' \in Seq(Messages)
         /\ Len(stdout) + 1 \in Nat /\ stdout'[Len(stdout) + 1] = m
         /\ DOMAIN stdout' = DOMAIN stdout \cup {Len(stdout) + 1}
         /\ \A i \in DOMAIN stdout : i < Len(stdout) + 1 /\ stdout'[i] = stdout[i]
BY DEF TypeOK, Write

LEMMA AnswerStep ==
  ASSUME AnalystInv, NEW r \in Requests, search[r] = "searching",
         NEW final \in BOOLEAN, Write(Answer(r, depth[r] + 1, final)),
         \/ UNCHANGED search /\ depth' = [depth EXCEPT ![r] = @ + 1]
         \/ search' = [search EXCEPT ![r] = "over"] /\ depth' = [depth EXCEPT ![r] = 0],
         UNCHANGED <<requestVars, heardVars, alive, running, retries>>
  PROVE  AnalystInv'
<1> DEFINE m == Answer(r, depth[r] + 1, final)
           n == Len(stdout) + 1
<1>1. m \in Messages /\ m.kind = "analysis" /\ m.id = Id(r) /\ m.from = r
      /\ m.depth = depth[r] + 1 /\ depth[r] \in Nat
  BY IdFacts DEF AnalystInv, TypeOK, Answer, Messages
<1>2. UNCHANGED <<at, listeners, latest, failure, alive, running, retries>>
  BY DEF requestVars, heardVars
<1>3. /\ \A q \in Requests : q # r => search'[q] = search[q] /\ depth'[q] = depth[q]
      /\ search'[r] \in {"searching", "over"}
      /\ search'[r] = "searching" => depth'[r] = depth[r] + 1
      /\ search' \in [Requests -> {"none", "searching", "over"}]
      /\ depth' \in [Requests -> Nat]
  <2>1. CASE UNCHANGED search /\ depth' = [depth EXCEPT ![r] = @ + 1]
    BY <2>1 DEF AnalystInv, TypeOK
  <2>2. CASE search' = [search EXCEPT ![r] = "over"] /\ depth' = [depth EXCEPT ![r] = 0]
    BY <2>2 DEF AnalystInv, TypeOK
  <2> QED
    BY <2>1, <2>2
<1>4. /\ stdout' \in Seq(Messages) /\ n \in Nat /\ stdout'[n] = m
      /\ DOMAIN stdout' = DOMAIN stdout \cup {n}
      /\ \A i \in DOMAIN stdout : i < n /\ stdout'[i] = stdout[i]
  BY <1>1, WriteFacts DEF AnalystInv
<1> HIDE DEF m, n
<1>5. TypeOK' /\ ListenersFit'
  BY <1>2, <1>3, <1>4 DEF AnalystInv, TypeOK, ListenersFit
<1>6. LinesAreSigned' /\ Unasked' /\ AnswersItsQuestion'
  BY <1>1, <1>2, <1>3, <1>4 DEF AnalystInv, LinesAreSigned, Unasked, AnswersItsQuestion, Id
<1>7. r \notin retries => latest[r].depth <= depth[r] /\ latest[r].depth \in Nat
  <2>1. latest[r] \in Messages \cup {Nothing}
    BY DEF AnalystInv, TypeOK
  <2>2. latest[r].depth \in Nat
    BY <2>1 DEF Messages, Nothing
  <2> QED
    BY <2>2 DEF AnalystInv, TakenIsReached
<1>8. TakenIsReached'
  <2> SUFFICES ASSUME NEW q \in Requests \ retries, search'[q] = "searching"
               PROVE  latest[q].depth <= depth'[q]
    BY <1>2 DEF TakenIsReached
  <2>1. CASE q = r
    BY <1>1, <1>3, <1>7, <2>1
  <2>2. CASE q # r
    BY <1>3, <2>2 DEF AnalystInv, TakenIsReached
  <2> QED
    BY <2>1, <2>2
\* Old lines, then the new one.
<1>9. ASSUME NEW i \in DOMAIN stdout, stdout[i].kind = "analysis"
      PROVE  /\ stdout[i].from \in Requests /\ stdout[i].depth > 0 /\ stdout[i].depth \in Nat
             /\ search'[stdout[i].from] = "searching" => stdout[i].depth <= depth'[stdout[i].from]
             /\ stdout[i].from \notin retries => stdout[i].depth > latest[stdout[i].from].depth
             /\ stdout[i].from = r => stdout[i].depth <= depth[r]
             /\ \A k \in DOMAIN stdout :
                  k < i /\ stdout[k].kind = "analysis" /\ stdout[k].from = stdout[i].from
                    => stdout[k].depth < stdout[i].depth
  <2>1. stdout[i] \in Messages
    BY DEF AnalystInv, TypeOK
  <2>2. stdout[i].depth \in Nat /\ stdout[i].from \in Requests
    BY <2>1, <1>9 DEF Messages, AnalystInv, LinesAreSigned
  <2>3. /\ stdout[i].depth > 0
        /\ search[stdout[i].from] = "searching" => stdout[i].depth <= depth[stdout[i].from]
        /\ stdout[i].from \notin retries => stdout[i].depth > latest[stdout[i].from].depth
        /\ \A k \in DOMAIN stdout :
             k < i /\ stdout[k].kind = "analysis" /\ stdout[k].from = stdout[i].from
               => stdout[k].depth < stdout[i].depth
    BY <1>9 DEF AnalystInv, AnswersDeepen
  <2>4. search'[stdout[i].from] = "searching" => stdout[i].depth <= depth'[stdout[i].from]
    <3>1. CASE stdout[i].from = r
      BY <1>1, <1>3, <2>2, <2>3, <3>1
    <3>2. CASE stdout[i].from # r
      BY <1>3, <2>2, <2>3, <3>2
    <3> QED
      BY <3>1, <3>2
  <2> QED
    BY <2>2, <2>3, <2>4
<1>10. AnswersDeepen'
  <2>1. ASSUME NEW i \in DOMAIN stdout', stdout'[i].kind = "analysis"
        PROVE  /\ stdout'[i].depth > 0
               /\ search'[stdout'[i].from] = "searching" => stdout'[i].depth <= depth'[stdout'[i].from]
               /\ stdout'[i].from \notin retries => stdout'[i].depth > latest[stdout'[i].from].depth
               /\ \A k \in DOMAIN stdout' :
                    k < i /\ stdout'[k].kind = "analysis" /\ stdout'[k].from = stdout'[i].from
                      => stdout'[k].depth < stdout'[i].depth
    <3>1. DOMAIN stdout \subseteq Nat
      BY DEF AnalystInv, TypeOK
    <3>2. CASE i = n
      <4>1. stdout'[i].depth > 0 /\ stdout'[i].from = r /\ stdout'[i].depth = depth[r] + 1
        BY <1>1, <1>4, <3>2
      <4>2. ASSUME NEW k \in DOMAIN stdout', k < i, stdout'[k].kind = "analysis",
                   stdout'[k].from = r
            PROVE  stdout'[k].depth < depth[r] + 1
        <5>1. k \in DOMAIN stdout /\ stdout'[k] = stdout[k]
          BY <1>4, <3>2, <4>2
        <5> QED
          BY <1>1, <1>9, <4>2, <5>1
      <4> QED
        BY <1>1, <1>3, <1>7, <4>1, <4>2
    <3>3. CASE i # n
      <4>1. i \in DOMAIN stdout /\ stdout'[i] = stdout[i] /\ i < n
        BY <1>4, <3>3
      <4>2. ASSUME NEW k \in DOMAIN stdout', k < i
            PROVE  k \in DOMAIN stdout /\ stdout'[k] = stdout[k]
        BY <1>4, <3>1, <4>1, <4>2
      <4> QED
        BY <1>9, <2>1, <4>1, <4>2
    <3> QED
      BY <3>2, <3>3
  <2> QED
    BY <1>2, <2>1 DEF AnswersDeepen
<1> QED
  BY <1>5, <1>6, <1>8, <1>10 DEF AnalystInv

LEMMA EngineStep ==
  ASSUME AnalystInv, Engine, UNCHANGED retries
  PROVE  AnalystInv'
<1>1. ASSUME NEW r \in Requests, Deepen(r) PROVE AnalystInv'
  BY <1>1, AnswerStep DEF Deepen
<1>2. ASSUME NEW r \in Requests, Land(r) PROVE AnalystInv'
  BY <1>2, AnswerStep DEF Land
<1>3. ASSUME NEW r \in Requests, Refuse(r) PROVE AnalystInv'
  <2>1. /\ UNCHANGED <<at, listeners, latest, failure, depth, alive, running>>
        /\ search' = [search EXCEPT ![r] = "over"]
    BY <1>3 DEF Refuse, requestVars, heardVars
  <2>2. /\ \A q \in Requests : q # r => search'[q] = search[q]
        /\ search'[r] = "over" /\ search[r] = "searching"
        /\ search' \in [Requests -> {"none", "searching", "over"}]
    BY <1>3, <2>1 DEF Refuse, AnalystInv, TypeOK
  <2>3. PICK id \in {Id(r), Absent} : Write(Complaint(id))
    BY <1>3 DEF Refuse
  <2>4. Complaint(id) \in Messages /\ Complaint(id).kind = "error"
    BY IdFacts DEF Complaint, Messages
  <2> DEFINE n == Len(stdout) + 1
  <2>5. /\ stdout' \in Seq(Messages) /\ n \in Nat /\ stdout'[n].kind = "error"
        /\ DOMAIN stdout' = DOMAIN stdout \cup {n}
        /\ \A i \in DOMAIN stdout : i < n /\ stdout'[i] = stdout[i]
    BY <2>3, <2>4, WriteFacts DEF AnalystInv
  <2> HIDE DEF n
  <2>6. \A i \in DOMAIN stdout' : stdout'[i].kind = "analysis" =>
          i \in DOMAIN stdout /\ stdout'[i] = stdout[i]
    BY <2>5
  <2>7. TypeOK' /\ ListenersFit'
    BY <2>1, <2>2, <2>5 DEF AnalystInv, TypeOK, ListenersFit
  <2>8. LinesAreSigned' /\ Unasked' /\ AnswersItsQuestion' /\ TakenIsReached'
    BY <2>1, <2>2, <2>6
       DEF AnalystInv, LinesAreSigned, Unasked, AnswersItsQuestion, TakenIsReached, Id
  <2>9. AnswersDeepen'
    <3>1. ASSUME NEW i \in DOMAIN stdout
          PROVE  stdout[i].kind = "analysis" /\ search'[stdout[i].from] = "searching" =>
                   search[stdout[i].from] = "searching"
      BY <2>2 DEF AnalystInv, LinesAreSigned
    <3> QED
      BY <2>1, <2>6, <3>1 DEF AnalystInv, AnswersDeepen
  <2> QED
    BY <2>7, <2>8, <2>9 DEF AnalystInv
<1>4. CASE Exit \/ Reap
  <2>1. /\ UNCHANGED <<at, listeners, latest, failure, search, depth, stdout>>
        /\ alive' \in BOOLEAN /\ running' \in BOOLEAN
    BY <1>4 DEF Exit, Reap, requestVars, heardVars, AnalystInv, TypeOK
  <2>2. TypeOK' /\ ListenersFit' /\ LinesAreSigned' /\ Unasked' /\ AnswersItsQuestion'
    BY <2>1 DEF AnalystInv, TypeOK, ListenersFit, LinesAreSigned, Unasked, AnswersItsQuestion, Id
  <2>3. AnswersDeepen' /\ TakenIsReached'
    BY <2>1 DEF AnalystInv, AnswersDeepen, TakenIsReached
  <2> QED
    BY <2>2, <2>3 DEF AnalystInv
<1> QED
  BY <1>1, <1>2, <1>3, <1>4 DEF Engine

LEMMA NextAnalyst == AnalystInv /\ [Next]_vars => AnalystInv'
<1> SUFFICES ASSUME AnalystInv, [Next]_vars PROVE AnalystInv'
  OBVIOUS
<1>1. CASE UNCHANGED vars
  <2>1. UNCHANGED <<retries, at, listeners, latest, failure, search, depth, stdout, alive, running>>
    BY <1>1 DEF vars, requestVars, heardVars, engineVars
  <2>2. TypeOK' /\ ListenersFit' /\ LinesAreSigned' /\ Unasked' /\ AnswersItsQuestion'
    BY <2>1 DEF AnalystInv, TypeOK, ListenersFit, LinesAreSigned, Unasked, AnswersItsQuestion, Id
  <2>3. AnswersDeepen' /\ TakenIsReached'
    BY <2>1 DEF AnalystInv, AnswersDeepen, TakenIsReached
  <2> QED
    BY <2>2, <2>3 DEF AnalystInv
<1>2. CASE ReviewLeaves /\ UNCHANGED retries
  BY <1>2, RequestStep DEF Requests
<1> QED
  BY <1>1, <1>2, AskStep, RequestStep, ReadStep, EngineStep DEF Next

THEOREM AnalystInvariant == Spec => []AnalystInv
  BY InitAnalyst, NextAnalyst, PTL DEF Spec

(***************************************************************************)
(* Nobody is given the answer to another question.                         *)
(***************************************************************************)
THEOREM NobodyIsMisinformed == Spec => []AnswersItsQuestion
  BY AnalystInvariant, PTL DEF AnalystInv

LEMMA TailIsShorter ==
  ASSUME NEW S, NEW s \in Seq(S), s # << >>
  PROVE  Tail(s) # s /\ \A x : Tail(s) # Append(s, x)
<1>1. Len(Tail(s)) = Len(s) - 1 /\ Len(s) \in Nat
  BY HeadTailProperties, LenProperties
<1>2. ASSUME NEW x PROVE Len(Append(s, x)) = Len(s) + 1
  <2>1. S \subseteq S \cup {x}
    OBVIOUS
  <2>2. s \in Seq(S \cup {x})
    BY <2>1, SeqMonotonic
  <2> QED
    BY <2>2, AppendProperties
<1>3. ASSUME NEW x, Tail(s) = Append(s, x) PROVE FALSE
  <2>1. Len(Tail(s)) = Len(Append(s, x))
    BY <1>3, Zenon
  <2>2. Len(s) - 1 = Len(s) + 1
    BY <1>1, <1>2, <2>1
  <2> QED
    BY <1>1, <2>2
<1>4. ASSUME Tail(s) = s PROVE FALSE
  BY <1>1, <1>4
<1> QED
  BY <1>3, <1>4

(***************************************************************************)
(* No answer goes astray.                                                  *)
(***************************************************************************)
LEMMA AnswerArrives ==
  ASSUME AnalystInv, [Next]_vars, NEW r \in Requests \ retries,
         stdout # << >>, stdout' = Tail(stdout),
         Head(stdout).kind = "analysis", Head(stdout).from = r, at[r] \in InProgress
  PROVE  latest'[r] = Head(stdout)
<1> DEFINE m == Head(stdout)
<1>1. stdout \in Seq(Messages) /\ m = stdout[1] /\ 1 \in DOMAIN stdout
      /\ Len(stdout') = Len(stdout) - 1 /\ Len(stdout) \in Nat
  BY DEF AnalystInv, TypeOK
<1>2. ReadLine
  <2>1. stdout' # stdout /\ \A x : stdout' # Append(stdout, x)
    BY <1>1, TailIsShorter
  <2> QED
    BY <2>1 DEF Next, Ask, Sent, Return, ReviewLeaves, Engine, Deepen, Land, Refuse, Write,
                Exit, Reap, vars, engineVars
<1>3. m.id = Id(r)
  BY <1>1 DEF AnalystInv, LinesAreSigned
<1>4. \A q \in Requests : Claims(q, m) <=> q = r
  BY <1>3, IdFacts DEF Claims, Belongs
<1>5. PICK i \in DOMAIN listeners : listeners[i] = r
  BY DEF AnalystInv, ListenersFit
<1>6. \A k \in DOMAIN listeners : Claims(listeners[k], m) <=> k = i
  BY <1>4, <1>5 DEF AnalystInv, TypeOK, ListenersFit
<1>7. Take(r, m)
  BY <1>2, <1>5, <1>6 DEF ReadLine, Dispatch
<1> QED
  BY <1>7 DEF Take, AnalystInv, TypeOK

THEOREM NoAnswerGoesAstray == Spec => NothingIsStolen
<1>1. AnalystInv /\ [Next]_vars =>
        [\A r \in Requests \ retries :
           LET m == Head(stdout)
           IN  /\ stdout # << >> /\ stdout' = Tail(stdout)
               /\ m.kind = "analysis" /\ m.from = r /\ at[r] \in InProgress
               => latest'[r] = m]_vars
  BY AnswerArrives
<1> QED
  BY <1>1, AnalystInvariant, PTL DEF Spec, NothingIsStolen

(***************************************************************************)
(* No interim result replaces a deeper one.                                *)
(***************************************************************************)
LEMMA AnswersImprove ==
  ASSUME AnalystInv, [Next]_vars, NEW r \in Requests \ retries, at'[r] \in InProgress
  PROVE  latest'[r].depth >= latest[r].depth
<1>1. latest[r].depth \in Nat
  <2>1. latest[r] \in Messages \cup {Nothing}
    BY DEF AnalystInv, TypeOK
  <2> QED
    BY <2>1 DEF Messages, Nothing
<1>2. ASSUME NEW q \in Requests, at[q] \in InProgress, NEW place \in Places,
             place \notin InProgress, Leave(q, place)
      PROVE  latest'[r] = latest[r]
  <2>1. at'[q] = place /\ \A p \in Requests : p # q => latest'[p] = latest[p]
    BY <1>2, LeaveFacts DEF AnalystInv
  <2> QED
    BY <1>2, <2>1
<1>3. CASE ReadLine
  <2>1. CASE UNCHANGED latest
    BY <1>1, <2>1
  <2>2. ASSUME NEW q \in Requests, Head(stdout).kind = "analysis", Head(stdout).id = Id(q),
               latest' = [latest EXCEPT ![q] = Head(stdout)]
        PROVE  latest'[r].depth >= latest[r].depth
    <3>1. CASE q = r
      <4>1. /\ 1 \in DOMAIN stdout /\ Head(stdout) = stdout[1]
            /\ stdout[1] \in Messages
        BY <1>3, ReadFacts
      <4>2. stdout[1].from \in Requests /\ Id(stdout[1].from) = Id(r)
        BY <2>2, <3>1, <4>1 DEF AnalystInv, LinesAreSigned
      <4>3. stdout[1].from = r
        BY <4>2, IdFacts
      <4>4. stdout[1].depth > latest[r].depth
        BY <2>2, <4>1, <4>3 DEF AnalystInv, AnswersDeepen
      <4>5. latest'[r] = stdout[1] /\ stdout[1].depth \in Nat
        BY <2>2, <3>1, <4>1 DEF AnalystInv, TypeOK, Messages
      <4> QED
        BY <1>1, <4>4, <4>5
    <3>2. CASE q # r
      <4>1. latest'[r] = latest[r]
        BY <2>2, <3>2 DEF AnalystInv, TypeOK
      <4> QED
        BY <1>1, <4>1
    <3> QED
      BY <3>1, <3>2
  <2> QED
    BY <1>3, <2>1, <2>2, TakeFacts
<1>4. CASE UNCHANGED latest
  BY <1>1, <1>4
<1>5. CASE \E q \in Requests : Sent(q) /\ ~UNCHANGED latest
  <2>1. PICK q \in Requests : Sent(q) /\ ~UNCHANGED latest
    BY <1>5
  <2>2. Leave(q, "error") /\ at[q] = "sending"
    BY <2>1 DEF Sent, heardVars
  <2> QED
    BY <1>1, <1>2, <2>2 DEF InProgress, Places
<1>6. CASE \E q \in Requests : Return(q)
  BY <1>1, <1>2, <1>6 DEF Return, Outcome, InProgress, Places
<1>7. CASE ReviewLeaves
  BY <1>1, <1>2, <1>7 DEF ReviewLeaves, Requests, InProgress, Places
<1>8. CASE (\E q \in Requests : Ask(q)) \/ Engine \/ UNCHANGED vars
  BY <1>4, <1>8 DEF Ask, Engine, Deepen, Land, Refuse, Exit, Reap, vars, heardVars
<1> QED
  BY <1>3, <1>4, <1>5, <1>6, <1>7, <1>8 DEF Next

THEOREM AnswersOnlyImprove == Spec => LastIsBest
<1>1. AnalystInv /\ [Next]_vars =>
        [\A r \in Requests \ retries :
           at'[r] \in InProgress => latest'[r].depth >= latest[r].depth]_vars
  BY AnswersImprove
<1> QED
  BY <1>1, AnalystInvariant, PTL DEF Spec, LastIsBest
=============================================================================
