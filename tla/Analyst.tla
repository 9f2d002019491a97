-------------------------------- MODULE Analyst --------------------------------
(***************************************************************************)
(* Several requests on one engine: the analyses of app/analysis.py, each   *)
(* with a person waiting, and a review, known by its listener.  The reader *)
(* of app/engine.py offers each response to the listeners in order, until  *)
(* one claims it.  The engine works on all queries at once and answers in  *)
(* any order; its answers to one query deepen.                             *)
(*                                                                         *)
(* An answer stands for what it says by its depth, the visits reached, and *)
(* carries the request whose search it comes from, which the code does not *)
(* see.                                                                    *)
(***************************************************************************)
EXTENDS Protocol, Sequences, FiniteSets

CONSTANTS
  Asks,       \* analyses asked of the worker
  Review,     \* the review
  Shared,     \* the one id of a request that is tried again
  MaxDepth,   \* BOUND: the interim results of one search
  PipeBound   \* BOUND: the responses written and not yet read

ASSUME AnalystAssumption ==
  /\ Review \notin Asks /\ Absent \notin Asks \cup {Review, Shared}
  /\ Shared \notin Asks \cup {Review}
  /\ MaxDepth \in Nat /\ PipeBound \in Nat

Requests == Asks \cup {Review}

VARIABLES
  retries,     \* analyses that are one request tried again, under one id
  at,          \* where each request is
  listeners,   \* _listeners
  latest,      \* the answer each holds: the last one it was given
  failure,     \* it has been told of an error
  search,      \* what the engine does about each request
  depth,       \* how deep that search has got
  stdout,      \* responses written and not yet read
  alive, running   \* the process exists; its return code is None

\* The id a request's query goes by.
Id(r) == IF r \in retries THEN Shared ELSE r

requestVars == <<at, listeners>>
heardVars == <<latest, failure>>
engineVars == <<search, depth, stdout, alive, running>>
vars == <<retries, requestVars, heardVars, engineVars>>

Places == {"away", "sending", "waiting", "answered", "unavailable", "error"}

Answer(q, d, final) ==
  [kind |-> "analysis", id |-> Id(q), final |-> final, from |-> q, depth |-> d]
Complaint(id) ==
  [kind |-> "error", id |-> id, final |-> FALSE, from |-> Absent, depth |-> 0]
Nothing == [kind |-> "none", id |-> Absent, final |-> FALSE, from |-> Absent, depth |-> 0]

Messages ==
  [kind : {"analysis", "error"}, id : Requests \cup {Shared, Absent}, final : BOOLEAN,
   from : Requests \cup {Absent}, depth : Nat]

TypeOK ==
  /\ retries \subseteq Asks
  /\ at \in [Requests -> Places]
  /\ listeners \in Seq(Requests)
  /\ latest \in [Requests -> Messages \cup {Nothing}]
  /\ failure \in [Requests -> BOOLEAN]
  /\ search \in [Requests -> {"none", "searching", "over"}]
  /\ depth \in [Requests -> Nat]
  /\ stdout \in Seq(Messages)
  /\ alive \in BOOLEAN /\ running \in BOOLEAN

Init ==
  /\ retries \in {R \in SUBSET Asks : Cardinality(R) # 1}
  /\ at = [r \in Requests |-> "away"]
  /\ listeners = << >>
  /\ latest = [r \in Requests |-> Nothing]
  /\ failure = [r \in Requests |-> FALSE]
  /\ search = [r \in Requests |-> "none"] /\ depth = [r \in Requests |-> 0]
  /\ stdout = << >>
  /\ alive = TRUE /\ running = TRUE

-------------------------------------------------------------------------------
\* What was heard is gone with the call.
Forget(r, place) ==
  /\ at' = [at EXCEPT ![r] = place]
  /\ latest' = [latest EXCEPT ![r] = Nothing]
  /\ failure' = [failure EXCEPT ![r] = FALSE]

\* MUTANT of Leave: the listener stays on the list.
LeaveListening(r, place) == Forget(r, place) /\ UNCHANGED listeners

\* remove_listener, on every way out.
Leave(r, place) ==
  LET i == CHOOSE k \in DOMAIN listeners : listeners[k] = r
  IN  /\ Forget(r, place)
      /\ listeners' = [k \in 1 .. Len(listeners) - 1 |->
                         listeners[IF k < i THEN k ELSE k + 1]]

\* add_listener, then send() up to its wait for the write.  Without a process
\* it raises EngineNotRunning, which nobody takes for AnalysisFailed.
Ask(r) ==
  /\ at[r] = "away"
  /\ IF running
       THEN /\ at' = [at EXCEPT ![r] = "sending"]
            /\ listeners' = Append(listeners, r)
            /\ search' = [search EXCEPT ![r] = IF alive THEN "searching" ELSE "none"]
       ELSE /\ at' = [at EXCEPT ![r] = "error"]
            /\ UNCHANGED <<listeners, search>>
  /\ UNCHANGED <<heardVars, depth, stdout, alive, running>>

\* The query is written.  Waiting for that raises if the process has gone.
Sent(r) ==
  /\ at[r] = "sending"
  /\ \/ at' = [at EXCEPT ![r] = "waiting"] /\ UNCHANGED <<listeners, heardVars>>
     \/ ~alive /\ Leave(r, "error")
  /\ UNCHANGED engineVars

\* What becomes of an analysis, and the status main.py answers it with.
Outcome(r) ==
  IF failure[r] \/ latest[r] = Nothing THEN "unavailable" ELSE "answered"

\* The event is set by the final answer or an error, or the timeout is over,
\* which may be at any time.
Return(r) ==
  /\ r \in Asks /\ at[r] = "waiting"
  /\ Leave(r, Outcome(r))
  /\ UNCHANGED engineVars

\* The review ends or is cancelled; module Review says when.
ReviewLeaves ==
  /\ at[Review] \in {"sending", "waiting"}
  /\ Leave(Review, "answered")
  /\ UNCHANGED engineVars

-------------------------------------------------------------------------------
\* MUTANT of Claims: an analysis claims whatever answer it is offered.
ClaimsAny(r, m) ==
  IF r = Review THEN Belongs(Id(r), m) ELSE m.kind = "analysis" \/ m.id = Id(r)

\* The review's tracker claims errors that name nobody, an analysis does not.
Claims(r, m) ==
  IF r = Review THEN Belongs(Id(r), m) ELSE m.id = Id(r)

\* MUTANT of Take: the answer held is cleared before the response is looked at.
TakeClearing(r, m) ==
  /\ failure' = [failure EXCEPT ![r] = @ \/ m.kind = "error"]
  /\ latest' = [latest EXCEPT ![r] = IF m.kind = "analysis" THEN m ELSE Nothing]

\* The listener of analyse(): an error fails it, an answer replaces the last.
Take(r, m) ==
  /\ failure' = [failure EXCEPT ![r] = @ \/ m.kind = "error"]
  /\ latest' = [latest EXCEPT ![r] = IF m.kind = "analysis" THEN m ELSE @]

\* dispatch: to the first listener that claims it, or to nobody.
Dispatch(m) ==
  LET claimants == {i \in DOMAIN listeners : Claims(listeners[i], m)}
  IN  \/ \E i \in claimants :
           (\A k \in claimants : i <= k) /\ Take(listeners[i], m)
      \/ claimants = {} /\ UNCHANGED heardVars

ReadLine ==
  /\ stdout # << >>
  /\ stdout' = Tail(stdout)
  /\ Dispatch(Head(stdout))
  /\ UNCHANGED <<requestVars, search, depth, alive, running>>

-------------------------------------------------------------------------------
Write(m) == Len(stdout) < PipeBound /\ stdout' = Append(stdout, m)

Deepen(r) ==
  /\ r \in Asks /\ alive /\ search[r] = "searching" /\ depth[r] < MaxDepth
  /\ depth' = [depth EXCEPT ![r] = @ + 1]
  /\ Write(Answer(r, depth[r] + 1, FALSE))
  /\ UNCHANGED <<search, alive, running, requestVars, heardVars>>

Land(r) ==
  /\ alive /\ search[r] = "searching"
  /\ depth' = [depth EXCEPT ![r] = 0]
  /\ search' = [search EXCEPT ![r] = "over"]
  /\ Write(Answer(r, depth[r] + 1, TRUE))
  /\ UNCHANGED <<alive, running, requestVars, heardVars>>

\* The query is refused, by its id or by none.
Refuse(r) ==
  /\ alive /\ search[r] = "searching" /\ depth[r] = 0
  /\ search' = [search EXCEPT ![r] = "over"]
  /\ \E id \in {Id(r), Absent} : Write(Complaint(id))
  /\ UNCHANGED <<depth, alive, running, requestVars, heardVars>>

Exit ==
  /\ alive /\ alive' = FALSE
  /\ UNCHANGED <<search, depth, stdout, running, requestVars, heardVars>>

Reap ==
  /\ ~alive /\ running /\ running' = FALSE
  /\ UNCHANGED <<search, depth, stdout, alive, requestVars, heardVars>>

Engine == (\E r \in Requests : Deepen(r) \/ Land(r) \/ Refuse(r)) \/ Exit \/ Reap

Next ==
  /\ \/ \E r \in Requests : Ask(r) \/ Sent(r) \/ Return(r)
     \/ ReviewLeaves \/ ReadLine \/ Engine
  /\ UNCHANGED retries

Spec == Init /\ [][Next]_vars

-------------------------------------------------------------------------------
InProgress == {"sending", "waiting"}

(***************************************************************************)
(* No answer goes astray: whatever a request's own search has written      *)
(* reaches that request if it is still there when the line is read, and    *)
(* is not claimed by another (engine.py:151-174).  Not so for requests     *)
(* that share an id, among which the first on the list takes all.          *)
(***************************************************************************)
NothingIsStolen ==
  [][\A r \in Requests \ retries :
       LET m == Head(stdout)
       IN  /\ stdout # << >> /\ stdout' = Tail(stdout)
           /\ m.kind = "analysis" /\ m.from = r /\ at[r] \in InProgress
           => latest'[r] = m]_vars

(***************************************************************************)
(* Nobody is given the answer to another question: not from the late       *)
(* answers of a request that gave up, nor from the review (analysis.py:72).*)
(***************************************************************************)
AnswersItsQuestion ==
  \A r \in Requests : latest[r] # Nothing => Id(latest[r].from) = Id(r)

(***************************************************************************)
(* Keeping the last answer is keeping the best one (analysis.py:75-77): no *)
(* interim result replaces a deeper one.                                   *)
(***************************************************************************)
LastIsBest ==
  [][\A r \in Requests \ retries :
       at'[r] \in InProgress => latest'[r].depth >= latest[r].depth]_vars

(***************************************************************************)
(* The inductive invariant behind the first three.                         *)
(***************************************************************************)
\* Whoever is in progress is on the list, once, and nobody else is.
ListenersFit ==
  /\ \A r \in Requests : at[r] \in InProgress <=> \E i \in DOMAIN listeners : listeners[i] = r
  /\ \A i, j \in DOMAIN listeners : listeners[i] = listeners[j] => i = j

\* An answer in the pipe carries the id of the request it is about, and that
\* request has been made.
LinesAreSigned ==
  \A i \in DOMAIN stdout :
    stdout[i].kind = "analysis" =>
      /\ stdout[i].from \in Requests /\ stdout[i].id = Id(stdout[i].from)
      /\ search[stdout[i].from] # "none"

\* A request yet to be made has no search and no answer.
Unasked ==
  \A r \in Requests : at[r] = "away" => search[r] = "none" /\ latest[r] = Nothing

\* The answers to one query deepen along the pipe, from what was taken to what
\* the search has reached.
AnswersDeepen ==
  \A i \in DOMAIN stdout :
    stdout[i].kind = "analysis" =>
      /\ stdout[i].depth > 0
      /\ search[stdout[i].from] = "searching" => stdout[i].depth <= depth[stdout[i].from]
      /\ stdout[i].from \notin retries => stdout[i].depth > latest[stdout[i].from].depth
      /\ \A k \in DOMAIN stdout :
           k < i /\ stdout[k].kind = "analysis" /\ stdout[k].from = stdout[i].from
             => stdout[k].depth < stdout[i].depth

TakenIsReached ==
  \A r \in Requests \ retries :
    search[r] = "searching" => latest[r].depth <= depth[r]

AnalystInv ==
  /\ TypeOK /\ ListenersFit /\ LinesAreSigned /\ Unasked /\ AnswersItsQuestion
  /\ AnswersDeepen /\ TakenIsReached
=============================================================================
