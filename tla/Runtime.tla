-------------------------------- MODULE Runtime --------------------------------
(***************************************************************************)
(* app/handler.py: the one runtime of a serverless worker, started by the  *)
(* first job that needs it, kept for the jobs after it, and replaced when  *)
(* its engine is found dead.  runtime() is cut at its awaits: the lock,    *)
(* the closing of the old runtime and the start of the new engine.         *)
(***************************************************************************)
EXTENDS Engine

CONSTANT Nobody

ASSUME RuntimeAssumption == Nobody \notin Jobs

VARIABLES
  at,       \* where each job is
  lock,     \* the job inside `async with _lock`
  current,  \* _runtime, by its engine
  given     \* the engine runtime() returned to each job

callVars == <<at, lock, current, given>>
vars == <<engineVars, callVars>>

Places == {"away", "locking", "closing", "creating", "starting", "using", "over", "failed"}

TypeOK ==
  /\ TypeOKEngine
  /\ at \in [Jobs -> Places]
  /\ lock \in Jobs \cup {Nobody}
  /\ current \in Jobs \cup {Nobody}
  /\ given \in [Jobs -> Jobs \cup {Nobody}]

Init ==
  /\ InitEngine
  /\ at = [j \in Jobs |-> "away"]
  /\ lock = Nobody /\ current = Nobody
  /\ given = [j \in Jobs |-> Nobody]

-------------------------------------------------------------------------------
\* runtime() returns the engine `e` to the job, or raises; either leaves the lock.
Return(j, e) ==
  /\ at' = [at EXCEPT ![j] = "using"]
  /\ given' = [given EXCEPT ![j] = e]
  /\ lock' = Nobody

\* MUTANT of Throw: the lock is not released by an exception.
ThrowLocked(j) ==
  /\ at' = [at EXCEPT ![j] = "failed"]
  /\ UNCHANGED <<given, lock>>

Throw(j) ==
  /\ at' = [at EXCEPT ![j] = "failed"]
  /\ lock' = Nobody
  /\ UNCHANGED given

Call(j) ==
  /\ at[j] = "away"
  /\ at' = [at EXCEPT ![j] = "locking"]
  /\ UNCHANGED <<lock, current, given, engineVars>>

\* MUTANT of Enter: there is no lock.
EnterUnlocked(j) ==
  /\ at[j] = "locking"
  /\ IF current # Nobody /\ IsRunning(current)
       THEN Return(j, current)
       ELSE /\ lock' = j
            /\ at' = [at EXCEPT ![j] = IF current = Nobody THEN "creating" ELSE "closing"]
            /\ UNCHANGED given
  /\ UNCHANGED <<current, engineVars>>

\* MUTANT of Enter: a runtime is replaced although its engine runs.
EnterAnew(j) ==
  /\ at[j] = "locking" /\ lock = Nobody
  /\ lock' = j
  /\ at' = [at EXCEPT ![j] = IF current = Nobody THEN "creating" ELSE "closing"]
  /\ UNCHANGED <<given, current, engineVars>>

\* The lock is free: use the runtime there is, or set about a new one.
Enter(j) ==
  /\ at[j] = "locking" /\ lock = Nobody
  /\ IF current # Nobody /\ IsRunning(current)
       THEN Return(j, current)
       ELSE /\ lock' = j
            /\ at' = [at EXCEPT ![j] = IF current = Nobody THEN "creating" ELSE "closing"]
            /\ UNCHANGED given
  /\ UNCHANGED <<current, engineVars>>

\* MUTANT of Close: the closed runtime is kept.
CloseKeeping(j) ==
  /\ at[j] = "closing"
  /\ \/ /\ Stop(current)
        /\ Return(j, current)
     \/ StopRaises(current) /\ Throw(j)
  /\ UNCHANGED current

\* The old runtime is closed, unless stop() raises: then so does runtime(), and
\* the old runtime stays.
Close(j) ==
  /\ at[j] = "closing"
  /\ \/ /\ Stop(current)
        /\ current' = Nobody
        /\ at' = [at EXCEPT ![j] = "creating"]
        /\ UNCHANGED <<lock, given>>
     \/ StopRaises(current) /\ Throw(j) /\ UNCHANGED current

\* The process is created, or cannot be.
Create(j) ==
  /\ at[j] = "creating"
  /\ \/ /\ Launch(j)
        /\ at' = [at EXCEPT ![j] = "starting"]
        /\ UNCHANGED <<lock, given>>
     \/ Throw(j) /\ UNCHANGED engineVars
  /\ UNCHANGED current

Started(j) ==
  /\ at[j] = "starting" /\ BecameReady(j)
  /\ current' = j
  /\ Return(j, j)
  /\ UNCHANGED engineVars

\* start() raises, and nobody stops what it has started.
StartFails(j) ==
  /\ at[j] = "starting" /\ (DiedEarly(j) \/ TimedOut(j))
  /\ Throw(j)
  /\ UNCHANGED <<current, engineVars>>

\* The job ends, well or not.
Finish(j) ==
  /\ at[j] = "using"
  /\ at' = [at EXCEPT ![j] = "over"]
  /\ UNCHANGED <<lock, current, given, engineVars>>

-------------------------------------------------------------------------------
Step(j) == Enter(j) \/ Close(j) \/ Create(j) \/ Started(j) \/ StartFails(j)

Reader(e) == (ReadLine(e) \/ ReadEof(e)) /\ UNCHANGED callVars

Overhear(e) == ReadStderr(e) /\ UNCHANGED callVars

Process(e) == (Load(e) \/ WritePoison(e) \/ Exit(e) \/ Reap(e)) /\ UNCHANGED callVars

Next ==
  \/ \E j \in Jobs : Call(j) \/ Step(j) \/ Finish(j)
  \/ \E e \in Jobs : Reader(e) \/ Overhear(e) \/ Process(e)

(***************************************************************************)
(* Fairness: the event loop runs every task that is ready, the 180 s of a  *)
(* start end, and an engine that is not slow loads in time or exits, if    *)
(* what it writes is read.  Nothing makes another process load, or any     *)
(* exit, or a job come or end.                                             *)
(***************************************************************************)
LoadsInTime(e) ==
  process[e] = "loading" /\ ~Crashed(e) /\ (Load(e) \/ Exit(e)) /\ UNCHANGED callVars

Fairness ==
  /\ \A j \in Jobs : WF_vars(Step(j)) /\ WF_vars(Reader(j))
  /\ \A e \in Jobs \ Slow : WF_vars(LoadsInTime(e))

Safe == Init /\ [][Next]_vars
Spec == Safe /\ Fairness

-------------------------------------------------------------------------------
(***************************************************************************)
(* Nobody starts an engine beside one that runs: of two live processes,    *)
(* however jobs, deaths and restarts interleave, one is what a start that  *)
(* timed out left behind, slow or no longer read (engine.py:3, 215-223,    *)
(* handler.py:89-107).                                                     *)
(***************************************************************************)
LeftBehind(e) == at[e] = "failed" /\ (e \in Slow \/ Crashed(e))

OnlyWrecksShare ==
  \A d, e \in Jobs : Live(d) /\ Live(e) => d = e \/ LeftBehind(d) \/ LeftBehind(e)

(***************************************************************************)
(* runtime() is the recovery path (handler.py:92-94): a job that it fails  *)
(* leaves no runtime behind to fail the jobs after it, unless a reader of  *)
(* that one has crashed, and a job that it serves does not get an engine   *)
(* that has been stopped.                                                  *)
(***************************************************************************)
LeavesOnlyTheCrashed ==
  [][\A j \in Jobs : at'[j] # at[j] =>
       /\ at'[j] = "failed" => current' = Nobody \/ Crashed(current)
       /\ at'[j] = "using" => given'[j] = current' /\ attached'[current']]_vars

(***************************************************************************)
(* Nobody's engine is taken from under it: an engine that a job still uses *)
(* is the current one, or its process has exited, whatever the other jobs  *)
(* did meanwhile.  What runtime() found before its awaits holds after them *)
(* (handler.py:98-107).                                                    *)
(***************************************************************************)
KeepsItsEngine ==
  \A j \in Jobs :
    at[j] = "using" => given[j] # Nobody /\ (given[j] = current \/ returncode[given[j]])

(***************************************************************************)
(* A start does not sit out its timeout over a process that has exited     *)
(* (engine.py:203-206): of an engine that cannot time out, only its        *)
(* readiness or the end of its stdout can end the wait.                    *)
(***************************************************************************)
DeathIsNoticed ==
  \A j \in Jobs \ (Slow \cup Poisonous) :
    at[j] = "starting" /\ process[j] = "exited" ~> at[j] # "starting"

(***************************************************************************)
(* Every call of runtime() returns or raises: nobody waits for ever for    *)
(* the lock or for an engine, even one that never loads or one of whose    *)
(* readers has crashed (handler.py:98-107, engine.py:207-223).             *)
(***************************************************************************)
CallsReturn ==
  \A j \in Jobs : at[j] = "locking" ~> at[j] \in {"using", "over", "failed"}

(***************************************************************************)
(* The inductive invariant behind OnlyWrecksShare, and its parts.          *)
(***************************************************************************)
Inside == {"closing", "creating", "starting"}

\* At most one job is inside, and what it finds there fits its place.
OneInside ==
  \A j \in Jobs :
    /\ at[j] \in Inside <=> lock = j
    /\ at[j] \in {"creating", "starting"} => current = Nobody
    /\ at[j] = "closing" => current # Nobody /\ returncode[current]

\* The events and flags of an engine tell the truth about its process.
SignsAreTrue ==
  \A e \in Jobs :
    /\ returncode[e] => process[e] = "exited"
    /\ died[e] => process[e] = "exited"
    /\ current = e \/ at[e] = "starting" => attached[e]

\* A live process is being started, is the current one, or was given up.
NoStrays == \A e \in Jobs : Live(e) => at[e] = "starting" \/ current = e \/ LeftBehind(e)

CallInv == TypeOK /\ OneInside /\ SignsAreTrue

OneEngineInv == CallInv /\ NoStrays

(***************************************************************************)
(* And what is left to say when readers survive their lines.               *)
(***************************************************************************)
ReadersLive ==
  \A e \in Jobs : ~Crashed(e) /\ stdout[e] \in Seq({"reply"})

(***************************************************************************)
(* What the repository says of the engine and the code does not do.        *)
(***************************************************************************)
\* There is one engine: no two KataGo processes share the card
\* (engine.py:3, handler.py:89-90).
OneEngine == \A d, e \in Jobs : Live(d) /\ Live(e) => d = e

\* An engine that died is noticed and replaced: a call that fails leaves no
\* runtime behind to fail the calls after it (handler.py:92-94).
LeavesNoWreck == [][\A j \in Jobs : at'[j] # at[j] /\ at'[j] = "failed" => current' = Nobody]_vars
=============================================================================
