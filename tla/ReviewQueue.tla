------------------------------ MODULE ReviewQueue ------------------------------
(***************************************************************************)
(* The HTTP worker of app/main.py and its queue of reviews: submission     *)
(* with its check for a job that exists, the worker task _run_forever, and *)
(* the shutdown of reviewer and engine.  What a single review does between *)
(* its awaits is module Review; here it is four stages.                    *)
(***************************************************************************)
EXTENDS Sequences, Naturals

CONSTANTS
  Ids,     \* ids of reviews; Laravel may post each as often as it likes
  NoId

ASSUME QueueAssumption == NoId \notin Ids

VARIABLES
  phase,      \* where the lifespan is
  jobs,       \* the status of the job _jobs has for an id, if any
  queue,      \* _queue
  job,        \* the job the worker task has last taken from it
  stage,      \* what the worker task does
  process,    \* the engine's process
  running,    \* its return code is None
  crashed,    \* its reader tasks that an exception has ended
  signal,     \* the last signal stop() has sent it
  submitted, begun   \* history: ids in the order of submission, and of review

engineVars == <<process, running, crashed, signal>>
queueVars == <<jobs, queue, job, stage, submitted, begun>>
vars == <<phase, queueVars, engineVars>>

Phases == {"serving", "stopping", "terminating", "closed"}
Statuses == {"unknown", "queued", "running", "finished", "failed"}
Readers == {"stdout", "stderr"}
Stages == {"idle", "handshake", "searching", "concluding", "cancelled"}

TypeOK ==
  /\ phase \in Phases
  /\ jobs \in [Ids -> Statuses]
  /\ queue \in Seq(Ids) /\ submitted \in Seq(Ids) /\ begun \in Seq(Ids)
  /\ job \in Ids \cup {NoId}
  /\ stage \in Stages
  /\ process \in {"alive", "exited"} /\ running \in BOOLEAN
  /\ crashed \subseteq Readers
  /\ signal \in {"none", "term", "kill"}

Init ==
  /\ phase = "serving"
  /\ jobs = [id \in Ids |-> "unknown"]
  /\ queue = << >> /\ submitted = << >> /\ begun = << >>
  /\ job = NoId /\ stage = "idle"
  /\ process = "alive" /\ running = TRUE /\ crashed = {} /\ signal = "none"

-------------------------------------------------------------------------------
Submit(id) ==
  /\ jobs' = [jobs EXCEPT ![id] = "queued"]
  /\ queue' = Append(queue, id)
  /\ submitted' = Append(submitted, id)
  /\ UNCHANGED <<phase, job, stage, begun, engineVars>>

\* MUTANT of Post: the job that exists is not looked for.
PostAgain(id) == phase = "serving" /\ Submit(id)

\* POST /v1/review.  For an id that has a job, whatever became of it, the
\* answer is that job and nothing changes.
Post(id) == phase = "serving" /\ jobs[id] = "unknown" /\ Submit(id)

-------------------------------------------------------------------------------
\* _queue.get() returns a job, whose first, empty batch is posted.
Take(id, rest) ==
  /\ stage = "idle" /\ queue # << >>
  /\ job' = id /\ queue' = rest
  /\ stage' = "handshake"
  /\ jobs' = [jobs EXCEPT ![id] = "running"]
  /\ begun' = Append(begun, id)
  /\ UNCHANGED <<phase, submitted, engineVars>>

\* MUTANT of Begin: the last job in is the first one out.
BeginLast == Take(queue[Len(queue)], SubSeq(queue, 1, Len(queue) - 1))

\* The worker task takes the job that has waited longest.
Begin == Take(Head(queue), Tail(queue))

\* The batch is taken and the query sent.
Ask ==
  /\ stage = "handshake" /\ running
  /\ stage' = "searching"
  /\ UNCHANGED <<phase, jobs, queue, job, submitted, begun, engineVars>>

Settle(status) ==
  /\ jobs' = [jobs EXCEPT ![job] = status]
  /\ stage' = "concluding"
  /\ UNCHANGED <<phase, queue, job, submitted, begun, engineVars>>

\* Every answer is in, whether or not the process is still there.
Searched == stage = "searching" /\ Settle("finished")

\* Laravel could not be reached, the engine answered with an error or is gone.
Raise == stage \in {"handshake", "searching"} /\ Settle("failed")

Delivered(next) ==
  /\ stage = "concluding" /\ stage' = next
  /\ UNCHANGED <<phase, jobs, queue, job, submitted, begun, engineVars>>

\* MUTANT of Conclude: an exception ends the worker task.
ConcludeOnce == Delivered(IF jobs[job] = "failed" THEN "cancelled" ELSE "idle")

\* The final batch has been delivered, or not; on to the next job.
Conclude == Delivered("idle")

-------------------------------------------------------------------------------
\* The server has answered its last request, and Reviewer.stop() cancels the
\* worker task.  asyncio.wait_for of the Python the image is built with (3.10)
\* swallows a cancellation that arrives when what it waits for is done: the
\* review then goes on, and stop() awaits a task that is not going to end.
StopReviewer ==
  /\ phase = "serving" /\ phase' = "stopping"
  /\ \/ stage' = "cancelled"
     \/ stage = "searching" /\ UNCHANGED stage
  /\ UNCHANGED <<jobs, queue, job, submitted, begun, engineVars>>

\* KataGoEngine.stop() up to its wait for the process.  If a reader task was
\* ended by an exception stop() raises it before it looks at the process.
Terminate ==
  /\ phase = "stopping"
  /\ IF running /\ crashed = {}
       THEN phase' = "terminating" /\ signal' = "term"
       ELSE phase' = "closed" /\ UNCHANGED signal
  /\ UNCHANGED <<queueVars, process, running, crashed>>

\* MUTANT of StopEngine: the engine is stopped without awaiting the worker task.
StopEngineFirst == Terminate

\* The worker task has ended, and stop() is called.
StopEngine == stage = "cancelled" /\ Terminate

\* MUTANT of EndWait: a process that ignores SIGTERM is left alone.
EndWaitKindly ==
  /\ phase = "terminating" /\ phase' = "closed"
  /\ UNCHANGED <<queueVars, engineVars>>

\* The process has been seen to exit, or 10 s are over and it is killed.
EndWait ==
  /\ phase = "terminating" /\ phase' = "closed"
  /\ signal' = IF running THEN "kill" ELSE signal
  /\ UNCHANGED <<queueVars, process, running, crashed>>

-------------------------------------------------------------------------------
Exit ==
  /\ process = "alive" /\ process' = "exited"
  /\ UNCHANGED <<phase, queueVars, running, crashed, signal>>

Reap ==
  /\ process = "exited" /\ running /\ running' = FALSE
  /\ UNCHANGED <<phase, queueVars, process, crashed, signal>>

\* A line that a reader task does not survive.  stop() ends both tasks.
Crash ==
  /\ phase \in {"serving", "stopping"}
  /\ \E r \in Readers \ crashed : crashed' = crashed \cup {r}
  /\ UNCHANGED <<phase, queueVars, process, running, signal>>

Work == Begin \/ Ask \/ Searched \/ Raise \/ Conclude

Shutdown == StopEngine \/ EndWait

Next ==
  \/ \E id \in Ids : Post(id)
  \/ Work \/ StopReviewer \/ Shutdown \/ Exit \/ Reap \/ Crash

(***************************************************************************)
(* Fairness: a review ends, as module Review shows for an engine that      *)
(* answers or dies, unless it searches on an engine that runs and is not   *)
(* read; the lifespan and the child watcher go on; SIGKILL kills.  Nothing *)
(* makes a process exit on SIGTERM, or the server stop.                    *)
(***************************************************************************)
Unread == running /\ crashed # {}

Fairness ==
  /\ WF_vars(Work /\ ~(stage = "searching" /\ Unread))
  /\ WF_vars(Shutdown) /\ WF_vars(Reap)
  /\ WF_vars(Exit /\ signal = "kill")

Safe == Init /\ [][Next]_vars
Spec == Safe /\ Fairness

-------------------------------------------------------------------------------
(***************************************************************************)
(* However often Laravel posts an id, and whatever became of its review,   *)
(* the game is not reviewed twice (main.py:131-133).                       *)
(***************************************************************************)
Distinct(s) == \A i, j \in DOMAIN s : s[i] = s[j] => i = j

ReviewedOnce == Distinct(begun)

(***************************************************************************)
(* The jobs are reviewed in the order they were submitted in, none is      *)
(* passed over, and one bad job does not lose those behind it              *)
(* (reviewer.py:133-148).                                                  *)
(***************************************************************************)
InOrder == submitted = begun \o queue

(***************************************************************************)
(* What a client polls only advances: a job that is answered for is never  *)
(* replaced by a younger one (main.py:130-134, 159-170).                   *)
(***************************************************************************)
Rank == [unknown |-> 0, queued |-> 1, running |-> 2, finished |-> 3, failed |-> 3]

StatusAdvances ==
  [][\A id \in Ids : jobs'[id] # jobs[id] => Rank[jobs'[id]] > Rank[jobs[id]]]_vars

(***************************************************************************)
(* A shutdown fails no review: the worker task is gone before the engine   *)
(* is touched, so no coroutine sees it stop (main.py:62-64).               *)
(***************************************************************************)
ShutdownFailsNobody == [][signal # "none" => UNCHANGED jobs]_vars

(***************************************************************************)
(* One bad job must not stop the queue (reviewer.py:141): every review     *)
(* accepted ends, unless the worker is shut down or its engine runs unread.*)
(***************************************************************************)
AcceptedIsReviewed ==
  \A id \in Ids :
    jobs[id] = "queued" ~>
      jobs[id] \in {"finished", "failed"} \/ phase # "serving" \/ Unread

(***************************************************************************)
(* Once its worker task has ended, a shutdown takes the engine with it,    *)
(* even one that ignores SIGTERM (engine.py:127-133), unless a reader has  *)
(* crashed.  A cancellation that was swallowed keeps the shutdown from     *)
(* getting there at all.                                                   *)
(***************************************************************************)
EngineGoesToo == phase = "stopping" /\ stage = "cancelled" ~> ~running \/ Unread

(***************************************************************************)
(* The inductive invariant behind the first four.                          *)
(***************************************************************************)
\* A job is known from its submission on, queued until it is taken, and the
\* worker's own job fits what the worker does.
JobsFit ==
  /\ \A id \in Ids :
       /\ jobs[id] = "unknown" <=> \A i \in DOMAIN submitted : submitted[i] # id
       /\ jobs[id] = "queued" <=> \E i \in DOMAIN queue : queue[i] = id
  /\ stage # "idle" /\ stage # "cancelled" => job # NoId
  /\ stage \in {"handshake", "searching"} => jobs[job] = "running"

\* The engine is told to stop by a lifespan that has seen the worker task end.
StopsInTurn ==
  /\ signal # "none" => phase \in {"terminating", "closed"}
  /\ phase \in {"terminating", "closed"} => stage = "cancelled"

QueueInv == TypeOK /\ Distinct(submitted) /\ InOrder /\ JobsFit /\ StopsInTurn
=============================================================================
