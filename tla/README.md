# A TLA+ model of katasensei-worker

katasensei-worker reviews Go games. It holds one `katago analysis` process, asks it for a whole game
at a time, and pushes the teaching reports that come back to a Laravel application over signed
callbacks. It runs either as a RunPod serverless worker (`src/app/handler.py`) or as a small HTTP
server with a queue of its own (`src/app/main.py`).

The modules here model the part of it that is hard to test: what happens between the awaits. All line
numbers below are of files under `src/app/` unless a longer path is given.

## The system

| Component | State | Operations | Talks to |
|---|---|---|---|
| Review coroutine (`reviewer.py`) | job status and reports, tracker, completion event, outbox `pending`, listener registration | `run`, `_run_forever`, `_run`, `_drain`, `_deliver`, `_deliver_insistently` | engine (query, listener), Laravel (POSTs) |
| Review queue (`reviewer.py`, `main.py`) | `_queue`, `_jobs`, the worker task | `submit`, `job`, `start`, `stop`, POST `/v1/review` | review coroutine |
| Protocol (`protocol.py`) | the tracker's reports, snapshots and error | `parse_line`, `accept`, `is_complete`, `expected_turns` | pure |
| Engine (`engine.py`) | process, reader tasks, listeners, `_ready`, `_died`, write lock, stderr tail | `start`, `stop`, `send`, `dispatch`, `_await_ready`, `_read_stdout`, `_read_stderr` | KataGo over pipes |
| Runtime (`handler.py`) | `_runtime`, `_lock` | `runtime`, `Runtime.start`, `Runtime.close`, `handler`, `ping` | engine, reviewer, analyst |
| Analyst (`analysis.py`) | the latest answer, an event, the failure | `analyse`, `summarise` | engine |
| Query builder (`query.py`) | none | `build_query`, `build_position_query`, `last_turn` | pure |
| Callback (`callbacks.py`) | an HTTP client | `send_batch`, `sign`, `proof` | Laravel |
| Schemas, settings, version | none | validation, environment, a hash | - |
| KataGo, Laravel | external | - | - |

Everything in the worker runs on one asyncio event loop, so code between two awaits is atomic and
everything else interleaves: the review coroutine, the stdout reader that runs its listener, the HTTP
client waiting for Laravel, the child process, and a shutdown. What is hard about it:

* a flush is awaited while reports and the completion event keep arriving;
* a POST that failed in the worker may have been taken, or may be taken later;
* searches finish in any order, and reports are messages separate from the results that count;
* the process dies at any moment, with lines in the pipe and before the event loop notices;
* the final batch is retried, on purpose, by one caller and not by the other;
* tasks end by exceptions nobody awaits;
* several requests wait on one stream of answers, give up on theirs, and reuse ids;
* a review id is posted again at any time, and a shutdown meets a review at any await;
* what is read of the engine before an await is stale after it.

`PROJECT.json` lists these hazards at their lines, each with the properties that would catch it.

## Modules

| Module | Models | Extends |
|---|---|---|
| `Protocol` | `protocol.py`: lines, `parse_line`, the tracker | - |
| `AnalysisProcess` | KataGo while it works on one review (external) | `Protocol` |
| `Laravel` | the reports endpoint and the network before it (external) | - |
| `Review` | one review: coroutine, stdout reader, process, Laravel | `AnalysisProcess`, `Laravel` |
| `ReviewPromise` | what a review promises Laravel, abstractly | - |
| `ReviewProperties` | the properties and inductive invariants | `Review`, instances of `ReviewPromise` and `ReviewQueue` |
| `Engine` | `engine.py` from start to stop: process, readers, events | - |
| `Runtime` | `handler.py`: the runtime of a serverless worker, and its properties | `Engine` |
| `ReviewQueue` | `main.py`'s lifespan and review routes, the reviewer's queue, `stop()` of both | - |
| `Analyst` | `analyse` for several requests beside a review; `dispatch` | `Protocol` |
| `Requests` | `schemas.py`, `query.py`, and the conversion between them (pure) | - |
| `Summary` | `summarise` (pure) | - |
| `Handler` | one job of a serverless worker: dispatch on kind, `ping`, `analyse`, `review` | `Requests`, `Summary` |
| `MCHandler` | payloads and views for TLC | `Handler` |
| `ReviewProofs`, `PromiseProofs`, `SearchProofs`, `ReportProofs` | the theorems about a review, each extending the one before | `ReviewProperties`, `TLAPS` |
| `RuntimeProofs`, `QueueProofs`, `AnalystProofs`, `HandlerProofs` | the theorems about those modules | the module, `TLAPS` |

Each module models the others' parts by their outcomes only: `ReviewQueue` knows a review by the
stages `Review` cuts finer (and `QueueSteps` shows that it keeps to them), `Analyst` knows it by its listener, and `Handler` takes `runtime()`,
`analyse` and a review as one step each, while other jobs change the engine under it.

### How `Review` corresponds to the code

The coroutine is cut at its awaits; `pc` names the await at which it stands.

| `pc` | waits at | left by |
|---|---|---|
| `queued` | the queue, or the caller | `Begin` (150-180) |
| `handshake` | the empty first batch (180) | `HandshakeTaken` (with the query's `send`, 188), `HandshakeFails` |
| `waiting` | `wait_for(complete.wait(), 1 s)` (194) | `Wake`: drain, perhaps flush, perhaps give up, loop test |
| `flushing` | the batch in flight (209) | `FlushTaken`, `FlushFails` |
| `concluding` | the final batch, or the sleep before its next attempt (231, 121, 146) | `FinalTaken`, `FinalFails` |
| `done`, `cancelled` | over | - |

`status`, `listening`, `drained`, `pending`, `tracker` and `complete` are the job's status, whether
the listener is registered, the keys of `job.reports`, the outbox, the `QueryTracker` and the event.
`fresh` is the local `new` while a flush is awaited, `attempt` the loop variable of
`_deliver_insistently`. `sent` is a history variable: how many POSTs carried each turn. The batch in
flight is not a variable but `Posting`, because nothing the coroutine sends changes while it waits.
`ReadLine` is one turn of `_read_stdout` (engine.py 234-270) with the listener it calls. `send` is no
await of its own: one query is far below the pipe's high-water mark, so neither the write lock nor
`drain` (engine.py 147-149) yields, and what it may do besides succeed is raise, if the process has gone.

Reports are their turn numbers, so the outbox, what was drained and what Laravel holds are sets. The
one-second poll, the fifteen-second interval and the backoff are nondeterministic: `Wake` may happen
whenever the coroutine waits, and it may flush any non-empty outbox, but must flush one of
`BatchSize`.

A POST (`Laravel.tla`) is acknowledged, or fails in one of three ways the worker cannot tell apart:
refused, taken with the answer lost, or given up on and taken at any later time.

The process (`AnalysisProcess.tla`) lands the searches of its plan in any order. It writes the report
of a pair when the second search lands, ahead of that search's own result, as protocol.py 114-119
relies on. `LastPosition` decides whether it searches the position after the last move: the code
(query.py 39) takes it that it does not, the docstrings (query.py 3-5, protocol.py 10-12) that it does,
and the runs have it both ways. Between answers it
may write interim results, other queries' results, errors with and without an id, text, and, with
`Poison`, lines the reader does not survive. It may exit at any time; the event loop sees the return
code some time later (`Reap`), and the pipe can still be read.

### How `Engine` and `Runtime` correspond to the code

`Runtime` is `runtime()` (handler.py 89-107) for several jobs at once, cut at its awaits: `locking` at
the lock, `closing` at `_runtime.close()`, `creating` and `starting` inside `Runtime.start`. A job that
leaves it is `using` the engine or has `failed`. Every start makes a new `KataGoEngine`, so an engine
is named by the job that starts it, and `current` is `_runtime`. `process` is what is true of the
child; `returncode` and `attached` are what `is_running` reads; `ready` and `died` are the events.

`Launch` is `start` up to its wait, with the probe already written. `BecameReady`, `DiedEarly` and
`TimedOut` are the three ends of the wait (engine.py 207-223). `Slow` is the set of engines that may take
longer than its 180 s to load, `Poisonous` the set of those that may write a line that a reader does not
survive: on stdout it goes through the pipe (`WritePoison`, `ReadLine`), on stderr, of which nothing else
matters, it is one step (`ReadStderr`) that sets `choked`. `Stop` is `stop` of an engine whose process has exited,
the only kind `runtime()` closes; it awaits both reader tasks and raises what either of them raised
(`StopRaises`). Concurrent jobs are allowed although RunPod hands over one at a time, because the lock is
there for them.

### How `ReviewQueue` corresponds to the code

| Action | Code |
|---|---|
| `Post` | `start_review` (main.py 122-156) with `Reviewer.submit`; for an id that has a job nothing changes, so only the other case is an action |
| `Begin`, `Ask`, `Searched`, `Raise`, `Conclude` | one turn of `_run_forever` (reviewer.py 133-148) |
| `StopReviewer` | `Reviewer.stop` (81-88) up to `await self._worker`; the server takes no request any more |
| `StopEngine`, `EndWait` | `KataGoEngine.stop` (engine.py 117-136), cut at its ten-second wait |
| `Exit`, `Reap` | the process, and the child watcher |
| `Crash` | a line that `_read_stdout` or `_read_stderr` does not survive |

`jobs` is the status of what `_jobs` holds, as GET `/v1/review/{id}` answers it, `unknown` being the
404. `submitted` and `begun` are histories. A cancellation meets the worker at any await. The image is
built with Python 3.10, whose `asyncio.wait_for` swallows a cancellation that arrives when the event
is already set; `StopReviewer` has that case too, after which the worker task goes on and the lifespan
waits for it without end. `EngineGoesToo` is therefore stated from the moment the task has ended.
`stop` awaits the reader tasks before it looks at the process (engine.py 118-128): if an exception has
ended one, `crashed`, `StopEngine` closes without a signal and leaves a living engine behind. An engine
that runs with a crashed reader is `Unread`; `EngineGoesToo` and `AcceptedIsReviewed` except it, by name.

### How `Analyst` corresponds to the code

`at` is where a request is: not made, `sending` (in `engine.send`), `waiting` (in `wait_for`), or gone
with an outcome: `answered`, `unavailable` (`AnalysisFailed`, a 503) or `error` (`EngineNotRunning`, a
500). `listeners` is `_listeners` in its order, which decides who is offered a response first. `latest` and `failure` are
the locals of `analyse`. The timeout is nondeterministic: `Return` may happen whenever a request
waits. `retries` is the set of analyses that are one request asked again under one id. An answer is
what it says, its depth, together with the request whose search it comes from, which the code cannot
see and the properties can. The engine works on every query at once, answers in any order, writes
interim results for analyses, refuses queries with or without their id, and dies at any time.

### How `Handler` corresponds to the code

`at` is the await at which the job stands: `reaching` Laravel (handler.py 184), `calling` `runtime()`
(129, 193) or having `asked` the engine. `warm` is what `ping` is going to report, and `engine` is
`_runtime` together with `is_running`. Payloads are read where the code reads them, after the engine
is up (131-134). `IsMove` and `AsPair` are `MoveIn` with its validator, `AnalyzeIn` and `ReviewIn` the
models with bounds and defaults, `BuildQuery` and `BuildPositionQuery` the functions of query.py.
KataGo tells what it thinks from the side to move (`configs/analysis-gpu.cfg`,
`reportAnalysisWinratesAs = SIDETOMOVE`), which is `Told`, and `Summarise` turns it back.

## Checks

| Run | Question | Result |
|---|---|---|
| `review_inline` | no report that was waited for is lost, left behind or resent in vain; no sleep on a complete search; it ends and Laravel hears how; three moves, the engine may die and searches the last position too | holds |
| `review_promise` | refinement of `ReviewPromise` and of a queue of one job, and the inductive invariants; from the queue, shutdown, poison lines | holds |
| `one_engine` | one process but for what a timed-out start left behind, recovery but from a crashed reader, nobody's living engine taken, starts that end with their process, calls that return; three jobs, one engine slow, one crashing its readers | holds |
| `review_queue` | each review once, in order and to an end; a shutdown fails none and takes the engine along; readers may crash | holds |
| `analyses` | every answer goes to the request it answers and improves on the last; two analyses and a review | holds |
| `requests` | what is asked was meant and within bounds, only nonsense is refused, boards see Black's view, pings are true | holds |
| `last_report` | does a finished review have every report, if the engine searches the last position? | no |
| `second_engine` | is there one engine if a start times out? | no |
| `dead_runtime` | is a dead engine replaced if one of its readers crashed? | no |
| `dead_reader` | does a review end if the stdout reader task dies? | no |
| `stopped_after_answer` | can a fully answered review be failed? | yes |
| `dropped_batch` | can a failed callback cost more than a retry? | yes |

The six disagreements are described, with the lines they contradict, in `PROJECT.json` under
`findings`. In short:

* `last_report`: the documentation counts N+1 searches for N moves (query.py 3-5, protocol.py 10-12), the
  code waits for N (query.py 39). If the engine makes the last search too, the report of the last move
  comes after the review has stopped waiting. What is certain whichever way the engine has it is
  `AwaitedReportsArrive`, the report of every pair the tracker expects.
* `stopped_after_answer`: a result sets `complete`, its poll drains no report that was not drained
  before, and the engine has exited: the review is failed (reviewer.py 214), although every search has
  answered. In the shortest trace the reports have been drained by an earlier poll, and the last result,
  which wakes the last one, brings none.
* `second_engine` and `dead_runtime`: a start that times out leaves its process, and a reader task that
  an exception ended makes `stop` raise for ever. `OnlyWrecksShare` and `LeavesOnlyTheCrashed` say
  that nothing else breaks the claim of one engine, replaced when dead.
* `dead_reader`: the same exception of the stdout reader leaves a review of a living engine waiting.
* `dropped_batch`: a failing review does not send again what a failed flush left in the outbox.

Two more points came up that no run decides by itself:

* A review that fails from the queue has one attempt at telling Laravel so (reviewer.py 146), an inline
  one three (121). `VerdictArrives` holds for the inline review, and its mutant is the queue's behaviour.
  `ToldUnlessRefused` says of both how many refusals it takes to keep a verdict from Laravel.
* If KataGo answers nothing to an empty `analyzeTurns`, the review of a game without moves never ends.
  The repository does not say what it answers.

Bounds. Three moves are enough for every order of two pairs that share a search, and for a batch that
is full and one that is not (`BatchSize` 2). `PipeBound` 1 or 2 bounds only lines nobody asked for in
a review, and all unread lines in `Analyst`, where two let the answers of two
requests, or two answers of one, wait behind each other. `MaxFailures` bounds failing POSTs: with `FinalAttempts` and `MaxFailures`
at 2 the retries of the final batch may all fail (`review_promise`), and with 2 and 1 one must succeed,
which is what `VerdictArrives` needs (`review_inline`). The one failing POST there may be any of them:
the first, a flush, or an attempt at the final batch.
Three jobs are enough for an engine to be replaced twice and for one job to
wait while another replaces. In `one_engine` one engine may be slow, one may crash its readers and one is
neither, so that every combination meets a job that is served well; `DeathIsNoticed` is about the last
kind, since of the others the timeout could be what ends the start. `second_engine` has only slow engines and
`dead_runtime` only crashing readers. `review_queue` has three ids: one in
work, two waiting. `analyses` has two analyses, which share an id or do not, so that one may give up
before the other asks, and a review, the one listener that claims errors without an id. `requests` has
games of up to `MaxMoves` + 1 moves in seven spellings, four of them bad, visits on both sides of
every bound, a default for zero visits that is beyond the ceiling, and up to three candidates of which
two are shown, in one view with an order given to two
of them, which `sorted` leaves as they came. Each property has a mutant in
`PROJECT.json`, a plausible slip in the code that makes TLC find it violated under the same bounds.

Fairness. `Coroutine` and `Reader` are weakly fair because the event loop runs every ready task and
every POST ends, by an answer or by httpx's 30 s timeout (callbacks.py 63-66). `Lands` is weakly fair
because visits are capped (query.py 54), so a living engine finishes its searches, and `Reaps` because
asyncio watches its children. In `Runtime` the steps of a call and the readers are weakly fair,
the 180 s timeout being such a step, and an engine that is not `Slow` and whose readers live loads or
exits. In `ReviewQueue` the worker task is weakly fair, which leaves open
how a review ends and rests on `ReviewEnds` for that it does, except while a review searches on an engine
that is `Unread`, which `dead_reader` shows may last; so are the steps of the shutdown, the
ten-second wait being one, and the exit of a process that was killed. Nothing obliges a late POST to
land, a slow process to load, any to exit on SIGTERM, a server to stop, or anyone to cancel. `Analyst` and
`Handler` state no liveness: their awaits end by a timeout that is always possible.

## Proofs

The theorems are about the specifications without fairness: `Safe`, or `Spec` where there is none to
state. Those about a review hold for every number of moves, batch size, number of attempts and number of
failures, the others for every set of jobs, ids, requests or payloads. The assumptions are the named `ASSUME`s of the modules: the
constants are of their types, ids differ, the missing field is none of them, and the defaults of the
schemas' fields lie within the ceiling; `DEFAULT_VISITS` is any integer. In `Handler` a game is any sequence of moves as they may be `Spelled`,
over any `Words`, and a view any opinion on the points with any candidates (`Opinions`).

* `ReviewProofs`: `TypeCorrect`. As everywhere here, an invariant proof has `Init => Inv`, a lemma for
  each step or group of steps, and a theorem that puts them together.
* `PromiseProofs`: `NothingLost` is not inductive, because a final batch that lands late must still be
  whole. `PromiseInv` adds that the status fits the place of the coroutine, that only drained reports
  are anywhere, that final batches speak with the job's one voice, and that a finishing batch on its
  way, or given up on, carries everything Laravel lacks. From it follow `NothingIsLost` and, step by
  step, `ReviewKeepsPromise`, the refinement. `ResendInv` adds that what is still in the outbox has
  only been sent in vain, and gives `NothingIsResentNeedlessly`. `VerdictInv` counts: at the n-th
  attempt at the final batch n - 1 POSTs have failed, so a review that ends unheard has used up its
  attempts (`LaravelIsTold`). `ReviewFitsTheQueue` is a second refinement: with the coroutine's places
  mapped to the four stages of `ReviewQueue`, every step of a review, its cancellation and its process
  is a step of a queue with that one job, or none. It makes what `ReviewQueue` takes for granted
  of a review a theorem; that several reviews come one after another is `_run_forever` itself, which
  `ReviewQueue` models.
* `SearchProofs`: `FinishedWasSearched` rests on `SearchInv`: whatever line in the pipe, or entry in
  the tracker, says of a position that it was searched is true.
* `ReportProofs`: `AwaitedReportsArrive` rests on `ReportsLead`: while the review listens, each report
  is in the tracker, or in the pipe ahead of a result of its pair the tracker has not seen. Therefore a
  tracker that has seen both results of a pair has its report (`NothingAwaitedIsMissing`), for an engine
  that searches the last position and for one that does not. `ReviewInvariant` collects what these proofs
  rest on, the invariant `review_promise` checks. `NobodySleepsOn` (`NobodyWaitsInVain`) rests on
  `WakeInv`: while the review listens, a search that has landed is in the tracker or announced by a line
  in the pipe, and a tracker that has all of them has set the event. That the listener is registered
  before the query is sent is what makes it true at the start.
* `RuntimeProofs`: `CallInv` says that one job at most is inside the lock, that
  `current` fits its place, and that the events and return codes are true of the process. With it,
  `NoStrays` (every live process is being started, is the current one, or was left behind by a start that
  timed out) is inductive (`OneEngineInvariant`) and gives `NobodySharesButWrecks`; without slow engines
  and crashing readers nothing is left behind, which is `ThereIsOneEngine`. `OnlyTheCrashedIsLeft`
  follows step by step, and if readers survive their lines (`ReadersLive`), `NoWreckIsLeft`. The two
  theorems with assumptions state what the violation runs refute without them.
  `NobodyLosesAnEngine` needs none: an engine is taken from `current` only by a job
  that found its process exited, under a lock that keeps that the current one.
* `QueueProofs`: `QueueInv` says that what was submitted is what was begun followed by the queue,
  without repetition, that the statuses fit both, and that a signal to the engine has been preceded by
  the end of the worker task. `NoGameIsReviewedTwice` is its consequence; `StatusOnlyAdvances` needs
  that a job taken from the queue is `queued`, `ShutdownIsGentle` that no worker is left to change one.
* `AnalystProofs`: `AnswersItsQuestion` and `LastIsBest` rest on `AnalystInv`: listeners are exactly
  those of the requests in progress, an answer in the pipe is signed with its request's id, and the
  answers to one search deepen along the pipe, from the one held to the depth reached.
  `NoAnswerGoesAstray` needs the listeners' part: the owner is on the list, and no other listener
  claims the id, whatever the order.
* `HandlerProofs`: a query in `TypeOK` is what a valid payload asks for, from which `NoJobCostsMore`
  is arithmetic, with the review that asks for zero visits as its named exception; `PingIsTrue`
  follows step by step. `AskedAsMeant` adds `TypeAsksRight`: a payload that
  validates is spelled move by move as the query has it (`MeantAsWritten`). `NothingMeantIsRefused`
  rests on `RefusedInvalid` and its converse, that what is meant validates. `BoardIsTrue` rests on
  `Drawn`, that an answer is the summary of what some player was told. `PlacesOrder` and
  `PlacesAreTaken` show that the place of a candidate, how many there are up to it, numbers them in
  their stable order, `ShownAreFirst` that the first of them are shown, and `TurnedBack` that the
  mover's view turned for White is Black's.

Only model-checked: `ReviewEnds`, `VerdictArrives`, `DeathIsNoticed`, `CallsReturn`,
`AcceptedIsReviewed` and `EngineGoesToo`, since liveness under fairness is out of the prover's reach.
Their safety halves are proved where they have one: `NobodySleepsOn` for `ReviewEnds`, `LaravelIsTold`
for `VerdictArrives`. Every other property of a passing run is stated by a theorem.

## How the project grew

In this order: the review with its process, its callbacks and its proofs; the engine and the runtime;
the queue; the analyses, with the routing of answers that was first planned as a module of its own;
requests, summary and handler, bottom up. Each module was checked before it was proved about. What
could follow is a restart of the HTTP worker's engine, once the code has one.

## Not modelled

* `sign` and `proof` of callbacks.py, `authorise` of main.py: an HMAC and a comparison, without state.
* config.py and version.py: environment variables read once, and a hash over files. Nothing checks
  `DEFAULT_VISITS` against the ceiling of the schemas (config.py 37): `Requests` takes it to be any
  integer, and `CostIsBounded` says that a review asking for zero visits gets it as it is.
* What `ping` reports besides the engine (files, GPU, environment, reachability): facts that decide
  nothing. `healthz` reads two numbers.
* The tail `_read_stderr` keeps: only messages and the log are made of it. That the task can end with an
  exception is modelled.
* Whether the text of a move is a point of the board: the schemas take any text (schemas.py 39) and leave
  it to the engine.
* pydantic's coercion of other types, the rounding of `summarise`, elapsed times, logging, and the
  fields of a query or report that the worker carries through unread.
* The write lock of `send`: asyncio's transport takes a line in one call, so the order of two writes
  is the only thing it could decide, and answers come in any order.
* `aclose` of the callback client in `Runtime.close`: a review delivering its last batch while its
  dead runtime is replaced would lose it. `KeepsItsEngine` limits that to reviews whose engine has
  exited, and RunPod hands a worker one job at a time.
