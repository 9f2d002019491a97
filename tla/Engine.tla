-------------------------------- MODULE Engine --------------------------------
(***************************************************************************)
(* app/engine.py from start() to stop(): the KataGo process, the readers   *)
(* of its stdout and its stderr, and the two events start() waits for.  A  *)
(* serverless worker makes a new KataGoEngine for each start, so an engine *)
(* goes by the name of the job that starts it.  The process is external.   *)
(*                                                                         *)
(* Of the lines on stdout only two kinds matter here: the answer to the    *)
(* readiness probe, and a line its reader does not survive.  Of those on   *)
(* stderr only the latter does.                                            *)
(***************************************************************************)
EXTENDS Sequences, Naturals

CONSTANTS
  Jobs,      \* the jobs of one worker
  Slow,      \* the engines that may take longer than start() waits (180 s)
  Poisonous  \* those that may write a line its reader does not survive

ASSUME EngineAssumption == Slow \subseteq Jobs /\ Poisonous \subseteq Jobs

VARIABLES
  process,     \* what the operating system knows of the engine's process
  returncode,  \* asyncio knows that the process has exited
  attached,    \* _process is not None
  stdout,      \* lines written and not yet read, oldest first
  reader,      \* the stdout reader task
  choked,      \* the stderr reader task has ended with an exception
  ready, died  \* the events _ready and _died

engineVars == <<process, returncode, attached, stdout, reader, choked, ready, died>>

TypeOKEngine ==
  /\ process \in [Jobs -> {"none", "loading", "serving", "exited"}]
  /\ returncode \in [Jobs -> BOOLEAN] /\ attached \in [Jobs -> BOOLEAN]
  /\ stdout \in [Jobs -> Seq({"reply", "poison"})]
  /\ reader \in [Jobs -> {"none", "reading", "ended", "crashed"}]
  /\ choked \in [Jobs -> BOOLEAN]
  /\ ready \in [Jobs -> BOOLEAN] /\ died \in [Jobs -> BOOLEAN]

InitEngine ==
  /\ process = [e \in Jobs |-> "none"]
  /\ returncode = [e \in Jobs |-> FALSE] /\ attached = [e \in Jobs |-> FALSE]
  /\ stdout = [e \in Jobs |-> << >>]
  /\ reader = [e \in Jobs |-> "none"]
  /\ choked = [e \in Jobs |-> FALSE]
  /\ ready = [e \in Jobs |-> FALSE] /\ died = [e \in Jobs |-> FALSE]

Live(e) == process[e] \in {"loading", "serving"}

IsRunning(e) == attached[e] /\ ~returncode[e]

\* One of its reader tasks has ended with an exception.
Crashed(e) == reader[e] = "crashed" \/ choked[e]

-------------------------------------------------------------------------------
\* start() up to the wait for readiness.  The probe is written while the
\* process loads its nets.
Launch(e) ==
  /\ process[e] = "none"
  /\ process' = [process EXCEPT ![e] = "loading"]
  /\ attached' = [attached EXCEPT ![e] = TRUE]
  /\ reader' = [reader EXCEPT ![e] = "reading"]
  /\ UNCHANGED <<returncode, stdout, choked, ready, died>>

\* The wait ends well as soon as the probe is answered, and badly when the
\* reader saw the end of stdout before that, or after 180 s of neither, because
\* the engine is slow or what it says is not read.
BecameReady(e) == ready[e]
DiedEarly(e) == died[e] /\ ~ready[e]
TimedOut(e) == (e \in Slow \/ Crashed(e)) /\ ~ready[e] /\ ~died[e]

\* stop() of an engine whose process has exited.
Stop(e) ==
  /\ ~Crashed(e)
  /\ reader' = [reader EXCEPT ![e] = "none"]
  /\ attached' = [attached EXCEPT ![e] = FALSE]
  /\ ready' = [ready EXCEPT ![e] = FALSE]
  /\ UNCHANGED <<process, returncode, stdout, choked, died>>

\* It cancels and awaits its reader tasks first, stdout's before stderr's, and
\* raises again what ended one of them.
StopRaises(e) ==
  /\ Crashed(e)
  /\ reader' = [reader EXCEPT ![e] = IF @ = "reading" THEN "ended" ELSE @]
  /\ UNCHANGED <<process, returncode, attached, stdout, choked, ready, died>>

-------------------------------------------------------------------------------
\* MUTANT of ReadEof: the end of stdout is not announced.
ReadEofQuietly(e) ==
  /\ reader[e] = "reading" /\ process[e] = "exited" /\ stdout[e] = << >>
  /\ reader' = [reader EXCEPT ![e] = "ended"]
  /\ UNCHANGED <<process, returncode, attached, stdout, choked, ready, died>>

\* _read_stdout at the end of the pipe.
ReadEof(e) ==
  /\ reader[e] = "reading" /\ process[e] = "exited" /\ stdout[e] = << >>
  /\ died' = [died EXCEPT ![e] = TRUE]
  /\ reader' = [reader EXCEPT ![e] = "ended"]
  /\ UNCHANGED <<process, returncode, attached, stdout, choked, ready>>

\* _read_stdout with a line to read.
ReadLine(e) ==
  /\ reader[e] = "reading" /\ stdout[e] # << >>
  /\ stdout' = [stdout EXCEPT ![e] = Tail(@)]
  /\ IF Head(stdout[e]) = "reply"
       THEN ready' = [ready EXCEPT ![e] = TRUE] /\ UNCHANGED reader
       ELSE reader' = [reader EXCEPT ![e] = "crashed"] /\ UNCHANGED ready
  /\ UNCHANGED <<process, returncode, attached, choked, died>>

\* _read_stderr with a line over its limit to read.
ReadStderr(e) ==
  /\ e \in Poisonous /\ attached[e] /\ ~choked[e]
  /\ choked' = [choked EXCEPT ![e] = TRUE]
  /\ UNCHANGED <<process, returncode, attached, stdout, reader, ready, died>>

-------------------------------------------------------------------------------
\* The nets are loaded and the probe is answered.
Load(e) ==
  /\ process[e] = "loading"
  /\ process' = [process EXCEPT ![e] = "serving"]
  /\ stdout' = [stdout EXCEPT ![e] = Append(@, "reply")]
  /\ UNCHANGED <<returncode, attached, reader, choked, ready, died>>

\* BOUND: one such line waits in a pipe at a time.
WritePoison(e) ==
  /\ e \in Poisonous /\ Live(e) /\ stdout[e] = << >>
  /\ stdout' = [stdout EXCEPT ![e] = <<"poison">>]
  /\ UNCHANGED <<process, returncode, attached, reader, choked, ready, died>>

Exit(e) ==
  /\ Live(e)
  /\ process' = [process EXCEPT ![e] = "exited"]
  /\ UNCHANGED <<returncode, attached, stdout, reader, choked, ready, died>>

Reap(e) ==
  /\ process[e] = "exited" /\ ~returncode[e]
  /\ returncode' = [returncode EXCEPT ![e] = TRUE]
  /\ UNCHANGED <<process, attached, stdout, reader, choked, ready, died>>
=============================================================================
