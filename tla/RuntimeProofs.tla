----------------------------- MODULE RuntimeProofs -----------------------------
(***************************************************************************)
(* One engine at a time, and recovery from a dead one, for every set of    *)
(* jobs.                                                                   *)
(***************************************************************************)
EXTENDS Runtime, TLAPS

(***************************************************************************)
(* CallInv is inductive, whatever the engines do.                          *)
(***************************************************************************)
LEMMA InitCall == Init => CallInv
<1> SUFFICES ASSUME Init PROVE CallInv
  OBVIOUS
<1>1. TypeOK
  BY DEF Init, InitEngine, TypeOK, TypeOKEngine, Places
<1>2. OneInside /\ SignsAreTrue
  BY RuntimeAssumption DEF Init, InitEngine, OneInside, SignsAreTrue, Inside
<1> QED
  BY <1>1, <1>2 DEF CallInv

\* An engine's own step leaves the calls alone and its signs true.
LEMMA EngineStep ==
  ASSUME CallInv, NEW e \in Jobs, Reader(e) \/ Overhear(e) \/ Process(e)
  PROVE  CallInv'
<1> USE DEF CallInv, TypeOK, TypeOKEngine
<1>1. CASE ReadLine(e) /\ UNCHANGED callVars
  <2>1. Tail(stdout[e]) \in Seq({"reply", "poison"})
    BY <1>1 DEF ReadLine
  <2>2. TypeOK'
    BY <1>1, <2>1 DEF ReadLine, callVars
  <2> QED
    BY <1>1, <2>2 DEF ReadLine, callVars, OneInside, SignsAreTrue, Inside
<1>2. CASE ReadEof(e) /\ UNCHANGED callVars
  <2>1. TypeOK'
    BY <1>2 DEF ReadEof, callVars
  <2> QED
    BY <1>2, <2>1 DEF ReadEof, callVars, OneInside, SignsAreTrue, Inside
<1>3. CASE Load(e) /\ UNCHANGED callVars
  <2>1. Append(stdout[e], "reply") \in Seq({"reply", "poison"})
    OBVIOUS
  <2>2. TypeOK'
    BY <1>3, <2>1 DEF Load, callVars
  <2> QED
    BY <1>3, <2>2 DEF Load, callVars, OneInside, SignsAreTrue, Inside
<1>4. CASE WritePoison(e) /\ UNCHANGED callVars
  <2>1. TypeOK'
    BY <1>4 DEF WritePoison, callVars
  <2> QED
    BY <1>4, <2>1 DEF WritePoison, callVars, OneInside, SignsAreTrue, Inside
<1>5. CASE Exit(e) /\ UNCHANGED callVars
  <2>1. TypeOK'
    BY <1>5 DEF Exit, callVars
  <2> QED
    BY <1>5, <2>1 DEF Exit, callVars, OneInside, SignsAreTrue, Inside
<1>6. CASE Reap(e) /\ UNCHANGED callVars
  <2>1. TypeOK'
    BY <1>6 DEF Reap, callVars
  <2> QED
    BY <1>6, <2>1 DEF Reap, callVars, OneInside, SignsAreTrue, Inside
<1>7. CASE ReadStderr(e) /\ UNCHANGED callVars
  <2>1. TypeOK'
    BY <1>7 DEF ReadStderr, callVars
  <2> QED
    BY <1>7, <2>1 DEF ReadStderr, callVars, OneInside, SignsAreTrue, Inside
<1> QED
  BY <1>1, <1>2, <1>3, <1>4, <1>5, <1>6, <1>7 DEF Reader, Overhear, Process

\* A job's step.
LEMMA JobStep ==
  ASSUME CallInv, NEW j \in Jobs, Call(j) \/ Step(j) \/ Finish(j)
  PROVE  CallInv'
<1> USE RuntimeAssumption DEF CallInv, TypeOK, TypeOKEngine, Places
<1>1. CASE Call(j)
  BY <1>1 DEF Call, engineVars, OneInside, SignsAreTrue, Inside
<1>2. CASE Enter(j)
  <2>1. TypeOK'
    <3>1. TypeOKEngine' /\ current' = current
      BY <1>2 DEF Enter, engineVars
    <3>2. CASE current # Nobody /\ IsRunning(current)
      <4>1. current \in Jobs /\ Return(j, current)
        BY <1>2, <3>2 DEF Enter
      <4>2. at' \in [Jobs -> Places] /\ given' \in [Jobs -> Jobs \cup {Nobody}] /\ lock' = Nobody
        BY <4>1 DEF Return
      <4> QED
        BY <3>1, <4>2
    <3>3. CASE ~(current # Nobody /\ IsRunning(current))
      <4>1. lock' = j /\ given' = given /\ at' \in [Jobs -> Places]
        BY <1>2, <3>3 DEF Enter
      <4> QED
        BY <3>1, <4>1
    <3> QED
      BY <3>2, <3>3
  <2> QED
    <3>1. current # Nobody /\ ~IsRunning(current) => returncode[current]
      BY DEF IsRunning, SignsAreTrue
    <3>2. OneInside'
      BY <1>2, <2>1, <3>1 DEF Enter, Return, engineVars, OneInside, Inside
    <3>3. SignsAreTrue'
      BY <1>2, <2>1 DEF Enter, Return, engineVars, SignsAreTrue
    <3> QED
      BY <2>1, <3>2, <3>3
<1>3. CASE Close(j)
  <2>1. current \in Jobs
    BY <1>3 DEF Close, OneInside
  <2>2. CASE Stop(current) /\ current' = Nobody
    <3>1. TypeOK'
      BY <1>3, <2>1, <2>2 DEF Close, Stop, StopRaises, engineVars, Throw
    <3>2. at' = [at EXCEPT ![j] = "creating"] /\ UNCHANGED <<lock, given>> /\ at[j] = "closing"
      BY <1>3, <2>1, <2>2 DEF Close, Stop, StopRaises, engineVars, Throw
    <3>3. OneInside'
      BY <2>2, <3>1, <3>2 DEF OneInside, Inside
    <3>4. SignsAreTrue'
      <4>1. \A d \in Jobs : at'[d] # "starting"
        BY <2>1, <3>2 DEF OneInside
      <4> QED
        BY <2>1, <2>2, <4>1 DEF Stop, SignsAreTrue
    <3> QED
      BY <3>1, <3>3, <3>4
  <2>3. CASE StopRaises(current) /\ Throw(j) /\ UNCHANGED current
    <3>1. TypeOK'
      BY <1>3, <2>1, <2>3 DEF Close, StopRaises, Throw
    <3> QED
      BY <1>3, <2>3, <3>1 DEF Close, StopRaises, Throw, OneInside, SignsAreTrue, Inside
  <2> QED
    BY <1>3, <2>2, <2>3 DEF Close
<1>4. CASE Create(j)
  <2>1. TypeOK'
    BY <1>4 DEF Create, Launch, Throw, engineVars
  <2> QED
    BY <1>4, <2>1 DEF Create, Launch, Throw, engineVars, OneInside, SignsAreTrue, Inside
<1>5. CASE Started(j)
  <2>1. TypeOK'
    BY <1>5 DEF Started, Return, engineVars
  <2>2. OneInside'
    BY <1>5, <2>1 DEF Started, Return, engineVars, OneInside, Inside
  <2>3. SignsAreTrue'
    BY <1>5, <2>1 DEF Started, Return, engineVars, SignsAreTrue
  <2> QED
    BY <2>1, <2>2, <2>3
<1>6. CASE StartFails(j)
  BY <1>6 DEF StartFails, Throw, engineVars, OneInside, SignsAreTrue, Inside
<1>7. CASE Finish(j)
  BY <1>7 DEF Finish, engineVars, OneInside, SignsAreTrue, Inside
<1> QED
  BY <1>1, <1>2, <1>3, <1>4, <1>5, <1>6, <1>7 DEF Step

LEMMA NextCall == CallInv /\ [Next]_vars => CallInv'
<1> SUFFICES ASSUME CallInv, [Next]_vars PROVE CallInv'
  OBVIOUS
<1>1. CASE UNCHANGED vars
  BY <1>1 DEF CallInv, TypeOK, TypeOKEngine, OneInside, SignsAreTrue, vars, engineVars, callVars
<1> QED
  BY <1>1, EngineStep, JobStep DEF Next

(***************************************************************************)
(* Where jobs are, who holds the lock and what the engines' events say     *)
(* always fit together.                                                    *)
(***************************************************************************)
THEOREM CallInvariant == Safe => []CallInv
BY InitCall, NextCall, PTL DEF Safe

(***************************************************************************)
(* One engine.                                                             *)
(***************************************************************************)
\* What a start left behind stays so.
LEMMA LeftStays ==
  ASSUME CallInv, [Next]_vars, NEW e \in Jobs, LeftBehind(e), Live(e)
  PROVE  LeftBehind(e)'
<1> USE RuntimeAssumption DEF CallInv, TypeOK, TypeOKEngine, Places, LeftBehind, Crashed
<1>1. at'[e] = "failed"
  BY DEF Next, Call, Step, Finish, Enter, Close, Create, Started, StartFails, Return, Throw,
         Reader, Overhear, Process, callVars, vars
<1>2. CASE UNCHANGED <<reader, choked>>
  BY <1>1, <1>2
<1>3. ASSUME NEW d \in Jobs, ReadLine(d) \/ ReadEof(d) \/ ReadStderr(d) PROVE LeftBehind(e)'
  BY <1>1, <1>3 DEF ReadLine, ReadEof, ReadStderr
<1>4. ASSUME NEW j \in Jobs, Close(j) PROVE LeftBehind(e)'
  <2>1. current \in Jobs /\ current # e
    BY <1>4 DEF Close, OneInside, SignsAreTrue, Live
  <2> QED
    BY <1>1, <1>4, <2>1 DEF Close, Stop, StopRaises
<1>5. ASSUME NEW j \in Jobs, Create(j) PROVE LeftBehind(e)'
  BY <1>1, <1>5 DEF Create, Launch, Live, engineVars
<1> QED
  BY <1>2, <1>3, <1>4, <1>5
  DEF Next, Step, Reader, Overhear, Process, Call, Enter, Started, StartFails, Finish, Load,
      WritePoison, Exit, Reap, vars, engineVars

\* A step leaves every live process accounted for.
LEMMA NextStrays == OneEngineInv /\ [Next]_vars => NoStrays'
<1> SUFFICES ASSUME OneEngineInv, [Next]_vars, NEW d \in Jobs, Live(d)'
             PROVE  at'[d] = "starting" \/ current' = d \/ LeftBehind(d)'
  BY DEF NoStrays
<1> USE RuntimeAssumption DEF OneEngineInv, CallInv, TypeOK, TypeOKEngine, Places, NoStrays, Live
<1>1. ASSUME Live(d), LeftBehind(d) PROVE LeftBehind(d)'
  BY <1>1, LeftStays
<1>2. CASE UNCHANGED vars
  BY <1>1, <1>2 DEF vars, engineVars, callVars
<1>3. ASSUME NEW e \in Jobs, Reader(e) \/ Overhear(e) \/ Process(e)
      PROVE  at'[d] = "starting" \/ current' = d \/ LeftBehind(d)'
  <2>1. UNCHANGED <<at, current>> /\ Live(d)
    BY <1>3 DEF Reader, Overhear, Process, callVars, ReadLine, ReadEof, ReadStderr, Load,
                WritePoison, Exit, Reap
  <2> QED
    BY <1>1, <2>1
<1>4. ASSUME NEW j \in Jobs, Call(j) \/ Enter(j) \/ Finish(j)
      PROVE  at'[d] = "starting" \/ current' = d \/ LeftBehind(d)'
  BY <1>1, <1>4 DEF Call, Enter, Finish, Return, engineVars
<1>5. ASSUME NEW j \in Jobs, Close(j)
      PROVE  at'[d] = "starting" \/ current' = d \/ LeftBehind(d)'
  <2>1. current \in Jobs /\ ~Live(current) /\ at[j] = "closing"
    BY <1>5 DEF Close, OneInside, SignsAreTrue
  <2>2. UNCHANGED process /\ current' \in {current, Nobody}
    BY <1>5, <2>1 DEF Close, Stop, StopRaises, engineVars
  <2>3. at[d] = "starting" => at'[d] = "starting"
    BY <1>5, <2>1 DEF Close, Throw
  <2> QED
    BY <1>1, <2>1, <2>2, <2>3
<1>6. ASSUME NEW j \in Jobs, Create(j)
      PROVE  at'[d] = "starting" \/ current' = d \/ LeftBehind(d)'
  BY <1>1, <1>6 DEF Create, Launch, Throw, engineVars
<1>7. ASSUME NEW j \in Jobs, Started(j)
      PROVE  at'[d] = "starting" \/ current' = d \/ LeftBehind(d)'
  <2>1. current = Nobody
    BY <1>7 DEF Started, OneInside
  <2> QED
    BY <1>1, <1>7, <2>1 DEF Started, Return, engineVars
<1>8. ASSUME NEW j \in Jobs, StartFails(j)
      PROVE  at'[d] = "starting" \/ current' = d \/ LeftBehind(d)'
  <2>1. Live(j) => LeftBehind(j)'
    BY <1>8 DEF StartFails, DiedEarly, TimedOut, SignsAreTrue, LeftBehind, Throw, Crashed, engineVars
  <2> QED
    BY <1>1, <1>8, <2>1 DEF StartFails, Throw, engineVars
<1> QED
  BY <1>2, <1>3, <1>4, <1>5, <1>6, <1>7, <1>8 DEF Next, Step

(***************************************************************************)
(* Every live process is being started, is the one in use, or was left     *)
(* behind by a start that timed out.                                       *)
(***************************************************************************)
THEOREM OneEngineInvariant == Safe => []OneEngineInv
<1>1. Init => OneEngineInv
  BY InitCall DEF Init, InitEngine, OneEngineInv, NoStrays, Live
<1>2. OneEngineInv /\ [Next]_vars => OneEngineInv'
  BY NextStrays, NextCall DEF OneEngineInv
<1> QED
  BY <1>1, <1>2, PTL DEF Safe

LEMMA Accounted == OneEngineInv => OnlyWrecksShare
<1> SUFFICES ASSUME OneEngineInv, NEW d \in Jobs, NEW e \in Jobs, Live(d), Live(e),
                    ~LeftBehind(d), ~LeftBehind(e)
             PROVE  d = e
  BY DEF OnlyWrecksShare
<1>1. (at[d] = "starting" \/ current = d) /\ (at[e] = "starting" \/ current = e)
  BY DEF OneEngineInv, NoStrays
<1>2. \A j \in Jobs : at[j] = "starting" => lock = j /\ current = Nobody
  BY DEF OneEngineInv, CallInv, OneInside, Inside
<1> QED
  BY <1>1, <1>2, RuntimeAssumption

(***************************************************************************)
(* However many jobs call, however often engines die, load late or lose a  *)
(* reader, nobody starts a process beside a live one, but for those that   *)
(* starts which timed out left behind.                                     *)
(***************************************************************************)
THEOREM NobodySharesButWrecks == Safe => []OnlyWrecksShare
BY Accounted, OneEngineInvariant, PTL

(***************************************************************************)
(* The engines in use.                                                     *)
(***************************************************************************)
\* Only an engine that has exited ceases to be the current one.
LEMMA NextKept == CallInv /\ KeepsItsEngine /\ [Next]_vars => KeepsItsEngine'
<1> SUFFICES ASSUME CallInv, KeepsItsEngine, [Next]_vars PROVE KeepsItsEngine'
  OBVIOUS
<1> USE RuntimeAssumption DEF CallInv, TypeOK, TypeOKEngine, KeepsItsEngine
<1>1. CASE UNCHANGED vars
  BY <1>1 DEF vars, engineVars, callVars
<1>2. ASSUME NEW e \in Jobs, Reader(e) \/ Overhear(e) \/ Process(e) PROVE KeepsItsEngine'
  <2>1. UNCHANGED callVars /\ \A d \in Jobs : returncode[d] => returncode'[d]
    BY <1>2 DEF Reader, Overhear, Process, ReadLine, ReadEof, ReadStderr, Load, WritePoison,
                Exit, Reap
  <2> QED
    BY <2>1 DEF callVars
<1>3. ASSUME NEW j \in Jobs, Call(j) \/ Enter(j) \/ Finish(j) PROVE KeepsItsEngine'
  BY <1>3 DEF Call, Enter, Finish, Return, engineVars
<1>4. ASSUME NEW j \in Jobs, Close(j) PROVE KeepsItsEngine'
  <2>1. current # Nobody /\ returncode[current] /\ UNCHANGED returncode
    BY <1>4 DEF Close, OneInside, Stop, StopRaises, engineVars
  <2>2. UNCHANGED given /\ \A i \in Jobs : at'[i] = "using" => at[i] = "using"
    BY <1>4 DEF Close, Throw
  <2> QED
    BY <2>1, <2>2
<1>5. ASSUME NEW j \in Jobs, Create(j) \/ StartFails(j) PROVE KeepsItsEngine'
  <2>1. UNCHANGED <<current, given, returncode>>
    BY <1>5 DEF Create, StartFails, Launch, Throw, engineVars
  <2>2. \A i \in Jobs : at'[i] = "using" => at[i] = "using"
    BY <1>5 DEF Create, StartFails, Throw
  <2> QED
    BY <2>1, <2>2
<1>6. ASSUME NEW j \in Jobs, Started(j) PROVE KeepsItsEngine'
  <2>1. current = Nobody
    BY <1>6 DEF Started, OneInside
  <2> QED
    BY <1>6, <2>1 DEF Started, Return, engineVars
<1> QED
  BY <1>1, <1>2, <1>3, <1>4, <1>5, <1>6 DEF Next, Step

(***************************************************************************)
(* Whatever engines and other jobs do, timeouts and crashed readers        *)
(* included, a job keeps its engine until that has exited.                 *)
(***************************************************************************)
THEOREM NobodyLosesAnEngine == Safe => []KeepsItsEngine
<1>1. Init => KeepsItsEngine
  BY DEF Init, KeepsItsEngine
<1> QED
  BY <1>1, NextKept, CallInvariant, PTL DEF Safe

(***************************************************************************)
(* Recovery.                                                               *)
(***************************************************************************)
\* A call that fails finds no runtime, or one that has lost a reader.
LEMMA FailingStep ==
  ASSUME CallInv, Next, NEW j \in Jobs, at'[j] # at[j]
  PROVE  /\ at'[j] = "failed" => current' = Nobody \/ Crashed(current)
         /\ at'[j] = "using" => given'[j] = current' /\ attached'[current']
<1> USE RuntimeAssumption DEF CallInv, TypeOK, TypeOKEngine
<1>1. Call(j) \/ Step(j) \/ Finish(j)
  BY DEF Next, Call, Step, Finish, Enter, Close, Create, Started, StartFails, Return, Throw,
         Reader, Overhear, Process, callVars
<1>2. CASE Call(j) \/ Finish(j)
  BY <1>2 DEF Call, Finish
<1>3. CASE Enter(j)
  BY <1>3 DEF Enter, Return, IsRunning, engineVars
<1>4. CASE Close(j)
  BY <1>4 DEF Close, StopRaises, Throw
<1>5. CASE Create(j) \/ StartFails(j)
  BY <1>5 DEF Create, StartFails, Throw, OneInside
<1>6. CASE Started(j)
  BY <1>6 DEF Started, Return, SignsAreTrue, engineVars
<1> QED
  BY <1>1, <1>2, <1>3, <1>4, <1>5, <1>6 DEF Step

(***************************************************************************)
(* A call that fails leaves no runtime to the calls after it but one that  *)
(* has lost a reader, and one that is served gets an engine that has not   *)
(* been stopped.                                                           *)
(***************************************************************************)
THEOREM OnlyTheCrashedIsLeft == Safe => LeavesOnlyTheCrashed
<1>1. CallInv /\ [Next]_vars =>
        [\A j \in Jobs : at'[j] # at[j] =>
           /\ at'[j] = "failed" => current' = Nobody \/ Crashed(current)
           /\ at'[j] = "using" => given'[j] = current' /\ attached'[current']]_vars
  BY FailingStep
<1> QED
  BY <1>1, CallInvariant, PTL DEF Safe, LeavesOnlyTheCrashed

(***************************************************************************)
(* What the repository says holds of engines that load in time and write   *)
(* only lines their readers survive.                                       *)
(***************************************************************************)
LEMMA NextReaders ==
  ASSUME Poisonous = {}
  PROVE  CallInv /\ ReadersLive /\ [Next]_vars => ReadersLive'
<1> SUFFICES ASSUME CallInv, ReadersLive, [Next]_vars PROVE ReadersLive'
  OBVIOUS
<1> USE DEF ReadersLive, Crashed, CallInv, TypeOK, TypeOKEngine
<1>1. CASE UNCHANGED <<reader, choked, stdout>>
  BY <1>1
<1>2. ASSUME NEW e \in Jobs, ReadLine(e) PROVE ReadersLive'
  <2>1. Head(stdout[e]) = "reply" /\ Tail(stdout[e]) \in Seq({"reply"})
    BY <1>2 DEF ReadLine
  <2> QED
    BY <1>2, <2>1 DEF ReadLine
<1>3. ASSUME NEW e \in Jobs, ReadEof(e) \/ ReadStderr(e) \/ WritePoison(e) PROVE ReadersLive'
  BY <1>3 DEF ReadEof, ReadStderr, WritePoison
<1>4. ASSUME NEW e \in Jobs, Load(e) PROVE ReadersLive'
  <2>1. Append(stdout[e], "reply") \in Seq({"reply"})
    OBVIOUS
  <2> QED
    BY <1>4, <2>1 DEF Load
<1>5. ASSUME NEW j \in Jobs, Close(j) PROVE ReadersLive'
  <2>1. current \in Jobs
    BY <1>5, RuntimeAssumption DEF Close, OneInside
  <2> QED
    BY <1>5, <2>1 DEF Close, Stop, StopRaises
<1>6. ASSUME NEW j \in Jobs, Create(j) PROVE ReadersLive'
  BY <1>6 DEF Create, Launch, engineVars
<1> QED
  BY <1>1, <1>2, <1>3, <1>4, <1>5, <1>6
  DEF Next, Step, Reader, Overhear, Process, Call, Enter, Started, StartFails, Finish, Exit, Reap,
      vars, engineVars

LEMMA ReadersStay ==
  ASSUME Poisonous = {}
  PROVE  Safe => []ReadersLive
<1>1. Init => ReadersLive
  <2> SUFFICES ASSUME Init, NEW e \in Jobs
               PROVE  ~Crashed(e) /\ stdout[e] \in Seq({"reply"})
    BY DEF ReadersLive
  <2>1. reader[e] = "none" /\ stdout[e] = << >>
    BY DEF Init, InitEngine
  <2>2. choked[e] = FALSE
    BY DEF Init, InitEngine
  <2> QED
    BY <2>1, <2>2 DEF Crashed
<1> QED
  BY <1>1, NextReaders, CallInvariant, PTL DEF Safe

(***************************************************************************)
(* If engines load in time and their readers survive there is never more   *)
(* than one process.                                                       *)
(***************************************************************************)
THEOREM ThereIsOneEngine ==
  ASSUME Slow = {}, Poisonous = {}
  PROVE  Safe => []OneEngine
<1>1. OnlyWrecksShare /\ ReadersLive => OneEngine
  BY DEF OnlyWrecksShare, LeftBehind, ReadersLive, OneEngine
<1> QED
  BY <1>1, NobodySharesButWrecks, ReadersStay, PTL

(***************************************************************************)
(* If readers survive their lines, a call that fails leaves no dead        *)
(* runtime to the calls after it.                                          *)
(***************************************************************************)
THEOREM NoWreckIsLeft ==
  ASSUME Poisonous = {}
  PROVE  Safe => LeavesNoWreck
<1>1. CallInv /\ ReadersLive /\ [Next]_vars =>
        [\A j \in Jobs : at'[j] # at[j] /\ at'[j] = "failed" => current' = Nobody]_vars
  <2> SUFFICES ASSUME CallInv, ReadersLive, Next, NEW j \in Jobs,
                      at'[j] # at[j], at'[j] = "failed", current' # Nobody
               PROVE  FALSE
    OBVIOUS
  <2>1. Crashed(current)
    BY FailingStep
  <2>2. current' = current
    BY RuntimeAssumption DEF Next, Call, Step, Finish, Enter, Close, Create, Started, StartFails, Return,
       Reader, Overhear, Process, callVars, CallInv, TypeOK
  <2> QED
    BY <2>1, <2>2 DEF ReadersLive, CallInv, TypeOK
<1> QED
  BY <1>1, CallInvariant, ReadersStay, PTL DEF Safe, LeavesNoWreck
=============================================================================
