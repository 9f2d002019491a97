-------------------------------- MODULE Handler --------------------------------
(***************************************************************************)
(* app/handler.py: one job of a serverless worker, from its payload to the *)
(* result RunPod records.  runtime() is module Runtime, analyse() Analyst  *)
(* and a review Review; here each is one step with its outcomes, taken     *)
(* while other jobs start engines and engines die.                         *)
(***************************************************************************)
EXTENDS Requests, Summary

CONSTANTS
  Games, Setups,   \* lists of moves and of stones, as they may be written
  Visits,          \* numbers of visits that may be asked for
  Points,          \* what the engine may propose, "pass" included
  Views            \* what the engine may think of a position, told from Black's view

ASSUME HandlerAssumption ==
  /\ Visits \subseteq Int
  /\ Games \cup Setups \subseteq Seq(Spelled)
  /\ Views \subseteq Opinions(Points)

Kinds == {"review", "analyze", "ping"}

\* The inputs of jobs.
Payloads ==
  [kind : {"review"}, moves : Games, stones : Setups, visits : Visits \cup {Absent},
   rank : {Absent, Rank}, human : BOOLEAN]
  \cup [kind : {"analyze"}, moves : Games, stones : Setups, visits : Visits \cup {Absent},
        ownership : BOOLEAN]
  \cup [kind : {"ping"}, warm : BOOLEAN]
  \cup [kind : {"unknown"}]

VARIABLES
  job,          \* its payload
  at,           \* where it is
  humanModel,   \* the worker has a human model
  engine,       \* _runtime and its engine
  warm,         \* what a ping is going to say of the engine
  query,        \* what has been sent to the engine
  view,         \* what the engine thinks of the position asked about
  answer        \* what the board is told

vars == <<job, at, humanModel, engine, warm, query, view, answer>>

Engines == {"none", "running", "stopped"}
Over == {"refused", "failed", "reported", "returned"}

TypeOK ==
  /\ job \in Payloads
  /\ at \in {"received", "reaching", "calling", "asked"} \cup Over
  /\ humanModel \in BOOLEAN /\ warm \in BOOLEAN
  /\ engine \in Engines
  /\ at \in {"reaching", "calling"} => job.kind \in Kinds
  /\ query # Absent \/ at = "asked" =>
       /\ job.kind \in {"review", "analyze"} /\ Validates(job)
       /\ query = QueryFor(job, humanModel)
  /\ view \in Views \cup {Absent}

Init ==
  /\ job \in Payloads
  /\ at = "received"
  /\ humanModel \in BOOLEAN /\ engine \in Engines
  /\ warm = FALSE /\ query = Absent /\ view = Absent /\ answer = Absent

-------------------------------------------------------------------------------
\* A kind nobody knows fails before the engine is touched; a ping first looks
\* at the worker as it is.
Dispatch ==
  /\ at = "received"
  /\ \/ job.kind \notin Kinds /\ at' = "failed" /\ UNCHANGED warm
     \/ job.kind = "ping" /\ at' = "reaching" /\ warm' = (engine = "running")
     \/ job.kind \in {"review", "analyze"} /\ at' = "calling" /\ UNCHANGED warm
  /\ UNCHANGED <<job, humanModel, engine, query, view, answer>>

\* Laravel has been reached, or not.
Reached ==
  /\ at = "reaching"
  /\ at' = IF job.warm THEN "calling" ELSE "reported"
  /\ UNCHANGED <<job, humanModel, engine, warm, query, view, answer>>

AskIf(valid) ==
  IF ~valid THEN at' = "refused" /\ UNCHANGED query
  ELSE IF engine' # "running" THEN at' = "failed" /\ UNCHANGED query
  ELSE at' = "asked" /\ query' = QueryFor(job, humanModel)

\* MUTANT of Ask: the moves are read, the bounds are not.
AskUnbounded == AskIf(AreMoves(job.moves) /\ AreMoves(job.stones))

\* The payload is read only now, with the engine up.
Ask == AskIf(Validates(job))

\* runtime() returns; the engine it waited for may be gone by then.
CallReturns(says) ==
  /\ at = "calling"
  /\ engine' \in {"running", "stopped"}
  /\ IF job.kind = "ping"
       THEN at' = "reported" /\ warm' = says /\ UNCHANGED query
       ELSE Ask /\ UNCHANGED warm
  /\ UNCHANGED <<job, humanModel, view, answer>>

\* MUTANT of Called: a ping takes runtime() at its word.
CalledOnTrust == CallReturns(TRUE)

\* A ping looks at that engine once more.
Called == CallReturns(engine' = "running")

\* runtime() raises, which for a ping is an answer.
CallFails ==
  /\ at = "calling"
  /\ engine' \in {"none", "stopped"}
  /\ IF job.kind = "ping"
       THEN at' = "reported" /\ warm' = FALSE
       ELSE at' = "failed" /\ UNCHANGED warm
  /\ UNCHANGED <<job, humanModel, query, view, answer>>

\* The engine tells what it thinks in the view of whoever is to move; its
\* candidates come in any order.
Told(v, player) ==
  LET Mover(value) == IF player = "B" THEN value
                      ELSE [winrate |-> Whole - value.winrate, score |-> -value.score]
  IN  [player |-> player, root |-> Mover(v.root),
       infos |-> [i \in DOMAIN v.infos |-> [v.infos[i] EXCEPT !.value = Mover(@)]],
       ownership |-> [i \in DOMAIN v.ownership |->
                       IF player = "B" THEN v.ownership[i] ELSE -v.ownership[i]]]

Analysed ==
  /\ at = "asked" /\ job.kind = "analyze"
  /\ \E v \in Views, player \in Colours :
       /\ view' = v
       /\ answer' = Summarise(Told(v, player), job.ownership)
  /\ at' = "returned"
  /\ UNCHANGED <<job, humanModel, engine, warm, query>>

\* A review ends, or whatever was asked fails.
Ends ==
  /\ at = "asked"
  /\ \/ at' = "failed"
     \/ job.kind = "review" /\ at' = "returned"
  /\ UNCHANGED <<job, humanModel, engine, warm, query, view, answer>>

\* Other jobs, and the process itself.
EngineChanges ==
  /\ at \notin Over
  /\ engine' \in Engines \ {engine}
  /\ UNCHANGED <<job, at, humanModel, warm, query, view, answer>>

Next ==
  \/ Dispatch \/ Reached \/ Called \/ CallFails
  \/ Analysed \/ Ends \/ EngineChanges

Spec == Init /\ [][Next]_vars

-------------------------------------------------------------------------------
(***************************************************************************)
(* The bounds of a request are a spending limit (schemas.py:76-84): no     *)
(* query searches more positions than the longest game has, or one, nor    *)
(* any of them with more visits than the ceiling, whichever fields were    *)
(* left out.  One request goes round the ceiling: a review that asks for   *)
(* zero visits gets the worker's default, whatever that is.                *)
(***************************************************************************)
AsksForDefault(p) == p.kind = "review" /\ p.visits = 0

CostIsBounded ==
  query # Absent =>
    /\ Cardinality(query.turns) <= (IF job.kind = "review" THEN MaxMoves ELSE 1)
    /\ IF AsksForDefault(job) THEN query.visits = DefaultVisits
                              ELSE query.visits \in 1 .. MaxVisits

(***************************************************************************)
(* The engine is asked about the game the caller meant, however each move  *)
(* was spelled (schemas.py:29-57, query.py:42-113); a review is asked      *)
(* about the position before every move, an analysis about the one after   *)
(* the last.                                                               *)
(***************************************************************************)
Says(m, move) == m = Pair(move) \/ m = Object(move[1], move[2])

SaysAll(written, moves) ==
  Len(written) = Len(moves) /\ \A i \in DOMAIN moves : Says(written[i], moves[i])

AsksWhatWasMeant ==
  query # Absent =>
    /\ SaysAll(job.moves, query.moves) /\ SaysAll(job.stones, query.stones)
    /\ query.turns = {n \in 0 .. Len(job.moves) :
                        n < Len(job.moves) <=> job.kind = "review"}
    /\ query.rank # Absent => humanModel /\ job.human

(***************************************************************************)
(* Only what has no meaning is refused: both spellings of every legal      *)
(* payload are taken (schemas.py:38-44).                                   *)
(***************************************************************************)
Meant(written) ==
  \A i \in DOMAIN written :
    \E c \in Colours, l \in Words \ {Absent} : Says(written[i], <<c, l>>)

RefusedIsMeaningless ==
  at = "refused" =>
    \/ ~Meant(job.moves) \/ ~Meant(job.stones)
    \/ job.kind = "review" /\ Len(job.moves) > MaxMoves
    \/ /\ job.visits # Absent
       /\ job.visits \notin (IF job.kind = "review" THEN 0 ELSE MinVisits) .. MaxVisits

(***************************************************************************)
(* A ping is answered by a worker in any state, and a warm one tells the   *)
(* truth about the engine at the moment it answers, not when it was asked  *)
(* (handler.py:120-125, 150-199).                                          *)
(***************************************************************************)
PingTellsTheTruth ==
  [][job.kind = "ping" =>
       /\ at' \notin {"failed", "refused"}
       /\ at' = "reported" /\ at # at' /\ job.warm => warm' = (engine' = "running")]_vars

(***************************************************************************)
(* The board draws what the engine thinks, from Black's side whoever is to *)
(* move (analysis.py:123-131): winrate, score, ownership and candidates,   *)
(* the best of them and the best first, those of one order as they came.   *)
(***************************************************************************)
Before(infos, i, j) ==
  \/ infos[i].order < infos[j].order
  \/ infos[i].order = infos[j].order /\ i < j

BoardSees ==
  answer # Absent =>
    /\ answer.root = view.root
    /\ answer.ownership = IF job.ownership THEN view.ownership ELSE << >>
    /\ DOMAIN answer.moves = {k \in DOMAIN view.infos : k <= Top}
    /\ \E from \in [DOMAIN answer.moves -> DOMAIN view.infos] : \A k \in DOMAIN from :
         /\ answer.moves[k] = view.infos[from[k]]
         /\ \A l \in DOMAIN from : k < l => Before(view.infos, from[k], from[l])
         /\ \A i \in DOMAIN view.infos :
              (\A l \in DOMAIN from : i # from[l]) => Before(view.infos, from[k], i)
=============================================================================
