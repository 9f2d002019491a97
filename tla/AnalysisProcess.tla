--------------------------- MODULE AnalysisProcess ---------------------------
(***************************************************************************)
(* The `katago analysis` child process while it works on one review, as    *)
(* app/protocol.py and app/reviewer.py rely on it.  KataGo is not part of  *)
(* the repository, so everything here is external.                         *)
(*                                                                         *)
(* Searches land in any order.  A teaching report is written the moment    *)
(* the second search of its pair lands, ahead of that search's own result  *)
(* (app/protocol.py:116-119).  Between answers the process may write       *)
(* whatever else parse_line has a branch for.                              *)
(***************************************************************************)
EXTENDS Protocol, Sequences

CONSTANTS
  NumMoves,      \* moves in the game; position t is the one before move t
  LastPosition,  \* the last position the process will search
  ReviewId,      \* the id of this review's query
  OtherId,       \* the id of some other query
  PipeBound,     \* BOUND: unasked-for lines are written only into a pipe shorter than this
  Poison         \* whether the process may write a line its reader does not survive

VARIABLES
  alive,      \* the process exists
  running,    \* its return code is still None: what is_running reads
  asked,      \* it has been given the review's query
  searched,   \* positions whose search has landed
  stdout      \* lines written and not yet read, oldest first

processVars == <<alive, running, asked, searched, stdout>>

ASSUME GameAssumption ==
  /\ NumMoves \in Nat
  /\ LastPosition \in {NumMoves - 1, NumMoves} \cap Nat
  /\ PipeBound \in Nat
  /\ Poison \in BOOLEAN

Positions == 0 .. NumMoves
Requested == 0 .. NumMoves - 1     \* analyzeTurns
SearchPlan == ExpectedTurns(Requested, LastPosition)

\* The turns whose report the process has written.
Reported == {t \in Requested : {t, t + 1} \subseteq searched}

EngineLines == Lines({ReviewId, OtherId}, Positions)

Result(id, t, final) ==
  [Line("object") EXCEPT !.id = id, !.turn = t, !.during = ~final]
Report(t) ==
  [Line("object") EXCEPT !.id = ReviewId, !.turn = t, !.teaching = TRUE,
                         !.report = TRUE, !.position = t]
Complaint(id) == [Line("object") EXCEPT !.id = id, !.error = TRUE]
BareReport ==
  [Line("object") EXCEPT !.id = ReviewId, !.turn = 0, !.teaching = TRUE, !.report = TRUE]

\* What nobody asked for: interim results, another query's result, its own
\* noise, an error of this query or of none, and the lines that kill a reader.
UnaskedLines ==
  {Result(ReviewId, t, FALSE) : t \in Requested} \cup
  {Result(OtherId, t, TRUE) : t \in Requested} \cup
  {Line("text")} \cup
  {Complaint(ReviewId), Complaint(Absent)} \cup
  (IF Poison THEN {BareReport, Line("overlong")} ELSE {})

TypeOKProcess ==
  /\ alive \in BOOLEAN /\ running \in BOOLEAN /\ asked \in BOOLEAN
  /\ searched \subseteq Positions
  /\ stdout \in Seq(EngineLines)

InitProcess ==
  /\ alive = TRUE /\ running = TRUE /\ asked = FALSE
  /\ searched = {}
  /\ stdout = << >>

\* What a search at `t` writes when it lands: the reports of the pairs it
\* completes, then its own result.
PairedBefore(t) == IF t - 1 \in searched THEN <<Report(t - 1)>> ELSE << >>
PairedAfter(t)  == IF t + 1 \in searched THEN <<Report(t)>> ELSE << >>

Landing(t) == PairedBefore(t) \o PairedAfter(t) \o <<Result(ReviewId, t, TRUE)>>

SearchLands(t) ==
  /\ alive /\ asked
  /\ t \in SearchPlan \ searched
  /\ searched' = searched \cup {t}
  /\ stdout' = stdout \o Landing(t)
  /\ UNCHANGED <<alive, running, asked>>

WriteUnasked ==
  /\ alive /\ asked
  /\ Len(stdout) < PipeBound
  /\ \E line \in UnaskedLines : stdout' = Append(stdout, line)
  /\ UNCHANGED <<alive, running, asked, searched>>

Exit ==
  /\ alive /\ alive' = FALSE
  /\ UNCHANGED <<running, asked, searched, stdout>>

\* The event loop notices some time after the process has gone, and what the
\* process wrote may still be in the pipe.
Reap ==
  /\ ~alive /\ running /\ running' = FALSE
  /\ UNCHANGED <<alive, asked, searched, stdout>>
=============================================================================
