-------------------------------- MODULE Requests --------------------------------
(***************************************************************************)
(* What a caller may ask for (app/schemas.py), what the entry points make  *)
(* of it, and the query the engine is given (app/query.py).  All of it is  *)
(* pure.  A move is a colour and a text that should be a point; whatever   *)
(* goes to the engine as it came - board, komi, rules, student colour - is *)
(* left out.                                                               *)
(***************************************************************************)
EXTENDS Integers, Sequences

CONSTANTS
  Words,          \* what a payload may hold where a colour or a point belongs
  Rank,           \* the rank a review's student may have
  Absent,         \* a field the payload lacks, or that is no text
  MaxMoves,       \* the longest game taken: 1000
  MinVisits, MaxVisits,            \* 10 and 4000
  DefaultVisits,                   \* Settings.default_visits
  AnalyzeVisits, ReviewVisits      \* the fields' defaults: 200 and 100

Colours == {"B", "W"}

\* Nothing bounds DEFAULT_VISITS: it is whatever number the environment holds.
ASSUME RequestsAssumption ==
  /\ Rank # Absent /\ Absent \notin Int /\ Absent \notin Colours
  /\ MaxMoves \in Nat /\ MinVisits \in Nat \ {0} /\ MaxVisits \in Nat
  /\ DefaultVisits \in Int
  /\ AnalyzeVisits \in MinVisits .. MaxVisits /\ ReviewVisits \in 1 .. MaxVisits

-------------------------------------------------------------------------------
(***************************************************************************)
(* A move as it is spelled: the words of a list, or an object.             *)
(***************************************************************************)
Spelled ==
  [form : {"pair"}, words : Seq(Words)] \cup [form : {"object"}, color : Words, loc : Words]

Pair(words) == [form |-> "pair", words |-> words]
Object(color, loc) == [form |-> "object", color |-> color, loc |-> loc]

\* Any text is taken for a point; what is not one is left to the engine.
Plays(color, loc) == color \in Colours /\ loc # Absent

IsPair(m, lengths) ==
  m.form = "pair" /\ Len(m.words) \in lengths /\ Plays(m.words[1], m.words[2])

\* As a MUTANT of IsMove: a pair is refused.
IsObject(m) == m.form = "object" /\ Plays(m.color, m.loc)

\* MUTANT of IsMove: whatever follows a pair is overlooked.
IsMoveAndMore(m) == IsObject(m) \/ IsPair(m, {2, 3})

IsMove(m) == IsObject(m) \/ IsPair(m, {2})

\* What both spellings normalise to, as the engine takes it.
AsPair(m) ==
  IF m.form = "pair" THEN <<m.words[1], m.words[2]>> ELSE <<m.color, m.loc>>

AsPairs(moves) == [i \in DOMAIN moves |-> AsPair(moves[i])]

AreMoves(moves) == \A i \in DOMAIN moves : IsMove(moves[i])

Or(field, default) == IF field = Absent THEN default ELSE field

AnalyzeIn(p) ==
  /\ AreMoves(p.moves) /\ AreMoves(p.stones)
  /\ Or(p.visits, AnalyzeVisits) \in MinVisits .. MaxVisits

ReviewIn(p) ==
  /\ AreMoves(p.moves) /\ AreMoves(p.stones) /\ Len(p.moves) <= MaxMoves
  /\ Or(p.visits, ReviewVisits) \in 0 .. MaxVisits

Validates(p) == IF p.kind = "review" THEN ReviewIn(p) ELSE AnalyzeIn(p)

-------------------------------------------------------------------------------
\* Zero visits ask for the worker's default.
VisitsAsked(p) ==
  LET visits == Or(p.visits, ReviewVisits)
  IN  IF visits = 0 THEN DefaultVisits ELSE visits

\* One query for a whole game: the positions to search, counted from 0.  The
\* student's rank is named only to an engine that has the human model.
BuildQuery(p, humanModel) ==
  [moves |-> AsPairs(p.moves), stones |-> AsPairs(p.stones),
   turns |-> 0 .. Len(p.moves) - 1,
   visits |-> VisitsAsked(p),
   rank |-> IF p.human /\ humanModel THEN p.rank ELSE Absent,
   interim |-> FALSE]

\* One position; without analyzeTurns the engine searches the last one.
BuildPositionQuery(p) ==
  [moves |-> AsPairs(p.moves), stones |-> AsPairs(p.stones),
   turns |-> {Len(p.moves)},
   visits |-> Or(p.visits, AnalyzeVisits),
   rank |-> Absent, interim |-> TRUE]

QueryFor(p, humanModel) ==
  IF p.kind = "review" THEN BuildQuery(p, humanModel) ELSE BuildPositionQuery(p)
=============================================================================
