------------------------------ MODULE Protocol ------------------------------
(***************************************************************************)
(* app/protocol.py: one line of engine output becomes a response, and the  *)
(* tracker of a whole-game query sorts the responses by turn until every   *)
(* expected search has reported.  All of it is pure; the modules that read *)
(* lines one at a time carry the state.                                    *)
(*                                                                         *)
(* Payloads are abstracted: a report or an evaluation is its turn number.  *)
(***************************************************************************)
EXTENDS Integers

CONSTANT Absent   \* a JSON field the message lacks

ASSUME AbsentAssumption == Absent \notin Int

(***************************************************************************)
(* The lines an engine can write.  A line is blank, text that is not a     *)
(* JSON object, longer than the stream reader's limit ("overlong", which   *)
(* never gets as far as parse_line), or an object; the remaining fields    *)
(* describe the object.                                                    *)
(* `during` is isDuringSearch, `report` whether teachingReport is a        *)
(* dictionary, `position` the turn number inside that report.              *)
(***************************************************************************)
Lines(ids, turns) ==
  [shape    : {"blank", "text", "overlong", "object"},
   id       : ids \cup {Absent},
   error    : BOOLEAN,
   warning  : BOOLEAN,
   turn     : turns \cup {Absent},
   during   : {TRUE, FALSE, Absent},
   teaching : BOOLEAN,
   report   : BOOLEAN,
   position : turns \cup {Absent}]

(***************************************************************************)
(* What parse_line makes of a line: one of the three responses, nothing    *)
(* ("ignored"), a ProtocolError ("malformed"), or an exception nobody      *)
(* catches ("crash").                                                      *)
(***************************************************************************)
Response(kind, id, turn, final) ==
  [kind |-> kind, id |-> id, turn |-> turn, final |-> final]

Answers == {"analysis", "teaching", "error"}

Responses(ids, turns) ==
  [kind  : Answers \cup {"ignored", "malformed", "crash"},
   id    : ids \cup {Absent},
   turn  : turns \cup {Absent},
   final : BOOLEAN]

Line(shape) ==
  [shape |-> shape, id |-> Absent, error |-> FALSE, warning |-> FALSE,
   turn |-> Absent, during |-> Absent, teaching |-> FALSE, report |-> FALSE,
   position |-> Absent]

NoResponse(kind) == Response(kind, Absent, Absent, FALSE)

\* The report's own turn number is evaluated even when the message has one,
\* so a report without a position raises KeyError either way.
ParseLine(m) ==
  CASE m.shape = "blank"                -> NoResponse("ignored")
    [] m.shape = "text"                 -> NoResponse("malformed")
    [] m.shape = "object" /\ m.error    -> Response("error", m.id, Absent, FALSE)
    [] m.shape = "object" /\ ~m.error /\ m.warning /\ m.turn = Absent
                                        -> NoResponse("ignored")
    [] m.shape = "object" /\ ~m.error /\ ~(m.warning /\ m.turn = Absent) ->
         IF m.teaching
           THEN IF ~m.report THEN NoResponse("malformed")
                ELSE IF m.position = Absent THEN NoResponse("crash")
                ELSE Response("teaching", m.id,
                              IF m.turn = Absent THEN m.position ELSE m.turn, FALSE)
           ELSE IF m.turn = Absent THEN NoResponse("ignored")
                ELSE Response("analysis", m.id, m.turn, m.during = FALSE)

(***************************************************************************)
(* QueryTracker.                                                           *)
(***************************************************************************)
Trackers(turns) ==
  [reports : SUBSET turns, snapshots : SUBSET turns, error : BOOLEAN]

NewTracker == [reports |-> {}, snapshots |-> {}, error |-> FALSE]

\* Asking for a turn implicitly asks for the next, unless it is the last.
ExpectedTurns(requested, maxTurn) ==
  requested \cup {t + 1 : t \in {u \in requested : u + 1 <= maxTurn}}

IsComplete(tracker, expected) ==
  tracker.error \/ expected \subseteq tracker.snapshots

\* MUTANT of Belongs: answers are not matched by id.
BelongsAny(queryId, r) == r.kind \in Answers

\* An error that names no query belongs to whoever is asked first.
Belongs(queryId, r) ==
  \/ r.kind = "error" /\ r.id \in {Absent, queryId}
  \/ r.kind \in {"analysis", "teaching"} /\ r.id = queryId

\* MUTANT of Accept: an interim result counts as the search's own.
AcceptInterim(tracker, r) ==
  CASE r.kind = "error"    -> [tracker EXCEPT !.error = TRUE]
    [] r.kind = "teaching" -> [tracker EXCEPT !.reports = @ \cup {r.turn}]
    [] r.kind = "analysis" -> [tracker EXCEPT !.snapshots = @ \cup {r.turn}]

\* What accept() stores of a response that belongs to the query.
Accept(tracker, r) ==
  CASE r.kind = "error"                 -> [tracker EXCEPT !.error = TRUE]
    [] r.kind = "teaching"              -> [tracker EXCEPT !.reports = @ \cup {r.turn}]
    [] r.kind = "analysis" /\ r.final   -> [tracker EXCEPT !.snapshots = @ \cup {r.turn}]
    [] r.kind = "analysis" /\ ~r.final  -> tracker
=============================================================================
