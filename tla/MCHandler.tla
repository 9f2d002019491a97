------------------------------- MODULE MCHandler -------------------------------
(***************************************************************************)
(* Module Handler on small inputs: games of up to three moves, one more    *)
(* than is allowed, over spellings good and bad, visits around each bound, *)
(* and a few views of a position, two candidates of one order among them.  *)
(***************************************************************************)
EXTENDS Handler

CONSTANTS Q16, D4, Rank4k

MCPoints == {Q16, D4}
MCWords == MCPoints \cup {"B", "W", "E", Absent}

Spellings ==
  {Pair(<<"B", Q16>>), Object("B", Q16), Object("W", "E"),
   Pair(<<"B", Q16, "W">>), Pair(<<"B">>), Object("E", Q16), Object("B", Absent)}

MCGames ==
  {<< >>} \cup {<<m>> : m \in Spellings} \cup {<<m, n>> : m, n \in Spellings}
  \cup {<<m, m, Pair(<<"W", Q16>>)>> : m \in Spellings}

MCSetups == {<< >>, <<Pair(<<"B", Q16>>)>>, <<Pair(<<Q16, "B">>)>>}

MCVisits == {0, 1, MinVisits - 1, MinVisits, MaxVisits, MaxVisits + 1}

Value(winrate, score) == [winrate |-> winrate, score |-> score]

Candidate(point, order) ==
  [move |-> point, order |-> order, value |-> Value(60 - order, 3)]

MCViews ==
  {[root |-> v, infos |-> infos, ownership |-> <<1, -2>>] :
     v \in {Value(60, 3), Value(0, -20)},
     infos \in {<< >>, <<Candidate(Q16, 1), Candidate(D4, 0)>>,
                <<Candidate(Q16, 2), Candidate(D4, 0), Candidate(Q16, 1)>>,
                <<Candidate(Q16, 1), Candidate(D4, 1), Candidate(Q16, 0)>>}}
=============================================================================
