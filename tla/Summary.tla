-------------------------------- MODULE Summary --------------------------------
(***************************************************************************)
(* summarise() of app/analysis.py: an engine's answer, told from the view  *)
(* of whoever is to move, becomes what a board draws, told from Black's.   *)
(* Winrates count in hundredths; rounding, and what is passed through as   *)
(* it came, are left out.                                                  *)
(***************************************************************************)
EXTENDS Integers, Sequences, FiniteSets

CONSTANT Top   \* the candidates a board is shown

ASSUME SummaryAssumption == Top \in Nat

Whole == 100

\* What an engine may think of a position.
Values == [winrate : Int, score : Int]
Opinions(points) ==
  [root : Values, infos : Seq([move : points, order : Int, value : Values]),
   ownership : Seq(Int)]

\* MUTANT of AsBlack: the score is left in the mover's view.
AsBlackHalf(v, flip) ==
  IF flip THEN [winrate |-> Whole - v.winrate, score |-> v.score] ELSE v

AsBlack(v, flip) ==
  IF flip THEN [winrate |-> Whole - v.winrate, score |-> -v.score] ELSE v

\* The place of the i-th candidate when they are sorted by order.
Place(infos, i) ==
  Cardinality({j \in DOMAIN infos :
    \/ infos[j].order < infos[i].order
    \/ infos[j].order = infos[i].order /\ j <= i})

Shown(infos) ==
  [k \in 1 .. (IF Len(infos) < Top THEN Len(infos) ELSE Top) |->
    infos[CHOOSE i \in DOMAIN infos : Place(infos, i) = k]]

Summarise(payload, includeOwnership) ==
  LET flip == payload.player = "W"
      shown == Shown(payload.infos)
  IN  [root |-> AsBlack(payload.root, flip),
       moves |-> [k \in DOMAIN shown |->
                   [move |-> shown[k].move, order |-> shown[k].order,
                    value |-> AsBlack(shown[k].value, flip)]],
       ownership |-> IF ~includeOwnership THEN << >>
                     ELSE [i \in DOMAIN payload.ownership |->
                            IF flip THEN -payload.ownership[i] ELSE payload.ownership[i]]]
=============================================================================
