--------------------------- MODULE MCEnterScores ----------------------------
(* One or two encounters; e2 was played after e1.                          *)
EXTENDS EnterScores, TLC

CONSTANTS e1, e2, r1, r2

RunSymmetry == Permutations({r1, r2})

DateOne == e1 :> 1
DateTwo == e1 :> 1 @@ e2 :> 2
=============================================================================
