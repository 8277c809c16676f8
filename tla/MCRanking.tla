----------------------------- MODULE MCRanking ------------------------------
(* The calculation and the rules its rows are written by, in one instance. *)
EXTENDS RankingCalculation, RankingLevels

CONSTANTS p1, p2, j1, r1, r2, single, double, mix

(* What is so of the rules is so of every table they have written to.  (The*)
(* rules do not depend on the table: TLC evaluates each fact once.)        *)
WrittenBy(rules) ==
  \A p \in Player, d \in Day : place[p][d] # NoPlace => rules

(* No row holds another level than the best choice among the won games of  *)
(* its player would give.                                                  *)
AverageIsBest == WrittenBy(GreedyIsBest)

(* The rows of a player with the same games in every period settle: no     *)
(* level goes down again that did not go down before, and none goes up     *)
(* that did not, unless it follows a better discipline up to stay within   *)
(* maxDiffLevels.                                                          *)
SameGamesSettle == WrittenBy(RowsSettle)

(* From row to row levels stay within the system and maxDiffLevels, and    *)
(* move by maxLevelUpPerChange and maxLevelDownPerChange at most, but for  *)
(* the one penalty of a player who becomes inactive.                       *)
MovesAreBounded == WrittenBy(UpdateStaysInBounds)
=============================================================================
