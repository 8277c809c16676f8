---------------------------- MODULE RankingLevels ----------------------------
(***************************************************************************)
(* What one update does to the levels of one player                        *)
(* (belgium-flanders-places.service.ts, getRankingProtected), with the     *)
(* point caps of the BVL system (ranking-system.model.ts).  Level 1 is the *)
(* best one, AmountOfLevels that of a beginner.                            *)
(*                                                                         *)
(* Module RankingCalculation says how often an update happens; here is     *)
(* what it does, as operators of the levels and the games of a period.     *)
(* The points of a game are given (a win is worth what the level of the    *)
(* opponent says), as is the difference of the levels of a lost one.  Not  *)
(* modelled: latestXGamesToUse.                                            *)
(***************************************************************************)
EXTENDS Integers, Sequences, FiniteSets, FiniteSetsExt, Functions

CONSTANTS
  Discipline,
  AmountOfLevels, ProcentWinning, ProcentWinningPlus1, ProcentLosing,
  MaxDiffLevels, MaxLevelUp, MaxLevelDown,
  DifferenceForUpgrade, DifferenceForDowngrade,
  MinGamesForUpgrade, MinGamesForDowngrade,   \* 0: no minimum
  GamesForInactivity,
  Freeze,       \* inactiveBehavior: freeze, or else decrease
  MaxGames      \* bound on the games of a discipline in a period

Level == 1 .. AmountOfLevels

ASSUME SystemIsValid ==
  /\ AmountOfLevels \in Nat \ {0, 1} /\ Freeze \in BOOLEAN
  /\ \A n \in {ProcentWinning, ProcentWinningPlus1, MaxDiffLevels, MaxLevelUp,
               MaxLevelDown, GamesForInactivity} : n \in Nat \ {0}
  /\ \A n \in {ProcentLosing, DifferenceForUpgrade, DifferenceForDowngrade,
               MinGamesForUpgrade, MinGamesForDowngrade, MaxGames} : n \in Nat

----------------------------------------------------------------------------
(* The caps of BVL. *)

(* Math.round(n / d) for n >= 0 < d. *)
Round(n, d) == (n + d \div 2) \div d

Power(b) ==
  LET power[x \in 0 .. AmountOfLevels] == IF x = 0 THEN 1 ELSE power[x - 1] * b IN power

PointsWhenWinningAgainst ==
  [x \in 0 .. AmountOfLevels - 1 |->
     Round(50 * Power(ProcentWinning)[x], Power(ProcentWinningPlus1)[x])]

PointsToGoUp ==
  [x \in 0 .. AmountOfLevels - 2 |->
     Round(PointsWhenWinningAgainst[x] * ProcentWinning, 100)]

(* Bug: the same caps in both directions. *)
PointsToGoDownAsUp == PointsToGoUp

PointsToGoDown ==
  [x \in 0 .. AmountOfLevels - 2 |->
     Round(PointsWhenWinningAgainst[x + 1] * ProcentLosing, 100)]

(* A game won against a player of some level, and a game lost against one  *)
(* who is no better or better by some levels.                              *)
Game ==
  {[points |-> PointsWhenWinningAgainst[x], difference |-> 0] :
     x \in 0 .. AmountOfLevels - 1}
  \cup {[points |-> 0, difference |-> -n] : n \in 0 .. DifferenceForUpgrade + 1}

(* The games of a period, newest first. *)
Window == UNION {[1 .. n -> Game] : n \in 0 .. MaxGames}

----------------------------------------------------------------------------
(* The points of a window.  Games are named by their place in it. *)

(* A game lost against a much better player is left out (_calculatePoints).*)
Counting(games, limit) == {i \in DOMAIN games : games[i].difference >= -limit}

Won(games, counted) == {i \in counted : games[i].points > 0}

(* The divisor of an average over n games. *)
GamesToUse(n, min) == IF n < min THEN min ELSE n

(* total[k]: the points of the first k games of an order of n of them. *)
Total(games, order, n) ==
  LET total[k \in 0 .. n] ==
        IF k = 0 THEN 0 ELSE total[k - 1] + games[order[k]].points
  IN total

Orders(s, n) == Injection(1 .. n, s)

(* Bug: the games won are counted in the order they were played. *)
AsPlayed(games, s) ==
  CHOOSE f \in Orders(s, Cardinality(s)) :
    \A i, j \in 1 .. Cardinality(s) : i < j => f[i] < f[j]

(* The games s by their points, the best one first. *)
BestFirst(games, s) ==
  CHOOSE f \in Orders(s, Cardinality(s)) :
    \A i, j \in 1 .. Cardinality(s) : i < j => games[f[i]].points >= games[f[j]].points

(* _findPointsAverage: all the lost games that count, and the won ones     *)
(* from the best one down for as long as they help.                        *)
Average(games, counted, min) ==
  LET won == Won(games, counted)
      lost == Cardinality(counted \ won)
      total == Total(games, BestFirst(games, won), Cardinality(won)) IN
  Max({0} \cup {Round(total[k], GamesToUse(lost + k, min)) : k \in 1 .. Cardinality(won)})

Upgrade(games) ==
  Average(games, Counting(games, DifferenceForUpgrade), MinGamesForUpgrade)
Downgrade(games) ==
  Average(games, Counting(games, DifferenceForDowngrade), MinGamesForDowngrade)

----------------------------------------------------------------------------
(* _findRanking. *)

(* The first level from l upwards whose cap is not reached, or 1. *)
TopLevel(l, points) ==
  Max({1} \cup {e \in 2 .. l : PointsToGoUp[AmountOfLevels - e] > points})

(* The first level from l downwards whose points are kept, or the last one.*)
BottomLevel(l, points) ==
  Min({AmountOfLevels} \cup
      {e \in l .. AmountOfLevels - 1 :
         PointsToGoDown[AmountOfLevels - 1 - e] < points})

(* Bug: maxLevelUpPerChange is not looked at. *)
FindRankingAtOnce(l, up, down) ==
  LET top == TopLevel(l, up)
      bottom == BottomLevel(l, down) IN
  IF top < l THEN top ELSE Min({bottom, l + MaxLevelDown})

FindRanking(l, up, down) ==
  LET top == TopLevel(l, up)
      bottom == BottomLevel(l, down) IN
  IF top < l THEN Max({top, l - MaxLevelUp}) ELSE Min({bottom, l + MaxLevelDown})

(* Bug: who stays inactive pays again. *)
NewPlaceEachTime(l, wasInactive, games, isInactive) ==
  LET found == FindRanking(l, Upgrade(games), Downgrade(games)) IN
  IF found <= l THEN found
  ELSE IF isInactive THEN IF Freeze THEN l ELSE l + 2
  ELSE IF Len(games) <= GamesForInactivity THEN l
  ELSE found

(* _getNewPlace of an update: a worse level only for who has played.       *)
NewPlace(l, wasInactive, games, isInactive) ==
  LET found == FindRanking(l, Upgrade(games), Downgrade(games)) IN
  IF found <= l THEN found
  ELSE IF isInactive THEN IF Freeze \/ wasInactive THEN l ELSE l + 2
  ELSE IF Len(games) <= GamesForInactivity THEN l
  ELSE found

(* Bug: no last level. *)
ProtectedOpen(levels) ==
  LET highest == Min({levels[d] : d \in Discipline}) IN
  [d \in Discipline |-> Min({levels[d], highest + MaxDiffLevels})]

(* getRankingProtected. *)
Protected(levels) ==
  LET highest == Min({levels[d] : d \in Discipline}) IN
  [d \in Discipline |-> Min({levels[d], highest + MaxDiffLevels, AmountOfLevels})]

----------------------------------------------------------------------------
(* _isInactive: few games in the window, and few in the longer one of the  *)
(* inactivity rule, which holds some number of games more.                 *)
MayBeInactive(games) == IF Len(games) <= GamesForInactivity THEN BOOLEAN ELSE {FALSE}

(* What the games of a discipline, and the flag they lead to, do to every  *)
(* level.                                                                  *)
Effect ==
  UNION {{[place |-> [l \in Level |-> [was \in BOOLEAN |-> NewPlace(l, was, g, is)]],
           inactive |-> is] : is \in MayBeInactive(g)} : g \in Window}

(* What the games of a discipline may make of a level. *)
Outcome ==
  [l \in Level |-> [was \in BOOLEAN |->
     {[level |-> e.place[l][was], inactive |-> e.inactive] : e \in Effect}]]

(* newPlaceForPlayer for a period with an update: the levels and the flags *)
(* of the new row, from those of the last one.                             *)
Updated(levels, was) ==
  LET Of(d) == Outcome[levels[d]][was[d]] IN
  {[level |-> Protected([d \in Discipline |-> new[d].level]),
    inactive |-> [d \in Discipline |-> new[d].inactive]] :
     new \in {f \in [Discipline -> UNION {Of(d) : d \in Discipline}] :
               \A d \in Discipline : f[d] \in Of(d)}}

----------------------------------------------------------------------------
(* The best average that any choice among the won games gives, with all    *)
(* lost ones counted.                                                      *)
Best(games, counted, min) ==
  LET won == Won(games, counted)
      lost == Cardinality(counted \ won)
      Of(k) == {Round(Total(games, f, k)[k], GamesToUse(lost + k, min)) : f \in Orders(won, k)} IN
  Max({0} \cup UNION {Of(k) : k \in 1 .. Cardinality(won)})

(* Taking the won games from the best one down is enough: no other choice  *)
(* among them would give a player of any level a better level, or another. *)
GreedyIsBest ==
  \A games \in Window :
    LET up == Counting(games, DifferenceForUpgrade)
        down == Counting(games, DifferenceForDowngrade) IN
    \A l \in Level :
      FindRanking(l, Upgrade(games), Downgrade(games)) =
      FindRanking(l, Best(games, up, MinGamesForUpgrade), Best(games, down, MinGamesForDowngrade))

(* The rows an update may start from: levels it may have left behind. *)
Held == {l \in [Discipline -> Level] : Protected(l) = l}

(* Two updates in a row on the same games.  What the first one does not    *)
(* lower, the second does not lower either, for only a level its games     *)
(* cannot keep goes down; and what the first one does not raise, the       *)
(* second does not raise, except to keep it within maxDiffLevels of a      *)
(* level that it raises as well.  (The second may be followed by a third.) *)
RowsSettle ==
  \A old \in Held, was \in [Discipline -> BOOLEAN], e \in [Discipline -> Effect] :
    LET first == Protected([d \in Discipline |-> e[d].place[old[d]][was[d]]])
        second == Protected([d \in Discipline |-> e[d].place[first[d]][e[d].inactive]]) IN
    \A d \in Discipline :
      /\ first[d] <= old[d] => second[d] <= first[d]
      /\ first[d] >= old[d] /\ second[d] < first[d] =>
           \E b \in Discipline :
             second[b] < first[b] /\ second[d] = second[b] + MaxDiffLevels

(* An update leads from such levels to such levels: inside the system, and *)
(* within maxDiffLevels of the best one, also after a penalty near the     *)
(* last level or a raise near the first.  It raises no level by more than  *)
(* maxLevelUpPerChange, except to keep it within maxDiffLevels, and lowers *)
(* none by more than maxLevelDownPerChange, except by two levels when the  *)
(* player becomes inactive, and who stays inactive pays nothing.           *)
UpdateStaysInBounds ==
  \A old \in Held, was \in [Discipline -> BOOLEAN] : \A new \in Updated(old, was) :
    /\ new.level \in Held
    /\ \A d \in Discipline :
         /\ old[d] - new.level[d] > MaxLevelUp =>
              \E e \in Discipline : new.level[d] = new.level[e] + MaxDiffLevels
         /\ new.level[d] - old[d] > MaxLevelDown =>
              new.inactive[d] /\ new.level[d] = old[d] + 2
         /\ was[d] /\ new.inactive[d] => new.level[d] <= old[d]
=============================================================================
