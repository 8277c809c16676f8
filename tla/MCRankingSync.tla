--------------------------- MODULE MCRankingSync ---------------------------
(* Two players: one on every publication, the other only on the odd ones. *)
EXTENDS RankingSync

CONSTANTS p1, p2

MCListed == [d \in Date |-> IF d % 2 = 1 THEN {p1, p2} ELSE {p1}]
=====
