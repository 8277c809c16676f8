------------------------- MODULE MCSyncTransaction -------------------------
(* One draw with two games and a standing: event - draw - games, standing. *)
EXTENDS SyncTransaction

CONSTANTS event, draw, game1, game2, standing

MCKids == [n \in Node |->
  CASE n = event -> <<draw>>
    [] n = draw -> <<game1, game2, standing>>
    [] OTHER -> <<>>]
MCAfter == [n \in Node |-> IF n = standing THEN {game1, game2} ELSE {}]
=============================================================================
