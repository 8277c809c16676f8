------------------------- MODULE MCEncounterChange -------------------------
(* The rows of a request, and the operations, are interchangeable. *)
EXTENDS EncounterChange, TLC

CONSTANTS d0, d1, r1, r2, r3, s1, s2

Interchangeable == Permutations(Row) \cup Permutations(Session)
=============================================================================
