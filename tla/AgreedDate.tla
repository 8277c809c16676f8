----------------------------- MODULE AgreedDate -----------------------------
(***************************************************************************)
(* What the negotiation about an encounter's date promises: the encounter  *)
(* moves only to a date the away team backed (it proposed or endorsed it)  *)
(* and the home team then picks, or to a date an administrator imposes.    *)
(***************************************************************************)
CONSTANT Date

VARIABLES
  date,     \* the date of the encounter
  backed,   \* dates the away team proposed or endorsed
  imposed   \* dates an administrator chose

vars == <<date, backed, imposed>>

Init == date \in Date /\ backed = {} /\ imposed = {}

(* The away team proposes or endorses dates. *)
Back(D) ==
  /\ backed' = backed \cup D
  /\ UNCHANGED <<date, imposed>>

(* The home team finalizes a date. *)
Pick(d) ==
  /\ d \in backed
  /\ date' = d
  /\ UNCHANGED <<backed, imposed>>

(* The administrator's date; it may be the date the encounter had when the *)
(* administrator looked, and then nothing is written.                      *)
Impose(d) ==
  /\ imposed' = imposed \cup {d}
  /\ date' \in {date, d}
  /\ UNCHANGED backed

Next ==
  \/ \E D \in SUBSET Date : Back(D)
  \/ \E d \in Date : Pick(d) \/ Impose(d)

Spec == Init /\ [][Next]_vars
=============================================================================
