---------------------------- MODULE MCEnrollment ----------------------------
(***************************************************************************)
(* An instance of Enrollment for TLC: one team or two in either order, so  *)
(* that submissions can wait for each other, and a team without link.      *)
(***************************************************************************)
EXTENDS Enrollment

CONSTANTS l1, l2

MCInputs == {<<l1>>, <<l1, l2>>, <<l2, l1>>, <<None>>}
=============================================================================
