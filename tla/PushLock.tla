------------------------------ MODULE PushLock ------------------------------
(***************************************************************************)
(* What the serial queue of EnterScoresProcessor promises: among all the   *)
(* invocations of the EnterScores handler that are alive in the worker, at *)
(* most one is past the gate.  The order of service is not part of the     *)
(* promise; SerialGate adds it.                                            *)
(***************************************************************************)

CONSTANT Run            \* invocations of the EnterScores handler

VARIABLE phase          \* phase[r]: where invocation r stands

Phase == {"idle", "waiting", "running"}

TypeOK == phase \in [Run -> Phase]

Init == phase = [r \in Run |-> "idle"]

(* Bull calls the handler. *)
Request(r) ==
  /\ phase[r] = "idle"
  /\ phase' = [phase EXCEPT ![r] = "waiting"]

(* The invocation passes the gate: nobody else may be inside. *)
Grant(r) ==
  /\ phase[r] = "waiting"
  /\ \A s \in Run : phase[s] # "running"
  /\ phase' = [phase EXCEPT ![r] = "running"]

(* The invocation ends, with or without an error. *)
Done(r) ==
  /\ phase[r] = "running"
  /\ phase' = [phase EXCEPT ![r] = "idle"]

(* The process dies: every invocation is gone. *)
Die == phase' = [r \in Run |-> "idle"]

Next ==
  \/ \E r \in Run : Request(r) \/ Grant(r) \/ Done(r)
  \/ Die

Spec == Init /\ [][Next]_phase

(* At most one invocation is past the gate. *)
Exclusive == \A r, s \in Run : phase[r] = "running" /\ phase[s] = "running" => r = s
=============================================================================
