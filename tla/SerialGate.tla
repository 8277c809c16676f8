----------------------------- MODULE SerialGate -----------------------------
(***************************************************************************)
(* The promise chain that serialises EnterScores jobs inside one worker    *)
(* process (enter-scores.processor.ts, enterScores).  Bull's own           *)
(* "concurrency: 1" does not: some thirty named processors share SyncQueue *)
(* and each adds a slot that may pick up any job type, so any number of    *)
(* invocations of the handler may be alive at once.                        *)
(*                                                                         *)
(* Every invocation creates a promise (its gate), keeps the promise that   *)
(* was in _serialQueue, and puts its own gate there; it runs when the      *)
(* promise it kept is resolved and resolves its own gate when it ends.     *)
(* Promises are created one after the other, so a gate is the number of    *)
(* its creation; gate 0 is the Promise.resolve() of the constructor.       *)
(*                                                                         *)
(* Modelled: creation, waiting, the end of an invocation (normal or by an  *)
(* error: the release is in a finally), the death of the process.          *)
(* Not modelled: what an invocation does while it holds the gate (module   *)
(* EnterScores).                                                           *)
(***************************************************************************)
EXTENDS Naturals

CONSTANTS
  Run,       \* invocations of the handler that can be alive at once
  MaxGate    \* bound on the promises created in one life of the process

ASSUME GateBound == MaxGate \in Nat

VARIABLES
  phase,         \* phase[r]: "idle", "waiting" (await waitFor) or "running"
  waitFor,       \* waitFor[r]: the promise r awaits
  gate,          \* gate[r]: the promise r resolves when it ends
  serialQueue,   \* this._serialQueue: the last promise put in the chain
  resolved       \* the promises that are resolved

vars == <<phase, waitFor, gate, serialQueue, resolved>>

Gate == 0 .. MaxGate
Phase == {"idle", "waiting", "running"}

TypeOK ==
  /\ phase \in [Run -> Phase]
  /\ waitFor \in [Run -> Gate]
  /\ gate \in [Run -> Gate]
  /\ serialQueue \in Gate
  /\ resolved \in SUBSET Gate

(* A fresh processor: the chain holds one resolved promise. *)
Init ==
  /\ phase = [r \in Run |-> "idle"]
  /\ waitFor = [r \in Run |-> 0]
  /\ gate = [r \in Run |-> 0]
  /\ serialQueue = 0
  /\ resolved = {0}

(* Bug: the invocation keeps its gate to itself, the chain is not extended. *)
EnterUnchained(r) ==
  /\ phase[r] = "idle"
  /\ serialQueue < MaxGate
  /\ phase' = [phase EXCEPT ![r] = "waiting"]
  /\ waitFor' = [waitFor EXCEPT ![r] = serialQueue]
  /\ gate' = [gate EXCEPT ![r] = serialQueue + 1]
  /\ UNCHANGED <<serialQueue, resolved>>

(* The handler is called: it creates its gate and joins the chain.  There  *)
(* is no await between reading and writing _serialQueue.                   *)
Enter(r) ==
  /\ phase[r] = "idle"
  /\ serialQueue < MaxGate
  /\ phase' = [phase EXCEPT ![r] = "waiting"]
  /\ waitFor' = [waitFor EXCEPT ![r] = serialQueue]
  /\ gate' = [gate EXCEPT ![r] = serialQueue + 1]
  /\ serialQueue' = serialQueue + 1
  /\ UNCHANGED resolved

(* "await waitFor" returns. *)
Start(r) ==
  /\ phase[r] = "waiting"
  /\ waitFor[r] \in resolved
  /\ phase' = [phase EXCEPT ![r] = "running"]
  /\ UNCHANGED <<waitFor, gate, serialQueue, resolved>>

(* Bug: the release is not in a finally; an error leaves the gate closed. *)
ReleaseUnlessThrown(r) ==
  /\ phase[r] = "running"
  /\ phase' = [phase EXCEPT ![r] = "idle"]
  /\ resolved' \in {resolved, resolved \cup {gate[r]}}
  /\ UNCHANGED <<waitFor, gate, serialQueue>>

(* Bug: the invocation resolves its successor's gate. *)
ReleaseSuccessor(r) ==
  /\ phase[r] = "running"
  /\ phase' = [phase EXCEPT ![r] = "idle"]
  /\ resolved' = resolved \cup {gate[r] + 1}
  /\ UNCHANGED <<waitFor, gate, serialQueue>>

(* _enterScoresImpl returned or threw: the finally releases the gate. *)
Release(r) ==
  /\ phase[r] = "running"
  /\ phase' = [phase EXCEPT ![r] = "idle"]
  /\ resolved' = resolved \cup {gate[r]}
  /\ UNCHANGED <<waitFor, gate, serialQueue>>

(* The worker process dies and is started again: nothing of the chain      *)
(* survives, the constructor builds a new one.                             *)
Restart ==
  /\ phase' = [r \in Run |-> "idle"]
  /\ waitFor' = [r \in Run |-> 0]
  /\ gate' = [r \in Run |-> 0]
  /\ serialQueue' = 0
  /\ resolved' = {0}

Next ==
  \/ \E r \in Run : Enter(r) \/ Start(r) \/ Release(r)
  \/ Restart

Spec == Init /\ [][Next]_vars

(* An awaited promise that is resolved wakes its waiter, and every         *)
(* invocation ends: its steps have timeouts.                               *)
Fairness == \A r \in Run : WF_vars(Start(r)) /\ WF_vars(Release(r))

FairSpec == Spec /\ Fairness

-----------------------------------------------------------------------------
Live(r) == phase[r] # "idle"

(* At most one invocation drives the singleton form page, however many of  *)
(* Bull's slots picked up an EnterScores job.                              *)
MutualExclusion ==
  \A r, s \in Run : phase[r] = "running" /\ phase[s] = "running" => r = s

(* Nobody is left behind: a gate that is not resolved belongs to an        *)
(* invocation that is still alive, so a chain can never wait on a gate no  *)
(* one will resolve.                                                       *)
NoLostGate ==
  \A g \in 0 .. serialQueue :
    g \notin resolved => \E r \in Run : Live(r) /\ gate[r] = g

(* First come, first served: an invocation never starts while one that     *)
(* joined the chain before it still waits.                                 *)
NoOvertaking ==
  [][\A r, s \in Run :
       /\ phase[r] = "waiting" /\ phase'[r] = "running"
       /\ phase[s] = "waiting" /\ s # r
       => gate[r] < gate[s]]_vars

(* Every invocation that joined the chain gets its turn (or dies with the  *)
(* process).                                                               *)
EveryoneServed == \A r \in Run : phase[r] = "waiting" ~> phase[r] # "waiting"

(* The chain implements the lock EnterScores is built on. *)
Lock == INSTANCE PushLock
ImplementsLock == Lock!Spec
=============================================================================
