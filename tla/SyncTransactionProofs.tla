----------------------- MODULE SyncTransactionProofs ------------------------
(***************************************************************************)
(* Proofs about SyncTransaction, for any tree of jobs, any numbers of      *)
(* schedulers, transactions and slots and any bound on faults: a           *)
(* transaction is committed whole or not at all, a standing sees the games *)
(* of its draw, and without a timeout or a crash nothing is written        *)
(* outside a transaction.                                                  *)
(*                                                                         *)
(* The scheduler counts registered jobs, and a job is in the queue before  *)
(* it is registered.  What carries the proofs is that its parent is then   *)
(* still at work, so that somewhere up the tree a registered job is not    *)
(* over: Registered, and from it the two lemmas AllRegistered and AllDone, *)
(* which go down the tree from Root.                                       *)
(***************************************************************************)
EXTENDS SyncTransaction, FiniteSetTheorems, TLAPS

Live(s) == phase[s] \notin {"none", "waiting", "ended"}

(* A scheduler looks after the transaction. *)
Alive(t) == \E s \in Sched : Live(s) /\ tx[s] = t

Owned ==
  /\ \A s \in Sched : Live(s) =>
       /\ tx[s] \in Tx /\ tx[s] \in known
       /\ db[tx[s]] = IF phase[s] = "purge" THEN "rolledback" ELSE "open"
  /\ \A r, s \in Sched : Live(r) /\ Live(s) /\ tx[r] = tx[s] => r = s
  /\ \A t \in Tx : db[t] = "open" => Alive(t)

Fresh ==
  /\ \A t \in Tx, n \in Node : db[t] = "none" => status[t][n] = "none"
  /\ \A s \in Sched, n \in Node : phase[s] = "add" => status[tx[s]][n] = "none"

(* A handler belongs to a job that is active or failed without it. *)
Handlers ==
  \A t \in Tx, n \in Node :
    /\ step[t][n] # "idle" => status[t][n] \in {"active", "failed"}
    /\ adding[t][n] # None => step[t][n] = "spawn"
    /\ step[t][n] \in {"held", "spawn"} <=> hold[t][n] # "none"
    /\ status[t][n] = "done" => AllQueued(t, n)

(* A job that was queued is registered or about to be; the next child is   *)
(* queued after that.                                                      *)
Registered ==
  \A t \in Tx : Alive(t) => \A p \in Node :
    /\ \A i \in DOMAIN Kids[p] :
         status[t][Kids[p][i]] # "none" =>
           Kids[p][i] \in reg[t] \/ adding[t][p] = Kids[p][i]
    /\ \A i, j \in DOMAIN Kids[p] :
         i < j /\ status[t][Kids[p][j]] # "none" => Kids[p][i] \in reg[t]

RootKnown ==
  \A s \in Sched : Live(s) /\ phase[s] \notin {"add", "register"} => Root \in reg[tx[s]]

(* What the scheduler is about to decide is decided. *)
Settled ==
  \A s \in Sched : phase[s] = "decide" =>
    \/ \E n \in reg[tx[s]] : status[tx[s]][n] = "failed"
    \/ \A n \in Node : status[tx[s]][n] = "done"

Written ==
  \A t \in Tx : Alive(t) => \A n \in Node :
    /\ hold[t][n] # "auto"
    /\ step[t][n] = "spawn" \/ status[t][n] = "done" => n \in wrote[t]
    /\ step[t][n] = "held" =>
         \A m \in After[n] : m \in wrote[t] \/ status[t][m] = "failed"

Inside ==
  ~outlived =>
    /\ stray = {}
    /\ \A t \in Tx, n \in Node :
         /\ hold[t][n] # "auto"
         /\ status[t][n] \in {"waiting", "active"} => t \in known
         /\ step[t][n] # "idle" => status[t][n] = "active"

IInv ==
  /\ TypeOK
  /\ Owned /\ Fresh /\ Handlers /\ Registered /\ RootKnown /\ Settled /\ Written
  /\ Inside /\ CommitIsComplete /\ StandingAfterGames

-----------------------------------------------------------------------------
(* Taking a job, the end of a job and the removal of jobs keep the types. *)

LEMMA TakeType ==
  ASSUME NEW S, queue \in Seq(S), NEW job, Take(job)
  PROVE  queue' \in Seq(S)
  BY DEF Take

LEMMA EndsType ==
  ASSUME TypeOK, NEW t \in Tx, NEW n \in Node, NEW as \in Status, Ends(t, n, as)
  PROVE  /\ status' \in [Tx -> [Node -> Status]]
         /\ step' \in [Tx -> [Node -> {"idle", "taken", "held", "spawn"}]]
         /\ adding' \in [Tx -> [Node -> Node \cup {None}]]
         /\ hold' \in [Tx -> [Node -> {"none", "tx", "auto"}]]
  BY DEF TypeOK, Ends

LEMMA RemoveType ==
  ASSUME NEW S, queue \in Seq(S), status \in [Tx -> [Node -> Status]],
         NEW t \in Tx, NEW D, RemoveJobs(t, D)
  PROVE  queue' \in Seq(S) /\ status' \in [Tx -> [Node -> Status]]
<1> DEFINE rest == {i \in DOMAIN queue : queue[i] \notin {<<t, n>> : n \in D}}
           c == Cardinality(rest)
<1>1. status' \in [Tx -> [Node -> Status]]
  BY DEF RemoveJobs, Status
<1>2. c \in Nat
  <2>1. IsFiniteSet(DOMAIN queue)
    BY FS_Interval
  <2>2. rest \subseteq DOMAIN queue
    OBVIOUS
  <2> QED
    BY <2>1, <2>2, FS_Subset, FS_CardinalityType
<1>3. PICK kept \in [1 .. c -> rest] :
        queue' = [i \in DOMAIN kept |-> queue[kept[i]]]
  BY DEF RemoveJobs
<1>4. \A i \in rest : queue[i] \in S
  OBVIOUS
<1> HIDE DEF rest, c
<1>5. queue' \in [1 .. c -> S]
  BY <1>3, <1>4
<1> QED
  BY <1>1, <1>2, <1>5

LEMMA CrashType ==
  ASSUME TypeOK, Crash
  PROVE  TypeOK'
<1> USE SyncConstants
<1> DEFINE Job == Sched \cup (Tx \X Node)
           Stalled == {tn \in Tx \X Node : status[tn[1]][tn[2]] = "active"}
           Again == {s \in Sched : phase[s] \notin {"none", "waiting", "ended"}}
           n == Cardinality(Stalled \cup Again)
<1>1. n \in Nat
  <2>1. IsFiniteSet(Tx \X Node)
    BY FS_Product
  <2>2. IsFiniteSet(Stalled) /\ IsFiniteSet(Again)
    BY <2>1, FS_Subset
  <2> QED
    BY <2>2, FS_Union, FS_CardinalityType
<1>2. PICK order \in [1 .. n -> Stalled \cup Again] : queue' = order \o queue
  BY DEF Crash
<1>3. Stalled \cup Again \subseteq Job
  OBVIOUS
<1> HIDE DEF n, Stalled, Again
<1>4. order \in Seq(Job)
  BY <1>1, <1>2, <1>3
<1> HIDE DEF Job
<1>5. queue' \in Seq(Job)
  BY <1>2, <1>4 DEF TypeOK, Job
<1>6. /\ phase' \in [Sched -> Phase] /\ tx' \in [Sched -> Tx \cup {None}]
      /\ db' \in [Tx -> {"none", "open", "committed", "rolledback"}]
      /\ status' \in [Tx -> [Node -> Status]]
  BY DEF TypeOK, Crash, Phase, Status
<1>7. /\ known' \in SUBSET Tx /\ reg' \in [Tx -> SUBSET Node]
      /\ step' \in [Tx -> [Node -> {"idle", "taken", "held", "spawn"}]]
      /\ adding' \in [Tx -> [Node -> Node \cup {None}]]
      /\ hold' \in [Tx -> [Node -> {"none", "tx", "auto"}]]
      /\ wrote' \in [Tx -> SUBSET Node] /\ stray' \in SUBSET (Tx \X Node)
      /\ outlived' \in BOOLEAN /\ faults' \in 0 .. MaxFault
  BY DEF TypeOK, Crash, All
<1> QED
  BY <1>5, <1>6, <1>7 DEF TypeOK, Job

LEMMA InitInv == Init => IInv
<1> SUFFICES ASSUME Init PROVE IInv
  OBVIOUS
<1>1. TypeOK
  <2>1. queue \in Seq(Sched \cup (Tx \X Node)) /\ faults \in 0 .. MaxFault
    BY SyncConstants DEF Init
  <2> QED
    BY <2>1 DEF Init, TypeOK, All, Phase, Status
<1>2. Owned /\ Fresh /\ Handlers /\ Registered /\ RootKnown /\ Settled /\ Written
  BY DEF Init, All, Live, Alive, Owned, Fresh, Handlers, Registered, RootKnown,
     Settled, Written
<1>3. Inside /\ CommitIsComplete /\ StandingAfterGames
  BY DEF Init, All, Inside, CommitIsComplete, StandingAfterGames
<1> QED
  BY <1>1, <1>2, <1>3 DEF IInv

(* Every action keeps the state well typed. *)
LEMMA TypeStep == TypeOK /\ Owned /\ [Next]_vars => TypeOK'
<1> SUFFICES ASSUME TypeOK, Owned, [Next]_vars PROVE TypeOK'
  OBVIOUS
<1> USE SyncConstants DEF maps, data, work, sched
<1>0. \A s \in Sched : Live(s) => tx[s] \in Tx
  BY DEF Owned
<1>1. ASSUME NEW s \in Sched, Schedule(s) PROVE TypeOK'
  BY <1>1 DEF Schedule, TypeOK, Phase
<1>2. ASSUME NEW s \in Sched, NEW t \in Tx, OpenTransaction(s, t) PROVE TypeOK'
  <2>1. queue' \in Seq(Sched \cup (Tx \X Node))
    BY <1>2, TakeType DEF OpenTransaction, TypeOK
  <2> QED
    BY <1>2, <2>1 DEF OpenTransaction, TypeOK, Phase
<1>3. ASSUME NEW s \in Sched, AddRoot(s) PROVE TypeOK'
  <2>1. tx[s] \in Tx
    BY <1>0, <1>3 DEF AddRoot, Live
  <2> QED
    BY <1>3, <2>1 DEF AddRoot, TypeOK, Phase, Status
<1>4. ASSUME NEW s \in Sched, RegisterRoot(s) PROVE TypeOK'
  <2>1. tx[s] \in Tx
    BY <1>0, <1>4 DEF RegisterRoot, Live
  <2> QED
    BY <1>4, <2>1 DEF RegisterRoot, TypeOK, Phase
<1>5. ASSUME NEW s \in Sched, AwaitRoot(s) PROVE TypeOK'
  BY <1>5 DEF AwaitRoot, TypeOK, Phase
<1>6. ASSUME NEW s \in Sched, Poll(s) PROVE TypeOK'
  BY <1>6 DEF Poll, TypeOK, Phase
<1>7. ASSUME NEW s \in Sched, Decide(s) PROVE TypeOK'
  BY <1>7 DEF Decide, TypeOK, Phase
<1>8. ASSUME NEW s \in Sched, Commit(s) PROVE TypeOK'
  BY <1>8 DEF Commit, TypeOK, Phase
<1>9. ASSUME NEW s \in Sched, Rollback(s) PROVE TypeOK'
  BY <1>9 DEF Rollback, TypeOK, Phase
<1>10. ASSUME NEW s \in Sched, Purge(s) PROVE TypeOK'
  <2>1. tx[s] \in Tx
    BY <1>0, <1>10 DEF Purge, Live
  <2>2. PICK D : RemoveJobs(tx[s], D)
    BY <1>10 DEF Purge
  <2>3. /\ queue' \in Seq(Sched \cup (Tx \X Node))
        /\ status' \in [Tx -> [Node -> Status]]
    BY <2>1, <2>2, RemoveType DEF TypeOK
  <2>4. \/ known' = known /\ reg' = reg
        \/ known' = known \ {tx[s]} /\ reg' = [reg EXCEPT ![tx[s]] = {}]
    BY <1>10 DEF Purge
  <2>5. known' \in SUBSET Tx /\ reg' \in [Tx -> SUBSET Node]
    <3>1. known \in SUBSET Tx /\ reg \in [Tx -> SUBSET Node]
      BY DEF TypeOK
    <3>2. CASE known' = known /\ reg' = reg
      BY <3>1, <3>2
    <3>3. CASE known' = known \ {tx[s]} /\ reg' = [reg EXCEPT ![tx[s]] = {}]
      BY <3>1, <3>3
    <3> QED
      BY <2>4, <3>2, <3>3
  <2>6. phase' \in [Sched -> Phase]
    BY <1>10 DEF Purge, TypeOK, Phase
  <2>7. UNCHANGED <<tx, db, wrote, stray, step, adding, hold, outlived, faults>>
    BY <1>10 DEF Purge
  <2> QED
    BY <2>3, <2>5, <2>6, <2>7 DEF TypeOK
<1>11. ASSUME NEW t \in Tx, NEW n \in Node, TakeJob(t, n) PROVE TypeOK'
  <2>1. queue' \in Seq(Sched \cup (Tx \X Node))
    BY <1>11, TakeType DEF TakeJob, TypeOK
  <2> QED
    BY <1>11, <2>1 DEF TakeJob, TypeOK, Status
<1>12. ASSUME NEW t \in Tx, NEW n \in Node, Hold(t, n) PROVE TypeOK'
  BY <1>12 DEF Hold, TypeOK
<1>13. ASSUME NEW t \in Tx, NEW n \in Node, Write(t, n) PROVE TypeOK'
  BY <1>13 DEF Write, TypeOK
<1>14. ASSUME NEW t \in Tx, NEW n \in Node, WriteFails(t, n) PROVE TypeOK'
  BY <1>14, EndsType DEF WriteFails, TypeOK, Status
<1>15. ASSUME NEW t \in Tx, NEW n \in Node, AddKid(t, n) PROVE TypeOK'
  BY <1>15 DEF AddKid, TypeOK, Status
<1>16. ASSUME NEW t \in Tx, NEW n \in Node, Register(t, n) PROVE TypeOK'
  BY <1>16 DEF Register, TypeOK
<1>17. ASSUME NEW t \in Tx, NEW n \in Node, Return(t, n) PROVE TypeOK'
  BY <1>17, EndsType DEF Return, TypeOK, Status
<1>18. ASSUME NEW t \in Tx, NEW n \in Node, Fail(t, n) PROVE TypeOK'
  BY <1>18, EndsType DEF Fail, TypeOK, Status
<1>19. ASSUME NEW t \in Tx, NEW n \in Node, Timeout(t, n) PROVE TypeOK'
  BY <1>19 DEF Timeout, TypeOK, Status
<1>20. CASE Crash
  BY <1>20, CrashType
<1>21. CASE UNCHANGED vars
  BY <1>21 DEF vars, TypeOK
<1> QED
  BY <1>1, <1>2, <1>3, <1>4, <1>5, <1>6, <1>7, <1>8, <1>9, <1>10, <1>11, <1>12,
     <1>13, <1>14, <1>15, <1>16, <1>17, <1>18, <1>19, <1>20, <1>21
     DEF Next, SchedStep, JobStep

-----------------------------------------------------------------------------
(* What a step of a job leaves alone. *)
JobAction(t, n) == JobStep(t, n) \/ Fail(t, n) \/ Timeout(t, n)

LEMMA JobFrame ==
  ASSUME NEW t \in Tx, NEW n \in Node, JobAction(t, n)
  PROVE  UNCHANGED <<phase, tx, db, known>>
  BY DEF JobAction, JobStep, TakeJob, Hold, Write, WriteFails, AddKid, Register, Return,
     Fail, Timeout, sched, maps, data

(* The map of jobs grows, and what is over stays so. *)
LEMMA JobGrows ==
  ASSUME TypeOK, NEW t \in Tx, NEW n \in Node, JobAction(t, n)
  PROVE  \A u \in Tx :
           /\ reg[u] \subseteq reg'[u]
           /\ \A m \in Node : status[u][m] \in Over => status'[u][m] = status[u][m]
<1>1. \A u \in Tx : reg[u] \subseteq reg'[u]
  <2>1. CASE Register(t, n)
    BY <2>1 DEF Register, TypeOK
  <2>2. CASE ~Register(t, n)
    BY <2>2 DEF JobAction, JobStep, TakeJob, Hold, Write, WriteFails, AddKid, Return,
       Fail, Timeout, maps
  <2> QED
    BY <2>1, <2>2
<1>2. \A u \in Tx, m \in Node : status[u][m] \in Over => status'[u][m] = status[u][m]
  BY DEF JobAction, JobStep, TakeJob, Hold, Write, WriteFails, AddKid, NextKid,
     Register, Return, Fail, Timeout, Ends, Over, TypeOK, data
<1> QED
  BY <1>1, <1>2

(* Only AddKid has a job begin. *)
LEMMA JobBegins ==
  ASSUME TypeOK, NEW t \in Tx, NEW n \in Node, JobAction(t, n),
         NEW u \in Tx, u # t \/ ~AddKid(t, n),
         NEW m \in Node, status[u][m] = "none"
  PROVE  status'[u][m] = "none"
<1>1. CASE AddKid(t, n)
  BY <1>1 DEF AddKid, TypeOK
<1>2. CASE TakeJob(t, n) \/ Timeout(t, n)
  BY <1>2 DEF TakeJob, Timeout, TypeOK
<1>3. CASE WriteFails(t, n) \/ Return(t, n) \/ Fail(t, n)
  BY <1>3 DEF WriteFails, Return, Fail, Ends, TypeOK
<1>4. CASE Hold(t, n) \/ Write(t, n) \/ Register(t, n)
  BY <1>4 DEF Hold, Write, Register, data
<1> QED
  BY <1>1, <1>2, <1>3, <1>4 DEF JobAction, JobStep

(* A job begins in the queue. *)
LEMMA AddKidFrame ==
  ASSUME NEW t \in Tx, NEW n \in Node, AddKid(t, n)
  PROVE  \E m \in Node :
           /\ step[t][n] = "spawn" /\ status[t][m] = "none"
           /\ status' = [status EXCEPT ![t][m] = "waiting"]
           /\ UNCHANGED <<step, hold, wrote, stray>>
<1>1. \A i \in DOMAIN Kids[n] : Kids[n][i] \in Node
  BY SyncConstants
<1> QED
  BY <1>1 DEF AddKid, NextKid, data

LEMMA AliveFrame ==
  ASSUME UNCHANGED <<phase, tx>>, NEW t
  PROVE  Alive(t)' <=> Alive(t)
  BY DEF Alive, Live

(* A scheduler has a transaction for itself, open and in the map. *)
LEMMA OwnedStep == TypeOK /\ Owned /\ [Next]_vars => Owned'
<1> SUFFICES ASSUME TypeOK, Owned, [Next]_vars PROVE Owned'
  OBVIOUS
<1> USE DEF Owned, Alive, Live, sched, maps, data
<1>1. ASSUME NEW s \in Sched, Schedule(s) PROVE Owned'
  BY <1>1 DEF Schedule, TypeOK
<1>2. ASSUME NEW s \in Sched, NEW t \in Tx, OpenTransaction(s, t) PROVE Owned'
  <2>1. \A r \in Sched \ {s} : phase'[r] = phase[r] /\ tx'[r] = tx[r]
    BY <1>2 DEF OpenTransaction, TypeOK
  <2>2. phase'[s] = "add" /\ tx'[s] = t
    BY <1>2 DEF OpenTransaction, TypeOK
  <2>3. \A r \in Sched \ {s} : Live(r) => tx[r] # t
    BY <1>2 DEF OpenTransaction
  <2>4. /\ db' = [db EXCEPT ![t] = "open"] /\ known' = known \cup {t}
        /\ db[t] = "none" /\ ~Live(s)
    BY <1>2 DEF OpenTransaction
  <2>5. \A r \in Sched : Live(r)' =>
          /\ tx'[r] \in Tx /\ tx'[r] \in known'
          /\ db'[tx'[r]] = IF phase'[r] = "purge" THEN "rolledback" ELSE "open"
    BY <2>1, <2>2, <2>3, <2>4 DEF TypeOK
  <2>6. \A r, q \in Sched : Live(r)' /\ Live(q)' /\ tx'[r] = tx'[q] => r = q
    BY <2>1, <2>2, <2>3
  <2>7. ASSUME NEW u \in Tx, db'[u] = "open" PROVE Alive(u)'
    <3>1. CASE u = t
      BY <2>2, <3>1
    <3>2. CASE u # t
      <4>1. PICK r \in Sched : Live(r) /\ tx[r] = u
        BY <2>4, <2>7, <3>2 DEF TypeOK
      <4> QED
        BY <2>1, <2>4, <4>1
    <3> QED
      BY <3>1, <3>2
  <2> QED
    BY <2>5, <2>6, <2>7
<1>3. ASSUME NEW s \in Sched, AddRoot(s) PROVE Owned'
  BY <1>3 DEF AddRoot, TypeOK
<1>4. ASSUME NEW s \in Sched, RegisterRoot(s) PROVE Owned'
  BY <1>4 DEF RegisterRoot, TypeOK
<1>5. ASSUME NEW s \in Sched, AwaitRoot(s) PROVE Owned'
  BY <1>5 DEF AwaitRoot, TypeOK
<1>6. ASSUME NEW s \in Sched, Poll(s) PROVE Owned'
  BY <1>6 DEF Poll, TypeOK
<1>7. ASSUME NEW s \in Sched, Decide(s) PROVE Owned'
  BY <1>7 DEF Decide, TypeOK
<1>8. ASSUME NEW s \in Sched, Commit(s) PROVE Owned'
  <2>1. phase[s] = "decide" /\ phase' = [phase EXCEPT ![s] = "ended"] /\ tx' = tx
    BY <1>8 DEF Commit
  <2>2. db' = [db EXCEPT ![tx[s]] = "committed"] /\ known' = known \ {tx[s]}
    BY <1>8 DEF Commit
  <2>3. \A r \in Sched : Live(r)' => r # s /\ Live(r) /\ phase'[r] = phase[r] /\ tx[r] # tx[s]
    BY <2>1 DEF TypeOK
  <2>4. ASSUME NEW u \in Tx, db'[u] = "open" PROVE Alive(u)'
    <3>1. u # tx[s] /\ db[u] = "open"
      BY <2>2, <2>4 DEF TypeOK
    <3>2. PICK r \in Sched : Live(r) /\ tx[r] = u
      BY <3>1
    <3> QED
      BY <2>1, <3>1, <3>2 DEF TypeOK
  <2>5. \A r \in Sched : Live(r)' =>
          /\ tx'[r] \in Tx /\ tx'[r] \in known'
          /\ db'[tx'[r]] = IF phase'[r] = "purge" THEN "rolledback" ELSE "open"
    BY <2>1, <2>2, <2>3 DEF TypeOK
  <2> QED
    BY <2>1, <2>3, <2>4, <2>5
<1>9. ASSUME NEW s \in Sched, Rollback(s) PROVE Owned'
  BY <1>9 DEF Rollback, TypeOK
<1>10. ASSUME NEW s \in Sched, Purge(s) PROVE Owned'
  <2>1. \/ known' = known \/ known' = known \ {tx[s]}
    BY <1>10 DEF Purge
  <2>2. phase[s] = "purge" /\ phase' = [phase EXCEPT ![s] = "ended"] /\ UNCHANGED <<tx, db>>
    BY <1>10 DEF Purge
  <2> QED
    BY <2>1, <2>2 DEF TypeOK
<1>11. ASSUME NEW t \in Tx, NEW n \in Node, JobAction(t, n) PROVE Owned'
  BY <1>11, JobFrame
<1>12. CASE Crash
  BY <1>12 DEF Crash, TypeOK
<1>13. CASE UNCHANGED vars
  BY <1>13 DEF vars
<1> QED
  BY <1>1, <1>2, <1>3, <1>4, <1>5, <1>6, <1>7, <1>8, <1>9, <1>10, <1>11, <1>12, <1>13
     DEF Next, SchedStep, JobAction

(* What a scheduler leaves alone, but for the first and the last step. *)
SchedAction(s) ==
  Schedule(s) \/ RegisterRoot(s) \/ AwaitRoot(s) \/ Poll(s) \/ Decide(s) \/ Commit(s)
    \/ Rollback(s) \/ \E t \in Tx : OpenTransaction(s, t)

LEMMA SchedFrame ==
  ASSUME NEW s \in Sched, SchedAction(s)
  PROVE  UNCHANGED <<status, step, adding, hold, wrote, stray, outlived>>
  BY DEF SchedAction, Schedule, RegisterRoot, AwaitRoot, Poll, Decide, Commit, Rollback,
     OpenTransaction, data, work

(* Of the jobs the removal touches only those it takes out. *)
LEMMA RemoveFrame ==
  ASSUME TypeOK, NEW t \in Tx, NEW D \in SUBSET Waiting(t), RemoveJobs(t, D)
  PROVE  \A u \in Tx, n \in Node :
           \/ status'[u][n] = status[u][n]
           \/ u = t /\ status[u][n] = "waiting" /\ status'[u][n] = "removed"
  BY DEF TypeOK, RemoveJobs, Waiting

LEMMA PurgeFrame ==
  ASSUME TypeOK, Owned, NEW s \in Sched, Purge(s)
  PROVE  /\ UNCHANGED <<step, adding, hold, wrote, stray, outlived, db>>
         /\ \A u \in Tx, n \in Node :
              \/ status'[u][n] = status[u][n]
              \/ u = tx[s] /\ status[u][n] = "waiting" /\ status'[u][n] = "removed"
<1>1. tx[s] \in Tx
  BY DEF Purge, Owned, Live
<1>2. PICK D \in SUBSET Waiting(tx[s]) : RemoveJobs(tx[s], D)
  BY DEF Purge
<1> QED
  BY <1>1, <1>2, RemoveFrame DEF Purge, data, work

(* A transaction nobody opened has no jobs yet. *)
LEMMA FreshStep == TypeOK /\ Owned /\ Fresh /\ Handlers /\ [Next]_vars => Fresh'
<1> SUFFICES ASSUME TypeOK, Owned, Fresh, Handlers, [Next]_vars PROVE Fresh'
  OBVIOUS
<1> USE DEF Fresh
<1>1. ASSUME NEW s \in Sched, SchedAction(s) PROVE Fresh'
  <2>1. UNCHANGED status
    BY <1>1, SchedFrame
  <2>2. \A t \in Tx : db'[t] = "none" => db[t] = "none"
    BY <1>1 DEF SchedAction, Schedule, RegisterRoot, AwaitRoot, Poll, Decide, Commit,
       Rollback, OpenTransaction, TypeOK, data
  <2>3. \A r \in Sched : phase'[r] = "add" =>
          \/ phase[r] = "add" /\ tx'[r] = tx[r]
          \/ tx'[r] \in Tx /\ db[tx'[r]] = "none"
    BY <1>1 DEF SchedAction, Schedule, RegisterRoot, AwaitRoot, Poll, Decide, Commit,
       Rollback, OpenTransaction, TypeOK, sched
  <2> QED
    BY <2>1, <2>2, <2>3
<1>2. ASSUME NEW s \in Sched, AddRoot(s) PROVE Fresh'
  <2>1. tx[s] \in Tx /\ db[tx[s]] = "open"
    BY <1>2 DEF AddRoot, Owned, Live
  <2>2. \A r \in Sched : phase'[r] = "add" => r # s /\ phase[r] = "add" /\ tx[r] # tx[s]
    BY <1>2 DEF AddRoot, Owned, Live, TypeOK
  <2>3. \A u \in Tx, n \in Node : u # tx[s] => status'[u][n] = status[u][n]
    BY <1>2 DEF AddRoot, TypeOK
  <2>4. db' = db /\ tx' = tx /\ \A r \in Sched : phase'[r] = "add" => tx[r] \in Tx
    BY <1>2, <2>2 DEF AddRoot, Owned, Live, data
  <2> QED
    BY <2>1, <2>2, <2>3, <2>4
<1>3. ASSUME NEW s \in Sched, Purge(s) PROVE Fresh'
  <2>1. UNCHANGED <<tx, db>> /\ \A r \in Sched : phase'[r] = "add" => phase[r] = "add"
    BY <1>3 DEF Purge, TypeOK, data
  <2>2. \A r \in Sched : phase[r] = "add" => tx[r] \in Tx
    BY DEF Owned, Live
  <2> QED
    BY <1>3, <2>1, <2>2, PurgeFrame
<1>4. ASSUME NEW t \in Tx, NEW n \in Node, JobAction(t, n) PROVE Fresh'
  <2>1. \A u \in Tx, m \in Node : status'[u][m] # status[u][m] =>
          u = t /\ (status[t][n] # "none")
    BY <1>4 DEF JobAction, JobStep, TakeJob, Hold, Write, WriteFails, AddKid, Register,
       Return, Fail, Timeout, Ends, TypeOK, Handlers, data, work, maps
  <2>2. \A r \in Sched : phase[r] = "add" => tx[r] \in Tx
    BY DEF Owned, Live
  <2> QED
    BY <1>4, <2>1, <2>2, JobFrame
<1>5. CASE Crash
  BY <1>5 DEF Crash, TypeOK
<1>6. CASE UNCHANGED vars
  BY <1>6 DEF vars, sched, data
<1> QED
  BY <1>1, <1>2, <1>3, <1>4, <1>5, <1>6 DEF Next, SchedStep, SchedAction, JobAction

LEMMA HandlersStep == TypeOK /\ Owned /\ Fresh /\ Handlers /\ [Next]_vars => Handlers'
<1> SUFFICES ASSUME TypeOK, Owned, Fresh, Handlers, [Next]_vars PROVE Handlers'
  OBVIOUS
<1> USE DEF Handlers
<1>0. \A n \in Node : \A i \in DOMAIN Kids[n] : Kids[n][i] \in Node
  BY SyncConstants
<1>1. ASSUME NEW s \in Sched, SchedAction(s) PROVE Handlers'
  BY <1>1, SchedFrame DEF AllQueued
<1>2. ASSUME NEW s \in Sched, AddRoot(s) PROVE Handlers'
  <2>1. tx[s] \in Tx /\ status[tx[s]][Root] = "none"
    BY <1>2, SyncConstants DEF AddRoot, Owned, Live, Fresh
  <2>2. /\ UNCHANGED <<step, adding, hold>>
        /\ status' = [status EXCEPT ![tx[s]][Root] = "waiting"]
    BY <1>2 DEF AddRoot, work
  <2> QED
    BY <1>0, <2>1, <2>2, SyncConstants DEF TypeOK, AllQueued
<1>3. ASSUME NEW s \in Sched, Purge(s) PROVE Handlers'
  <2>1. \A u \in Tx, n \in Node : status[u][n] # "none" => status'[u][n] # "none"
    BY <1>3, PurgeFrame
  <2>2. \A u \in Tx, n \in Node : AllQueued(u, n) => AllQueued(u, n)'
    BY <1>0, <2>1 DEF AllQueued
  <2> QED
    BY <1>3, <2>2, PurgeFrame
<1>4. ASSUME NEW t \in Tx, NEW n \in Node, JobAction(t, n) PROVE Handlers'
  <2>1. \A u \in Tx, m \in Node : status[u][m] # "none" => status'[u][m] # "none"
    BY <1>4 DEF JobAction, JobStep, TakeJob, Hold, Write, WriteFails, AddKid, Register,
       Return, Fail, Timeout, Ends, TypeOK, data, work, maps
  <2>2. \A u \in Tx, m \in Node : AllQueued(u, m) => AllQueued(u, m)'
    BY <1>0, <2>1 DEF AllQueued
  <2>3. CASE TakeJob(t, n)
    BY <2>2, <2>3 DEF TakeJob, TypeOK
  <2>4. CASE Hold(t, n)
    BY <2>2, <2>4 DEF Hold, TypeOK, data
  <2>5. CASE Write(t, n)
    BY <2>2, <2>5 DEF Write, TypeOK
  <2>6. CASE WriteFails(t, n) \/ Fail(t, n)
    <3>1. status[t][n] \in {"active", "failed"} /\ Ends(t, n, "failed")
      BY <2>6 DEF WriteFails, Fail
    <3>2. \A u \in Tx, m \in Node : status'[u][m] =
            IF u = t /\ m = n THEN "failed" ELSE status[u][m]
      BY <3>1 DEF Ends, TypeOK
    <3> QED
      BY <2>2, <3>1, <3>2 DEF Ends, TypeOK
  <2>7. CASE AddKid(t, n)
    <3>1. PICK m \in Node :
            /\ step[t][n] = "spawn" /\ status[t][m] = "none"
            /\ adding' = [adding EXCEPT ![t][n] = m]
            /\ status' = [status EXCEPT ![t][m] = "waiting"]
            /\ UNCHANGED <<step, hold>>
      BY <1>0, <2>7 DEF AddKid, NextKid
    <3>2. step[t][m] = "idle" /\ m # n
      BY <3>1 DEF TypeOK
    <3> QED
      BY <2>2, <3>1, <3>2 DEF TypeOK
  <2>8. CASE Register(t, n)
    BY <2>2, <2>8 DEF Register, TypeOK, data
  <2>9. CASE Return(t, n)
    BY <2>2, <2>9 DEF Return, Ends, TypeOK
  <2>10. CASE Timeout(t, n)
    BY <2>2, <2>10 DEF Timeout, TypeOK, work
  <2> QED
    BY <1>4, <2>3, <2>4, <2>5, <2>6, <2>7, <2>8, <2>9, <2>10 DEF JobAction, JobStep
<1>5. CASE Crash
  <2>1. step' = All("idle") /\ adding' = All(None) /\ hold' = All("none")
    BY <1>5 DEF Crash
  <2>2. \A t \in Tx, n \in Node :
          status'[t][n] = IF status[t][n] = "active" THEN "waiting" ELSE status[t][n]
    BY <1>5 DEF Crash
  <2>3. ASSUME NEW t \in Tx, NEW n \in Node, status'[t][n] = "done" PROVE AllQueued(t, n)'
    <3>1. AllQueued(t, n)
      BY <2>2, <2>3
    <3> QED
      BY <1>0, <2>2, <3>1 DEF AllQueued
  <2> QED
    BY <2>1, <2>3 DEF All
<1>6. CASE UNCHANGED vars
  BY <1>6 DEF vars, work, AllQueued
<1> QED
  BY <1>1, <1>2, <1>3, <1>4, <1>5, <1>6 DEF Next, SchedStep, SchedAction, JobAction

(* Jobs other than those of scheduler s are not touched by it. *)
LEMMA AliveStep ==
  ASSUME TypeOK, Owned, NEW s \in Sched, NEW t \in Tx, Alive(t)',
         AddRoot(s) \/ RegisterRoot(s) \/ Commit(s) \/ Purge(s)
  PROVE  Alive(t) /\ reg[t] \subseteq reg'[t]
<1>1. PICK r \in Sched : Live(r)' /\ tx'[r] = t
  BY DEF Alive
<1>2. tx' = tx /\ \A q \in Sched \ {s} : phase'[q] = phase[q]
  BY DEF AddRoot, RegisterRoot, Commit, Purge, TypeOK, data
<1>3. Live(s) /\ (Commit(s) \/ Purge(s) => ~Live(s)')
  BY DEF AddRoot, RegisterRoot, Commit, Purge, Live, TypeOK
<1>4. Live(r) /\ (Commit(s) \/ Purge(s) => tx[s] # t)
  BY <1>1, <1>2, <1>3 DEF Live, Owned
<1>5. Alive(t)
  BY <1>1, <1>2, <1>4 DEF Alive
<1>6. tx[s] \in Tx
  BY <1>3 DEF Owned
<1>7. CASE AddRoot(s) \/ RegisterRoot(s)
  BY <1>5, <1>6, <1>7 DEF AddRoot, RegisterRoot, TypeOK, maps
<1>8. CASE Commit(s) \/ Purge(s)
  BY <1>4, <1>5, <1>6, <1>8 DEF Commit, Purge, TypeOK, maps
<1> QED
  BY <1>7, <1>8

(* A child is registered, or its parent is about to do so. *)
LEMMA RegisteredStep ==
  TypeOK /\ Owned /\ Fresh /\ Handlers /\ Registered /\ [Next]_vars => Registered'
<1> SUFFICES ASSUME TypeOK, Owned, Fresh, Handlers, Registered, [Next]_vars
             PROVE  Registered'
  OBVIOUS
<1> DEFINE Fine(t) == \A p \in Node :
             /\ \A i \in DOMAIN Kids[p] :
                  status[t][Kids[p][i]] # "none" =>
                    Kids[p][i] \in reg[t] \/ adding[t][p] = Kids[p][i]
             /\ \A i, j \in DOMAIN Kids[p] :
                  i < j /\ status[t][Kids[p][j]] # "none" => Kids[p][i] \in reg[t]
<1>0. \A n \in Node : \A i \in DOMAIN Kids[n] : Kids[n][i] \in Node /\ Kids[n][i] # Root
  BY SyncConstants DEF IsKid
<1>1. SUFFICES ASSUME NEW t \in Tx, Alive(t)' PROVE Fine(t)'
  BY DEF Registered
<1>2. Alive(t) => Fine(t)
  BY DEF Registered
<1>3. ASSUME Alive(t), reg[t] \subseteq reg'[t], \A p \in Node : adding'[t][p] = adding[t][p],
             \A n \in Node : n # Root /\ status[t][n] = "none" => status'[t][n] = "none"
      PROVE  Fine(t)'
  BY <1>0, <1>2, <1>3
<1> HIDE DEF Fine
<1>4. ASSUME NEW s \in Sched, NEW u \in Tx, OpenTransaction(s, u) PROVE Fine(t)'
  <2>1. CASE u = t
    <3>1. \A n \in Node : status'[t][n] = "none"
      BY <1>4, <2>1 DEF OpenTransaction, Fresh
    <3> QED
      BY <1>0, <3>1 DEF Fine
  <2>2. CASE u # t
    <3>1. Alive(t) /\ reg' = reg /\ status' = status /\ adding' = adding
      BY <1>1, <1>4, <2>2 DEF OpenTransaction, Alive, Live, TypeOK, work
    <3> QED
      BY <1>3, <3>1
  <2> QED
    BY <2>1, <2>2
<1>5. ASSUME NEW s \in Sched,
             Schedule(s) \/ AwaitRoot(s) \/ Poll(s) \/ Decide(s) \/ Rollback(s)
      PROVE  Fine(t)'
  <2>1. UNCHANGED <<tx, reg, status, adding>>
    BY <1>5 DEF Schedule, AwaitRoot, Poll, Decide, Rollback, maps, work
  <2>2. \A r \in Sched : Live(r)' => Live(r)
    BY <1>5 DEF Schedule, AwaitRoot, Poll, Decide, Rollback, Live, TypeOK
  <2> QED
    BY <1>1, <1>3, <2>1, <2>2 DEF Alive
<1>6. ASSUME NEW s \in Sched, AddRoot(s) \/ RegisterRoot(s) \/ Commit(s) \/ Purge(s)
      PROVE  Fine(t)'
  <2>1. Alive(t) /\ reg[t] \subseteq reg'[t]
    BY <1>1, <1>6, AliveStep
  <2>2. adding' = adding
    BY <1>6 DEF AddRoot, RegisterRoot, Commit, Purge, work
  <2>3. \A n \in Node : n # Root /\ status[t][n] = "none" => status'[t][n] = "none"
    <3>1. CASE AddRoot(s)
      BY <3>1 DEF AddRoot, TypeOK
    <3>2. CASE RegisterRoot(s) \/ Commit(s)
      BY <3>2 DEF RegisterRoot, Commit
    <3>3. CASE Purge(s)
      BY <3>3, PurgeFrame
    <3> QED
      BY <1>6, <3>1, <3>2, <3>3
  <2> QED
    BY <1>3, <2>1, <2>2, <2>3
<1>7. ASSUME NEW u \in Tx, NEW n \in Node, JobAction(u, n) PROVE Fine(t)'
  <2>1. Alive(t)
    BY <1>1, <1>7, JobFrame, AliveFrame
  <2>2. CASE AddKid(u, n) /\ u = t
    <3>1. PICK i \in DOMAIN Kids[n] :
            /\ adding[t][n] = None /\ NextKid(t, n, i)
            /\ adding' = [adding EXCEPT ![t][n] = Kids[n][i]]
            /\ status' = [status EXCEPT ![t][Kids[n][i]] = "waiting"]
            /\ UNCHANGED reg
      BY <2>2 DEF AddKid, maps
    <3>2. \A j \in DOMAIN Kids[n] : Kids[n][j] # None
      BY <1>0, SyncConstants
    <3>3. ASSUME NEW p \in Node, p # n, NEW j \in DOMAIN Kids[p] PROVE Kids[p][j] # Kids[n][i]
      <4>1. Kids[p][j] \in Node /\ IsKid(Kids[p][j], p) /\ IsKid(Kids[n][i], n)
        BY <1>0 DEF IsKid
      <4> QED
        BY <3>3, <4>1, SyncConstants
    <3>4. \A j \in DOMAIN Kids[n] : j < i => Kids[n][j] \in reg[t]
      BY <1>2, <2>1, <3>1, <3>2 DEF Fine, NextKid
    <3>5. \A j \in DOMAIN Kids[n] : Kids[n][j] = Kids[n][i] => j = i
      BY SyncConstants
    <3>6. ASSUME NEW p \in Node, NEW j \in DOMAIN Kids[p], status'[t][Kids[p][j]] # "none"
          PROVE  Kids[p][j] \in reg'[t] \/ adding'[t][p] = Kids[p][j]
      <4>1. CASE p = n /\ j = i
        BY <3>1, <4>1 DEF TypeOK
      <4>2. CASE ~(p = n /\ j = i)
        <5>1. Kids[p][j] # Kids[n][i] /\ Kids[p][j] \in Node /\ Kids[n][i] \in Node
          BY <1>0, <3>3, <3>5, <4>2
        <5>2. status[t][Kids[p][j]] # "none"
          BY <3>1, <3>6, <5>1 DEF TypeOK
        <5>3. Kids[p][j] \in reg[t] \/ adding[t][p] = Kids[p][j]
          BY <1>2, <2>1, <5>2 DEF Fine
        <5> QED
          BY <3>1, <3>2, <5>3 DEF TypeOK
      <4> QED
        BY <4>1, <4>2
    <3>7. ASSUME NEW p \in Node, NEW k \in DOMAIN Kids[p], NEW j \in DOMAIN Kids[p],
                 k < j, status'[t][Kids[p][j]] # "none"
          PROVE  Kids[p][k] \in reg'[t]
      <4>1. CASE p = n /\ j = i
        BY <3>1, <3>4, <3>7, <4>1
      <4>2. CASE ~(p = n /\ j = i)
        <5>1. Kids[p][j] # Kids[n][i] /\ Kids[p][j] \in Node /\ Kids[n][i] \in Node
          BY <1>0, <3>3, <3>5, <4>2
        <5>2. status[t][Kids[p][j]] # "none"
          BY <3>1, <3>7, <5>1 DEF TypeOK
        <5> QED
          BY <1>2, <2>1, <3>1, <3>7, <5>2 DEF Fine
      <4> QED
        BY <4>1, <4>2
    <3> QED
      BY <3>6, <3>7 DEF Fine
  <2>3. CASE Register(u, n) /\ u = t
    <3>1. /\ reg'[t] = reg[t] \cup {adding[t][n]} /\ status' = status
          /\ \A p \in Node : adding'[t][p] = IF p = n THEN None ELSE adding[t][p]
      BY <2>3 DEF Register, TypeOK
    <3> QED
      BY <1>2, <2>1, <3>1 DEF Fine
  <2>4. CASE u # t \/ ~(AddKid(u, n) \/ Register(u, n))
    <3>1. reg[t] \subseteq reg'[t]
      BY <1>7, JobGrows
    <3>2. \A p \in Node : adding'[t][p] = adding[t][p]
      <4>1. CASE WriteFails(u, n) \/ Return(u, n) \/ Fail(u, n)
        <5>1. adding[u][n] = None /\ adding' = [adding EXCEPT ![u][n] = None]
          BY <4>1 DEF WriteFails, Return, Fail, Ends, Handlers, TypeOK
        <5> QED
          BY <5>1 DEF TypeOK
      <4>2. CASE ~(WriteFails(u, n) \/ Return(u, n) \/ Fail(u, n))
        <5>1. adding' = adding \/ (u # t /\ (AddKid(u, n) \/ Register(u, n)))
          BY <1>7, <2>4, <4>2 DEF JobAction, JobStep, TakeJob, Hold, Write, Timeout, work
        <5>2. u # t /\ (AddKid(u, n) \/ Register(u, n)) => adding'[t] = adding[t]
          BY DEF AddKid, Register, TypeOK
        <5> QED
          BY <5>1, <5>2
      <4> QED
        BY <4>1, <4>2
    <3>3. \A m \in Node : status[t][m] = "none" => status'[t][m] = "none"
      BY <1>7, <2>4, JobBegins
    <3> QED
      BY <1>3, <2>1, <3>1, <3>2, <3>3
  <2> QED
    BY <1>7, <2>2, <2>3, <2>4
<1>8. CASE Crash
  <2>1. ~Alive(t)'
    BY <1>8 DEF Crash, Alive, Live
  <2> QED
    BY <1>1, <2>1
<1>9. CASE UNCHANGED vars
  BY <1>1, <1>3, <1>9, AliveFrame DEF vars, sched, maps, work
<1> QED
  BY <1>4, <1>5, <1>6, <1>7, <1>8, <1>9 DEF Next, SchedStep, JobAction

(* Past the registration of Root it stays registered. *)
LEMMA RootKnownStep == TypeOK /\ Owned /\ RootKnown /\ [Next]_vars => RootKnown'
<1> SUFFICES ASSUME TypeOK, Owned, RootKnown, [Next]_vars PROVE RootKnown'
  OBVIOUS
<1> USE DEF RootKnown
<1>1. ASSUME NEW s \in Sched,
             Schedule(s) \/ AwaitRoot(s) \/ Poll(s) \/ Decide(s) \/ Rollback(s)
      PROVE  RootKnown'
  <2>1. UNCHANGED <<tx, reg>>
    BY <1>1 DEF Schedule, AwaitRoot, Poll, Decide, Rollback, maps
  <2>2. \A r \in Sched : Live(r)' /\ phase'[r] \notin {"add", "register"} =>
          Live(r) /\ phase[r] \notin {"add", "register"}
    BY <1>1 DEF Schedule, AwaitRoot, Poll, Decide, Rollback, Live, TypeOK
  <2> QED
    BY <2>1, <2>2
<1>2. ASSUME NEW s \in Sched, NEW t \in Tx, OpenTransaction(s, t) PROVE RootKnown'
  BY <1>2 DEF OpenTransaction, Live, TypeOK
<1>3. ASSUME NEW s \in Sched, AddRoot(s) \/ RegisterRoot(s) \/ Commit(s) \/ Purge(s)
      PROVE  RootKnown'
  <2> SUFFICES ASSUME NEW r \in Sched, Live(r)', phase'[r] \notin {"add", "register"}
               PROVE  Root \in reg'[tx'[r]]
    OBVIOUS
  <2>1. tx' = tx /\ \A q \in Sched \ {s} : phase'[q] = phase[q]
    BY <1>3 DEF AddRoot, RegisterRoot, Commit, Purge, TypeOK, data
  <2>2. Live(s) /\ (Commit(s) \/ Purge(s) => ~Live(s)') /\ (AddRoot(s) => r # s)
    BY <1>3 DEF AddRoot, RegisterRoot, Commit, Purge, Live, TypeOK
  <2>3. Live(r) /\ tx[r] \in Tx
    BY <2>1, <2>2 DEF Live, Owned
  <2>4. CASE r = s
    <3>1. RegisterRoot(s)
      BY <1>3, <2>2, <2>4
    <3> QED
      BY <2>3, <2>4, <3>1 DEF RegisterRoot, TypeOK
  <2>5. CASE r # s
    <3>1. Root \in reg[tx[r]]
      BY <2>1, <2>3, <2>5 DEF Live
    <3>2. reg[tx[r]] \subseteq reg'[tx[r]]
      BY <1>3, <2>1, <2>3, AliveStep DEF Alive
    <3> QED
      BY <2>1, <3>1, <3>2
  <2> QED
    BY <2>4, <2>5
<1>4. ASSUME NEW t \in Tx, NEW n \in Node, JobAction(t, n) PROVE RootKnown'
  <2>1. \A u \in Tx : reg[u] \subseteq reg'[u]
    BY <1>4, JobGrows
  <2>2. UNCHANGED <<phase, tx>> /\ \A r \in Sched : Live(r) => tx[r] \in Tx
    BY <1>4, JobFrame DEF Owned
  <2> QED
    BY <2>1, <2>2 DEF Live
<1>5. CASE Crash
  BY <1>5 DEF Crash, Live
<1>6. CASE UNCHANGED vars
  BY <1>6 DEF vars, sched, maps, Live
<1> QED
  BY <1>1, <1>2, <1>3, <1>4, <1>5, <1>6 DEF Next, SchedStep, JobAction

(* When all registered jobs are done, so is the whole tournament. *)
LEMMA AllDone ==
  ASSUME TypeOK, Owned, Handlers, Registered, RootKnown,
         NEW s \in Sched, phase[s] = "poll",
         \A n \in reg[tx[s]] : status[tx[s]][n] = "done"
  PROVE  \A n \in Node : status[tx[s]][n] = "done"
<1> DEFINE t == tx[s]
           Done == {n \in Node : n \in reg[t] /\ status[t][n] = "done"}
<1>1. t \in Tx /\ Alive(t) /\ Root \in reg[t]
  BY DEF Owned, Alive, Live, RootKnown
<1>2. ASSUME NEW n \in Done, NEW m \in Node, IsKid(m, n) PROVE m \in Done
  <2>1. PICK i \in DOMAIN Kids[n] : m = Kids[n][i]
    BY <1>2 DEF IsKid
  <2>2. status[t][m] # "none"
    BY <1>1, <2>1 DEF Handlers, AllQueued
  <2>3. adding[t][n] = None
    BY <1>1 DEF Handlers
  <2>4. m # None
    BY SyncConstants
  <2>5. m \in reg[t] \/ adding[t][n] = m
    BY <1>1, <2>1, <2>2 DEF Registered
  <2> QED
    BY <2>3, <2>4, <2>5
<1>3. Root \in Done
  BY <1>1, SyncConstants
<1>4. Done = Node
  <2>1. Done \in SUBSET Node
    OBVIOUS
  <2> HIDE DEF Done
  <2> QED
    BY <1>2, <1>3, <2>1, SyncConstants
<1> QED
  BY <1>4

(* What the scheduler found when it polled stays so until it decides. *)
LEMMA SettledStep ==
  TypeOK /\ Owned /\ Handlers /\ Registered /\ RootKnown /\ Settled /\ [Next]_vars => Settled'
<1> SUFFICES ASSUME TypeOK, Owned, Handlers, Registered, RootKnown, Settled, [Next]_vars,
                    NEW s \in Sched, phase'[s] = "decide"
             PROVE  \/ \E n \in reg'[tx'[s]] : status'[tx'[s]][n] = "failed"
                    \/ \A n \in Node : status'[tx'[s]][n] = "done"
  BY DEF Settled
<1> DEFINE Verdict(t) == \/ \E n \in reg[t] : status[t][n] = "failed"
                         \/ \A n \in Node : status[t][n] = "done"
<1> SUFFICES Verdict(tx[s])' /\ tx'[s] = tx[s]
  OBVIOUS
<1>1. ASSUME phase[s] = "decide", tx[s] \in Tx, reg[tx[s]] \subseteq reg'[tx[s]],
             \A n \in Node : status[tx[s]][n] \in Over => status'[tx[s]][n] = status[tx[s]][n],
             tx'[s] = tx[s]
      PROVE  Verdict(tx[s])' /\ tx'[s] = tx[s]
  <2>1. Verdict(tx[s]) /\ reg[tx[s]] \subseteq Node
    BY <1>1 DEF Settled, TypeOK
  <2> QED
    BY <1>1, <2>1 DEF Over
<1>2. CASE Poll(s)
  <2>1. tx[s] \in Tx /\ phase[s] = "poll" /\ UNCHANGED <<tx, reg, status>>
    BY <1>2 DEF Poll, Owned, Live, maps
  <2>2. \A n \in reg[tx[s]] : status[tx[s]][n] \in Over
    BY <1>2 DEF Poll
  <2>3. Verdict(tx[s])
    BY <2>1, <2>2, AllDone DEF Over
  <2> QED
    BY <2>1, <2>3
<1> HIDE DEF Verdict
<1>3. CASE ~Poll(s) /\ UNCHANGED vars
  BY <1>1, <1>3 DEF vars, sched, maps, Owned, Live
<1>4. ASSUME NEW r \in Sched, Schedule(r) \/ SchedStep(r), ~Poll(s)
      PROVE  Verdict(tx[s])' /\ tx'[s] = tx[s]
  <2>1. r # s /\ phase[s] = "decide" /\ tx'[s] = tx[s]
    BY <1>4 DEF SchedStep, Schedule, OpenTransaction, AddRoot, RegisterRoot, AwaitRoot,
       Poll, Decide, Commit, Rollback, Purge, TypeOK
  <2>2. tx[s] \in Tx /\ (Live(r) => tx[r] # tx[s] /\ tx[r] \in Tx)
    BY <2>1 DEF Owned, Live
  <2>3. CASE SchedAction(r)
    <3>1. status' = status
      BY <2>3, SchedFrame
    <3>2. reg[tx[s]] \subseteq reg'[tx[s]]
      BY <2>2, <2>3 DEF SchedAction, Schedule, OpenTransaction, RegisterRoot, AwaitRoot,
         Poll, Decide, Commit, Rollback, TypeOK, Live, maps
    <3> QED
      BY <1>1, <2>1, <2>2, <3>1, <3>2
  <2>4. CASE AddRoot(r)
    <3>1. Live(r) /\ reg' = reg
      BY <2>4 DEF AddRoot, Live, maps
    <3>2. \A n \in Node : status'[tx[s]][n] = status[tx[s]][n]
      BY <2>2, <2>4, <3>1 DEF AddRoot, TypeOK
    <3> QED
      BY <1>1, <2>1, <2>2, <3>1, <3>2
  <2>5. CASE Purge(r)
    <3>1. Live(r)
      BY <2>5 DEF Purge, Live
    <3>2. reg[tx[s]] \subseteq reg'[tx[s]]
      BY <2>2, <2>5, <3>1 DEF Purge, TypeOK, maps
    <3>3. \A n \in Node : status'[tx[s]][n] = status[tx[s]][n]
      BY <2>2, <2>5, <3>1, PurgeFrame
    <3> QED
      BY <1>1, <2>1, <2>2, <3>2, <3>3
  <2> QED
    BY <1>4, <2>3, <2>4, <2>5 DEF SchedStep, SchedAction
<1>5. ASSUME NEW t \in Tx, NEW n \in Node, JobAction(t, n)
      PROVE  Verdict(tx[s])' /\ tx'[s] = tx[s]
  <2>1. phase[s] = "decide" /\ tx'[s] = tx[s] /\ tx[s] \in Tx
    BY <1>5, JobFrame DEF Owned, Live
  <2>2. /\ reg[tx[s]] \subseteq reg'[tx[s]]
        /\ \A m \in Node : status[tx[s]][m] \in Over =>
             status'[tx[s]][m] = status[tx[s]][m]
    BY <1>5, <2>1, JobGrows
  <2> QED
    BY <1>1, <2>1, <2>2
<1>6. CASE Crash
  <2>1. phase'[s] # "decide"
    BY <1>6 DEF Crash
  <2> QED
    BY <2>1
<1> QED
  BY <1>2, <1>3, <1>4, <1>5, <1>6 DEF Next, JobAction

(* A job holds the transaction of its scheduler, writes in it before it is *)
(* done, and a standing begins when the games of its draw are over.        *)
LEMMA WrittenStep ==
  /\ TypeOK /\ Owned /\ Fresh /\ Handlers /\ Registered /\ Written
  /\ [Next]_vars
  => Written'
<1> SUFFICES ASSUME TypeOK, Owned, Fresh, Handlers, Registered, Written, [Next]_vars
             PROVE  Written'
  OBVIOUS
<1> DEFINE Fine(t, n) ==
             /\ hold[t][n] # "auto"
             /\ step[t][n] = "spawn" \/ status[t][n] = "done" => n \in wrote[t]
             /\ step[t][n] = "held" =>
                  \A m \in After[n] : m \in wrote[t] \/ status[t][m] = "failed"
<1>1. SUFFICES ASSUME NEW t \in Tx, Alive(t)' PROVE \A n \in Node : Fine(t, n)'
  BY DEF Written
<1>2. Alive(t) => \A n \in Node : Fine(t, n)
  BY DEF Written
<1>3. \A n \in Node : After[n] \subseteq Node
  BY SyncConstants
<1>4. ASSUME Alive(t), wrote[t] \subseteq wrote'[t], step' = step, hold' = hold,
             \A n \in Node : status'[t][n] = "done" => status[t][n] = "done",
             \A n \in Node : status[t][n] = "failed" => status'[t][n] = "failed"
      PROVE  \A n \in Node : Fine(t, n)'
  BY <1>2, <1>3, <1>4
<1>5. ASSUME NEW s \in Sched, NEW u \in Tx, OpenTransaction(s, u)
      PROVE  \A n \in Node : Fine(t, n)'
  <2>1. UNCHANGED <<status, step, hold, wrote>>
    BY <1>5, SchedFrame DEF SchedAction
  <2>2. CASE u = t
    <3>1. \A n \in Node : status[t][n] = "none"
      BY <1>5, <2>2 DEF OpenTransaction, Fresh
    <3>2. \A n \in Node : step[t][n] = "idle" /\ hold[t][n] = "none"
      BY <3>1 DEF Handlers, TypeOK
    <3> QED
      BY <2>1, <3>1, <3>2
  <2>3. CASE u # t
    <3>1. Alive(t)
      BY <1>1, <1>5, <2>3 DEF OpenTransaction, Alive, Live, TypeOK
    <3> QED
      BY <1>4, <2>1, <3>1
  <2> QED
    BY <2>2, <2>3
<1>6. ASSUME NEW s \in Sched,
             Schedule(s) \/ AwaitRoot(s) \/ Poll(s) \/ Decide(s) \/ Rollback(s)
      PROVE  \A n \in Node : Fine(t, n)'
  <2>1. UNCHANGED <<status, step, hold, wrote>> /\ UNCHANGED tx
    BY <1>6, SchedFrame DEF SchedAction, Schedule, AwaitRoot, Poll, Decide, Rollback
  <2>2. \A r \in Sched : Live(r)' => Live(r)
    BY <1>6 DEF Schedule, AwaitRoot, Poll, Decide, Rollback, Live, TypeOK
  <2>3. Alive(t)
    BY <1>1, <2>1, <2>2 DEF Alive
  <2> QED
    BY <1>4, <2>1, <2>3
<1>7. ASSUME NEW s \in Sched, AddRoot(s) \/ RegisterRoot(s) \/ Commit(s) \/ Purge(s)
      PROVE  \A n \in Node : Fine(t, n)'
  <2>1. Alive(t)
    BY <1>1, <1>7, AliveStep
  <2>2. UNCHANGED <<step, hold, wrote>>
    BY <1>7 DEF AddRoot, RegisterRoot, Commit, Purge, work, data
  <2>3. CASE AddRoot(s)
    <3>1. phase[s] = "add" /\ status' = [status EXCEPT ![tx[s]][Root] = "waiting"]
      BY <2>3 DEF AddRoot
    <3>2. tx[s] \in Tx
      BY <3>1 DEF Owned, Live
    <3>3. status[tx[s]][Root] = "none"
      BY <3>1, SyncConstants DEF Fresh
    <3> QED
      BY <1>4, <2>1, <2>2, <3>1, <3>2, <3>3, SyncConstants DEF TypeOK
  <2>4. CASE RegisterRoot(s) \/ Commit(s)
    BY <1>4, <2>1, <2>2, <2>4 DEF RegisterRoot, Commit
  <2>5. CASE Purge(s)
    BY <1>4, <2>1, <2>2, <2>5, PurgeFrame
  <2> QED
    BY <1>7, <2>3, <2>4, <2>5
<1>8. ASSUME NEW u \in Tx, NEW n \in Node, JobAction(u, n)
      PROVE  \A m \in Node : Fine(t, m)'
  <2>1. Alive(t) /\ t \in known
    BY <1>1, <1>8, JobFrame, AliveFrame DEF Alive, Owned
  <2>2. \A m \in Node : Fine(t, m)
    BY <1>2, <2>1
  <2>3. CASE TakeJob(u, n)
    BY <1>3, <2>2, <2>3 DEF TakeJob, TypeOK, data
  <2>4. CASE Hold(u, n)
    <3>1. /\ step[u][n] = "taken"
          /\ step' = [step EXCEPT ![u][n] = "held"]
          /\ hold' = [hold EXCEPT ![u][n] = IF u \in known THEN "tx" ELSE "auto"]
          /\ UNCHANGED <<status, wrote>>
      BY <2>4 DEF Hold, data
    <3>2. ASSUME u = t, NEW m \in After[n] PROVE m \in wrote[t] \/ status[t][m] = "failed"
      <4>1. PICK p \in Node : \E i, j \in DOMAIN Kids[p] :
              i < j /\ Kids[p][i] = m /\ Kids[p][j] = n
        BY SyncConstants
      <4>2. status[t][n] # "none"
        BY <3>1, <3>2 DEF Handlers
      <4>3. m \in reg[t]
        BY <2>1, <4>1, <4>2 DEF Registered
      <4>4. status[t][m] \in Over
        BY <2>4, <3>2, <4>3 DEF Hold
      <4> QED
        BY <1>3, <2>2, <4>4 DEF Over
    <3> QED
      BY <1>3, <2>1, <2>2, <3>1, <3>2 DEF TypeOK
  <2>5. CASE Write(u, n)
    <3>1. u = t => hold[t][n] = "tx"
      BY <2>2, <2>5 DEF Write, Handlers, TypeOK
    <3>2. u = t => wrote'[t] = wrote[t] \cup {n}
      BY <2>5, <3>1 DEF Write, TypeOK
    <3>3. u # t => wrote'[t] = wrote[t]
      BY <2>5 DEF Write, TypeOK
    <3>4. /\ step[u][n] = "held" /\ step' = [step EXCEPT ![u][n] = "spawn"]
          /\ UNCHANGED <<hold, status>>
      BY <2>5 DEF Write
    <3>5. wrote[t] \subseteq wrote'[t] /\ (u = t => n \in wrote'[t])
      BY <3>2, <3>3
    <3>6. \A m \in Node : \/ step'[t][m] = step[t][m]
                          \/ u = t /\ m = n /\ step'[t][m] = "spawn"
      BY <3>4 DEF TypeOK
    <3> QED
      BY <1>3, <2>2, <3>4, <3>5, <3>6
  <2>6. CASE WriteFails(u, n) \/ Fail(u, n)
    <3>1. Ends(u, n, "failed") /\ UNCHANGED wrote /\ step[u][n] # "idle"
      BY <2>6 DEF WriteFails, Fail, data
    <3>2. \A m \in Node : status'[t][m] = status[t][m] \/ status'[t][m] = "failed"
      BY <3>1 DEF Ends, TypeOK
    <3>3. \A m \in Node : /\ step'[t][m] = step[t][m] \/ step'[t][m] = "idle"
                          /\ hold'[t][m] = hold[t][m] \/ hold'[t][m] = "none"
      BY <3>1 DEF Ends, TypeOK
    <3> QED
      BY <1>3, <2>2, <3>1, <3>2, <3>3
  <2>7. CASE AddKid(u, n)
    <3>1. PICK m \in Node :
            /\ status[u][m] = "none" /\ status' = [status EXCEPT ![u][m] = "waiting"]
            /\ UNCHANGED <<step, hold, wrote>>
      BY <2>7, AddKidFrame
    <3> QED
      BY <1>4, <2>1, <3>1 DEF TypeOK
  <2>8. CASE Register(u, n)
    BY <1>4, <2>1, <2>8 DEF Register, data
  <2>9. CASE Return(u, n)
    <3>1. Ends(u, n, "done") /\ UNCHANGED wrote /\ step[u][n] = "spawn"
      BY <2>9 DEF Return, data
    <3>2. \A m \in Node : /\ step'[t][m] = step[t][m] \/ step'[t][m] = "idle"
                          /\ hold'[t][m] = hold[t][m] \/ hold'[t][m] = "none"
      BY <3>1 DEF Ends, TypeOK
    <3>3. \A m \in Node : \/ status'[t][m] = status[t][m]
                          \/ u = t /\ m = n /\ status[t][m] = "active" /\ status'[t][m] = "done"
      BY <3>1 DEF Ends, TypeOK
    <3> QED
      BY <1>3, <2>2, <3>1, <3>2, <3>3
  <2>10. CASE Timeout(u, n)
    BY <1>3, <2>2, <2>10 DEF Timeout, TypeOK, data, work
  <2> QED
    BY <1>8, <2>3, <2>4, <2>5, <2>6, <2>7, <2>8, <2>9, <2>10 DEF JobAction, JobStep
<1>9. CASE Crash
  BY <1>1, <1>9 DEF Crash, Alive, Live
<1>10. CASE UNCHANGED vars
  <2>1. Alive(t) /\ UNCHANGED <<status, step, hold, wrote>>
    BY <1>1, <1>10, AliveFrame DEF vars, sched, work, data
  <2> QED
    BY <1>4, <2>1
<1> HIDE DEF Fine
<1> QED
  BY <1>5, <1>6, <1>7, <1>8, <1>9, <1>10 DEF Next, SchedStep, JobAction

(* When no registered job is active, none of the tournament is. *)
LEMMA AllRegistered ==
  ASSUME TypeOK, Owned, Handlers, Registered, RootKnown, Inside, ~outlived,
         NEW s \in Sched, phase[s] = "purge", ~Locked(tx[s])
  PROVE  \A n \in Node : status[tx[s]][n] # "none" => n \in reg[tx[s]]
<1> DEFINE t == tx[s]
           Fine == {n \in Node : status[t][n] # "none" => n \in reg[t]}
<1>1. t \in Tx /\ Alive(t) /\ Root \in reg[t]
  BY DEF Owned, Alive, Live, RootKnown
<1>2. ASSUME NEW n \in Fine, NEW m \in Node, IsKid(m, n) PROVE m \in Fine
  <2> SUFFICES ASSUME status[t][m] # "none", m \notin reg[t] PROVE FALSE
    OBVIOUS
  <2>1. PICK i \in DOMAIN Kids[n] : m = Kids[n][i]
    BY <1>2 DEF IsKid
  <2>2. adding[t][n] = m /\ m # None
    BY <1>1, <2>1, SyncConstants DEF Registered
  <2>3. status[t][n] = "active"
    BY <1>1, <2>2 DEF Handlers, Inside
  <2> QED
    BY <2>3 DEF Locked
<1>3. Root \in Fine
  BY <1>1, SyncConstants
<1>4. Fine = Node
  <2>1. Fine \in SUBSET Node
    OBVIOUS
  <2> HIDE DEF Fine
  <2> QED
    BY <1>2, <1>3, <2>1, SyncConstants
<1> QED
  BY <1>4

(* Without timeouts and crashes a job that may still run has its           *)
(* transaction in the map.                                                 *)
LEMMA InsideStep ==
  /\ TypeOK /\ Owned /\ Fresh /\ Handlers /\ Registered /\ RootKnown /\ Settled /\ Inside
  /\ [Next]_vars
  => Inside'
<1> SUFFICES ASSUME TypeOK, Owned, Fresh, Handlers, Registered, RootKnown, Settled, Inside,
                    [Next]_vars, ~outlived'
             PROVE  /\ stray' = {}
                    /\ \A t \in Tx, n \in Node :
                         /\ hold'[t][n] # "auto"
                         /\ status'[t][n] \in {"waiting", "active"} => t \in known'
                         /\ step'[t][n] # "idle" => status'[t][n] = "active"
  BY DEF Inside
<1> DEFINE Fine == /\ stray = {}
                   /\ \A t \in Tx, n \in Node :
                        /\ hold[t][n] # "auto"
                        /\ status[t][n] \in {"waiting", "active"} => t \in known
                        /\ step[t][n] # "idle" => status[t][n] = "active"
<1> SUFFICES Fine'
  OBVIOUS
<1>1. ~Crash /\ \A t \in Tx, n \in Node : ~Timeout(t, n)
  BY DEF Crash, Timeout
<1>2. Fine
  <2>1. ASSUME NEW s \in Sched, Schedule(s) \/ SchedStep(s) PROVE outlived' = outlived
    BY <2>1, SchedFrame, PurgeFrame DEF SchedStep, SchedAction, AddRoot
  <2>2. ASSUME NEW t \in Tx, NEW n \in Node, JobStep(t, n) \/ Fail(t, n)
        PROVE  outlived' = outlived
    BY <2>2 DEF JobStep, TakeJob, Hold, Write, WriteFails, AddKid, Register, Return, Fail
  <2>3. outlived' = outlived
    BY <1>1, <2>1, <2>2 DEF Next, vars
  <2> QED
    BY <2>3 DEF Inside
<1>3. ASSUME NEW s \in Sched,
             Schedule(s) \/ RegisterRoot(s) \/ AwaitRoot(s) \/ Poll(s) \/ Decide(s)
               \/ Rollback(s) \/ \E t \in Tx : OpenTransaction(s, t)
      PROVE  Fine'
  <2>1. known \subseteq known'
    BY <1>3 DEF Schedule, RegisterRoot, AwaitRoot, Poll, Decide, Rollback,
       OpenTransaction, maps
  <2> QED
    BY <1>2, <1>3, <2>1, SchedFrame DEF SchedAction
<1>4. ASSUME NEW s \in Sched, AddRoot(s) PROVE Fine'
  <2>1. phase[s] = "add" /\ status' = [status EXCEPT ![tx[s]][Root] = "waiting"]
    BY <1>4 DEF AddRoot
  <2>2. UNCHANGED <<known, stray, hold, step>>
    BY <1>4 DEF AddRoot, maps, data, work
  <2>3. tx[s] \in Tx /\ tx[s] \in known
    BY <2>1 DEF Owned, Live
  <2>4. status[tx[s]][Root] = "none"
    BY <2>1, SyncConstants DEF Fresh
  <2> QED
    BY <1>2, <2>1, <2>2, <2>3, <2>4, SyncConstants DEF TypeOK
<1>5. ASSUME NEW s \in Sched, Commit(s) PROVE Fine'
  <2>1. \A n \in Node : status[tx[s]][n] = "done"
    BY <1>5 DEF Commit, Settled
  <2>2. known' = known \ {tx[s]} /\ UNCHANGED <<status, stray, hold, step>>
    BY <1>5 DEF Commit, work
  <2> QED
    BY <1>2, <2>1, <2>2
<1>6. ASSUME NEW s \in Sched, Purge(s) PROVE Fine'
  <2>1. tx[s] \in Tx /\ phase[s] = "purge"
    BY <1>6 DEF Purge, Owned, Live
  <2>2. UNCHANGED <<stray, hold, step>>
    BY <1>6, PurgeFrame
  <2>3. CASE known' = known
    BY <1>2, <1>6, <2>2, <2>3, PurgeFrame
  <2>4. CASE known' # known
    <3>1. ~Locked(tx[s]) /\ RemoveJobs(tx[s], Waiting(tx[s])) /\ known' = known \ {tx[s]}
      BY <1>6, <2>4 DEF Purge, maps
    <3>2. ~outlived
      BY <1>6, PurgeFrame
    <3>3. \A n \in Node : status[tx[s]][n] # "none" => n \in reg[tx[s]]
      BY <2>1, <3>1, <3>2, AllRegistered
    <3>4. \A n \in Node : status[tx[s]][n] # "active"
      BY <3>1, <3>3 DEF Locked
    <3>5. \A n \in Node : status'[tx[s]][n] \notin {"waiting", "active"}
      BY <2>1, <3>1, <3>3, <3>4 DEF RemoveJobs, Waiting, TypeOK
    <3> QED
      BY <1>2, <1>6, <2>2, <3>1, <3>5, PurgeFrame
  <2> QED
    BY <2>3, <2>4
<1>7. ASSUME NEW t \in Tx, NEW n \in Node, JobStep(t, n) \/ Fail(t, n) PROVE Fine'
  <2>0. known' = known
    BY <1>7, JobFrame DEF JobAction
  <2>1. CASE TakeJob(t, n)
    BY <1>2, <2>0, <2>1 DEF TakeJob, TypeOK, data
  <2>2. CASE Hold(t, n)
    BY <1>2, <2>0, <2>2 DEF Hold, TypeOK, data
  <2>3. CASE Write(t, n)
    BY <1>2, <2>0, <2>3 DEF Write, TypeOK
  <2>4. CASE WriteFails(t, n) \/ Fail(t, n) \/ Return(t, n)
    <3>1. PICK as \in {"done", "failed"} : Ends(t, n, as) /\ UNCHANGED stray
      BY <2>4 DEF WriteFails, Fail, Return, data
    <3>2. \A u \in Tx, m \in Node :
            /\ hold'[u][m] = hold[u][m] \/ hold'[u][m] = "none"
            /\ u = t /\ m = n => step'[u][m] = "idle"
            /\ ~(u = t /\ m = n) => step'[u][m] = step[u][m] /\ status'[u][m] = status[u][m]
            /\ status'[u][m] \in {"waiting", "active"} => status[u][m] = status'[u][m]
      BY <3>1 DEF Ends, TypeOK
    <3> QED
      BY <1>2, <2>0, <3>1, <3>2
  <2>5. CASE AddKid(t, n)
    <3>1. PICK m \in Node :
            /\ step[t][n] = "spawn" /\ status[t][m] = "none"
            /\ status' = [status EXCEPT ![t][m] = "waiting"]
            /\ UNCHANGED <<step, hold, stray>>
      BY <2>5, AddKidFrame
    <3> QED
      BY <1>2, <2>0, <3>1 DEF TypeOK
  <2>6. CASE Register(t, n)
    BY <1>2, <2>0, <2>6 DEF Register, data
  <2> QED
    BY <1>7, <2>1, <2>2, <2>3, <2>4, <2>5, <2>6 DEF JobStep
<1>8. CASE UNCHANGED vars
  BY <1>2, <1>8 DEF vars, maps, data, work
<1> HIDE DEF Fine
<1> QED
  BY <1>1, <1>3, <1>4, <1>5, <1>6, <1>7, <1>8 DEF Next, SchedStep

(* A commit comes after everything is written, and nothing changes after   *)
(* a commit.                                                               *)
LEMMA CommitStep ==
  /\ TypeOK /\ Owned /\ Handlers /\ Settled /\ Written /\ CommitIsComplete
  /\ [Next]_vars
  => CommitIsComplete'
<1> SUFFICES ASSUME TypeOK, Owned, Handlers, Settled, Written, CommitIsComplete,
                    [Next]_vars, NEW t \in Tx, db'[t] = "committed"
             PROVE  wrote'[t] = Node /\ \A n \in Node : status'[t][n] = "done"
  BY DEF CommitIsComplete
<1> DEFINE Whole == wrote[t] = Node /\ \A n \in Node : status[t][n] = "done"
<1> SUFFICES Whole'
  OBVIOUS
<1>1. db[t] = "committed" => Whole
  BY DEF CommitIsComplete
<1>2. ASSUME NEW s \in Sched, Commit(s) PROVE Whole'
  <2>1. UNCHANGED <<status, wrote>>
    BY <1>2 DEF Commit
  <2>2. CASE tx[s] = t
    <3>1. Alive(t) /\ \A n \in Node : status[t][n] = "done"
      BY <1>2, <2>2 DEF Commit, Settled, Alive, Live
    <3>2. \A n \in Node : n \in wrote[t]
      BY <3>1 DEF Written
    <3>3. wrote[t] = Node
      BY <3>2 DEF TypeOK
    <3> QED
      BY <2>1, <3>1, <3>3
  <2>3. CASE tx[s] # t
    BY <1>1, <1>2, <2>1, <2>3 DEF Commit, TypeOK
  <2> QED
    BY <2>2, <2>3
<1>3. ASSUME NEW s \in Sched, SchedAction(s), ~Commit(s) PROVE Whole'
  <2>1. db[t] = "committed"
    BY <1>3 DEF SchedAction, Schedule, RegisterRoot, AwaitRoot, Poll, Decide, Rollback,
       OpenTransaction, data, TypeOK
  <2> QED
    BY <1>1, <1>3, <2>1, SchedFrame
<1>4. ASSUME NEW s \in Sched, AddRoot(s) \/ Purge(s) PROVE Whole'
  <2>1. tx[s] \in Tx /\ UNCHANGED <<db, wrote>> /\ db[tx[s]] # "committed"
    BY <1>4 DEF AddRoot, Purge, Owned, Live, data
  <2>2. \A n \in Node : status'[t][n] = status[t][n]
    <3>1. CASE AddRoot(s)
      BY <2>1, <3>1 DEF AddRoot, TypeOK
    <3>2. CASE Purge(s)
      BY <2>1, <3>2, PurgeFrame
    <3> QED
      BY <1>4, <3>1, <3>2
  <2> QED
    BY <1>1, <2>1, <2>2
<1>5. ASSUME NEW u \in Tx, NEW n \in Node, JobAction(u, n) PROVE Whole'
  <2>1. Whole
    BY <1>1, <1>5, JobFrame
  <2>2. \A m \in Node : status'[t][m] = "done"
    BY <1>5, <2>1, JobGrows DEF Over
  <2>3. wrote'[t] = wrote[t]
    BY <1>5, <2>1 DEF JobAction, JobStep, TakeJob, Hold, Write, WriteFails, AddKid, Register,
       Return, Fail, Timeout, TypeOK, data
  <2> QED
    BY <2>1, <2>2, <2>3
<1>6. CASE Crash
  <2>1. db[t] = "committed"
    BY <1>6 DEF Crash
  <2>2. UNCHANGED wrote /\ \A n \in Node : status[t][n] = "done" => status'[t][n] = "done"
    BY <1>6 DEF Crash
  <2> QED
    BY <1>1, <2>1, <2>2
<1>7. CASE UNCHANGED vars
  BY <1>1, <1>7 DEF vars, data
<1> HIDE DEF Whole
<1> QED
  BY <1>2, <1>3, <1>4, <1>5, <1>6, <1>7 DEF Next, SchedStep, SchedAction, JobAction

(* A standing writes after its games were written or failed.               *)
LEMMA StandingStep ==
  /\ TypeOK /\ Owned /\ Fresh /\ Handlers /\ Written /\ StandingAfterGames
  /\ [Next]_vars
  => StandingAfterGames'
<1> SUFFICES ASSUME TypeOK, Owned, Fresh, Handlers, Written, StandingAfterGames, [Next]_vars,
                    NEW t \in Tx, NEW n \in wrote'[t], NEW m \in After[n]
             PROVE  m \in wrote'[t] \/ status'[t][m] = "failed"
  BY DEF StandingAfterGames
<1>1. ASSUME n \in wrote[t], wrote[t] \subseteq wrote'[t],
             \A o \in Node : status[t][o] = "failed" => status'[t][o] = "failed"
      PROVE  m \in wrote'[t] \/ status'[t][m] = "failed"
  <2>1. n \in Node /\ m \in Node
    BY <1>1, SyncConstants DEF TypeOK
  <2> QED
    BY <1>1, <2>1 DEF StandingAfterGames
<1>2. ASSUME NEW s \in Sched, SchedAction(s)
      PROVE  m \in wrote'[t] \/ status'[t][m] = "failed"
  BY <1>1, <1>2, SchedFrame
<1>3. ASSUME NEW s \in Sched, AddRoot(s)
      PROVE  m \in wrote'[t] \/ status'[t][m] = "failed"
  <2>1. phase[s] = "add" /\ status' = [status EXCEPT ![tx[s]][Root] = "waiting"]
    BY <1>3 DEF AddRoot
  <2>2. UNCHANGED wrote
    BY <1>3 DEF AddRoot, data
  <2>3. tx[s] \in Tx
    BY <2>1 DEF Owned, Live
  <2>4. status[tx[s]][Root] = "none"
    BY <2>1, SyncConstants DEF Fresh
  <2> QED
    BY <1>1, <2>1, <2>2, <2>3, <2>4, SyncConstants DEF TypeOK
<1>4. ASSUME NEW s \in Sched, Purge(s)
      PROVE  m \in wrote'[t] \/ status'[t][m] = "failed"
  BY <1>1, <1>4, PurgeFrame
<1>5. ASSUME NEW u \in Tx, NEW o \in Node, JobAction(u, o)
      PROVE  m \in wrote'[t] \/ status'[t][m] = "failed"
  <2>1. \A k \in Node : status[t][k] = "failed" => status'[t][k] = "failed"
    BY <1>5, JobGrows DEF Over
  <2>2. CASE Write(u, o) /\ hold[u][o] = "tx"
    <3>1. wrote' = [wrote EXCEPT ![u] = @ \cup {o}] /\ db[u] = "open" /\ step[u][o] = "held"
      BY <2>2 DEF Write
    <3>2. wrote[t] \subseteq wrote'[t] /\ (n \in wrote[t] \/ (n = o /\ t = u))
      BY <3>1 DEF TypeOK
    <3>3. CASE n \in wrote[t]
      BY <1>1, <2>1, <3>2, <3>3
    <3>4. CASE n = o /\ t = u
      <4>1. Alive(t)
        BY <3>1, <3>4 DEF Owned
      <4>2. m \in wrote[t] \/ status[t][m] = "failed"
        BY <3>1, <3>4, <4>1 DEF Written
      <4>3. m \in Node
        BY <3>4, SyncConstants
      <4> QED
        BY <2>1, <3>2, <4>2, <4>3
    <3> QED
      BY <3>2, <3>3, <3>4
  <2>3. CASE ~(Write(u, o) /\ hold[u][o] = "tx")
    <3>1. wrote' = wrote
      BY <1>5, <2>3 DEF JobAction, JobStep, TakeJob, Hold, Write, WriteFails, AddKid,
         Register, Return, Fail, Timeout, data
    <3> QED
      BY <1>1, <2>1, <3>1
  <2> QED
    BY <2>2, <2>3
<1>6. CASE Crash
  <2>1. wrote' = wrote /\ \A o \in Node : status[t][o] = "failed" => status'[t][o] = "failed"
    BY <1>6 DEF Crash
  <2> QED
    BY <1>1, <2>1
<1>7. CASE UNCHANGED vars
  BY <1>1, <1>7 DEF vars, data
<1> QED
  BY <1>2, <1>3, <1>4, <1>5, <1>6, <1>7 DEF Next, SchedStep, SchedAction, JobAction

-----------------------------------------------------------------------------
LEMMA SpecInv == Spec => []IInv
<1>1. Init => IInv
  BY InitInv
<1>2. IInv /\ [Next]_vars => IInv'
  BY TypeStep, OwnedStep, FreshStep, HandlersStep, RegisteredStep, RootKnownStep,
     SettledStep, WrittenStep, InsideStep, CommitStep, StandingStep DEF IInv
<1> QED
  BY <1>1, <1>2, PTL DEF Spec

(* The state of the sync is well typed: no handler has gone on with an     *)
(* unknown job, and no scheduler with the transaction of none.             *)
THEOREM TypeCorrect == Spec => []TypeOK
<1>1. IInv => TypeOK
  BY DEF IInv
<1> QED
  BY <1>1, SpecInv, PTL

(* For any tree of jobs, any number of schedulers and any number of        *)
(* faults: when the scheduler commits, every job of the tournament has     *)
(* ended well and written in the transaction - transactionFinished and     *)
(* transactionErrored do not miss the jobs not yet registered.             *)
THEOREM CommitIsAtomic == Spec => []CommitIsComplete
<1>1. IInv => CommitIsComplete
  BY DEF IInv
<1> QED
  BY <1>1, SpecInv, PTL

(* A standing is written after all games of its draw were written or       *)
(* failed, also when its draw or its own job is started a second time.     *)
THEOREM StandingSeesGames == Spec => []StandingAfterGames
<1>1. IInv => StandingAfterGames
  BY DEF IInv
<1> QED
  BY <1>1, SpecInv, PTL

(* Without a timeout and a crash no processor writes outside the           *)
(* transaction: a rollback takes the waiting jobs out of the queue before  *)
(* it deletes the entry they would miss.                                   *)
THEOREM NothingStrays == Spec => []NoStrayWrite
<1>1. IInv => NoStrayWrite
  BY DEF IInv, Inside, NoStrayWrite
<1> QED
  BY <1>1, SpecInv, PTL
=============================================================================
