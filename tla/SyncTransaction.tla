-------------------------- MODULE SyncTransaction --------------------------
(***************************************************************************)
(* A tournament sync of worker-sync, second version: a SCHEDULER job opens *)
(* a database transaction, queues the job of the event and waits; that job *)
(* queues the jobs of its sub events, these of their draws, these of their *)
(* games and one of the standing, which waits for the games.  All of them  *)
(* write in the one transaction, which they find in the TransactionManager *)
(* (transaction-manger.service.ts): two maps of the worker process, the    *)
(* transactions and the Bull jobs of each.  A parent adds a child to the   *)
(* queue and THEN registers it.  When the event's job is done the          *)
(* scheduler polls until all registered jobs have ended, then commits if   *)
(* none failed and rolls back otherwise; when the event's job fails it     *)
(* rolls back at once.                                                     *)
(*                                                                         *)
(* A job that exceeds Bull's timeout counts as failed while its handler    *)
(* goes on.  A crash empties the maps, the database rolls back, and Bull   *)
(* queues the active jobs again.  A job that finds no transaction in the   *)
(* map writes without one.                                                 *)
(*                                                                         *)
(* One module stands for the four schedulers and the five processors of a  *)
(* tournament, the tree of jobs is a constant.  A job that a stalled       *)
(* parent adds a second time is the same job here.  Not modelled: what is  *)
(* written; a Redis error in queue.add; the timeout of the scheduler       *)
(* itself; the second version for competitions, which no module of the     *)
(* worker provides.                                                        *)
(***************************************************************************)
EXTENDS Naturals, FiniteSets, Sequences

CONSTANTS
  Sched,     \* scheduler jobs
  Tx,        \* transactions
  Node,      \* the jobs of one tournament
  Root,      \* the job of the event
  Kids,      \* Kids[n]: the jobs that n queues, in order
  After,     \* After[n]: the jobs n waits for before it works
  None,
  Slots,     \* jobs the worker handles at once
  MaxFault   \* bound on failures, timeouts and crashes

IsKid(m, n) == \E i \in DOMAIN Kids[n] : Kids[n][i] = m

(* The jobs form a tree: a job has one parent, which queues it once, Root  *)
(* none, and all of them descend from Root.  A standing waits for games    *)
(* its draw queued before it.                                              *)
ASSUME SyncConstants ==
  /\ IsFiniteSet(Sched) /\ IsFiniteSet(Tx) /\ IsFiniteSet(Node)
  /\ Root \in Node /\ None \notin Node \cup Tx
  /\ Kids \in [Node -> Seq(Node)] /\ After \in [Node -> SUBSET Node]
  /\ MaxFault \in Nat
  /\ \A m, n, o \in Node : IsKid(o, m) /\ IsKid(o, n) => m = n
  /\ \A n \in Node : \A i, j \in DOMAIN Kids[n] : Kids[n][i] = Kids[n][j] => i = j
  /\ \A n \in Node : ~IsKid(Root, n)
  /\ \A S \in SUBSET Node :
       Root \in S /\ (\A n \in S, m \in Node : IsKid(m, n) => m \in S) => S = Node
  /\ \A n \in Node : \A m \in After[n] : \E p \in Node :
       \E i, j \in DOMAIN Kids[p] : i < j /\ Kids[p][i] = m /\ Kids[p][j] = n

VARIABLES
  queue,     \* waiting jobs of SyncQueue, first in first out
  phase,     \* phase[s]: where scheduler s stands
  tx,        \* tx[s]: its transaction
  db,        \* db[t]: the transaction in the database
  known,     \* the map of transactions
  reg,       \* reg[t]: the map of jobs
  status,    \* status[t][n]: the job in Bull
  step,      \* step[t][n]: where its handler stands
  adding,    \* adding[t][n]: child n has queued and not yet registered
  hold,      \* hold[t][n]: n holds the transaction ("tx") or none ("auto")
  wrote,     \* wrote[t]: the jobs that wrote in transaction t
  stray,     \* history: <<t, n>> that wrote outside a transaction
  outlived,  \* history: a handler outlived its job or a job its process
  faults

sched == <<phase, tx>>
maps  == <<known, reg>>
data  == <<db, wrote, stray>>
work  == <<step, adding, hold>>
vars  == <<queue, sched, maps, data, status, work, outlived, faults>>

Phase == {"none", "waiting", "add", "register", "finish", "poll", "decide",
          "rollback", "purge", "ended"}
Status == {"none", "waiting", "active", "done", "failed", "removed"}
Over == {"done", "failed"}

TypeOK ==
  /\ queue \in Seq(Sched \cup (Tx \X Node))
  /\ phase \in [Sched -> Phase] /\ tx \in [Sched -> Tx \cup {None}]
  /\ db \in [Tx -> {"none", "open", "committed", "rolledback"}]
  /\ known \in SUBSET Tx /\ reg \in [Tx -> SUBSET Node]
  /\ status \in [Tx -> [Node -> Status]]
  /\ step \in [Tx -> [Node -> {"idle", "taken", "held", "spawn"}]]
  /\ adding \in [Tx -> [Node -> Node \cup {None}]]
  /\ hold \in [Tx -> [Node -> {"none", "tx", "auto"}]]
  /\ wrote \in [Tx -> SUBSET Node]
  /\ stray \in SUBSET (Tx \X Node)
  /\ outlived \in BOOLEAN
  /\ faults \in 0 .. MaxFault

All(v) == [t \in Tx |-> [n \in Node |-> v]]

Init ==
  /\ queue = <<>>
  /\ phase = [s \in Sched |-> "none"] /\ tx = [s \in Sched |-> None]
  /\ db = [t \in Tx |-> "none"]
  /\ known = {} /\ reg = [t \in Tx |-> {}]
  /\ status = All("none") /\ step = All("idle")
  /\ adding = All(None) /\ hold = All("none")
  /\ wrote = [t \in Tx |-> {}] /\ stray = {}
  /\ outlived = FALSE
  /\ faults = 0

Busy ==
  {s \in Sched : phase[s] \notin {"none", "waiting", "ended"}}
    \cup {tn \in Tx \X Node : status[tn[1]][tn[2]] = "active"}

(* A slot of the worker is free and job is the next in the queue. *)
Take(job) ==
  /\ Cardinality(Busy) < Slots
  /\ queue # <<>> /\ Head(queue) = job
  /\ queue' = Tail(queue)

----------------------------------------------------------------------------
(* The scheduler. *)

Schedule(s) ==
  /\ phase[s] = "none"
  /\ phase' = [phase EXCEPT ![s] = "waiting"]
  /\ queue' = Append(queue, s)
  /\ UNCHANGED <<tx, maps, data, status, work, outlived, faults>>

(* TransactionManager.transaction(). *)
OpenTransaction(s, t) ==
  /\ phase[s] = "waiting" /\ Take(s)
  /\ db[t] = "none"
  /\ phase' = [phase EXCEPT ![s] = "add"]
  /\ tx' = [tx EXCEPT ![s] = t]
  /\ db' = [db EXCEPT ![t] = "open"]
  /\ known' = known \cup {t}
  /\ UNCHANGED <<reg, wrote, stray, status, work, outlived, faults>>

AddRoot(s) ==
  /\ phase[s] = "add"
  /\ phase' = [phase EXCEPT ![s] = "register"]
  /\ status' = [status EXCEPT ![tx[s]][Root] = "waiting"]
  /\ queue' = Append(queue, <<tx[s], Root>>)
  /\ UNCHANGED <<tx, maps, data, work, outlived, faults>>

RegisterRoot(s) ==
  /\ phase[s] = "register"
  /\ phase' = [phase EXCEPT ![s] = "finish"]
  /\ reg' = [reg EXCEPT ![tx[s]] = @ \cup {Root}]
  /\ UNCHANGED <<queue, tx, known, data, status, work, outlived, faults>>

(* Bug: only a success ends the wait. *)
AwaitSuccess(s) ==
  /\ phase[s] = "finish"
  /\ status[tx[s]][Root] = "done"
  /\ phase' = [phase EXCEPT ![s] = "poll"]
  /\ UNCHANGED <<queue, tx, maps, data, status, work, outlived, faults>>

(* executor.finished(): rejected when the job failed. *)
AwaitRoot(s) ==
  /\ phase[s] = "finish"
  /\ status[tx[s]][Root] \in Over
  /\ phase' = [phase EXCEPT ![s] =
       IF status[tx[s]][Root] = "failed" THEN "rollback" ELSE "poll"]
  /\ UNCHANGED <<queue, tx, maps, data, status, work, outlived, faults>>

(* Bug: the children are not waited for. *)
PollOnce(s) ==
  /\ phase[s] = "poll"
  /\ phase' = [phase EXCEPT ![s] = "decide"]
  /\ UNCHANGED <<queue, tx, maps, data, status, work, outlived, faults>>

(* transactionFinished, every 3 seconds. *)
Poll(s) ==
  /\ phase[s] = "poll"
  /\ \A n \in reg[tx[s]] : status[tx[s]][n] \in Over
  /\ phase' = [phase EXCEPT ![s] = "decide"]
  /\ UNCHANGED <<queue, tx, maps, data, status, work, outlived, faults>>

(* transactionErrored: on to the catch block. *)
Decide(s) ==
  /\ phase[s] = "decide"
  /\ \E n \in reg[tx[s]] : status[tx[s]][n] = "failed"
  /\ phase' = [phase EXCEPT ![s] = "rollback"]
  /\ UNCHANGED <<queue, tx, maps, data, status, work, outlived, faults>>

(* commitTransaction; its jobs are over and are removed with it. *)
Commit(s) ==
  /\ phase[s] = "decide"
  /\ \A n \in reg[tx[s]] : status[tx[s]][n] # "failed"
  /\ phase' = [phase EXCEPT ![s] = "ended"]
  /\ db' = [db EXCEPT ![tx[s]] = "committed"]
  /\ known' = known \ {tx[s]}
  /\ reg' = [reg EXCEPT ![tx[s]] = {}]
  /\ UNCHANGED <<queue, tx, wrote, stray, status, work, outlived, faults>>

(* rollbackTransaction: first the database ... *)
Rollback(s) ==
  /\ phase[s] = "rollback"
  /\ phase' = [phase EXCEPT ![s] = "purge"]
  /\ db' = [db EXCEPT ![tx[s]] = "rolledback"]
  /\ UNCHANGED <<queue, tx, maps, wrote, stray, status, work, outlived, faults>>

(* The jobs D leave Bull; the rest of the queue keeps its order. *)
RemoveJobs(t, D) ==
  LET rest == {i \in DOMAIN queue : queue[i] \notin {<<t, n>> : n \in D}} IN
  /\ status' = [status EXCEPT ![t] =
       [n \in Node |-> IF n \in D THEN "removed" ELSE status[t][n]]]
  /\ \E kept \in [1 .. Cardinality(rest) -> rest] :
       /\ \A i, j \in DOMAIN kept : i < j => kept[i] < kept[j]
       /\ queue' = [i \in DOMAIN kept |-> queue[kept[i]]]

Waiting(t) == {n \in reg[t] : status[t][n] = "waiting"}
Locked(t) == \E n \in reg[t] : status[t][n] = "active"

(* Bug: the entries are deleted before the jobs are removed. *)
PurgeMapsFirst(s) ==
  /\ phase[s] = "purge"
  /\ phase' = [phase EXCEPT ![s] = "ended"]
  /\ \E D \in SUBSET Waiting(tx[s]) : RemoveJobs(tx[s], D)
  /\ known' = known \ {tx[s]}
  /\ reg' = [reg EXCEPT ![tx[s]] = {}]
  /\ UNCHANGED <<tx, data, work, outlived, faults>>

(* ... then the jobs, one by one; then the entries of the maps go.         *)
(* job.remove() throws for an active job: the rest of the jobs and the     *)
(* entries stay, and the scheduler's job fails.                            *)
Purge(s) ==
  LET t == tx[s] IN
  /\ phase[s] = "purge"
  /\ phase' = [phase EXCEPT ![s] = "ended"]
  /\ \/ /\ Locked(t)
        /\ \E D \in SUBSET Waiting(t) : RemoveJobs(t, D)
        /\ UNCHANGED maps
     \/ /\ ~Locked(t)
        /\ RemoveJobs(t, Waiting(t))
        /\ known' = known \ {t}
        /\ reg' = [reg EXCEPT ![t] = {}]
  /\ UNCHANGED <<tx, data, work, outlived, faults>>

----------------------------------------------------------------------------
(* The jobs of the tree. *)

(* A slot of the worker takes the job. *)
TakeJob(t, n) ==
  /\ status[t][n] = "waiting" /\ Take(<<t, n>>)
  /\ status' = [status EXCEPT ![t][n] = "active"]
  /\ step' = [step EXCEPT ![t][n] = "taken"]
  /\ UNCHANGED <<sched, maps, data, adding, hold, outlived, faults>>

(* Bug: the standing does not wait. *)
HoldAtOnce(t, n) ==
  /\ step[t][n] = "taken"
  /\ step' = [step EXCEPT ![t][n] = "held"]
  /\ hold' = [hold EXCEPT ![t][n] = IF t \in known THEN "tx" ELSE "auto"]
  /\ UNCHANGED <<queue, sched, maps, data, status, adding, outlived, faults>>

(* jobsFinished: of the jobs to wait for, those the map still knows are    *)
(* over; then getTransaction.                                              *)
Hold(t, n) ==
  /\ step[t][n] = "taken"
  /\ \A m \in After[n] \cap reg[t] : status[t][m] \in Over
  /\ step' = [step EXCEPT ![t][n] = "held"]
  /\ hold' = [hold EXCEPT ![t][n] = IF t \in known THEN "tx" ELSE "auto"]
  /\ UNCHANGED <<queue, sched, maps, data, status, adding, outlived, faults>>

(* The job ends; Bull has forgotten about it when it was late. *)
Ends(t, n, as) ==
  /\ status' = IF status[t][n] = "active"
               THEN [status EXCEPT ![t][n] = as] ELSE status
  /\ step' = [step EXCEPT ![t][n] = "idle"]
  /\ adding' = [adding EXCEPT ![t][n] = None]
  /\ hold' = [hold EXCEPT ![t][n] = "none"]

(* The job saves what it fetched. *)
Write(t, n) ==
  /\ step[t][n] = "held"
  /\ \/ hold[t][n] = "tx" /\ db[t] = "open"
     \/ hold[t][n] = "auto"
  /\ step' = [step EXCEPT ![t][n] = "spawn"]
  /\ wrote' = IF hold[t][n] = "tx" THEN [wrote EXCEPT ![t] = @ \cup {n}] ELSE wrote
  /\ stray' = IF hold[t][n] = "tx" THEN stray ELSE stray \cup {<<t, n>>}
  /\ UNCHANGED <<queue, sched, maps, db, status, adding, hold, outlived, faults>>

(* A transaction that has ended takes no more statements. *)
WriteFails(t, n) ==
  /\ step[t][n] = "held"
  /\ hold[t][n] = "tx" /\ db[t] # "open"
  /\ Ends(t, n, "failed")
  /\ UNCHANGED <<queue, sched, maps, data, outlived, faults>>

(* Child i is the next to be queued. *)
NextKid(t, n, i) ==
  /\ i \in DOMAIN Kids[n] /\ status[t][Kids[n][i]] = "none"
  /\ \A j \in DOMAIN Kids[n] : j < i => status[t][Kids[n][j]] # "none"

AllQueued(t, n) == \A i \in DOMAIN Kids[n] : status[t][Kids[n][i]] # "none"

AddKid(t, n) ==
  \E i \in DOMAIN Kids[n] :
    LET m == Kids[n][i] IN
    /\ step[t][n] = "spawn" /\ adding[t][n] = None
    /\ NextKid(t, n, i)
    /\ adding' = [adding EXCEPT ![t][n] = m]
    /\ status' = [status EXCEPT ![t][m] = "waiting"]
    /\ queue' = Append(queue, <<t, m>>)
    /\ UNCHANGED <<sched, maps, data, step, hold, outlived, faults>>

(* Bug: a job is registered before it is known. *)
RegisterAnything(t, n) ==
  /\ step[t][n] = "spawn"
  /\ reg' = [reg EXCEPT ![t] = @ \cup {adding[t][n]}]
  /\ adding' = [adding EXCEPT ![t][n] = None]
  /\ UNCHANGED <<queue, sched, known, data, status, step, hold, outlived, faults>>

(* TransactionManager.addJob. *)
Register(t, n) ==
  /\ step[t][n] = "spawn" /\ adding[t][n] # None
  /\ reg' = [reg EXCEPT ![t] = @ \cup {adding[t][n]}]
  /\ adding' = [adding EXCEPT ![t][n] = None]
  /\ UNCHANGED <<queue, sched, known, data, status, step, hold, outlived, faults>>

Return(t, n) ==
  /\ step[t][n] = "spawn" /\ adding[t][n] = None
  /\ AllQueued(t, n)
  /\ Ends(t, n, "done")
  /\ UNCHANGED <<queue, sched, maps, data, outlived, faults>>

----------------------------------------------------------------------------
(* Faults. *)

(* toernooi.nl or the database fails; one attempt is all a job has. *)
Fail(t, n) ==
  /\ step[t][n] # "idle" /\ adding[t][n] = None
  /\ faults < MaxFault
  /\ faults' = faults + 1
  /\ Ends(t, n, "failed")
  /\ UNCHANGED <<queue, sched, maps, data, outlived>>

(* Bull's timeout: the job has failed, the handler goes on. *)
Timeout(t, n) ==
  /\ status[t][n] = "active"
  /\ faults < MaxFault
  /\ faults' = faults + 1
  /\ status' = [status EXCEPT ![t][n] = "failed"]
  /\ outlived' = TRUE
  /\ UNCHANGED <<queue, sched, maps, data, work>>

(* The worker dies and is started again. *)
Crash ==
  LET Stalled == {tn \in Tx \X Node : status[tn[1]][tn[2]] = "active"}
      Again == {s \in Sched : phase[s] \notin {"none", "waiting", "ended"}}
  IN
  /\ faults < MaxFault
  /\ faults' = faults + 1
  /\ outlived' = TRUE
  /\ \E order \in [1 .. Cardinality(Stalled \cup Again) -> Stalled \cup Again] :
       /\ \A j \in Stalled \cup Again : \E i \in DOMAIN order : order[i] = j
       /\ queue' = order \o queue
  /\ phase' = [s \in Sched |-> IF s \in Again THEN "waiting" ELSE phase[s]]
  /\ tx' = [s \in Sched |-> IF s \in Again THEN None ELSE tx[s]]
  /\ db' = [t \in Tx |-> IF db[t] = "open" THEN "rolledback" ELSE db[t]]
  /\ known' = {} /\ reg' = [t \in Tx |-> {}]
  /\ status' = [t \in Tx |-> [n \in Node |->
       IF status[t][n] = "active" THEN "waiting" ELSE status[t][n]]]
  /\ step' = All("idle") /\ adding' = All(None) /\ hold' = All("none")
  /\ UNCHANGED <<wrote, stray>>

----------------------------------------------------------------------------
SchedStep(s) ==
  \/ \E t \in Tx : OpenTransaction(s, t)
  \/ AddRoot(s) \/ RegisterRoot(s) \/ AwaitRoot(s) \/ Poll(s) \/ Decide(s)
  \/ Commit(s) \/ Rollback(s) \/ Purge(s)

JobStep(t, n) ==
  \/ TakeJob(t, n) \/ Hold(t, n) \/ Write(t, n) \/ WriteFails(t, n)
  \/ AddKid(t, n) \/ Register(t, n) \/ Return(t, n)

Next ==
  \/ \E s \in Sched : Schedule(s) \/ SchedStep(s)
  \/ \E t \in Tx, n \in Node : JobStep(t, n) \/ Fail(t, n) \/ Timeout(t, n)
  \/ Crash

Spec == Init /\ [][Next]_vars

(* The worker keeps taking jobs and its handlers keep going. *)
Fairness ==
  /\ \A s \in Sched : WF_vars(SchedStep(s))
  /\ \A t \in Tx, n \in Node : WF_vars(JobStep(t, n))

FairSpec == Spec /\ Fairness

----------------------------------------------------------------------------
(* A transaction is committed with all of the tournament in it or not at   *)
(* all: every job of the tree has ended well and written in it, although   *)
(* jobs are queued before they are registered and the scheduler counts     *)
(* registered jobs only - through failures, timeouts and crashes.          *)
CommitIsComplete ==
  \A t \in Tx : db[t] = "committed" =>
    wrote[t] = Node /\ \A n \in Node : status[t][n] = "done"

(* A standing sees all games of its draw: a job writes in the transaction  *)
(* only after those it waits for wrote in it or failed.                    *)
StandingAfterGames ==
  \A t \in Tx : \A n \in wrote[t] : \A m \in After[n] :
    m \in wrote[t] \/ status[t][m] = "failed"

(* As long as no handler outlives its job (a timeout) and no job its       *)
(* process (a crash), nothing is written outside the transaction, whatever *)
(* fails and however the rollback races with the jobs still in the queue.  *)
NoStrayWrite == ~outlived => stray = {}

(* Every transaction that is opened is committed or rolled back. *)
TransactionEnds == \A t \in Tx : (db[t] = "open") ~> (db[t] # "open")
=============================================================================
