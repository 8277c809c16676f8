---------------------- MODULE RankingCalculationProofs ----------------------
(***************************************************************************)
(* Proofs about RankingCalculation, for any players, days, updates, jobs   *)
(* and runs and any number of faults: as long as no two runs were at work  *)
(* at once, every day calculated on top of the days before it went through *)
(* every update exactly once for every player, and RankingLastPlace        *)
(* follows.                                                                *)
(*                                                                         *)
(* Runs that failed leave place jobs behind, which are executed while a    *)
(* later run is at work, with what they had read before its truncation.    *)
(* What carries the proofs is that a run finds none of its own place jobs  *)
(* left when it begins, so that a result it hears of is that of the job it *)
(* queued for the period it is at (Single, Current), and that the unique   *)
(* index lets a row be written only where there is none: a row the run's   *)
(* own job stored is not written again (OwnTask, ResultOk).                *)
(*                                                                         *)
(* The second part is about RankingLevels: what an update does to the      *)
(* levels of a player, for any system of levels and any games.             *)
(***************************************************************************)
EXTENDS MCRanking, FiniteSetTheorems, WellFoundedInduction, TLAPS

Tasks == {queue[i] : i \in DOMAIN queue}
           \cup (IF active.step = "none" THEN {} ELSE {active.task})

Same(t, u) == t.run = u.run /\ t.player = u.player

(* A run is at a day. *)
AtDay == \A r \in Run : pc[r] # "idle" => at[r] \in Day

(* A run has one place job per player ... *)
Single ==
  /\ \A i, j \in DOMAIN queue : Same(queue[i], queue[j]) => i = j
  /\ \A i \in DOMAIN queue : active.step # "none" => ~Same(queue[i], active.task)

(* ... and while it works they are those of its period. *)
Current ==
  \A t \in Tasks : pc[t.run] # "idle" =>
    pc[t.run] = "wait" /\ at[t.run] = t.day /\ result[t.run][t.player] = "none"

(* The row that was stored is still there, or truncated. *)
SavedRow ==
  active.step = "saved" =>
    place[active.task.player][active.task.day] \in {active.level, NoPlace}

(* The cron and runJob ask for no days. *)
Plain == posted = 0 => \A j \in Job : job[j].from = 0 /\ job[j].to = 0

Alone == ~overlap => \A r, s \in Run : pc[r] # "idle" /\ pc[s] # "idle" => r = s

(* Without posted days a run is at the day after the last one. *)
Onward ==
  ~overlap /\ posted = 0 =>
    \A r \in Run : pc[r] # "idle" => at[r] = lastUpdate + 1 /\ loaded[r] = lastUpdate

Base(d) == d = 1 \/ d - 1 \in sound

(* The place job that is executed for the run at work. *)
OwnTask ==
  LET p == active.task.player
      d == active.task.day IN
  ~overlap /\ pc[active.task.run] = "wait" =>
    /\ active.step = "read" /\ place[p][d] = NoPlace /\ Base(d) =>
         active.level = UpdatesUpTo(d)
    /\ active.step = "saved" =>
         place[p][d] = active.level /\ (Base(d) => active.level = UpdatesUpTo(d))

(* What the run has heard of is stored. *)
Stored(r, p) ==
  /\ place[p][at[r]] # NoPlace
  /\ Base(at[r]) => place[p][at[r]] = UpdatesUpTo(at[r])
  /\ last[p].on >= at[r]
  /\ last[p].on = at[r] => last[p].level = place[p][at[r]]

ResultOk ==
  ~overlap =>
    \A r \in Run, p \in Player : pc[r] = "wait" /\ result[r][p] = "ok" => Stored(r, p)

Shape == active = [step |-> active.step, task |-> active.task, level |-> active.level]

Struct == TypeOK /\ Shape /\ AtDay /\ Single /\ Current /\ SavedRow /\ Plain

IInv ==
  /\ Struct
  /\ Alone /\ Onward /\ OwnTask /\ ResultOk /\ EachUpdateOnce /\ LastPlaceFollows

-----------------------------------------------------------------------------
(* The last of a set of days, which LastLevel chooses. *)

LEMMA Least ==
  ASSUME NEW T, T \subseteq Nat, T # {}
  PROVE  \E x \in T : \A y \in T : x <= y
<1> DEFINE Less == {ss \in Nat \X Nat : ss[1] < ss[2]}
<1>1. Less = OpToRel(<, Nat)
  BY DEF OpToRel
<1>2. IsWellFoundedOn(Less, Nat)
  BY <1>1, NatLessThanWellFounded
<1>3. PICK x \in T : \A y \in T : ~ (<<y, x>> \in Less)
  BY <1>2, WFMin
<1>4. ASSUME NEW y \in T PROVE x <= y
  <2>1. <<y, x>> \notin Less /\ x \in Nat /\ y \in Nat
    BY <1>3
  <2>2. ~(y < x)
    BY <2>1
  <2> QED
    BY <2>1, <2>2
<1> QED
  BY <1>4

LEMMA Greatest ==
  ASSUME NEW n \in Nat, NEW T, T \subseteq 0 .. n, T # {}
  PROVE  \E x \in T : \A y \in T : y <= x
<1> DEFINE U == {n - x : x \in T}
<1>1. U \subseteq Nat /\ U # {}
  <2>1. \A x \in T : n - x \in Nat
    OBVIOUS
  <2> QED
    BY <2>1
<1> HIDE DEF U
<1>2. PICK u \in U : \A v \in U : u <= v
  BY <1>1, Least
<1> USE DEF U
<1>3. PICK x \in T : u = n - x
  OBVIOUS
<1>4. \A y \in T : n - x <= n - y
  BY <1>2, <1>3
<1> QED
  BY <1>4

LEMMA LastLevelType ==
  ASSUME place \in [Player -> [Day -> Nat \cup {NoPlace}]], NEW p \in Player, NEW d
  PROVE  LastLevel(p, d) \in Nat
<1> DEFINE rows == {c \in Day : c <= d /\ place[p][c] # NoPlace}
           c0 == CHOOSE c \in rows : \A b \in rows : b <= c
<1>1. CASE rows = {}
  BY <1>1 DEF LastLevel, Start0
<1>2. CASE rows # {}
  <2>1. rows \subseteq 0 .. MaxDay /\ MaxDay \in Nat
    BY CalculationConstants DEF Day
  <2> HIDE DEF rows
  <2>2. \E c \in rows : \A b \in rows : b <= c
    BY <1>2, <2>1, Greatest
  <2>3. c0 \in rows
    BY <2>2
  <2>4. place[p][c0] \in Nat
    BY <2>3 DEF rows
  <2>5. LastLevel(p, d) = place[p][c0]
    BY <1>2 DEF LastLevel, rows
  <2> QED
    BY <2>4, <2>5
<1> QED
  BY <1>1, <1>2

(* The row of the day before is the last one when there is none of the day.*)
LEMMA LastLevelBefore ==
  ASSUME NEW p \in Player, NEW d \in Day, d # 1, place[p][d] = NoPlace,
         place[p][d - 1] # NoPlace
  PROVE  LastLevel(p, d) = place[p][d - 1]
<1> DEFINE rows == {c \in Day : c <= d /\ place[p][c] # NoPlace}
<1>1. d - 1 \in rows /\ (\A b \in rows : b <= d - 1) /\ d \in Int
  BY CalculationConstants DEF Day
<1>2. \A c \in rows : (\A b \in rows : b <= c) => c = d - 1
  BY <1>1, CalculationConstants DEF Day
<1>3. LastLevel(p, d) = place[p][CHOOSE c \in rows : \A b \in rows : b <= c]
  BY <1>1 DEF LastLevel
<1> HIDE DEF rows
<1>4. (CHOOSE c \in rows : \A b \in rows : b <= c) = d - 1
  BY <1>1, <1>2
<1> QED
  BY <1>3, <1>4

LEMMA LastLevelFirst ==
  ASSUME NEW p \in Player, place[p][1] = NoPlace
  PROVE  LastLevel(p, 1) = 0
  BY CalculationConstants DEF LastLevel, Day, Start0

(* The number of updates grows by one on a day that is one. *)
LEMMA UpdatesType ==
  ASSUME NEW d
  PROVE  IsFiniteSet({c \in Update : c <= d}) /\ UpdatesUpTo(d) \in Nat
<1>1. {c \in Update : c <= d} \subseteq 1 .. MaxDay /\ MaxDay \in Nat
  BY CalculationConstants DEF Day
<1>2. IsFiniteSet(1 .. MaxDay)
  BY <1>1, FS_Interval
<1>3. IsFiniteSet({c \in Update : c <= d})
  BY <1>1, <1>2, FS_Subset
<1> QED
  BY <1>3, FS_CardinalityType DEF UpdatesUpTo

LEMMA UpdatesStep ==
  ASSUME NEW d \in Day
  PROVE  UpdatesUpTo(d) = (IF d = 1 THEN 0 ELSE UpdatesUpTo(d - 1))
                            + (IF d \in Update THEN 1 ELSE 0)
<1> DEFINE before == {c \in Update : c <= d - 1}
           upto1 == {c \in Update : c <= d}
<1>1. Update \subseteq 1 .. MaxDay /\ MaxDay \in Nat /\ d \in 1 .. MaxDay
  BY CalculationConstants DEF Day
<1>2. upto1 = before \cup (IF d \in Update THEN {d} ELSE {})
  <2>1. d \in Nat /\ \A c \in Update : c \in Nat /\ (c <= d <=> c <= d - 1 \/ c = d)
    BY <1>1
  <2>2. d <= d
    BY <2>1
  <2>3. CASE d \in Update
    BY <2>1, <2>2, <2>3, Zenon
  <2>4. CASE d \notin Update
    <3>1. \A c \in Update : c <= d <=> c <= d - 1
      BY <2>1, <2>4
    <3> QED
      BY <2>4, <3>1, Zenon
  <2> QED
    BY <2>3, <2>4
<1>3. d \notin before
  BY <1>1
<1>4. d = 1 => before = {}
  <2>1. d = 1 => \A c \in Update : ~(c <= d - 1)
    BY <1>1
  <2> QED
    BY <2>1
<1>5. IsFiniteSet(before) /\ Cardinality(before) = UpdatesUpTo(d - 1)
  BY UpdatesType DEF UpdatesUpTo
<1>6. Cardinality(before) \in Nat
  BY <1>5, FS_CardinalityType
<1>7. d = 1 => Cardinality(before) = 0
  BY <1>4, FS_EmptySet
<1>8. Cardinality(upto1) = UpdatesUpTo(d)
  BY DEF UpdatesUpTo
<1> HIDE DEF before, upto1
<1>9. CASE d \in Update
  <2>1. Cardinality(upto1) = Cardinality(before) + 1
    BY <1>2, <1>3, <1>5, <1>9, FS_AddElement
  <2> QED
    BY <2>1, <1>5, <1>6, <1>7, <1>8, <1>9
<1>10. CASE d \notin Update
  <2>1. upto1 = before
    BY <1>2, <1>10
  <2> QED
    BY <2>1, <1>5, <1>6, <1>7, <1>8, <1>10
<1> QED
  BY <1>9, <1>10

-----------------------------------------------------------------------------
(* What the groups of actions leave alone. *)

Desk ==
  \/ NextDay
  \/ \E j \in Job : CronAdd(j) \/ RunJob(j) \/ Retry(j)
  \/ \E j \in Job, from, to \in Day : PostJob(j, from, to)
  \/ \E r \in Run : Timeout(r)

LEMMA DeskFrame ==
  ASSUME Desk
  PROVE  UNCHANGED <<table, pc, at, upto, loaded, result, work, ghost>>
  BY DEF Desk, NextDay, CronAdd, RunJob, Retry, PostJob, Timeout, Enqueue, run, work, table

EndRun == Crash \/ \E r \in Run : JobFailed(r) \/ RunFails(r)

LEMMA EndFrame ==
  ASSUME TypeOK, EndRun
  PROVE  /\ UNCHANGED <<table, work, ghost, posted, today>>
         /\ \A r \in Run :
              \/ pc'[r] = "idle"
              \/ /\ pc'[r] = pc[r] /\ at'[r] = at[r] /\ loaded'[r] = loaded[r]
                 /\ result'[r] = result[r]
<1>1. CASE Crash
  BY <1>1 DEF Crash
<1>2. ASSUME NEW q \in Run, JobFailed(q) \/ RunFails(q)
      PROVE  /\ UNCHANGED <<table, work, ghost, posted, today>>
             /\ \A r \in Run : r # q =>
                  /\ pc'[r] = pc[r] /\ at'[r] = at[r] /\ loaded'[r] = loaded[r]
                  /\ result'[r] = result[r]
             /\ pc'[q] = "idle"
  BY <1>2 DEF JobFailed, RunFails, Leave, bound, TypeOK
<1> QED
  BY <1>1, <1>2 DEF EndRun

(* The record of the place job at work, step by step. *)
LEMMA TakeFrame ==
  ASSUME Take
  PROVE  /\ queue # <<>> /\ queue' = Tail(queue) /\ active.step = "none"
         /\ active' = [step |-> "taken", task |-> Head(queue), level |-> 0]
         /\ UNCHANGED <<table, job, run, result, ghost, posted>>
  BY DEF Take, NoTask, bound

LEMMA ReadFrame ==
  ASSUME Shape, Read
  PROVE  /\ active.step = "taken"
         /\ active' = [step |-> "read", task |-> active.task,
                       level |-> LastLevel(active.task.player, active.task.day)
                                 + IF active.task.day \in Update THEN 1 ELSE 0]
         /\ UNCHANGED <<table, job, run, result, queue, ghost, posted>>
<1> DEFINE lev == LastLevel(active.task.player, active.task.day)
                  + IF active.task.day \in Update THEN 1 ELSE 0
<1>1. /\ active.step = "taken" /\ active' = [active EXCEPT !.step = "read", !.level = lev]
      /\ UNCHANGED <<table, job, run, result, queue, ghost, posted>>
  BY DEF Read, bound
<1> HIDE DEF lev
<1> QED
  BY <1>1 DEF Shape, lev

(* The row is stored. *)
Stores ==
  LET p == active.task.player
      d == active.task.day IN
  /\ active.step = "read" /\ place[p][d] = NoPlace
  /\ place' = [place EXCEPT ![p][d] = active.level]
  /\ active' = [step |-> "saved", task |-> active.task, level |-> active.level]
  /\ UNCHANGED <<last, lastUpdate, job, run, result, queue, ghost, posted>>

(* The place job ends with a failure. *)
Breaks ==
  /\ active.step # "none"
  /\ Report("failed")
  /\ UNCHANGED <<table, job, run, queue, ghost, posted>>

LEMMA SaveFrame ==
  ASSUME Shape, Save \/ TaskFails
  PROVE  Stores \/ Breaks
<1>1. CASE Save
  <2>1. CASE place[active.task.player][active.task.day] = NoPlace
    <3>1. active' = [active EXCEPT !.step = "saved"]
      BY <1>1, <2>1 DEF Save
    <3>2. active' = [step |-> "saved", task |-> active.task, level |-> active.level]
      BY <3>1 DEF Shape
    <3> QED
      BY <1>1, <2>1, <3>2 DEF Save, Stores, bound
  <2>2. CASE place[active.task.player][active.task.day] # NoPlace
    BY <1>1, <2>2 DEF Save, Breaks, table, bound
  <2> QED
    BY <2>1, <2>2
<1>2. CASE TaskFails
  BY <1>2 DEF TaskFails, Breaks
<1> QED
  BY <1>1, <1>2

LEMMA ReportFrame ==
  ASSUME TypeOK, active.step # "none", NEW what \in {"ok", "failed"}, Report(what)
  PROVE  /\ active' = NoTask
         /\ result' \in [Run -> [Player -> {"none", "ok", "failed"}]]
         /\ \A r \in Run, p \in Player :
              result'[r][p] = IF /\ r = active.task.run /\ p = active.task.player
                                 /\ pc[r] = "wait" /\ at[r] = active.task.day
                              THEN what ELSE result[r][p]
  BY DEF Report, TypeOK, Task

-----------------------------------------------------------------------------
(* Every step keeps the types. *)

LEMMA FailedType ==
  ASSUME job \in [Job -> Request], NEW j \in Job
  PROVE  Failed(j) \in Request /\ Failed(j).from \in {0, job[j].from}
                               /\ Failed(j).to \in {0, job[j].to}
<1>1. job[j] \in Request
  OBVIOUS
<1>2. CASE job[j].tries > 1
  <2>1. job[j].tries - 1 \in 0 .. Attempts
    BY <1>1, <1>2, CalculationConstants DEF Request
  <2>2. Failed(j) = [job[j] EXCEPT !.state = "delayed", !.tries = @ - 1]
    BY <1>2 DEF Failed
  <2> QED
    BY <1>1, <2>1, <2>2 DEF Request, State
<1>3. CASE ~(job[j].tries > 1)
  BY <1>3, CalculationConstants DEF Failed, Idle, Request, State
<1> QED
  BY <1>2, <1>3

LEMMA LeaveType ==
  ASSUME TypeOK, NEW r \in Run, NEW after, owner[r] # NoJob => after \in Request,
         Leave(r, after)
  PROVE  /\ pc' \in [Run -> Working \cup {"idle"}]
         /\ owner' \in [Run -> Job \cup {NoJob}]
         /\ at' \in [Run -> 0 .. MaxDay] /\ upto' \in [Run -> 0 .. MaxDay]
         /\ loaded' \in [Run -> 0 .. MaxDay]
         /\ result' \in [Run -> [Player -> {"none", "ok", "failed"}]]
         /\ job' \in [Job -> Request]
<1>1. 0 \in 0 .. MaxDay
  BY CalculationConstants
<1>2. job' \in [Job -> Request]
  BY DEF Leave, TypeOK
<1> QED
  BY <1>1, <1>2 DEF Leave, TypeOK

LEMMA TypeStep == TypeOK /\ Shape /\ AtDay /\ [Next]_vars => TypeOK'
<1> SUFFICES ASSUME TypeOK, Shape, AtDay, [Next]_vars PROVE TypeOK'
  OBVIOUS
<1> USE CalculationConstants DEF table, run, work, bound, ghost
<1>0. today \in 0 .. MaxDay /\ lastUpdate \in 0 .. MaxDay /\ MaxDay \in Nat
  BY DEF TypeOK
<1>1. CASE NextDay
  <2>1. today' \in 0 .. MaxDay
    BY <1>0, <1>1 DEF NextDay
  <2> QED
    BY <1>1, <2>1 DEF NextDay, TypeOK
<1>2. ASSUME NEW j \in Job, NEW from \in 0 .. MaxDay, NEW to \in 0 .. MaxDay,
             NEW tries \in 0 .. Attempts, Enqueue(j, from, to, tries),
             posted' \in 0 .. MaxPosted
      PROVE  TypeOK'
  BY <1>2 DEF Enqueue, TypeOK, Request, State
<1>3. ASSUME NEW j \in Job, CronAdd(j) \/ RunJob(j) PROVE TypeOK'
  <2>1. 0 \in 0 .. MaxDay /\ 1 \in 0 .. Attempts /\ Attempts \in 0 .. Attempts
    BY <1>0
  <2>2. posted' \in 0 .. MaxPosted
    BY <1>3 DEF CronAdd, RunJob, TypeOK
  <2> QED
    BY <1>2, <1>3, <2>1, <2>2 DEF CronAdd, RunJob
<1>4. ASSUME NEW j \in Job, Retry(j) PROVE TypeOK'
  BY <1>4 DEF Retry, TypeOK, Request, State
<1>5. ASSUME NEW j \in Job, NEW from \in Day, NEW to \in Day, PostJob(j, from, to)
      PROVE  TypeOK'
  BY <1>2, <1>5 DEF PostJob, TypeOK, Day
<1>6. ASSUME NEW r \in Run, NEW j \in Job, Begin(r, j) PROVE TypeOK'
  <2>1. job[j] \in Request /\ From(j) \in Nat /\ To(j) \in 0 .. MaxDay
    BY <1>0 DEF TypeOK, From, To, Request
  <2>2. CASE From(j) > To(j)
    <3>1. job' \in [Job -> Request]
      <4>1. Idle \in Request
        BY <1>0 DEF Idle, Request, State
      <4>2. job' = [job EXCEPT ![j] = Idle]
        BY <1>6, <2>2 DEF Begin
      <4> QED
        BY <4>1, <4>2 DEF TypeOK
    <3> QED
      BY <1>6, <2>2, <3>1 DEF Begin, TypeOK
  <2>3. CASE ~(From(j) > To(j))
    <3>1. From(j) \in 0 .. MaxDay
      BY <2>1, <2>3
    <3>2. job' \in [Job -> Request]
      <4>1. job' = [job EXCEPT ![j].state = "active"]
        BY <1>6, <2>3 DEF Begin
      <4>2. [job[j] EXCEPT !.state = "active"] \in Request
        BY <2>1 DEF Request, State
      <4> QED
        BY <4>1, <4>2 DEF TypeOK
    <3>3. /\ pc' \in [Run -> Working \cup {"idle"}] /\ owner' \in [Run -> Job \cup {NoJob}]
          /\ at' \in [Run -> 0 .. MaxDay] /\ upto' \in [Run -> 0 .. MaxDay]
          /\ loaded' \in [Run -> 0 .. MaxDay] /\ overlap' \in BOOLEAN
      <4>1. pc' = [pc EXCEPT ![r] = "period"] /\ owner' = [owner EXCEPT ![r] = j]
        BY <1>6, <2>3 DEF Begin
      <4>2. at' = [at EXCEPT ![r] = From(j)] /\ upto' = [upto EXCEPT ![r] = To(j)]
        BY <1>6, <2>3 DEF Begin
      <4>3. /\ loaded' = [loaded EXCEPT ![r] = lastUpdate]
            /\ overlap' = (overlap \/ \E s \in Run : pc[s] # "idle")
        BY <1>6, <2>3 DEF Begin
      <4>4. overlap' \in BOOLEAN
        BY <4>3 DEF TypeOK
      <4> QED
        BY <1>0, <2>1, <3>1, <4>1, <4>2, <4>3, <4>4 DEF TypeOK, Working
    <3> QED
      BY <1>6, <3>2, <3>3 DEF Begin, TypeOK
  <2> QED
    BY <2>2, <2>3
<1>7. ASSUME NEW r \in Run, Truncate(r) PROVE TypeOK'
  <2>1. /\ place' = [p \in Player |-> [place[p] EXCEPT ![at[r]] = NoPlace]]
        /\ sound' = sound \ {at[r]} /\ pc' = [pc EXCEPT ![r] = "queue"]
    BY <1>7 DEF Truncate
  <2>2. place' \in [Player -> [Day -> Nat \cup {NoPlace}]]
    BY <2>1 DEF TypeOK
  <2> QED
    BY <1>7, <2>1, <2>2 DEF Truncate, TypeOK, Working
<1>8. ASSUME NEW r \in Run, AddJobs(r) PROVE TypeOK'
  <2>1. PICK order \in [1 .. Cardinality(Player) -> Player] :
          queue' = queue \o [i \in DOMAIN order |->
                     [run |-> r, player |-> order[i], day |-> at[r]]]
    BY <1>8 DEF AddJobs
  <2>2. Cardinality(Player) \in Nat /\ at[r] \in Day
    BY <1>8, FS_CardinalityType DEF AddJobs, AtDay
  <2> DEFINE n == Cardinality(Player)
             new == [i \in DOMAIN order |-> [run |-> r, player |-> order[i], day |-> at[r]]]
  <2>3. new \in Seq(Task)
    <3>1. new \in [1 .. n -> Task]
      BY <2>2 DEF Task
    <3> HIDE DEF new, n
    <3> QED
      BY <2>2, <3>1 DEF n
  <2>4. queue' \in Seq(Task)
    <3>1. queue \in Seq(Task) /\ queue' = queue \o new
      BY <2>1 DEF TypeOK
    <3> HIDE DEF new
    <3> QED
      BY <2>3, <3>1
  <2> QED
    BY <1>8, <2>4 DEF AddJobs, TypeOK, Working
<1>9. ASSUME NEW r \in Run, Advance(r) PROVE TypeOK'
  <2>1. at[r] \in Day /\ at[r] \in 0 .. MaxDay /\ upto[r] \in 0 .. MaxDay
    BY <1>9 DEF Advance, AtDay, TypeOK
  <2>2. lastUpdate' \in 0 .. MaxDay /\ sound' \in SUBSET Day
    BY <1>0, <1>9, <2>1 DEF Advance, Recorded, Calculated, TypeOK
  <2>3. CASE at[r] < upto[r]
    <3>1. at[r] + 1 \in 0 .. MaxDay
      BY <1>0, <2>1, <2>3
    <3>2. /\ pc' = [pc EXCEPT ![r] = "period"] /\ at' = [at EXCEPT ![r] = @ + 1]
          /\ loaded' = [loaded EXCEPT ![r] = at[r]]
          /\ UNCHANGED <<job, owner, upto, result>>
      BY <1>9, <2>3 DEF Advance
    <3> QED
      BY <1>9, <2>1, <2>2, <3>1, <3>2 DEF Advance, TypeOK, Working
  <2>4. CASE ~(at[r] < upto[r])
    <3>1. Leave(r, Idle) /\ Idle \in Request
      BY <1>9, <2>4 DEF Advance, Idle, Request, State
    <3> QED
      BY <1>9, <2>2, <3>1, LeaveType DEF Advance, TypeOK
  <2> QED
    BY <2>3, <2>4
<1>10. ASSUME NEW r \in Run, JobFailed(r) \/ RunFails(r) PROVE TypeOK'
  <2>1. owner[r] # NoJob => Failed(owner[r]) \in Request
    BY FailedType DEF TypeOK
  <2>2. Leave(r, Failed(owner[r]))
    BY <1>10 DEF JobFailed, RunFails
  <2>3. faults' \in 0 .. MaxFault
    BY <1>10 DEF JobFailed, RunFails, Fault, TypeOK
  <2> QED
    BY <1>10, <2>1, <2>2, <2>3, LeaveType DEF JobFailed, RunFails, TypeOK
<1>11. ASSUME NEW r \in Run, Timeout(r) PROVE TypeOK'
  <2>1. owner[r] \in Job /\ Failed(owner[r]) \in Request
    BY <1>11, FailedType DEF Timeout, TypeOK
  <2>2. faults' \in 0 .. MaxFault
    BY <1>11 DEF Timeout, Fault, TypeOK
  <2> QED
    BY <1>11, <2>1, <2>2 DEF Timeout, TypeOK
<1>12. CASE Crash
  <2>1. job' \in [Job -> Request]
    BY <1>12 DEF Crash, TypeOK, Request, State
  <2>2. faults' \in 0 .. MaxFault
    BY <1>12 DEF Crash, Fault, TypeOK
  <2> QED
    BY <1>12, <2>1, <2>2 DEF Crash, TypeOK
<1>13. CASE Take
  <2>0. queue \in Seq(Task) /\ queue # <<>>
    BY <1>13 DEF Take, TypeOK
  <2>1. Head(queue) \in Task /\ Tail(queue) \in Seq(Task)
    BY <2>0
  <2>2. /\ queue' = Tail(queue)
        /\ active' = [step |-> "taken", task |-> Head(queue), level |-> 0]
    BY <1>13, TakeFrame
  <2>3. /\ active'.step \in Step /\ active'.level \in Nat
        /\ active'.step # "none" => active'.task \in Task
    BY <2>1, <2>2 DEF Step
  <2>4. UNCHANGED <<today, table, job, bound, run, result, ghost>>
    BY <1>13 DEF Take
  <2> QED
    BY <2>1, <2>2, <2>3, <2>4 DEF TypeOK
<1>14. CASE Read
  <2>1. active.task \in Task
    BY <1>14 DEF Read, TypeOK
  <2>2. LastLevel(active.task.player, active.task.day) \in Nat
    BY <2>1, LastLevelType DEF TypeOK, Task
  <2>3. active'.level \in Nat /\ active'.step = "read" /\ active'.task = active.task
    BY <1>14, <2>2, ReadFrame
  <2> QED
    BY <1>14, <2>1, <2>3 DEF Read, TypeOK, Step
<1>15. CASE Save \/ TaskFails
  <2>1. faults' \in 0 .. MaxFault /\ UNCHANGED today
    BY <1>15 DEF Save, TaskFails, Fault, TypeOK
  <2>2. CASE Stores
    <3>1. active.task \in Task
      BY <2>2 DEF Stores, TypeOK
    <3>2. place' \in [Player -> [Day -> Nat \cup {NoPlace}]]
      BY <2>2, <3>1 DEF Stores, TypeOK, Task
    <3> QED
      BY <2>1, <2>2, <3>1, <3>2 DEF Stores, TypeOK, Step
  <2>3. CASE Breaks
    BY <2>1, <2>3, ReportFrame DEF Breaks, TypeOK, NoTask, Step
  <2> QED
    BY <1>15, <2>2, <2>3, SaveFrame
<1>16. CASE Hook
  <2>1. active.task \in Task /\ active.step # "none"
    BY <1>16 DEF Hook, TypeOK
  <2>2. last' \in [Player -> [on : 0 .. MaxDay, level : Nat]]
    BY <1>16, <2>1 DEF Hook, TypeOK, Task, Day
  <2> QED
    BY <1>16, <2>1, <2>2, ReportFrame DEF Hook, TypeOK, NoTask, Step
<1>17. CASE TaskStalls
  <2>1. active.task \in Task /\ faults' \in 0 .. MaxFault
    BY <1>17 DEF TaskStalls, Fault, TypeOK
  <2>2. queue' \in Seq(Task)
    BY <1>17, <2>1 DEF TaskStalls, TypeOK
  <2> QED
    BY <1>17, <2>1, <2>2 DEF TaskStalls, TypeOK, NoTask, Step
<1>18. CASE UNCHANGED vars
  BY <1>18 DEF vars, TypeOK
<1> QED
  BY <1>1, <1>3, <1>4, <1>5, <1>6, <1>7, <1>8, <1>9, <1>10, <1>11, <1>12, <1>13,
     <1>14, <1>15, <1>16, <1>17, <1>18 DEF Next, RunStep, PlaceStep

-----------------------------------------------------------------------------
(* The steps, by what they do to runs, rows and place jobs. *)

Still == UNCHANGED <<table, pc, at, loaded, result, work, ghost>>

Starts(r, j) ==
  /\ pc[r] = "idle" /\ \A t \in Tasks : t.run # r
  /\ From(j) <= To(j)
  /\ pc' = [pc EXCEPT ![r] = "period"] /\ at' = [at EXCEPT ![r] = From(j)]
  /\ loaded' = [loaded EXCEPT ![r] = lastUpdate]
  /\ overlap' = (overlap \/ \E s \in Run : pc[s] # "idle")
  /\ UNCHANGED <<table, posted, result, work, sound>>

Stalls ==
  /\ active.step # "none"
  /\ queue' = <<active.task>> \o queue /\ active' = NoTask
  /\ UNCHANGED <<table, job, run, result, ghost, posted>>

LEMMA BeginFrame ==
  ASSUME TypeOK, NEW r \in Run, NEW j \in Job, Begin(r, j)
  PROVE  Still \/ Starts(r, j)
<1>1. CASE From(j) > To(j)
  BY <1>1 DEF Begin, Still, run, ghost
<1>2. CASE ~(From(j) > To(j))
  <2>1. From(j) <= To(j)
    <3>1. /\ job[j] \in Request /\ today \in 0 .. MaxDay /\ lastUpdate \in 0 .. MaxDay
          /\ MaxDay \in Nat
      BY CalculationConstants DEF TypeOK
    <3>2. From(j) \in Nat /\ To(j) \in Nat
      BY <3>1 DEF From, To, Request
    <3> QED
      BY <1>2, <3>2
  <2>2. \A t \in Tasks : t.run # r
    <3>1. \A i \in DOMAIN queue : queue[i].run # r
      <4>1. queue \in Seq(Task) /\ \A i \in 1 .. Len(queue) : queue[i].run # r
        BY DEF Begin, TypeOK
      <4>2. DOMAIN queue = 1 .. Len(queue)
        BY <4>1
      <4> QED
        BY <4>1, <4>2
    <3>2. active.step # "none" => active.task.run # r
      BY DEF Begin
    <3> QED
      BY <3>1, <3>2 DEF Tasks
  <2> QED
    BY <1>2, <2>1, <2>2 DEF Begin, Starts, bound
<1> QED
  BY <1>1, <1>2

LEMMA Cases ==
  ASSUME TypeOK, Shape, [Next]_vars
  PROVE  \/ Still \/ EndRun
         \/ \E r \in Run, j \in Job : Starts(r, j)
         \/ \E r \in Run : Truncate(r) \/ AddJobs(r) \/ Advance(r)
         \/ Take \/ Read \/ Stores \/ Breaks \/ Hook \/ Stalls
<1>1. CASE UNCHANGED vars
  BY <1>1 DEF vars, Still, run
<1>2. CASE Desk
  BY <1>2, DeskFrame DEF Still
<1>3. ASSUME NEW r \in Run, NEW j \in Job, Begin(r, j)
      PROVE  Still \/ Starts(r, j)
  BY <1>3, BeginFrame
<1>4. CASE Save \/ TaskFails
  BY <1>4, SaveFrame
<1>5. CASE TaskStalls
  BY <1>5 DEF TaskStalls, Stalls
<1> QED
  BY <1>1, <1>2, <1>3, <1>4, <1>5 DEF Next, Desk, EndRun, RunStep, PlaceStep

LEMMA HookFrame ==
  ASSUME TypeOK, Hook
  PROVE  /\ active.step = "saved" /\ active.task \in Task /\ active' = NoTask
         /\ \A r \in Run, p \in Player :
              result'[r][p] = IF /\ r = active.task.run /\ p = active.task.player
                                 /\ pc[r] = "wait" /\ at[r] = active.task.day
                              THEN "ok" ELSE result[r][p]
         /\ \A p \in Player :
              last'[p] = IF p = active.task.player /\ active.task.day >= last[p].on
                         THEN [on |-> active.task.day, level |-> active.level]
                         ELSE last[p]
         /\ UNCHANGED <<place, lastUpdate, job, posted, run, queue, ghost>>
<1>1. active.step = "saved" /\ active.task \in Task /\ Report("ok")
  BY DEF Hook, TypeOK
<1>2. UNCHANGED <<place, lastUpdate, job, posted, run, queue, ghost>>
  BY DEF Hook, bound
<1>3. \A p \in Player :
        last'[p] = IF p = active.task.player /\ active.task.day >= last[p].on
                   THEN [on |-> active.task.day, level |-> active.level]
                   ELSE last[p]
  BY DEF Hook, TypeOK
<1> QED
  BY <1>1, <1>2, <1>3, ReportFrame

LEMMA ShapeStep == TypeOK /\ Shape /\ [Next]_vars => Shape'
<1> SUFFICES ASSUME TypeOK, Shape, [Next]_vars PROVE Shape'
  OBVIOUS
<1>1. CASE UNCHANGED active
  BY <1>1 DEF Shape
<1>2. CASE Take
  BY <1>2, TakeFrame DEF Shape
<1>3. CASE Read
  BY <1>3, ReadFrame DEF Shape
<1>4. CASE Stores
  BY <1>4 DEF Stores, Shape
<1>5. CASE active' = NoTask
  BY <1>5 DEF Shape, NoTask
<1>6. CASE Still \/ EndRun \/ \E r \in Run, j \in Job : Starts(r, j)
  BY <1>1, <1>6, EndFrame DEF Still, Starts, work
<1>7. ASSUME NEW r \in Run, Truncate(r) \/ AddJobs(r) \/ Advance(r)
      PROVE  UNCHANGED active
  BY <1>7 DEF Truncate, AddJobs, Advance, work
<1>8. CASE Breaks \/ Hook \/ Stalls
  BY <1>5, <1>8, HookFrame DEF Breaks, Report, Stalls
<1> QED
  BY <1>1, <1>2, <1>3, <1>4, <1>6, <1>7, <1>8, Cases

(* What a place step leaves alone. *)
LEMMA PlaceFrame ==
  ASSUME TypeOK, Shape, Take \/ Read \/ Stores \/ Breaks \/ Hook \/ Stalls
  PROVE  UNCHANGED <<run, ghost, lastUpdate, job, posted>>
  BY TakeFrame, ReadFrame, HookFrame DEF Stores, Breaks, Stalls, table

LEMMA AtDayStep == TypeOK /\ Shape /\ AtDay /\ [Next]_vars => AtDay'
<1> SUFFICES ASSUME TypeOK, Shape, AtDay, [Next]_vars PROVE AtDay'
  OBVIOUS
<1>1. CASE Still
  BY <1>1 DEF Still, AtDay
<1>2. CASE EndRun
  BY <1>2, EndFrame DEF AtDay
<1>3. ASSUME NEW r \in Run, NEW j \in Job, Starts(r, j) PROVE AtDay'
  <2>1. From(j) \in Day
    <3>1. /\ job[j] \in Request /\ today \in 0 .. MaxDay /\ lastUpdate \in 0 .. MaxDay
          /\ From(j) <= To(j) /\ MaxDay \in Nat
      BY <1>3, CalculationConstants DEF TypeOK, Starts
    <3> QED
      BY <3>1 DEF From, To, Request, Day
  <2> QED
    BY <1>3, <2>1 DEF Starts, AtDay, TypeOK
<1>4. ASSUME NEW r \in Run, Truncate(r) \/ AddJobs(r) PROVE AtDay'
  BY <1>4 DEF Truncate, AddJobs, AtDay, TypeOK
<1>5. ASSUME NEW r \in Run, Advance(r) PROVE AtDay'
  <2>1. CASE at[r] < upto[r]
    <3>1. at[r] \in Day /\ upto[r] \in 0 .. MaxDay /\ MaxDay \in Nat
      BY <1>5, CalculationConstants DEF Advance, AtDay, TypeOK
    <3>2. at[r] + 1 \in Day
      BY <2>1, <3>1 DEF Day
    <3>3. at' = [at EXCEPT ![r] = @ + 1] /\ pc' = [pc EXCEPT ![r] = "period"]
      BY <1>5, <2>1 DEF Advance
    <3> QED
      BY <1>5, <3>2, <3>3 DEF Advance, AtDay, TypeOK
  <2>2. CASE ~(at[r] < upto[r])
    BY <1>5, <2>2 DEF Advance, Leave, AtDay, TypeOK
  <2> QED
    BY <2>1, <2>2
<1>6. CASE Take \/ Read \/ Stores \/ Breaks \/ Hook \/ Stalls
  BY <1>6, PlaceFrame DEF AtDay, run
<1> QED
  BY <1>1, <1>2, <1>3, <1>4, <1>5, <1>6, Cases


-----------------------------------------------------------------------------
(* The three steps of a period, for each run, row and place job. *)

LEMMA TruncateFrame ==
  ASSUME TypeOK, NEW r \in Run, Truncate(r)
  PROVE  /\ pc[r] = "period" /\ sound' = sound \ {at[r]}
         /\ \A p \in Player, d \in Day :
              place'[p][d] = IF d = at[r] THEN NoPlace ELSE place[p][d]
         /\ \A s \in Run : pc'[s] = IF s = r THEN "queue" ELSE pc[s]
         /\ UNCHANGED <<last, lastUpdate, job, at, loaded, result, work, overlap, posted>>
<1>1. /\ place' = [p \in Player |-> [place[p] EXCEPT ![at[r]] = NoPlace]]
      /\ sound' = sound \ {at[r]} /\ pc' = [pc EXCEPT ![r] = "queue"]
      /\ UNCHANGED <<last, lastUpdate, job, at, loaded, result, work, overlap, posted>>
  BY DEF Truncate, bound
<1>2. \A p \in Player, d \in Day :
        place'[p][d] = IF d = at[r] THEN NoPlace ELSE place[p][d]
  BY <1>1 DEF TypeOK
<1>3. \A s \in Run : pc'[s] = IF s = r THEN "queue" ELSE pc[s]
  BY <1>1 DEF TypeOK
<1> QED
  BY <1>1, <1>2, <1>3 DEF Truncate

LEMMA AdvanceFrame ==
  ASSUME TypeOK, NEW r \in Run, Advance(r)
  PROVE  /\ pc[r] = "wait" /\ Finished(r) /\ lastUpdate' = Recorded(r)
         /\ Calculated(at[r])
         /\ \A s \in Run : s # r =>
              /\ pc'[s] = pc[s] /\ at'[s] = at[s] /\ loaded'[s] = loaded[s]
              /\ result'[s] = result[s]
         /\ \/ pc'[r] = "idle"
            \/ /\ pc'[r] = "period" /\ at'[r] = at[r] + 1 /\ loaded'[r] = at[r]
               /\ result'[r] = result[r]
         /\ UNCHANGED <<place, last, posted, work, overlap>>
<1>1. CASE at[r] < upto[r]
  BY <1>1 DEF Advance, TypeOK, bound
<1>2. CASE ~(at[r] < upto[r])
  BY <1>2 DEF Advance, Leave, TypeOK, bound
<1> QED
  BY <1>1, <1>2

(* A list of the players names each of them once. *)
LEMMA OrderOnce ==
  ASSUME NEW order \in [1 .. Cardinality(Player) -> Player],
         \A p \in Player : \E i \in DOMAIN order : order[i] = p
  PROVE  \A i, j \in 1 .. Cardinality(Player) : order[i] = order[j] => i = j
<1> DEFINE n == Cardinality(Player)
<1>1. IsFiniteSet(Player) /\ n \in Nat
  BY CalculationConstants, FS_CardinalityType
<1>2. IsFiniteSet(1 .. n) /\ Cardinality(1 .. n) = n
  <2>1. Cardinality(1 .. n) = IF 1 > n THEN 0 ELSE n - 1 + 1
    BY <1>1, FS_Interval
  <2> QED
    BY <1>1, <2>1, FS_Interval
<1>3. order \in Surjection(1 .. n, Player)
  BY DEF Surjection
<1>4. order \in Injection(1 .. n, Player)
  BY <1>1, <1>2, <1>3, FS_Surjection
<1> QED
  BY <1>4 DEF Injection, IsInjective

LEMMA AddFrame ==
  ASSUME TypeOK, NEW r \in Run, AddJobs(r)
  PROVE  /\ pc[r] = "queue"
         /\ \E n \in Nat : \E order \in [1 .. n -> Player] :
              /\ \A i, j \in 1 .. n : order[i] = order[j] => i = j
              /\ Len(queue') = Len(queue) + n
              /\ \A i \in 1 .. Len(queue) : queue'[i] = queue[i]
              /\ \A i \in 1 .. n : queue'[Len(queue) + i] =
                   [run |-> r, player |-> order[i], day |-> at[r]]
         /\ \A s \in Run, p \in Player :
              result'[s][p] = IF s = r THEN "none" ELSE result[s][p]
         /\ \A s \in Run : pc'[s] = IF s = r THEN "wait" ELSE pc[s]
         /\ UNCHANGED <<table, at, loaded, active, ghost, posted, job>>
<1> DEFINE size == Cardinality(Player)
<1>1. PICK order \in [1 .. size -> Player] :
        /\ \A p \in Player : \E i \in DOMAIN order : order[i] = p
        /\ queue' = queue \o [i \in DOMAIN order |->
             [run |-> r, player |-> order[i], day |-> at[r]]]
  BY DEF AddJobs
<1>2. size \in Nat
  BY CalculationConstants, FS_CardinalityType
<1>3. \A i, j \in 1 .. size : order[i] = order[j] => i = j
  BY <1>1, OrderOnce
<1> DEFINE new == [i \in 1 .. size |-> [run |-> r, player |-> order[i], day |-> at[r]]]
<1>4. at[r] \in 0 .. MaxDay /\ MaxDay \in Nat /\ queue \in Seq(Task)
  BY CalculationConstants DEF TypeOK
<1> DEFINE Jobs == [run : Run, player : Player, day : 0 .. MaxDay]
<1>5. new \in Seq(Jobs) /\ Len(new) = size
  <2>1. new \in [1 .. size -> Jobs]
    BY <1>4
  <2> HIDE DEF new, size, Jobs
  <2> QED
    BY <1>2, <2>1
<1>6. \A i \in 1 .. size : new[i] = [run |-> r, player |-> order[i], day |-> at[r]]
  OBVIOUS
<1>7. queue' = queue \o new
  BY <1>1
<1>8. /\ Len(queue') = Len(queue) + size
      /\ \A i \in 1 .. Len(queue) : queue'[i] = queue[i]
      /\ \A i \in 1 .. size : queue'[Len(queue) + i] = new[i]
  <2> HIDE DEF new, size, Jobs
  <2> QED
    BY <1>2, <1>4, <1>5, <1>7
<1>9. \A s \in Run, p \in Player :
        result'[s][p] = IF s = r THEN "none" ELSE result[s][p]
  BY DEF AddJobs, TypeOK
<1>10. /\ pc[r] = "queue" /\ \A s \in Run : pc'[s] = IF s = r THEN "wait" ELSE pc[s]
       /\ UNCHANGED <<table, at, loaded, active, ghost, posted, job>>
  BY DEF AddJobs, TypeOK, bound
<1>11. \A i \in 1 .. size : queue'[Len(queue) + i] =
         [run |-> r, player |-> order[i], day |-> at[r]]
  BY <1>6, <1>8
<1> HIDE DEF new, size
<1> QED
  BY <1>2, <1>3, <1>8, <1>9, <1>10, <1>11


-----------------------------------------------------------------------------
(* The place jobs that wait. *)

LEMMA TasksType ==
  ASSUME TypeOK
  PROVE  Tasks \subseteq Task /\ queue \in Seq(Task) /\ DOMAIN queue = 1 .. Len(queue)
         /\ Len(queue) \in Nat /\ \A i \in 1 .. Len(queue) : queue[i] \in Tasks
<1>1. queue \in Seq(Task) /\ (active.step # "none" => active.task \in Task)
  BY DEF TypeOK
<1>2. /\ DOMAIN queue = 1 .. Len(queue) /\ Len(queue) \in Nat
      /\ \A i \in 1 .. Len(queue) : queue[i] \in Task
  BY <1>1
<1> QED
  BY <1>1, <1>2 DEF Tasks

LEMMA QueueAfter ==
  ASSUME TypeOK'
  PROVE  queue' \in Seq(Task) /\ DOMAIN queue' = 1 .. Len(queue') /\ Len(queue') \in Nat
<1>1. queue' \in Seq(Task)
  BY DEF TypeOK
<1> QED
  BY <1>1

LEMMA TakeQueue ==
  ASSUME TypeOK, Take
  PROVE  /\ Len(queue) # 0 /\ Len(queue') = Len(queue) - 1
         /\ \A i \in 1 .. Len(queue') : queue'[i] = queue[i + 1]
         /\ active'.task = queue[1] /\ active'.step = "taken"
<1>1. queue \in Seq(Task) /\ queue # <<>> /\ queue' = Tail(queue)
  BY TakeFrame DEF TypeOK
<1>2. active'.task = Head(queue) /\ active'.step = "taken"
  BY TakeFrame
<1> QED
  BY <1>1, <1>2

LEMMA StallQueue ==
  ASSUME TypeOK, Stalls
  PROVE  /\ Len(queue') = Len(queue) + 1 /\ queue'[1] = active.task
         /\ \A i \in 1 .. Len(queue) : queue'[i + 1] = queue[i]
         /\ active.step # "none" /\ active'.step = "none"
<1>1. queue \in Seq(Task) /\ active.task \in Task /\ queue' = <<active.task>> \o queue
  BY DEF Stalls, TypeOK
<1> QED
  BY <1>1 DEF Stalls, NoTask

LEMMA TasksShrink ==
  ASSUME TypeOK, TypeOK', Shape, Take \/ Read \/ Stores \/ Breaks \/ Hook \/ Stalls
  PROVE  Tasks' \subseteq Tasks
<1>1. CASE Take
  <2>1. \A i \in DOMAIN queue' : queue'[i] \in Tasks
    BY <1>1, TakeQueue, TasksType, QueueAfter
  <2>2. active'.task \in Tasks
    <3>1. 1 \in 1 .. Len(queue)
      BY <1>1, TakeQueue, TasksType
    <3> QED
      BY <1>1, <3>1, TakeQueue, TasksType
  <2> QED
    BY <2>1, <2>2 DEF Tasks
<1>2. CASE Read
  BY <1>2, ReadFrame DEF Tasks
<1>3. CASE Stores
  BY <1>3 DEF Tasks, Stores
<1>4. CASE Breaks \/ Hook
  BY <1>4, HookFrame DEF Tasks, Breaks, Report, NoTask
<1>5. CASE Stalls
  <2>1. active.task \in Tasks
    BY <1>5 DEF Tasks, Stalls
  <2>2. \A i \in DOMAIN queue' : queue'[i] \in Tasks
    <3> SUFFICES ASSUME NEW i \in 1 .. Len(queue) + 1 PROVE queue'[i] \in Tasks
      BY <1>5, StallQueue, QueueAfter
    <3>1. CASE i = 1
      BY <1>5, <2>1, <3>1, StallQueue
    <3>2. CASE i # 1
      <4>1. i - 1 \in 1 .. Len(queue) /\ (i - 1) + 1 = i
        BY <3>2, TasksType
      <4> QED
        BY <1>5, <4>1, StallQueue, TasksType
    <3> QED
      BY <3>1, <3>2
  <2> QED
    BY <1>5, <2>2, StallQueue DEF Tasks
<1> QED
  BY <1>1, <1>2, <1>3, <1>4, <1>5

(* The steps that leave the places queue and the place job alone. *)
Away ==
  \/ Still \/ EndRun \/ \E r \in Run, j \in Job : Starts(r, j)
  \/ \E r \in Run : Truncate(r) \/ Advance(r)

LEMMA AwayFrame ==
  ASSUME TypeOK, Away
  PROVE  UNCHANGED <<work, last>>
  BY EndFrame, TruncateFrame, AdvanceFrame DEF Away, Still, Starts, table

LEMMA SingleStep ==
  TypeOK /\ Shape /\ TypeOK' /\ Single /\ Current /\ [Next]_vars => Single'
<1> SUFFICES ASSUME TypeOK, Shape, TypeOK', Single, Current, [Next]_vars PROVE Single'
  OBVIOUS
<1>1. CASE Away
  BY <1>1, AwayFrame DEF Single, work
<1>2. ASSUME NEW r \in Run, AddJobs(r) PROVE Single'
  <2>0. pc[r] = "queue" /\ active' = active
    BY <1>2, AddFrame
  <2>1. PICK n \in Nat : \E order \in [1 .. n -> Player] :
              /\ \A i, j \in 1 .. n : order[i] = order[j] => i = j
              /\ Len(queue') = Len(queue) + n
              /\ \A i \in 1 .. Len(queue) : queue'[i] = queue[i]
              /\ \A i \in 1 .. n : queue'[Len(queue) + i] =
                   [run |-> r, player |-> order[i], day |-> at[r]]
    BY <1>2, AddFrame
  <2>2. PICK order \in [1 .. n -> Player] :
              /\ \A i, j \in 1 .. n : order[i] = order[j] => i = j
              /\ Len(queue') = Len(queue) + n
              /\ \A i \in 1 .. Len(queue) : queue'[i] = queue[i]
              /\ \A i \in 1 .. n : queue'[Len(queue) + i] =
                   [run |-> r, player |-> order[i], day |-> at[r]]
    BY <2>1
  <2>3. \A t \in Tasks : t.run # r
    BY <2>0 DEF Current
  <2>4. /\ DOMAIN queue = 1 .. Len(queue) /\ Len(queue) \in Nat
        /\ DOMAIN queue' = 1 .. Len(queue) + n
    BY <2>2, TasksType, QueueAfter
  <2>5. \A i \in 1 .. Len(queue) : queue[i].run # r
    BY <2>3, TasksType
  <2>6. active.step # "none" => active.task.run # r
    BY <2>3 DEF Tasks
  <2>7. \A i \in 1 .. Len(queue) + n :
          \/ i \in 1 .. Len(queue) /\ queue'[i] = queue[i]
          \/ /\ i - Len(queue) \in 1 .. n /\ i \in Nat
             /\ queue'[i].run = r /\ queue'[i].player = order[i - Len(queue)]
    <3> SUFFICES ASSUME NEW i \in 1 .. Len(queue) + n, ~(i \in 1 .. Len(queue))
                 PROVE  /\ i - Len(queue) \in 1 .. n /\ i \in Nat
                        /\ queue'[i].run = r /\ queue'[i].player = order[i - Len(queue)]
      BY <2>2
    <3>1. i - Len(queue) \in 1 .. n /\ Len(queue) + (i - Len(queue)) = i /\ i \in Nat
      BY <2>4
    <3>2. queue'[Len(queue) + (i - Len(queue))] =
            [run |-> r, player |-> order[i - Len(queue)], day |-> at[r]]
      BY <2>2, <3>1
    <3> QED
      BY <3>1, <3>2
  <2>8. ASSUME NEW i \in 1 .. Len(queue) + n, NEW j \in 1 .. Len(queue) + n,
               Same(queue'[i], queue'[j])
        PROVE  i = j
    <3>1. CASE i \in 1 .. Len(queue) /\ j \in 1 .. Len(queue)
      BY <2>2, <2>4, <2>8, <3>1 DEF Single
    <3>2. CASE i \in 1 .. Len(queue) /\ j \notin 1 .. Len(queue)
      BY <2>5, <2>7, <2>8, <3>2 DEF Same
    <3>3. CASE i \notin 1 .. Len(queue) /\ j \in 1 .. Len(queue)
      BY <2>5, <2>7, <2>8, <3>3 DEF Same
    <3>4. CASE i \notin 1 .. Len(queue) /\ j \notin 1 .. Len(queue)
      <4>1. order[i - Len(queue)] = order[j - Len(queue)]
        BY <2>7, <2>8, <3>4 DEF Same
      <4>2. i - Len(queue) = j - Len(queue)
        BY <2>2, <2>7, <3>4, <4>1
      <4> QED
        BY <2>4, <4>2
    <3> QED
      BY <3>1, <3>2, <3>3, <3>4
  <2>9. ASSUME NEW i \in 1 .. Len(queue) + n, active.step # "none"
        PROVE  ~Same(queue'[i], active.task)
    BY <2>4, <2>6, <2>7, <2>9 DEF Single, Same
  <2> QED
    BY <2>0, <2>4, <2>8, <2>9 DEF Single
<1>3. CASE Take
  <2>1. /\ DOMAIN queue = 1 .. Len(queue) /\ Len(queue) \in Nat
        /\ DOMAIN queue' = 1 .. Len(queue) - 1
        /\ \A i \in 1 .. Len(queue) - 1 : queue'[i] = queue[i + 1]
        /\ active'.task = queue[1] /\ Len(queue) # 0
    BY <1>3, TakeQueue, TasksType, QueueAfter
  <2>2. \A i \in 1 .. Len(queue) - 1 : i + 1 \in 1 .. Len(queue) /\ i + 1 # 1
    BY <2>1
  <2>3. ASSUME NEW i \in 1 .. Len(queue) - 1, NEW j \in 1 .. Len(queue) - 1,
               Same(queue'[i], queue'[j])
        PROVE  i = j
    <3>1. i + 1 = j + 1
      BY <2>1, <2>2, <2>3 DEF Single
    <3> QED
      BY <2>1, <3>1
  <2>4. ASSUME NEW i \in 1 .. Len(queue) - 1
        PROVE  ~Same(queue'[i], active'.task)
    <3>1. 1 \in 1 .. Len(queue)
      BY <2>1
    <3> QED
      BY <2>1, <2>2, <3>1 DEF Single
  <2> QED
    BY <2>1, <2>3, <2>4 DEF Single
<1>4. CASE Read
  BY <1>4, ReadFrame DEF Single
<1>5. CASE Stores
  BY <1>5 DEF Single, Stores
<1>6. CASE Breaks \/ Hook
  BY <1>6, HookFrame DEF Single, Breaks, Report, NoTask
<1>7. CASE Stalls
  <2>1. /\ DOMAIN queue = 1 .. Len(queue) /\ Len(queue) \in Nat
        /\ DOMAIN queue' = 1 .. Len(queue) + 1
        /\ \A i \in 1 .. Len(queue) : queue'[i + 1] = queue[i]
        /\ queue'[1] = active.task /\ active.step # "none" /\ active'.step = "none"
    BY <1>7, StallQueue, TasksType, QueueAfter
  <2>2. \A i \in 1 .. Len(queue) + 1 :
          \/ i = 1 /\ queue'[i] = active.task
          \/ i - 1 \in 1 .. Len(queue) /\ i \in Nat /\ queue'[i] = queue[i - 1]
    <3> SUFFICES ASSUME NEW i \in 1 .. Len(queue) + 1, i # 1
                 PROVE  i - 1 \in 1 .. Len(queue) /\ i \in Nat /\ queue'[i] = queue[i - 1]
      BY <2>1
    <3>1. i - 1 \in 1 .. Len(queue) /\ (i - 1) + 1 = i /\ i \in Nat
      BY <2>1
    <3> QED
      BY <2>1, <3>1
  <2>3. \A i \in 1 .. Len(queue) : ~Same(queue[i], active.task) /\ ~Same(active.task, queue[i])
    BY <2>1 DEF Single, Same
  <2>4. ASSUME NEW i \in 1 .. Len(queue) + 1, NEW j \in 1 .. Len(queue) + 1,
               Same(queue'[i], queue'[j])
        PROVE  i = j
    <3>1. CASE i # 1 /\ j # 1
      <4>1. i - 1 = j - 1
        BY <2>1, <2>2, <2>4, <3>1 DEF Single
      <4> QED
        BY <2>1, <4>1
    <3>2. CASE i = 1 \/ j = 1
      BY <2>2, <2>3, <2>4, <3>2
    <3> QED
      BY <3>1, <3>2
  <2> QED
    BY <2>1, <2>4 DEF Single
<1> QED
  BY <1>1, <1>2, <1>3, <1>4, <1>5, <1>6, <1>7, Cases DEF Away


LEMMA CurrentStep ==
  TypeOK /\ TypeOK' /\ Shape /\ Single /\ Current /\ [Next]_vars => Current'
<1> SUFFICES ASSUME TypeOK, TypeOK', Shape, Single, Current, [Next]_vars PROVE Current'
  OBVIOUS
<1>0. \A t \in Tasks : t.run \in Run /\ t.player \in Player
  BY TasksType DEF Task
<1>1. ASSUME UNCHANGED work,
             \A t \in Tasks :
               \/ pc'[t.run] = "idle"
               \/ /\ pc'[t.run] = pc[t.run] /\ at'[t.run] = at[t.run]
                  /\ result'[t.run] = result[t.run]
      PROVE  Current'
  <2>1. Tasks' = Tasks
    BY <1>1 DEF Tasks, work
  <2> QED
    BY <1>1, <2>1 DEF Current
<1>2. CASE Still
  BY <1>1, <1>2 DEF Still
<1>3. CASE EndRun
  BY <1>0, <1>1, <1>3, EndFrame
<1>4. ASSUME NEW r \in Run, NEW j \in Job, Starts(r, j) PROVE Current'
  <2>1. \A t \in Tasks : t.run # r
    BY <1>4 DEF Starts
  <2>2. \A s \in Run : s # r => pc'[s] = pc[s] /\ at'[s] = at[s] /\ result'[s] = result[s]
    BY <1>4 DEF Starts, TypeOK
  <2>3. UNCHANGED work
    BY <1>4 DEF Starts
  <2> QED
    BY <1>0, <1>1, <2>1, <2>2, <2>3
<1>5. ASSUME NEW r \in Run, Truncate(r) PROVE Current'
  <2>1. \A t \in Tasks : t.run # r
    BY <1>5, TruncateFrame DEF Current
  <2> QED
    BY <1>0, <1>1, <1>5, <2>1, TruncateFrame
<1>6. ASSUME NEW r \in Run, Advance(r) PROVE Current'
  <2>1. pc[r] = "wait" /\ \A p \in Player : result[r][p] = "ok"
    BY <1>6, AdvanceFrame DEF Finished
  <2>2. \A t \in Tasks : t.run # r
    BY <1>0, <2>1 DEF Current
  <2>3. \A s \in Run : s # r => pc'[s] = pc[s] /\ at'[s] = at[s] /\ result'[s] = result[s]
    BY <1>6, AdvanceFrame
  <2>4. UNCHANGED work
    BY <1>6, AdvanceFrame
  <2> QED
    BY <1>0, <1>1, <2>2, <2>3, <2>4
<1>7. ASSUME NEW r \in Run, AddJobs(r) PROVE Current'
  <2>0. pc[r] = "queue" /\ active' = active /\ at' = at
    BY <1>7, AddFrame
  <2>1. PICK n \in Nat : \E order \in [1 .. n -> Player] :
              /\ \A i, j \in 1 .. n : order[i] = order[j] => i = j
              /\ Len(queue') = Len(queue) + n
              /\ \A i \in 1 .. Len(queue) : queue'[i] = queue[i]
              /\ \A i \in 1 .. n : queue'[Len(queue) + i] =
                   [run |-> r, player |-> order[i], day |-> at[r]]
    BY <1>7, AddFrame
  <2>2. PICK order \in [1 .. n -> Player] :
              /\ Len(queue') = Len(queue) + n
              /\ \A i \in 1 .. Len(queue) : queue'[i] = queue[i]
              /\ \A i \in 1 .. n : queue'[Len(queue) + i] =
                   [run |-> r, player |-> order[i], day |-> at[r]]
    BY <2>1
  <2>3. \A t \in Tasks : t.run # r
    BY <2>0 DEF Current
  <2>4. \A s \in Run, p \in Player :
          /\ pc'[s] = IF s = r THEN "wait" ELSE pc[s]
          /\ result'[s][p] = IF s = r THEN "none" ELSE result[s][p]
    BY <1>7, AddFrame
  <2>5. \A t \in Tasks : pc'[t.run] # "idle" =>
          pc'[t.run] = "wait" /\ at'[t.run] = t.day /\ result'[t.run][t.player] = "none"
    BY <1>0, <2>0, <2>3, <2>4 DEF Current
  <2>6. \A i \in DOMAIN queue' : queue'[i] \in Tasks \/
          (queue'[i].run = r /\ queue'[i].day = at[r] /\ queue'[i].player \in Player)
    <3> SUFFICES ASSUME NEW i \in 1 .. Len(queue) + n
                 PROVE  queue'[i] \in Tasks \/
                   (queue'[i].run = r /\ queue'[i].day = at[r] /\ queue'[i].player \in Player)
      BY <2>2, QueueAfter
    <3>1. CASE i \in 1 .. Len(queue)
      BY <2>2, <3>1, TasksType
    <3>2. CASE ~(i \in 1 .. Len(queue))
      <4>1. i - Len(queue) \in 1 .. n /\ Len(queue) + (i - Len(queue)) = i
        BY <3>2, TasksType
      <4>2. queue'[i] = [run |-> r, player |-> order[i - Len(queue)], day |-> at[r]]
        BY <2>2, <4>1
      <4> QED
        BY <4>1, <4>2
    <3> QED
      BY <3>1, <3>2
  <2>7. \A t \in Tasks' : t \in Tasks \/ (t.run = r /\ t.day = at[r] /\ t.player \in Player)
    BY <2>0, <2>6 DEF Tasks
  <2> QED
    BY <2>0, <2>4, <2>5, <2>7 DEF Current
<1>8. CASE Take \/ Read \/ Stores \/ Stalls
  <2>1. Tasks' \subseteq Tasks
    BY <1>8, TasksShrink
  <2>2. UNCHANGED <<pc, at, result>>
    BY <1>8, TakeFrame, ReadFrame DEF Stores, Stalls, run
  <2> QED
    BY <2>1, <2>2 DEF Current
<1>9. CASE Breaks \/ Hook
  <2>1. \A i \in DOMAIN queue : ~Same(queue[i], active.task)
    BY <1>9, HookFrame DEF Breaks, Single
  <2>2. Tasks' \subseteq {queue[i] : i \in DOMAIN queue}
    BY <1>9, HookFrame DEF Breaks, Report, Tasks, NoTask
  <2>3. \A s \in Run, p \in Player :
          s # active.task.run \/ p # active.task.player => result'[s][p] = result[s][p]
    BY <1>9, HookFrame, ReportFrame DEF Breaks
  <2>4. UNCHANGED <<pc, at>>
    BY <1>9, HookFrame DEF Breaks, run
  <2>5. Tasks' \subseteq Tasks /\ \A t \in Tasks' : ~Same(t, active.task)
    BY <2>1, <2>2 DEF Tasks
  <2> QED
    BY <1>0, <2>3, <2>4, <2>5 DEF Current, Same
<1> QED
  BY <1>2, <1>3, <1>4, <1>5, <1>6, <1>7, <1>8, <1>9, Cases

LEMMA SavedRowStep == TypeOK /\ Shape /\ SavedRow /\ [Next]_vars => SavedRow'
<1> SUFFICES ASSUME TypeOK, Shape, SavedRow, [Next]_vars PROVE SavedRow'
  OBVIOUS
<1>1. CASE UNCHANGED <<active, place>>
  BY <1>1 DEF SavedRow
<1>2. CASE Still \/ EndRun \/ \E r \in Run, j \in Job : Starts(r, j)
  <2>1. UNCHANGED <<active, place>>
    BY <1>2, EndFrame DEF Still, Starts, work, table
  <2> QED
    BY <1>1, <2>1
<1>3. ASSUME NEW r \in Run, Truncate(r) PROVE SavedRow'
  <2>1. active' = active
    BY <1>3, TruncateFrame DEF work
  <2>2. active.step = "saved" => active.task.player \in Player /\ active.task.day \in Day
    BY DEF TypeOK, Task
  <2> QED
    BY <1>3, <2>1, <2>2, TruncateFrame DEF SavedRow
<1>4. ASSUME NEW r \in Run, AddJobs(r) \/ Advance(r) PROVE SavedRow'
  BY <1>1, <1>4, AddFrame, AdvanceFrame DEF work, table
<1>5. CASE Stores
  <2>1. active.task.player \in Player /\ active.task.day \in Day
    BY <1>5 DEF TypeOK, Task, Stores
  <2>2. place'[active.task.player][active.task.day] = active.level
    BY <1>5, <2>1 DEF Stores, TypeOK
  <2> QED
    BY <1>5, <2>2 DEF Stores, SavedRow
<1>6. CASE Take \/ Read \/ Breaks \/ Hook \/ Stalls
  <2>1. active'.step # "saved"
    BY <1>6, TakeFrame, ReadFrame, HookFrame DEF Breaks, Report, Stalls, NoTask
  <2> QED
    BY <2>1 DEF SavedRow
<1> QED
  BY <1>2, <1>3, <1>4, <1>5, <1>6, Cases

(* Only a posted job has days. *)
LEMMA PlainStep == TypeOK /\ Plain /\ [Next]_vars => Plain'
<1> SUFFICES ASSUME TypeOK, Plain, [Next]_vars PROVE Plain'
  OBVIOUS
<1>1. ASSUME NEW j \in Job, NEW x, x.from \in {0, job[j].from}, x.to \in {0, job[j].to},
             job' = [job EXCEPT ![j] = x], posted' = posted
      PROVE  Plain'
  BY <1>1 DEF Plain, TypeOK
<1>2. CASE UNCHANGED <<job, posted>>
  BY <1>2 DEF Plain
<1>3. ASSUME NEW j \in Job, CronAdd(j) \/ RunJob(j) PROVE Plain'
  BY <1>1, <1>3 DEF CronAdd, RunJob, Enqueue
<1>4. ASSUME NEW j \in Job, Retry(j) PROVE Plain'
  <2>1. /\ job' = [job EXCEPT ![j].state = "waiting"] /\ posted' = posted
        /\ job \in [Job -> Request]
    BY <1>4 DEF Retry, TypeOK, bound
  <2>2. \A k \in Job : job'[k].from = job[k].from /\ job'[k].to = job[k].to
    BY <2>1 DEF Request
  <2> QED
    BY <2>1, <2>2 DEF Plain
<1>5. ASSUME NEW j \in Job, NEW from, NEW to, PostJob(j, from, to) PROVE Plain'
  BY <1>5 DEF PostJob, Plain, TypeOK
<1>6. ASSUME NEW r \in Run, NEW j \in Job, Begin(r, j) PROVE Plain'
  <2>1. job \in [Job -> Request] /\ posted' = posted
    BY <1>6 DEF Begin, TypeOK, bound
  <2>2. CASE From(j) > To(j)
    BY <1>1, <1>6, <2>1, <2>2 DEF Begin, Idle
  <2>3. CASE ~(From(j) > To(j))
    <3>1. job' = [job EXCEPT ![j].state = "active"]
      BY <1>6, <2>3 DEF Begin
    <3>2. \A k \in Job : job'[k].from = job[k].from /\ job'[k].to = job[k].to
      BY <2>1, <3>1 DEF Request
    <3> QED
      BY <2>1, <3>2 DEF Plain
  <2> QED
    BY <2>2, <2>3
<1>7. ASSUME NEW r \in Run, NEW x, Leave(r, x), posted' = posted,
             owner[r] # NoJob =>
               x.from \in {0, job[owner[r]].from} /\ x.to \in {0, job[owner[r]].to}
      PROVE  Plain'
  <2>1. CASE owner[r] = NoJob
    BY <1>2, <1>7, <2>1 DEF Leave
  <2>2. CASE owner[r] # NoJob
    <3>1. owner[r] \in Job /\ job' = [job EXCEPT ![owner[r]] = x]
      BY <1>7, <2>2 DEF Leave, TypeOK
    <3> QED
      BY <1>7, <2>2, <3>1 DEF Plain, TypeOK
  <2> QED
    BY <2>1, <2>2
<1>8. ASSUME NEW r \in Run, JobFailed(r) \/ RunFails(r) PROVE Plain'
  <2>1. owner[r] # NoJob => /\ Failed(owner[r]).from \in {0, job[owner[r]].from}
                            /\ Failed(owner[r]).to \in {0, job[owner[r]].to}
    BY FailedType DEF TypeOK
  <2>2. Leave(r, Failed(owner[r])) /\ posted' = posted
    BY <1>8 DEF JobFailed, RunFails, bound
  <2> QED
    BY <1>7, <2>1, <2>2
<1>9. ASSUME NEW r \in Run, Advance(r) PROVE Plain'
  <2>1. CASE at[r] < upto[r]
    BY <1>2, <1>9, <2>1 DEF Advance, bound
  <2>2. CASE ~(at[r] < upto[r])
    BY <1>7, <1>9, <2>2 DEF Advance, bound, Idle
  <2> QED
    BY <2>1, <2>2
<1>10. ASSUME NEW r \in Run, Timeout(r) PROVE Plain'
  <2>1. /\ owner[r] \in Job /\ job \in [Job -> Request] /\ posted' = posted
        /\ job' = [job EXCEPT ![owner[r]] = Failed(owner[r])]
    BY <1>10 DEF Timeout, TypeOK
  <2>2. /\ Failed(owner[r]).from \in {0, job[owner[r]].from}
        /\ Failed(owner[r]).to \in {0, job[owner[r]].to}
    BY <2>1, FailedType
  <2> QED
    BY <2>1, <2>2 DEF Plain
<1>11. CASE Crash
  <2>1. /\ job' = [j \in Job |-> IF job[j].state = "active"
                     THEN [job[j] EXCEPT !.state = "waiting"] ELSE job[j]]
        /\ posted' = posted /\ job \in [Job -> Request]
    BY <1>11 DEF Crash, TypeOK
  <2>2. \A k \in Job : job'[k].from = job[k].from /\ job'[k].to = job[k].to
    BY <2>1 DEF Request
  <2> QED
    BY <2>1, <2>2 DEF Plain
<1>12. ASSUME NEW r \in Run, Truncate(r) \/ AddJobs(r) PROVE Plain'
  BY <1>2, <1>12 DEF Truncate, AddJobs, bound
<1>13. CASE NextDay \/ PlaceStep \/ TaskFails \/ TaskStalls \/ UNCHANGED vars
  <2>1. UNCHANGED <<job, posted>>
    BY <1>13 DEF NextDay, PlaceStep, Take, Read, Save, Hook, TaskFails, TaskStalls, vars, bound
  <2> QED
    BY <1>2, <2>1
<1> QED
  BY <1>3, <1>4, <1>5, <1>6, <1>8, <1>9, <1>10, <1>11, <1>12, <1>13 DEF Next, RunStep


-----------------------------------------------------------------------------
(* One run at a time. *)

(* No run begins, moves on or queues jobs. *)
Steady ==
  Still \/ EndRun \/ Take \/ Read \/ Stores \/ Breaks \/ Hook \/ Stalls

LEMMA SteadyFrame ==
  ASSUME TypeOK, Shape, Steady
  PROVE  /\ UNCHANGED <<ghost, lastUpdate>>
         /\ \A r \in Run :
              \/ pc'[r] = "idle"
              \/ pc'[r] = pc[r] /\ at'[r] = at[r] /\ loaded'[r] = loaded[r]
<1>1. CASE Still
  BY <1>1 DEF Still, table
<1>2. CASE EndRun
  BY <1>2, EndFrame DEF table
<1>3. CASE Take \/ Read \/ Stores \/ Breaks \/ Hook \/ Stalls
  BY <1>3, PlaceFrame DEF run
<1> QED
  BY <1>1, <1>2, <1>3 DEF Steady

LEMMA StartsFrame ==
  ASSUME TypeOK, NEW r \in Run, NEW j \in Job, Starts(r, j)
  PROVE  /\ \A s \in Run : s # r =>
              pc'[s] = pc[s] /\ at'[s] = at[s] /\ loaded'[s] = loaded[s]
         /\ pc'[r] = "period" /\ at'[r] = From(j) /\ loaded'[r] = lastUpdate
         /\ ~overlap' => ~overlap /\ \A s \in Run : pc[s] = "idle"
         /\ UNCHANGED <<table, posted, result, work, sound>>
  BY DEF Starts, TypeOK

LEMMA MoreCases ==
  ASSUME TypeOK, Shape, [Next]_vars
  PROVE  \/ Steady
         \/ \E r \in Run, j \in Job : Starts(r, j)
         \/ \E r \in Run : Truncate(r) \/ AddJobs(r) \/ Advance(r)
  BY Cases DEF Steady

LEMMA PostedStep == TypeOK /\ [Next]_vars /\ posted' = 0 => posted = 0
<1> SUFFICES ASSUME TypeOK, [Next]_vars, posted' = 0 PROVE posted = 0
  OBVIOUS
<1>1. posted \in Nat
  BY CalculationConstants DEF TypeOK
<1>2. ASSUME NEW j \in Job, NEW from, NEW to, PostJob(j, from, to) PROVE FALSE
  BY <1>1, <1>2 DEF PostJob
<1>3. CASE UNCHANGED vars
  BY <1>3 DEF vars, bound
<1>4. CASE NextDay \/ PlaceStep \/ TaskFails \/ TaskStalls \/ Crash
  BY <1>4 DEF NextDay, PlaceStep, Take, Read, Save, Hook, TaskFails, TaskStalls, Crash, bound
<1>5. ASSUME NEW j \in Job, CronAdd(j) \/ RunJob(j) \/ Retry(j) PROVE posted = 0
  BY <1>5 DEF CronAdd, RunJob, Retry, bound
<1>6. ASSUME NEW r \in Run, RunStep(r) \/ RunFails(r) \/ Timeout(r) PROVE posted = 0
  BY <1>6 DEF RunStep, Truncate, AddJobs, Advance, JobFailed, Begin, RunFails, Timeout, bound
<1> QED
  BY <1>2, <1>3, <1>4, <1>5, <1>6 DEF Next

LEMMA AloneStep == TypeOK /\ Shape /\ Alone /\ [Next]_vars => Alone'
<1> SUFFICES ASSUME TypeOK, Shape, Alone, [Next]_vars PROVE Alone'
  OBVIOUS
<1>1. ASSUME overlap' = overlap, \A r \in Run : pc'[r] # "idle" => pc[r] # "idle"
      PROVE  Alone'
  BY <1>1 DEF Alone
<1>2. CASE Steady
  BY <1>1, <1>2, SteadyFrame DEF ghost
<1>3. ASSUME NEW r \in Run, NEW j \in Job, Starts(r, j) PROVE Alone'
  BY <1>3, StartsFrame DEF Alone
<1>4. ASSUME NEW r \in Run, Truncate(r) \/ AddJobs(r) \/ Advance(r) PROVE Alone'
  <2>1. overlap' = overlap
    BY <1>4, TruncateFrame, AddFrame, AdvanceFrame DEF ghost
  <2>2. \A s \in Run : pc'[s] # "idle" => pc[s] # "idle"
    BY <1>4, TruncateFrame, AddFrame, AdvanceFrame
  <2> QED
    BY <1>1, <2>1, <2>2
<1> QED
  BY <1>2, <1>3, <1>4, MoreCases

LEMMA OnwardStep ==
  TypeOK /\ Shape /\ AtDay /\ Plain /\ Alone /\ Onward /\ [Next]_vars => Onward'
<1> SUFFICES ASSUME TypeOK, Shape, AtDay, Plain, Alone, Onward, [Next]_vars,
                    ~overlap', posted' = 0
             PROVE  \A s \in Run : pc'[s] # "idle" =>
                      at'[s] = lastUpdate' + 1 /\ loaded'[s] = lastUpdate'
  BY DEF Onward
<1>0. posted = 0
  BY PostedStep
<1>1. CASE Steady
  BY <1>0, <1>1, SteadyFrame DEF ghost, Onward
<1>2. ASSUME NEW r \in Run, NEW j \in Job, Starts(r, j)
      PROVE  \A s \in Run : pc'[s] # "idle" =>
               at'[s] = lastUpdate' + 1 /\ loaded'[s] = lastUpdate'
  <2>1. From(j) = lastUpdate + 1
    BY <1>0 DEF Plain, From
  <2> QED
    BY <1>2, <2>1, StartsFrame DEF table
<1>3. ASSUME NEW r \in Run, Truncate(r) \/ AddJobs(r)
      PROVE  \A s \in Run : pc'[s] # "idle" =>
               at'[s] = lastUpdate' + 1 /\ loaded'[s] = lastUpdate'
  <2>1. /\ UNCHANGED <<lastUpdate, overlap, at, loaded>>
        /\ \A s \in Run : pc'[s] # "idle" => pc[s] # "idle"
    BY <1>3, TruncateFrame, AddFrame DEF table, ghost
  <2> QED
    BY <1>0, <2>1 DEF Onward
<1>4. ASSUME NEW r \in Run, Advance(r)
      PROVE  \A s \in Run : pc'[s] # "idle" =>
               at'[s] = lastUpdate' + 1 /\ loaded'[s] = lastUpdate'
  <2>1. overlap' = overlap /\ pc[r] = "wait" /\ lastUpdate' = Recorded(r)
    BY <1>4, AdvanceFrame
  <2>2. at[r] = lastUpdate + 1 /\ loaded[r] = lastUpdate /\ lastUpdate \in 0 .. MaxDay
    BY <1>0, <2>1 DEF Onward, TypeOK
  <2>3. lastUpdate' = at[r]
    BY <2>1, <2>2, CalculationConstants DEF Recorded
  <2>4. \A s \in Run : s # r => pc'[s] = "idle"
    BY <1>4, <2>1, AdvanceFrame DEF Alone
  <2> QED
    BY <1>4, <2>3, <2>4, AdvanceFrame
<1> QED
  BY <1>1, <1>2, <1>3, <1>4, MoreCases

-----------------------------------------------------------------------------
(* The rows of the run at work. *)

(* While a run truncates, queues jobs or moves on, none waits but itself. *)
LEMMA NoneWaits ==
  ASSUME TypeOK, Alone, ~overlap', NEW r \in Run,
         Truncate(r) \/ AddJobs(r) \/ Advance(r)
  PROVE  ~overlap /\ \A s \in Run : pc'[s] = "wait" => s = r /\ AddJobs(r)
<1>1. pc[r] # "idle" /\ overlap' = overlap
  BY TruncateFrame, AddFrame, AdvanceFrame DEF ghost
<1>2. \A s \in Run : s # r => pc[s] = "idle"
  BY <1>1 DEF Alone
<1>3. \A s \in Run : s # r => pc'[s] = pc[s]
  BY TruncateFrame, AddFrame, AdvanceFrame
<1>4. pc'[r] = "wait" => AddJobs(r)
  BY TruncateFrame, AdvanceFrame
<1> QED
  BY <1>1, <1>2, <1>3, <1>4

LEMMA ReadLevel ==
  ASSUME TypeOK, Shape, EachUpdateOnce, ~overlap, Read,
         place[active.task.player][active.task.day] = NoPlace, Base(active.task.day)
  PROVE  active'.level = UpdatesUpTo(active.task.day)
<1> DEFINE p == active.task.player
           d == active.task.day
<1>1. p \in Player /\ d \in Day
  BY ReadFrame DEF TypeOK, Task
<1>2. active'.level = LastLevel(p, d) + IF d \in Update THEN 1 ELSE 0
  BY ReadFrame
<1>3. UpdatesUpTo(d) = (IF d = 1 THEN 0 ELSE UpdatesUpTo(d - 1))
                         + (IF d \in Update THEN 1 ELSE 0)
  BY <1>1, UpdatesStep
<1> HIDE DEF p, d
<1>4. CASE d = 1
  BY <1>1, <1>2, <1>3, <1>4, LastLevelFirst DEF p, d
<1>5. CASE d # 1
  <2>1. d - 1 \in sound
    BY <1>5 DEF Base, d
  <2>2. place[p][d - 1] = UpdatesUpTo(d - 1) /\ UpdatesUpTo(d - 1) \in Nat
    BY <1>1, <2>1, UpdatesType DEF EachUpdateOnce
  <2>3. place[p][d - 1] # NoPlace
    BY <2>2 DEF NoPlace
  <2>4. place[p][d] = NoPlace
    BY DEF p, d
  <2>5. LastLevel(p, d) = place[p][d - 1]
    BY <1>1, <1>5, <2>3, <2>4, LastLevelBefore
  <2> QED
    BY <1>2, <1>3, <1>5, <2>2, <2>5 DEF d
<1> QED
  BY <1>4, <1>5

LEMMA OwnTaskStep ==
  /\ TypeOK /\ Shape /\ Current /\ Alone /\ OwnTask /\ EachUpdateOnce /\ [Next]_vars
  => OwnTask'
<1> SUFFICES ASSUME TypeOK, Shape, Current, Alone, OwnTask, EachUpdateOnce,
                    [Next]_vars, ~overlap', pc'[active'.task.run] = "wait",
                    active'.step \in {"read", "saved"}
             PROVE  OwnTask'
  BY DEF OwnTask
<1>1. ASSUME UNCHANGED <<active, place, sound>>, ~overlap,
             pc'[active.task.run] = pc[active.task.run]
      PROVE  OwnTask'
  BY <1>1 DEF OwnTask, Base, UpdatesUpTo
<1>2. active' = active => active.task \in Tasks /\ active.task.run \in Run
  BY DEF Tasks, TypeOK, Task
<1>3. CASE Still
  BY <1>1, <1>3 DEF Still, work, table, ghost
<1>4. CASE EndRun
  <2>1. UNCHANGED <<active, place, sound>> /\ ~overlap
    BY <1>4, EndFrame DEF work, table, ghost
  <2> QED
    BY <1>1, <1>2, <1>4, <2>1, EndFrame
<1>5. ASSUME NEW r \in Run, NEW j \in Job, Starts(r, j) PROVE OwnTask'
  <2>1. UNCHANGED <<active, place, sound>> /\ ~overlap
    BY <1>5, StartsFrame DEF work, table
  <2>2. active.task.run # r
    BY <1>2, <1>5, <2>1 DEF Starts
  <2> QED
    BY <1>1, <1>2, <1>5, <2>1, <2>2, StartsFrame
<1>6. ASSUME NEW r \in Run, Truncate(r) \/ AddJobs(r) \/ Advance(r) PROVE FALSE
  <2>1. active' = active
    BY <1>6, TruncateFrame, AddFrame, AdvanceFrame DEF work
  <2>2. active.task.run = r /\ AddJobs(r)
    BY <1>2, <1>6, <2>1, NoneWaits
  <2>3. pc[r] = "queue"
    BY <2>2, AddFrame
  <2> QED
    BY <1>2, <2>1, <2>2, <2>3 DEF Current
<1>7. CASE Read
  <2>1. /\ active'.step = "read" /\ active'.task = active.task
        /\ UNCHANGED <<place, sound, overlap>>
    BY <1>7, ReadFrame DEF table, ghost
  <2>2. /\ place[active.task.player][active.task.day] = NoPlace /\ Base(active.task.day)
        => active'.level = UpdatesUpTo(active.task.day)
    BY <1>7, <2>1, ReadLevel
  <2> QED
    BY <2>1, <2>2 DEF OwnTask, Base, UpdatesUpTo
<1>8. CASE Stores
  <2>1. active.task.player \in Player /\ active.task.day \in Day
    BY <1>8 DEF TypeOK, Task, Stores
  <2>2. place'[active.task.player][active.task.day] = active.level
    BY <1>8, <2>1 DEF Stores, TypeOK
  <2>3. /\ active'.step = "saved" /\ active'.task = active.task
        /\ active'.level = active.level /\ active.step = "read"
        /\ place[active.task.player][active.task.day] = NoPlace
        /\ UNCHANGED <<sound, overlap, pc>>
    BY <1>8 DEF Stores, ghost, run
  <2>4. Base(active.task.day) => active.level = UpdatesUpTo(active.task.day)
    BY <2>3 DEF OwnTask
  <2> QED
    BY <2>2, <2>3, <2>4 DEF OwnTask, Base, UpdatesUpTo
<1>9. CASE Take \/ Breaks \/ Hook \/ Stalls
  BY <1>9, TakeFrame, HookFrame DEF Breaks, Report, Stalls, NoTask
<1> QED
  BY <1>3, <1>4, <1>5, <1>6, <1>7, <1>8, <1>9, Cases


LEMMA StoredKept ==
  ASSUME NEW r \in Run, NEW p \in Player, Stored(r, p),
         UNCHANGED sound, at'[r] = at[r], last'[p] = last[p],
         place'[p][at[r]] = place[p][at[r]]
  PROVE  Stored(r, p)'
  BY DEF Stored, Base, UpdatesUpTo

(* The hook tells the run at work of the row its place job has stored. *)
LEMMA HookStored ==
  ASSUME TypeOK, AtDay, OwnTask, ResultOk, SavedRow, ~overlap, Hook,
         NEW r \in Run, NEW p \in Player, pc[r] = "wait", result'[r][p] = "ok"
  PROVE  Stored(r, p)'
<1> DEFINE t == active.task
           d == t.day
<1>0. /\ active.step = "saved" /\ t \in Task /\ UNCHANGED <<place, sound, at, pc>>
      /\ \A q \in Player :
           last'[q] = IF q = t.player /\ d >= last[q].on
                      THEN [on |-> d, level |-> active.level] ELSE last[q]
      /\ result'[r][p] = IF r = t.run /\ p = t.player /\ pc[r] = "wait" /\ at[r] = d
                         THEN "ok" ELSE result[r][p]
  BY HookFrame DEF run, ghost
<1>1. d \in Nat /\ at[r] \in Nat /\ last[p].on \in Nat /\ active.level \in Nat
  <2>1. d \in 1 .. MaxDay /\ at[r] \in 0 .. MaxDay /\ MaxDay \in Nat
    BY <1>0, CalculationConstants DEF TypeOK, Task, Day
  <2>2. last[p].on \in 0 .. MaxDay /\ active.level \in Nat
    BY DEF TypeOK
  <2> QED
    BY <2>1, <2>2
<1>2. CASE r = t.run /\ p = t.player /\ at[r] = d
  <2>1. /\ place[p][d] = active.level
        /\ Base(d) => active.level = UpdatesUpTo(d)
    BY <1>0, <1>2 DEF OwnTask
  <2>2. last'[p] = IF d >= last[p].on THEN [on |-> d, level |-> active.level] ELSE last[p]
    BY <1>0, <1>2
  <2>3. last'[p].on >= d /\ (last'[p].on = d => last'[p].level = active.level)
    BY <1>1, <2>2
  <2>4. active.level # NoPlace
    BY <1>1 DEF NoPlace
  <2> QED
    BY <1>0, <1>2, <2>1, <2>3, <2>4 DEF Stored, Base, UpdatesUpTo
<1>3. CASE ~(r = t.run /\ p = t.player /\ at[r] = d)
  <2>1. Stored(r, p)
    BY <1>0, <1>3 DEF ResultOk
  <2>2. CASE p = t.player /\ d >= last[p].on
    <3>1. last'[p] = [on |-> d, level |-> active.level]
      BY <1>0, <2>2
    <3>2. last'[p].on >= at[r]
      BY <1>1, <2>1, <2>2, <3>1 DEF Stored
    <3>3. d = at[r] => active.level = place[p][at[r]]
      BY <1>0, <2>1, <2>2 DEF SavedRow, Stored
    <3> QED
      BY <1>0, <2>1, <3>1, <3>2, <3>3 DEF Stored, Base, UpdatesUpTo
  <2>3. CASE ~(p = t.player /\ d >= last[p].on)
    BY <1>0, <2>1, <2>3, StoredKept
  <2> QED
    BY <2>2, <2>3
<1> QED
  BY <1>2, <1>3

LEMMA ResultOkStep ==
  /\ TypeOK /\ Shape /\ AtDay /\ Alone /\ SavedRow /\ OwnTask /\ ResultOk /\ [Next]_vars
  => ResultOk'
<1> SUFFICES ASSUME TypeOK, Shape, AtDay, Alone, SavedRow, OwnTask, ResultOk,
                    [Next]_vars, ~overlap',
                    NEW r \in Run, NEW p \in Player,
                    pc'[r] = "wait", result'[r][p] = "ok"
             PROVE  Stored(r, p)'
  BY DEF ResultOk
<1>1. ASSUME ~overlap, UNCHANGED <<sound, last, place>>, at'[r] = at[r], pc[r] = "wait",
             result[r][p] = "ok"
      PROVE  Stored(r, p)'
  BY <1>1, StoredKept DEF ResultOk
<1>2. CASE Still
  BY <1>1, <1>2 DEF Still, work, table, ghost
<1>3. CASE EndRun
  <2>1. ~overlap /\ UNCHANGED <<sound, last, place>>
    BY <1>3, EndFrame DEF table, ghost
  <2>2. at'[r] = at[r] /\ pc[r] = "wait" /\ result[r][p] = "ok"
    BY <1>3, EndFrame
  <2> QED
    BY <1>1, <2>1, <2>2
<1>4. ASSUME NEW s \in Run, NEW j \in Job, Starts(s, j) PROVE Stored(r, p)'
  <2>1. r # s /\ ~overlap /\ UNCHANGED <<sound, last, place, result>>
    BY <1>4, StartsFrame DEF table
  <2>2. at'[r] = at[r] /\ pc[r] = "wait"
    BY <1>4, <2>1, StartsFrame
  <2> QED
    BY <1>1, <2>1, <2>2
<1>5. ASSUME NEW s \in Run, Truncate(s) \/ AddJobs(s) \/ Advance(s) PROVE FALSE
  BY <1>5, NoneWaits, AddFrame
<1>6. CASE Take \/ Read \/ Stalls
  <2>1. ~overlap /\ UNCHANGED <<sound, last, place, at, pc, result>>
    BY <1>6, TakeFrame, ReadFrame DEF Stalls, table, ghost, run
  <2> QED
    BY <1>1, <2>1
<1>7. CASE Stores
  <2>1. ~overlap /\ UNCHANGED <<sound, last, at, pc, result>>
    BY <1>7 DEF Stores, ghost, run
  <2>2. Stored(r, p)
    BY <2>1 DEF ResultOk
  <2>3. at[r] \in Day /\ active.task \in Task
    BY <1>7, <2>1 DEF AtDay, Stores, TypeOK
  <2>4. place[p][at[r]] # NoPlace
    BY <2>2 DEF Stored
  <2>5. place'[p][at[r]] = place[p][at[r]]
    BY <1>7, <2>3, <2>4 DEF Stores, TypeOK, Task
  <2> QED
    BY <2>1, <2>2, <2>5, StoredKept
<1>8. CASE Breaks
  <2>1. ~overlap /\ UNCHANGED <<sound, last, place, at, pc>>
    BY <1>8 DEF Breaks, table, ghost, run
  <2>2. result[r][p] = "ok"
    BY <1>8, ReportFrame DEF Breaks
  <2> QED
    BY <1>1, <2>1, <2>2
<1>9. CASE Hook
  <2>1. ~overlap /\ pc[r] = "wait"
    BY <1>9, HookFrame DEF ghost, run
  <2> QED
    BY <1>9, <2>1, HookStored
<1> QED
  BY <1>2, <1>3, <1>4, <1>5, <1>6, <1>7, <1>8, <1>9, Cases

LEMMA EachUpdateOnceStep ==
  /\ TypeOK /\ Shape /\ AtDay /\ Alone /\ Onward /\ ResultOk /\ EachUpdateOnce
  /\ [Next]_vars
  => EachUpdateOnce'
<1> SUFFICES ASSUME TypeOK, Shape, AtDay, Alone, Onward, ResultOk, EachUpdateOnce,
                    [Next]_vars, ~overlap'
             PROVE  /\ \A p \in Player, d \in sound' : place'[p][d] = UpdatesUpTo(d)
                    /\ posted' = 0 => 1 .. lastUpdate' \subseteq sound'
  BY DEF EachUpdateOnce, UpdatesUpTo
<1> DEFINE Goal == /\ \A p \in Player, d \in sound' : place'[p][d] = UpdatesUpTo(d)
                   /\ posted' = 0 => 1 .. lastUpdate' \subseteq sound'
<1>0. lastUpdate \in Nat /\ (posted' = 0 => posted = 0)
  BY PostedStep, CalculationConstants DEF TypeOK
<1>1. ASSUME ~overlap, UNCHANGED <<place, sound, lastUpdate>> PROVE Goal
  BY <1>0, <1>1 DEF EachUpdateOnce
<1>2. CASE Still \/ EndRun \/ Take \/ Read \/ Breaks \/ Hook \/ Stalls
  <2>1. ~overlap /\ UNCHANGED <<place, sound, lastUpdate>>
    BY <1>2, EndFrame, TakeFrame, ReadFrame, HookFrame
       DEF Still, Breaks, Stalls, table, ghost
  <2> QED
    BY <1>1, <2>1
<1>3. ASSUME NEW r \in Run, NEW j \in Job, Starts(r, j) PROVE Goal
  BY <1>1, <1>3, StartsFrame DEF table
<1>4. ASSUME NEW r \in Run, AddJobs(r) PROVE Goal
  BY <1>1, <1>4, AddFrame DEF table, ghost
<1>5. ASSUME NEW r \in Run, Truncate(r) PROVE Goal
  <2>1. /\ ~overlap /\ lastUpdate' = lastUpdate /\ pc[r] = "period"
        /\ sound' = sound \ {at[r]} /\ sound \subseteq Day
    BY <1>5, TruncateFrame DEF TypeOK
  <2>2. \A p \in Player, d \in sound' : place'[p][d] = UpdatesUpTo(d)
    BY <1>5, <2>1, TruncateFrame DEF EachUpdateOnce
  <2>3. ASSUME posted' = 0 PROVE 1 .. lastUpdate \subseteq sound'
    <3>1. at[r] = lastUpdate + 1 /\ 1 .. lastUpdate \subseteq sound
      BY <1>0, <2>1, <2>3 DEF Onward, EachUpdateOnce
    <3>2. at[r] \notin 1 .. lastUpdate
      BY <1>0, <3>1
    <3> QED
      BY <2>1, <3>1, <3>2
  <2> QED
    BY <2>1, <2>2, <2>3
<1>6. ASSUME NEW r \in Run, Advance(r) PROVE Goal
  <2>1. /\ ~overlap /\ pc[r] = "wait" /\ place' = place /\ lastUpdate' = Recorded(r)
        /\ \A p \in Player : result[r][p] = "ok"
        /\ sound' = IF Base(at[r]) THEN sound \cup {at[r]} ELSE sound \ {at[r]}
    BY <1>6, AdvanceFrame DEF Finished, Calculated, Base
  <2>2. \A p \in Player : Base(at[r]) => place[p][at[r]] = UpdatesUpTo(at[r])
    BY <2>1 DEF ResultOk, Stored
  <2>3. \A p \in Player, d \in sound' : place'[p][d] = UpdatesUpTo(d)
    BY <2>1, <2>2 DEF EachUpdateOnce
  <2>4. ASSUME posted' = 0 PROVE 1 .. lastUpdate' \subseteq sound'
    <3>1. /\ at[r] = lastUpdate + 1 /\ loaded[r] = lastUpdate
          /\ 1 .. lastUpdate \subseteq sound
      BY <1>0, <2>1, <2>4 DEF Onward, EachUpdateOnce
    <3>2. lastUpdate' = lastUpdate + 1
      BY <1>0, <2>1, <3>1 DEF Recorded
    <3>3. Base(at[r])
      <4>1. lastUpdate = 0 \/ lastUpdate \in 1 .. lastUpdate
        BY <1>0
      <4>2. at[r] - 1 = lastUpdate /\ (lastUpdate = 0 => at[r] = 1)
        BY <1>0, <3>1
      <4> QED
        BY <3>1, <4>1, <4>2 DEF Base
    <3>4. \A d \in 1 .. lastUpdate + 1 : d \in 1 .. lastUpdate \/ d = at[r]
      BY <1>0, <3>1
    <3> QED
      BY <2>1, <3>1, <3>2, <3>3, <3>4
  <2> QED
    BY <2>3, <2>4
<1>7. CASE Stores
  <2>1. ~overlap /\ UNCHANGED <<sound, lastUpdate>>
    BY <1>7 DEF Stores, ghost
  <2>2. active.task \in Task /\ sound \subseteq Day
    BY <1>7 DEF Stores, TypeOK
  <2>3. ASSUME NEW p \in Player, NEW d \in sound PROVE place'[p][d] = UpdatesUpTo(d)
    <3>1. place[p][d] = UpdatesUpTo(d) /\ UpdatesUpTo(d) \in Nat
      BY <2>1, UpdatesType DEF EachUpdateOnce
    <3>2. place[p][d] # NoPlace
      BY <3>1 DEF NoPlace
    <3>3. place'[p][d] = place[p][d]
      BY <1>7, <2>2, <3>2 DEF Stores, TypeOK, Task
    <3> QED
      BY <3>1, <3>3
  <2> QED
    BY <1>0, <2>1, <2>3 DEF EachUpdateOnce
<1> QED
  BY <1>2, <1>3, <1>4, <1>5, <1>6, <1>7, Cases

LEMMA LastPlaceFollowsStep ==
  /\ TypeOK /\ Shape /\ Alone /\ SavedRow /\ ResultOk /\ EachUpdateOnce
  /\ LastPlaceFollows /\ [Next]_vars
  => LastPlaceFollows'
<1> SUFFICES ASSUME TypeOK, Shape, Alone, SavedRow, ResultOk, EachUpdateOnce,
                    LastPlaceFollows, [Next]_vars, ~overlap', NEW p \in Player
             PROVE  /\ last'[p].on >= lastUpdate'
                    /\ last'[p].on \in sound' => last'[p].level = UpdatesUpTo(last'[p].on)
  BY DEF LastPlaceFollows, UpdatesUpTo
<1> DEFINE Goal ==
      /\ last'[p].on >= lastUpdate'
      /\ last'[p].on \in sound' => last'[p].level = UpdatesUpTo(last'[p].on)
<1>1. ASSUME ~overlap, UNCHANGED <<last, lastUpdate>>, sound' \subseteq sound PROVE Goal
  BY <1>1 DEF LastPlaceFollows
<1>2. CASE Still \/ EndRun \/ Take \/ Read \/ Stores \/ Breaks \/ Stalls
  <2>1. ~overlap /\ UNCHANGED <<last, lastUpdate, sound>>
    BY <1>2, EndFrame, TakeFrame, ReadFrame DEF Still, Stores, Breaks, Stalls, table, ghost
  <2> QED
    BY <1>1, <2>1
<1>3. ASSUME NEW r \in Run, NEW j \in Job, Starts(r, j) PROVE Goal
  BY <1>1, <1>3, StartsFrame DEF table
<1>4. ASSUME NEW r \in Run, Truncate(r) \/ AddJobs(r) PROVE Goal
  <2>1. ~overlap /\ UNCHANGED <<last, lastUpdate>> /\ sound' \subseteq sound
    BY <1>4, TruncateFrame, AddFrame DEF table, ghost
  <2> QED
    BY <1>1, <2>1
<1>5. ASSUME NEW r \in Run, Advance(r) PROVE Goal
  <2>1. /\ ~overlap /\ pc[r] = "wait" /\ last' = last /\ lastUpdate' = Recorded(r)
        /\ result[r][p] = "ok"
        /\ sound' = IF Base(at[r]) THEN sound \cup {at[r]} ELSE sound \ {at[r]}
    BY <1>5, AdvanceFrame DEF Finished, Calculated, Base
  <2>2. Stored(r, p)
    BY <2>1 DEF ResultOk
  <2>3. last[p].on >= lastUpdate
    BY <2>1 DEF LastPlaceFollows
  <2>4. last[p].on >= lastUpdate'
    BY <2>1, <2>2, <2>3 DEF Stored, Recorded
  <2>5. last[p].on \in sound => last[p].level = UpdatesUpTo(last[p].on)
    BY <2>1 DEF LastPlaceFollows
  <2>6. last[p].on = at[r] /\ Base(at[r]) => last[p].level = UpdatesUpTo(at[r])
    BY <2>2 DEF Stored
  <2> QED
    BY <2>1, <2>4, <2>5, <2>6
<1>6. CASE Hook
  <2>1. /\ ~overlap /\ UNCHANGED <<place, sound, lastUpdate>> /\ active.step = "saved"
        /\ last'[p] = IF p = active.task.player /\ active.task.day >= last[p].on
                      THEN [on |-> active.task.day, level |-> active.level]
                      ELSE last[p]
    BY <1>6, HookFrame DEF ghost
  <2>2. CASE p = active.task.player /\ active.task.day >= last[p].on
    <3>1. last'[p].on = active.task.day /\ last'[p].level = active.level
      BY <2>1, <2>2
    <3>2. last[p].on >= lastUpdate
      BY <2>1 DEF LastPlaceFollows
    <3>3. /\ last[p].on \in 0 .. MaxDay /\ lastUpdate \in 0 .. MaxDay
          /\ active.task.day \in 1 .. MaxDay /\ MaxDay \in Nat
      BY <2>1, CalculationConstants DEF TypeOK, Task, Day
    <3>4. active.task.day >= lastUpdate
      BY <2>2, <3>2, <3>3
    <3>5. active.task.day \in sound => active.level = UpdatesUpTo(active.task.day)
      <4> SUFFICES ASSUME active.task.day \in sound
                   PROVE  active.level = UpdatesUpTo(active.task.day)
        OBVIOUS
      <4>1. place[p][active.task.day] = UpdatesUpTo(active.task.day)
        BY <2>1 DEF EachUpdateOnce
      <4>2. UpdatesUpTo(active.task.day) # NoPlace
        <5>1. UpdatesUpTo(active.task.day) \in Nat
          BY UpdatesType
        <5> QED
          BY <5>1 DEF NoPlace
      <4> QED
        BY <2>1, <2>2, <4>1, <4>2 DEF SavedRow
    <3> QED
      BY <2>1, <3>1, <3>4, <3>5
  <2>3. CASE ~(p = active.task.player /\ active.task.day >= last[p].on)
    BY <2>1, <2>3 DEF LastPlaceFollows
  <2> QED
    BY <2>2, <2>3
<1> QED
  BY <1>2, <1>3, <1>4, <1>5, <1>6, Cases

-----------------------------------------------------------------------------
(* The invariant and what it gives. *)

LEMMA InitInv == Init => IInv
<1> SUFFICES ASSUME Init PROVE IInv
  OBVIOUS
<1> USE CalculationConstants DEF Init
<1>1. TypeOK
  <2>1. queue \in Seq(Task) /\ sound \in SUBSET Day /\ 0 \in 0 .. MaxDay
    OBVIOUS
  <2>2. job \in [Job -> Request]
    BY <2>1 DEF Request, Idle, State
  <2>3. active.step \in Step /\ active.level \in Nat /\ active.step = "none"
    BY DEF NoTask, Step
  <2>4. /\ place \in [Player -> [Day -> Nat \cup {NoPlace}]]
        /\ last \in [Player -> [on : 0 .. MaxDay, level : Nat]]
        /\ result \in [Run -> [Player -> {"none", "ok", "failed"}]]
    BY <2>1 DEF Start0
  <2>5. /\ pc \in [Run -> Working \cup {"idle"}] /\ owner \in [Run -> Job \cup {NoJob}]
        /\ at \in [Run -> 0 .. MaxDay] /\ upto \in [Run -> 0 .. MaxDay]
        /\ loaded \in [Run -> 0 .. MaxDay]
    BY <2>1
  <2>6. /\ today \in 0 .. MaxDay /\ lastUpdate \in 0 .. MaxDay
        /\ faults \in 0 .. MaxFault /\ posted \in 0 .. MaxPosted
    <3>1. \A n \in Nat : 0 \in 0 .. n
      OBVIOUS
    <3> QED
      BY <3>1, Zenon
  <2>7. overlap \in BOOLEAN
    BY Zenon
  <2> QED
    BY <2>1, <2>2, <2>3, <2>4, <2>5, <2>6, <2>7, Zenon DEF TypeOK
<1>2. Shape
  BY DEF Shape, NoTask
<1>3. \A r \in Run : pc[r] = "idle"
  OBVIOUS
<1>4. Tasks = {} /\ active.step = "none" /\ DOMAIN queue = {}
  BY DEF Tasks, NoTask
<1>5. Plain
  BY DEF Plain, Idle
<1>6. EachUpdateOnce
  <2>1. sound = {} /\ 1 .. lastUpdate = {}
    OBVIOUS
  <2> QED
    BY <2>1 DEF EachUpdateOnce
<1>7. LastPlaceFollows
  BY DEF LastPlaceFollows
<1>8. Alone /\ Onward /\ AtDay /\ ResultOk
  BY <1>3 DEF Alone, Onward, AtDay, ResultOk
<1>9. OwnTask /\ SavedRow /\ Single /\ Current
  BY <1>4 DEF OwnTask, SavedRow, Single, Current
<1> QED
  BY <1>1, <1>2, <1>5, <1>6, <1>7, <1>8, <1>9 DEF IInv, Struct

LEMMA StepInv == IInv /\ [Next]_vars => IInv'
<1> SUFFICES ASSUME IInv, [Next]_vars PROVE IInv'
  OBVIOUS
<1>1. TypeOK'
  BY TypeStep DEF IInv, Struct
<1>2. Shape' /\ AtDay' /\ SavedRow' /\ Plain'
  BY ShapeStep, AtDayStep, SavedRowStep, PlainStep DEF IInv, Struct
<1>3. Single' /\ Current'
  BY <1>1, SingleStep, CurrentStep DEF IInv, Struct
<1>4. Alone' /\ Onward'
  BY AloneStep, OnwardStep DEF IInv, Struct
<1>5. OwnTask' /\ ResultOk'
  BY OwnTaskStep, ResultOkStep DEF IInv, Struct
<1>6. EachUpdateOnce' /\ LastPlaceFollows'
  BY EachUpdateOnceStep, LastPlaceFollowsStep DEF IInv, Struct
<1> QED
  BY <1>1, <1>2, <1>3, <1>4, <1>5, <1>6 DEF IInv, Struct

LEMMA SpecInv == Spec => []IInv
  BY InitInv, StepInv, PTL DEF Spec

(* The jobs, the runs, the rows and the places queue of the ranking worker *)
(* keep their types, whatever fails, times out or is taken again.          *)
THEOREM TypeCorrect == Spec => []TypeOK
<1>1. IInv => TypeOK
  BY DEF IInv, Struct
<1> QED
  BY <1>1, SpecInv, PTL

(* With no two runs at work at once, the place of every player on a day    *)
(* calculated on top of the days before it went through every update up to *)
(* that day exactly once, whatever failed jobs, stale place jobs, retries  *)
(* and crashes came before (calculation.service.ts, places.processor.ts);  *)
(* and without jobs for chosen days that is every day up to                *)
(* calculationLastUpdate.                                                  *)
THEOREM UpdatesAreExact == Spec => []EachUpdateOnce
<1>1. IInv => EachUpdateOnce
  BY DEF IInv
<1> QED
  BY <1>1, SpecInv, PTL

(* With no two runs at work at once, the RankingLastPlace that the hooks   *)
(* of the rows keep never lags behind calculationLastUpdate, and has the   *)
(* exact level if it is of a day that was calculated soundly.              *)
THEOREM LastPlaceIsExact == Spec => []LastPlaceFollows
<1>1. IInv => LastPlaceFollows
  BY DEF IInv
<1> QED
  BY <1>1, SpecInv, PTL

-----------------------------------------------------------------------------
(* The levels (RankingLevels), for any number of levels, caps, limits and  *)
(* disciplines and any games in a period.  What is needed of Max and Min   *)
(* is stated first, and what the helpers of an update return.              *)

LEMMA MaxIs ==
  ASSUME NEW S, S \subseteq Int, NEW m \in S, \A x \in S : x <= m
  PROVE  Max(S) = m
<1>1. m \in S /\ \A x \in S : m >= x
  OBVIOUS
<1>2. Max(S) \in S /\ \A x \in S : Max(S) >= x
  BY <1>1 DEF Max
<1>3. Max(S) \in Int /\ m \in Int /\ Max(S) >= m /\ m >= Max(S)
  BY <1>1, <1>2
<1> QED
  BY <1>3

LEMMA MinIs ==
  ASSUME NEW S, S \subseteq Int, NEW m \in S, \A x \in S : m <= x
  PROVE  Min(S) = m
<1>1. m \in S /\ \A x \in S : m <= x
  OBVIOUS
<1>2. Min(S) \in S /\ \A x \in S : Min(S) <= x
  BY <1>1 DEF Min
<1>3. Min(S) \in Int /\ m \in Int /\ Min(S) <= m /\ m <= Min(S)
  BY <1>1, <1>2
<1> QED
  BY <1>3

LEMMA MaxOfTwo ==
  ASSUME NEW a \in Int, NEW b \in Int
  PROVE  Max({a, b}) = IF a >= b THEN a ELSE b
<1>1. CASE a >= b
  BY <1>1, MaxIs
<1>2. CASE ~(a >= b)
  BY <1>2, MaxIs
<1> QED
  BY <1>1, <1>2

LEMMA MinOfTwo ==
  ASSUME NEW a \in Int, NEW b \in Int
  PROVE  Min({a, b}) = IF a <= b THEN a ELSE b
<1>1. CASE a <= b
  BY <1>1, MinIs
<1>2. CASE ~(a <= b)
  BY <1>2, MinIs
<1> QED
  BY <1>1, <1>2

(* The level found going up is the first one whose cap is not reached. *)
LEMMA TopLevelIs ==
  ASSUME NEW l \in Level, NEW points
  PROVE  /\ TopLevel(l, points) \in 1 .. l
         /\ \A e \in TopLevel(l, points) + 1 .. l : ~(PointsToGoUp[AmountOfLevels - e] > points)
         /\ TopLevel(l, points) # 1 =>
              PointsToGoUp[AmountOfLevels - TopLevel(l, points)] > points
<1> USE SystemIsValid DEF Level
<1> DEFINE S == {1} \cup {e \in 2 .. l : PointsToGoUp[AmountOfLevels - e] > points}
<1>1. S \subseteq 0 .. l /\ S # {} /\ l \in Nat
  OBVIOUS
<1>2. PICK m \in S : \A x \in S : x <= m
  <2> HIDE DEF S
  <2> QED
    BY <1>1, Greatest
<1>3. TopLevel(l, points) = m
  <2>1. Max(S) = m
    <3>1. S \subseteq Int
      BY <1>1
    <3> HIDE DEF S
    <3> QED
      BY <1>2, <3>1, MaxIs
  <2> QED
    BY <2>1 DEF TopLevel
<1>4. \A e \in m + 1 .. l : e \in 2 .. l /\ e \notin S
  BY <1>2
<1>5. m \in 1 .. l /\ (m # 1 => PointsToGoUp[AmountOfLevels - m] > points)
  BY <1>2
<1> QED
  BY <1>3, <1>4, <1>5

LEMMA BottomLevelIs ==
  ASSUME NEW l \in Level, NEW points
  PROVE  /\ BottomLevel(l, points) \in l .. AmountOfLevels
         /\ \A e \in l .. BottomLevel(l, points) - 1 :
              ~(PointsToGoDown[AmountOfLevels - 1 - e] < points)
         /\ BottomLevel(l, points) # AmountOfLevels =>
              PointsToGoDown[AmountOfLevels - 1 - BottomLevel(l, points)] < points
<1> USE SystemIsValid DEF Level
<1> DEFINE S == {AmountOfLevels} \cup
                {e \in l .. AmountOfLevels - 1 : PointsToGoDown[AmountOfLevels - 1 - e] < points}
<1>1. S \subseteq Nat /\ S # {} /\ S \subseteq l .. AmountOfLevels
  OBVIOUS
<1>2. PICK m \in S : \A x \in S : m <= x
  <2> HIDE DEF S
  <2> QED
    BY <1>1, Least
<1>3. BottomLevel(l, points) = m
  <2>1. Min(S) = m
    <3>1. S \subseteq Int
      BY <1>1
    <3> HIDE DEF S
    <3> QED
      BY <1>2, <3>1, MinIs
  <2> QED
    BY <2>1 DEF BottomLevel
<1>4. \A e \in l .. m - 1 : e \in l .. AmountOfLevels - 1 /\ e \notin S
  BY <1>1, <1>2
<1>5. m \in l .. AmountOfLevels
      /\ (m # AmountOfLevels => PointsToGoDown[AmountOfLevels - 1 - m] < points)
  BY <1>2
<1> QED
  BY <1>3, <1>4, <1>5

(* A player moves by the numbers of levels the system allows. *)
LEMMA FindRankingIs ==
  ASSUME NEW l \in Level, NEW up, NEW down
  PROVE  /\ FindRanking(l, up, down) \in Level
         /\ FindRanking(l, up, down) \in l - MaxLevelUp .. l + MaxLevelDown
         /\ FindRanking(l, up, down) < l =>
              /\ TopLevel(l, up) <= FindRanking(l, up, down)
         /\ FindRanking(l, up, down) > l =>
              /\ FindRanking(l, up, down) <= BottomLevel(l, down)
         /\ TopLevel(l, up) = l /\ BottomLevel(l, down) = l => FindRanking(l, up, down) = l
         /\ TopLevel(l, up) = l => FindRanking(l, up, down) >= l
<1> DEFINE top == TopLevel(l, up)
           bottom == BottomLevel(l, down)
<1>0. l \in Int /\ AmountOfLevels \in Int /\ MaxLevelUp \in Nat \ {0} /\ MaxLevelDown \in Nat \ {0}
      /\ l >= 1 /\ l <= AmountOfLevels
  BY SystemIsValid DEF Level
<1>1. top \in 1 .. l /\ bottom \in l .. AmountOfLevels
  BY TopLevelIs, BottomLevelIs
<1>2. FindRanking(l, up, down) =
        IF top < l THEN Max({top, l - MaxLevelUp}) ELSE Min({bottom, l + MaxLevelDown})
  BY DEF FindRanking
<1> HIDE DEF top, bottom
<1>3. Max({top, l - MaxLevelUp}) = IF top >= l - MaxLevelUp THEN top ELSE l - MaxLevelUp
  BY <1>0, <1>1, MaxOfTwo
<1>4. Min({bottom, l + MaxLevelDown}) = IF bottom <= l + MaxLevelDown THEN bottom ELSE l + MaxLevelDown
  BY <1>0, <1>1, MinOfTwo
<1>5. /\ FindRanking(l, up, down) \in 1 .. AmountOfLevels
      /\ FindRanking(l, up, down) \in l - MaxLevelUp .. l + MaxLevelDown
      /\ FindRanking(l, up, down) < l => top <= FindRanking(l, up, down)
      /\ FindRanking(l, up, down) > l => FindRanking(l, up, down) <= bottom
      /\ top = l /\ bottom = l => FindRanking(l, up, down) = l
      /\ top = l => FindRanking(l, up, down) >= l
  BY <1>0, <1>1, <1>2, <1>3, <1>4
<1> QED
  BY <1>5 DEF top, bottom, Level

LEMMA NewPlaceIs ==
  ASSUME NEW l \in Level, NEW was \in BOOLEAN, NEW is \in BOOLEAN, NEW games
  PROVE  /\ NewPlace(l, was, games, is) \in Nat \ {0}
         /\ NewPlace(l, was, games, is) >= l - MaxLevelUp
         /\ NewPlace(l, was, games, is) > l + MaxLevelDown =>
              is /\ NewPlace(l, was, games, is) = l + 2
         /\ was /\ is => NewPlace(l, was, games, is) <= l
<1>1. l \in Nat \ {0} /\ MaxLevelUp \in Nat /\ MaxLevelDown \in Nat
  BY SystemIsValid DEF Level
<1>2. PICK found \in Level :
        /\ found \in l - MaxLevelUp .. l + MaxLevelDown
        /\ NewPlace(l, was, games, is) =
             IF found <= l THEN found
             ELSE IF is THEN IF Freeze \/ was THEN l ELSE l + 2
             ELSE IF Len(games) <= GamesForInactivity THEN l
             ELSE found
  BY FindRankingIs DEF NewPlace
<1>3. found \in Nat \ {0}
  BY SystemIsValid DEF Level
<1> QED
  BY <1>1, <1>2, <1>3

(* What the protection makes of levels: e has the best of them. *)
LEMMA ProtectedIs ==
  ASSUME NEW levels \in [Discipline -> Nat \ {0}], NEW e \in Discipline,
         \A d \in Discipline : levels[e] <= levels[d], NEW d \in Discipline
  PROVE  Protected(levels)[d] =
           IF levels[d] <= levels[e] + MaxDiffLevels /\ levels[d] <= AmountOfLevels
           THEN levels[d]
           ELSE IF levels[e] + MaxDiffLevels <= AmountOfLevels
           THEN levels[e] + MaxDiffLevels ELSE AmountOfLevels
<1> DEFINE x == levels[d]
           y == levels[e] + MaxDiffLevels
           all == {levels[c] : c \in Discipline}
<1>1. Min(all) = levels[e]
  <2>1. all \subseteq Int /\ levels[e] \in all /\ \A z \in all : levels[e] <= z
    OBVIOUS
  <2> HIDE DEF all
  <2> QED
    BY <2>1, MinIs
<1>2. Protected(levels)[d] = Min({x, y, AmountOfLevels})
  BY <1>1 DEF Protected
<1>3. x \in Int /\ y \in Int /\ AmountOfLevels \in Int
  BY SystemIsValid
<1> HIDE DEF x, y
<1>4. ASSUME x <= y /\ x <= AmountOfLevels
      PROVE  Min({x, y, AmountOfLevels}) = x
  BY <1>3, <1>4, MinIs
<1>5. ASSUME ~(x <= y /\ x <= AmountOfLevels), y <= AmountOfLevels
      PROVE  Min({x, y, AmountOfLevels}) = y
  BY <1>3, <1>5, MinIs
<1>6. ASSUME ~(x <= y /\ x <= AmountOfLevels), ~(y <= AmountOfLevels)
      PROVE  Min({x, y, AmountOfLevels}) = AmountOfLevels
  BY <1>3, <1>6, MinIs
<1>7. Min({x, y, AmountOfLevels}) =
        IF x <= y /\ x <= AmountOfLevels THEN x ELSE IF y <= AmountOfLevels THEN y ELSE AmountOfLevels
  BY <1>4, <1>5, <1>6
<1> QED
  BY <1>2, <1>7 DEF x, y

LEMMA SomeBest ==
  ASSUME NEW levels \in [Discipline -> Nat \ {0}], Discipline # {}
  PROVE  \E e \in Discipline : \A d \in Discipline : levels[e] <= levels[d]
<1> DEFINE all == {levels[d] : d \in Discipline}
<1>1. all \subseteq Nat /\ all # {}
  OBVIOUS
<1>2. PICK x \in all : \A y \in all : x <= y
  <2> HIDE DEF all
  <2> QED
    BY <1>1, Least
<1>3. PICK e \in Discipline : x = levels[e]
  OBVIOUS
<1> QED
  BY <1>2, <1>3

(* Protecting twice is protecting once: what it leaves is in order. *)
LEMMA ProtectedIsHeld ==
  ASSUME NEW levels \in [Discipline -> Nat \ {0}]
  PROVE  Protected(levels) \in Held
<1> DEFINE new == Protected(levels)
<1>1. CASE Discipline = {}
  BY <1>1 DEF Protected, Held
<1>2. CASE Discipline # {}
  <2>1. PICK e \in Discipline : \A d \in Discipline : levels[e] <= levels[d]
    BY <1>2, SomeBest
  <2>2. \A d \in Discipline :
          new[d] = IF levels[d] <= levels[e] + MaxDiffLevels /\ levels[d] <= AmountOfLevels
                   THEN levels[d]
                   ELSE IF levels[e] + MaxDiffLevels <= AmountOfLevels
                   THEN levels[e] + MaxDiffLevels ELSE AmountOfLevels
    BY <2>1, ProtectedIs
  <2>3. AmountOfLevels \in Nat \ {0} /\ MaxDiffLevels \in Nat \ {0}
    BY SystemIsValid
  <2>4. \A d \in Discipline : levels[d] \in Nat \ {0}
    OBVIOUS
  <2>5. \A d \in Discipline : new[d] \in 1 .. AmountOfLevels /\ new[e] <= new[d]
                              /\ new[d] <= new[e] + MaxDiffLevels
    <3> HIDE DEF new
    <3> QED
      BY <2>1, <2>2, <2>3, <2>4
  <2>6. new \in [Discipline -> Level]
    BY <2>5 DEF Protected, Level
  <2>7. new \in [Discipline -> Nat \ {0}]
    BY <2>6, <2>3 DEF Level
  <2>8. \A d \in Discipline : Protected(new)[d] = new[d]
    <3> HIDE DEF new
    <3> SUFFICES ASSUME NEW d \in Discipline PROVE Protected(new)[d] = new[d]
      OBVIOUS
    <3>1. Protected(new)[d] =
           IF new[d] <= new[e] + MaxDiffLevels /\ new[d] <= AmountOfLevels
           THEN new[d]
           ELSE IF new[e] + MaxDiffLevels <= AmountOfLevels
           THEN new[e] + MaxDiffLevels ELSE AmountOfLevels
      BY <2>5, <2>7, ProtectedIs
    <3> QED
      BY <3>1, <2>5
  <2>9. Protected(new) = new
    BY <2>6, <2>8 DEF Protected
  <2> QED
    BY <2>6, <2>9 DEF Held
<1> QED
  BY <1>1, <1>2

(* What an effect does is what some games do. *)
LEMMA EffectIs ==
  ASSUME NEW x \in Effect, NEW l \in Level, NEW w \in BOOLEAN
  PROVE  \E g \in Window, is \in BOOLEAN :
           /\ is \in MayBeInactive(g) /\ x.inactive = is
           /\ x.place[l][w] = NewPlace(l, w, g, is)
           /\ \A y \in Level, v \in BOOLEAN : x.place[y][v] = NewPlace(y, v, g, is)
<1>1. PICK g \in Window : \E is \in MayBeInactive(g) :
        x = [place |-> [y \in Level |-> [was \in BOOLEAN |-> NewPlace(y, was, g, is)]],
             inactive |-> is]
  BY DEF Effect
<1>2. PICK is \in MayBeInactive(g) :
        x = [place |-> [y \in Level |-> [was \in BOOLEAN |-> NewPlace(y, was, g, is)]],
             inactive |-> is]
  BY <1>1
<1>3. is \in BOOLEAN
  BY DEF MayBeInactive
<1>4. x.inactive = is /\ \A y \in Level, v \in BOOLEAN : x.place[y][v] = NewPlace(y, v, g, is)
  BY <1>2
<1> QED
  BY <1>3, <1>4

(* One update of one player, for every system of levels. *)
LEMMA UpdateBounded == UpdateStaysInBounds
<1> SUFFICES ASSUME NEW old \in Held, NEW was \in [Discipline -> BOOLEAN],
                    NEW new \in Updated(old, was)
             PROVE  /\ new.level \in Held
                    /\ \A d \in Discipline :
                         /\ old[d] - new.level[d] > MaxLevelUp =>
                              \E e \in Discipline : new.level[d] = new.level[e] + MaxDiffLevels
                         /\ new.level[d] - old[d] > MaxLevelDown =>
                              new.inactive[d] /\ new.level[d] = old[d] + 2
                         /\ was[d] /\ new.inactive[d] => new.level[d] <= old[d]
  BY DEF UpdateStaysInBounds
<1>1. old \in [Discipline -> Level]
  BY DEF Held
<1>2. PICK f : /\ \A d \in Discipline : f[d] \in Outcome[old[d]][was[d]]
               /\ new = [level |-> Protected([d \in Discipline |-> f[d].level]),
                         inactive |-> [d \in Discipline |-> f[d].inactive]]
  BY DEF Updated
<1> DEFINE found == [d \in Discipline |-> f[d].level]
<1>3. \A d \in Discipline :
        /\ new.inactive[d] \in BOOLEAN
        /\ found[d] \in Nat \ {0}
        /\ found[d] >= old[d] - MaxLevelUp
        /\ found[d] > old[d] + MaxLevelDown => new.inactive[d] /\ found[d] = old[d] + 2
        /\ was[d] /\ new.inactive[d] => found[d] <= old[d]
  <2> SUFFICES ASSUME NEW d \in Discipline
               PROVE  /\ new.inactive[d] \in BOOLEAN
                      /\ found[d] \in Nat \ {0}
                      /\ found[d] >= old[d] - MaxLevelUp
                      /\ found[d] > old[d] + MaxLevelDown => new.inactive[d] /\ found[d] = old[d] + 2
                      /\ was[d] /\ new.inactive[d] => found[d] <= old[d]
    OBVIOUS
  <2>1. old[d] \in Level /\ was[d] \in BOOLEAN
    BY <1>1
  <2>0. PICK g \in Window : \E is \in MayBeInactive(g) :
          f[d] = [level |-> NewPlace(old[d], was[d], g, is), inactive |-> is]
    <3>1. PICK x \in Effect :
            f[d] = [level |-> x.place[old[d]][was[d]], inactive |-> x.inactive]
      BY <1>2, <2>1 DEF Outcome
    <3>2. PICK g \in Window, is \in BOOLEAN :
            /\ is \in MayBeInactive(g) /\ x.inactive = is
            /\ x.place[old[d]][was[d]] = NewPlace(old[d], was[d], g, is)
      BY <2>1, EffectIs
    <3> QED
      BY <3>1, <3>2
  <2>2. PICK is \in MayBeInactive(g) :
          f[d] = [level |-> NewPlace(old[d], was[d], g, is), inactive |-> is]
    BY <2>0
  <2>3. is \in BOOLEAN
    BY <2>2 DEF MayBeInactive
  <2>4. f[d].level = NewPlace(old[d], was[d], g, is) /\ f[d].inactive = is
    BY <2>2
  <2>5. found[d] = f[d].level /\ new.inactive[d] = f[d].inactive
    BY <1>2
  <2> QED
    BY <2>1, <2>3, <2>4, <2>5, NewPlaceIs
<1>4. found \in [Discipline -> Nat \ {0}] /\ new.level = Protected(found)
  BY <1>2, <1>3
<1>5. new.level \in Held
  BY <1>4, ProtectedIsHeld
<1>6. ASSUME NEW d \in Discipline
      PROVE  /\ old[d] - new.level[d] > MaxLevelUp =>
                  \E e \in Discipline : new.level[d] = new.level[e] + MaxDiffLevels
             /\ new.level[d] - old[d] > MaxLevelDown =>
                  new.inactive[d] /\ new.level[d] = old[d] + 2
             /\ was[d] /\ new.inactive[d] => new.level[d] <= old[d]
  <2>1. PICK e \in Discipline : \A c \in Discipline : found[e] <= found[c]
    BY <1>4, SomeBest
  <2> HIDE DEF found
  <2>2. /\ new.level[d] =
             IF found[d] <= found[e] + MaxDiffLevels /\ found[d] <= AmountOfLevels
             THEN found[d]
             ELSE IF found[e] + MaxDiffLevels <= AmountOfLevels
             THEN found[e] + MaxDiffLevels ELSE AmountOfLevels
        /\ new.level[e] =
             IF found[e] <= found[e] + MaxDiffLevels /\ found[e] <= AmountOfLevels
             THEN found[e]
             ELSE IF found[e] + MaxDiffLevels <= AmountOfLevels
             THEN found[e] + MaxDiffLevels ELSE AmountOfLevels
    BY <1>4, <2>1, ProtectedIs
  <2>3. /\ found[d] \in Nat \ {0} /\ found[e] \in Nat \ {0}
        /\ old[d] \in 1 .. AmountOfLevels /\ AmountOfLevels \in Nat
        /\ MaxDiffLevels \in Nat \ {0} /\ MaxLevelUp \in Nat \ {0} /\ MaxLevelDown \in Nat \ {0}
    BY <1>1, <1>4, SystemIsValid DEF Level
  <2>4. /\ found[d] >= old[d] - MaxLevelUp
        /\ found[d] > old[d] + MaxLevelDown => new.inactive[d] /\ found[d] = old[d] + 2
        /\ was[d] /\ new.inactive[d] => found[d] <= old[d]
    BY <1>3
  <2>5. ASSUME old[d] - new.level[d] > MaxLevelUp
        PROVE  new.level[d] = new.level[e] + MaxDiffLevels
    BY <2>2, <2>3, <2>4, <2>5
  <2>6. ASSUME new.level[d] - old[d] > MaxLevelDown
        PROVE  new.inactive[d] /\ new.level[d] = old[d] + 2
    BY <2>2, <2>3, <2>4, <2>6
  <2>7. was[d] /\ new.inactive[d] => new.level[d] <= old[d]
    BY <2>2, <2>3, <2>4
  <2> QED
    BY <2>5, <2>6, <2>7
<1> QED
  BY <1>5, <1>6

-----------------------------------------------------------------------------
(* Recursive functions exist: a function from a first value and steps.  The *)
(* induction is a least counterexample.                                     *)
LEMMA Recursion ==
  ASSUME NEW n \in Nat, NEW base \in Nat, NEW step \in [1 .. n -> [Nat -> Nat]]
  PROVE  \E f \in [0 .. n -> Nat] : f[0] = base /\ \A k \in 1 .. n : f[k] = step[k][f[k - 1]]
<1> DEFINE Good(m) == \E f \in [0 .. m -> Nat] :
                        f[0] = base /\ \A k \in 1 .. m : f[k] = step[k][f[k - 1]]
           h == [k \in 0 .. 0 |-> base]
<1>1. Good(0)
  <2>1. h \in [0 .. 0 -> Nat] /\ h[0] = base /\ \A k \in 1 .. 0 : h[k] = step[k][h[k - 1]]
    OBVIOUS
  <2> HIDE DEF h
  <2> QED
    BY <2>1
<1>2. ASSUME NEW m \in 1 .. n, Good(m - 1) PROVE Good(m)
  <2>1. PICK f \in [0 .. m - 1 -> Nat] :
          f[0] = base /\ \A k \in 1 .. m - 1 : f[k] = step[k][f[k - 1]]
    BY <1>2
  <2> DEFINE g == [k \in 0 .. m |-> IF k = m THEN step[m][f[m - 1]] ELSE f[k]]
  <2>2. m - 1 \in 0 .. m - 1 /\ m \in Nat \ {0} /\ \A k \in 0 .. m : k # m => k \in 0 .. m - 1
    OBVIOUS
  <2>3. step[m][f[m - 1]] \in Nat
    BY <2>2
  <2>4. g \in [0 .. m -> Nat]
    <3>1. ASSUME NEW k \in 0 .. m PROVE (IF k = m THEN step[m][f[m - 1]] ELSE f[k]) \in Nat
      BY <2>2, <2>3
    <3> QED
      BY <3>1
  <2>5. g[0] = base
    BY <2>1, <2>2
  <2>6. ASSUME NEW k \in 1 .. m PROVE g[k] = step[k][g[k - 1]]
    <3>1. CASE k = m
      BY <3>1, <2>2
    <3>2. CASE k # m
      <4>1. k \in 1 .. m - 1 /\ k \in 0 .. m /\ k - 1 \in 0 .. m /\ k - 1 # m
        BY <3>2, <2>2
      <4>2. g[k] = f[k] /\ g[k - 1] = f[k - 1]
        BY <3>2, <4>1
      <4>3. f[k] = step[k][f[k - 1]]
        BY <2>1, <4>1
      <4> HIDE DEF g
      <4> QED
        BY <4>2, <4>3
    <3> QED
      BY <3>1, <3>2
  <2> HIDE DEF g
  <2> QED
    BY <2>4, <2>5, <2>6
<1> HIDE DEF Good
<1> DEFINE Bad == {m \in 0 .. n : ~Good(m)}
<1>3. Bad = {}
  <2> SUFFICES ASSUME Bad # {} PROVE FALSE
    OBVIOUS
  <2>1. PICK m \in Bad : \A k \in Bad : m <= k
    <3>1. Bad \subseteq Nat
      OBVIOUS
    <3> HIDE DEF Bad
    <3> QED
      BY <3>1, Least
  <2>2. m \in 1 .. n
    BY <1>1, <2>1
  <2>3. m - 1 \in 0 .. n /\ m - 1 \notin Bad
    BY <2>1, <2>2
  <2>4. Good(m - 1)
    BY <2>3
  <2> QED
    BY <1>2, <2>1, <2>2, <2>4
<1>4. \A m \in 0 .. n : Good(m)
  BY <1>3
<1>5. Good(n)
  BY <1>4
<1> QED
  BY <1>5 DEF Good

(* The points of the first k games. *)
LEMMA TotalIs ==
  ASSUME NEW games, NEW order, NEW n \in Nat,
         \A k \in 1 .. n : games[order[k]].points \in Nat
  PROVE  /\ Total(games, order, n) \in [0 .. n -> Nat]
         /\ Total(games, order, n)[0] = 0
         /\ \A k \in 1 .. n : Total(games, order, n)[k] =
              Total(games, order, n)[k - 1] + games[order[k]].points
<1> DEFINE v(k) == games[order[k]].points
           step == [k \in 1 .. n |-> [x \in Nat |-> x + v(k)]]
           T == Total(games, order, n)
<1>1. step \in [1 .. n -> [Nat -> Nat]]
  OBVIOUS
<1>2. PICK f \in [0 .. n -> Nat] : f[0] = 0 /\ \A k \in 1 .. n : f[k] = step[k][f[k - 1]]
  <2> HIDE DEF step
  <2> QED
    BY <1>1, Recursion
<1>3. ASSUME NEW k \in 0 .. n PROVE f[k] = IF k = 0 THEN 0 ELSE f[k - 1] + v(k)
  <2>1. CASE k = 0
    BY <1>2, <2>1
  <2>2. CASE k # 0
    <3>1. k \in 1 .. n /\ k - 1 \in 0 .. n
      BY <2>2
    <3>2. f[k - 1] \in Nat
      BY <3>1
    <3> QED
      BY <1>2, <2>2, <3>1, <3>2
  <2> QED
    BY <2>1, <2>2
<1>4. f = [k \in 0 .. n |-> IF k = 0 THEN 0 ELSE f[k - 1] + v(k)]
  BY <1>3
<1>5. T = [k \in 0 .. n |-> IF k = 0 THEN 0 ELSE T[k - 1] + games[order[k]].points]
  BY <1>4 DEF Total
<1> HIDE DEF T
<1>6. T[0] = 0 /\ \A k \in 1 .. n : T[k] = T[k - 1] + v(k)
  BY <1>5
<1> DEFINE Bad == {k \in 0 .. n : T[k] \notin Nat}
<1>7. Bad = {}
  <2> SUFFICES ASSUME Bad # {} PROVE FALSE
    OBVIOUS
  <2>1. PICK k \in Bad : \A m \in Bad : k <= m
    <3>1. Bad \subseteq Nat
      OBVIOUS
    <3> HIDE DEF Bad
    <3> QED
      BY <3>1, Least
  <2>2. k \in 1 .. n /\ k - 1 \in 0 .. n /\ k - 1 \notin Bad
    BY <1>6, <2>1
  <2>3. T[k - 1] \in Nat /\ v(k) \in Nat
    BY <2>2
  <2> QED
    BY <1>6, <2>1, <2>2, <2>3
<1>8. T \in [0 .. n -> Nat]
  BY <1>5, <1>7
<1> QED
  BY <1>6, <1>8 DEF T

(* Orders that agree on the first games agree on their points. *)
LEMMA TotalsAgree ==
  ASSUME NEW games, NEW f, NEW g, NEW n \in Nat, NEW m \in 0 .. n,
         \A k \in 1 .. n : games[f[k]].points \in Nat,
         \A k \in 1 .. m : f[k] = g[k]
  PROVE  Total(games, g, m)[m] = Total(games, f, n)[m]
<1> DEFINE F == Total(games, f, n)
           G == Total(games, g, m)
<1>1. /\ F \in [0 .. n -> Nat] /\ F[0] = 0
      /\ \A k \in 1 .. n : F[k] = F[k - 1] + games[f[k]].points
  BY TotalIs
<1>2. /\ G \in [0 .. m -> Nat] /\ G[0] = 0
      /\ \A k \in 1 .. m : G[k] = G[k - 1] + games[g[k]].points
  BY TotalIs
<1> HIDE DEF F, G
<1> DEFINE Bad == {k \in 0 .. m : F[k] # G[k]}
<1>3. Bad = {}
  <2> SUFFICES ASSUME Bad # {} PROVE FALSE
    OBVIOUS
  <2>1. PICK k \in Bad : \A i \in Bad : k <= i
    <3>1. Bad \subseteq Nat
      OBVIOUS
    <3> HIDE DEF Bad
    <3> QED
      BY <3>1, Least
  <2>2. k \in 1 .. m /\ k \in 1 .. n /\ k - 1 \in 0 .. m /\ k - 1 \notin Bad
    BY <1>1, <1>2, <2>1
  <2>3. F[k - 1] = G[k - 1] /\ f[k] = g[k]
    BY <2>2
  <2> QED
    BY <1>1, <1>2, <2>1, <2>2, <2>3
<1> QED
  BY <1>3 DEF F, G

Without(f, m, n) == [i \in 1 .. n |-> IF i < m THEN f[i] ELSE f[i + 1]]

(* The points are those of one game and of the others. *)
LEMMA TotalWithout ==
  ASSUME NEW games, NEW n \in Nat, NEW f, NEW m \in 1 .. n + 1,
         \A k \in 1 .. n + 1 : games[f[k]].points \in Nat
  PROVE  Total(games, f, n + 1)[n + 1] =
         Total(games, Without(f, m, n), n)[n] + games[f[m]].points
<1> DEFINE g == Without(f, m, n)
           F == Total(games, f, n + 1)
           G == Total(games, g, n)
           p(x) == games[x].points
<1>1. \A k \in 1 .. n : g[k] = IF k < m THEN f[k] ELSE f[k + 1]
  BY DEF Without
<1>2. \A k \in 1 .. n : p(g[k]) \in Nat
  BY <1>1
<1>3. n + 1 \in Nat
  OBVIOUS
<1>4. /\ F \in [0 .. n + 1 -> Nat] /\ F[0] = 0
      /\ \A k \in 1 .. n + 1 : F[k] = F[k - 1] + p(f[k])
  BY <1>3, TotalIs
<1>5. /\ G \in [0 .. n -> Nat] /\ G[0] = 0
      /\ \A k \in 1 .. n : G[k] = G[k - 1] + p(g[k])
  <2> HIDE DEF g
  <2> QED
    BY <1>2, TotalIs
<1>6. \A k \in 1 .. n + 1 : p(f[k]) \in Nat
  OBVIOUS
<1> HIDE DEF F, G, g, p
<1> DEFINE Bad == {k \in 0 .. n + 1 :
                     F[k] # IF k < m THEN G[k] ELSE G[k - 1] + p(f[m])}
<1>7. Bad = {}
  <2> SUFFICES ASSUME Bad # {} PROVE FALSE
    OBVIOUS
  <2>1. PICK k \in Bad : \A i \in Bad : k <= i
    <3>1. Bad \subseteq Nat
      OBVIOUS
    <3> HIDE DEF Bad
    <3> QED
      BY <3>1, Least
  <2>0. k # 0
    <3> SUFFICES ASSUME k = 0 PROVE FALSE
      OBVIOUS
    <3>1. F[k] = G[k] /\ k < m
      BY <1>4, <1>5
    <3> QED
      BY <2>1, <3>1
  <2>2. k \in 1 .. n + 1 /\ k - 1 \in 0 .. n + 1 /\ k - 1 \notin Bad
    <3>1. k \in 0 .. n + 1
      BY <2>1
    <3>2. k - 1 \notin Bad
      <4>1. ~(k <= k - 1)
        BY <3>1
      <4> HIDE DEF Bad
      <4> QED
        BY <2>1, <4>1
    <3> HIDE DEF Bad
    <3> QED
      BY <2>0, <3>1, <3>2
  <2>3. F[k] = F[k - 1] + p(f[k]) /\ p(f[k]) \in Nat /\ p(f[m]) \in Nat
    BY <1>4, <1>6, <2>2
  <2>4. CASE k < m
    <3>1. k \in 1 .. n /\ F[k - 1] = G[k - 1] /\ g[k] = f[k]
      BY <1>1, <2>2, <2>4
    <3>2. F[k] = G[k]
      BY <1>5, <2>3, <3>1
    <3> QED
      BY <2>1, <2>4, <3>2
  <2>5. CASE k = m
    <3>1. F[k - 1] = G[k - 1]
      BY <2>2, <2>5
    <3> QED
      BY <2>1, <2>3, <2>5, <3>1
  <2>6. CASE k > m
    <3>1. k - 1 \in 1 .. n /\ F[k - 1] = G[k - 1 - 1] + p(f[m]) /\ g[k - 1] = f[k]
      BY <1>1, <2>2, <2>6
    <3>2. G[k - 1] = G[k - 1 - 1] + p(f[k]) /\ G[k - 1 - 1] \in Nat
      BY <1>5, <3>1
    <3>3. F[k] = G[k - 1] + p(f[m])
      BY <2>3, <3>1, <3>2
    <3> QED
      BY <2>1, <2>6, <3>3
  <2> QED
    BY <2>2, <2>4, <2>5, <2>6
<1>8. F[n + 1] = G[n] + p(f[m])
  BY <1>7
<1> QED
  BY <1>8 DEF F, G, g, p

-----------------------------------------------------------------------------
(* No choice among the games has more points than as many of the best ones. *)

(* b is an order of W from the best game down. *)
Sorted(games, W, b) ==
  /\ b \in Orders(W, Cardinality(W))
  /\ \A i, j \in 1 .. Cardinality(W) : i < j => games[b[i]].points >= games[b[j]].points

LEMMA OrderIs ==
  ASSUME NEW W, NEW n, NEW f
  PROVE  f \in Orders(W, n) <=>
           f \in [1 .. n -> W] /\ \A i, j \in 1 .. n : f[i] = f[j] => i = j
BY DEF Orders, Injection, IsInjective

LEMMA SortedExists ==
  ASSUME NEW games, NEW W, IsFiniteSet(W), \A w \in W : games[w].points \in Nat
  PROVE  Sorted(games, W, BestFirst(games, W))
<1> DEFINE Good(V) == \E f : Sorted(games, V, f)
           Bad == {n \in Nat : \E V \in SUBSET W : Cardinality(V) = n /\ ~Good(V)}
<1>1. Bad = {}
  <2> SUFFICES ASSUME Bad # {} PROVE FALSE
    OBVIOUS
  <2>1. PICK n \in Bad : \A m \in Bad : n <= m
    <3>1. Bad \subseteq Nat
      OBVIOUS
    <3> HIDE DEF Bad
    <3> QED
      BY <3>1, Least
  <2>2. n \in Nat /\ \E V \in SUBSET W : Cardinality(V) = n /\ ~Good(V)
    BY <2>1
  <2>3. PICK V \in SUBSET W : Cardinality(V) = n /\ ~Good(V)
    BY <2>2
  <2>4. IsFiniteSet(V)
    BY FS_Subset
  <2>5. CASE V = {}
    <3> DEFINE e == [i \in 1 .. 0 |-> i]
    <3>1. Cardinality(V) = 0
      BY <2>5, FS_EmptySet
    <3>2. e \in [1 .. 0 -> V] /\ 1 .. 0 = {}
      OBVIOUS
    <3> HIDE DEF e
    <3>3. e \in Orders(V, 0) /\ \A i, j \in 1 .. 0 : i < j => games[e[i]].points >= games[e[j]].points
      BY <3>2, OrderIs
    <3>4. Sorted(games, V, e)
      BY <3>1, <3>3 DEF Sorted
    <3> QED
      BY <2>3, <3>4
  <2>6. CASE V # {}
    <3>1. PICK v \in V : \A w \in V : games[v].points <= games[w].points
      <4> DEFINE P == {games[w].points : w \in V}
      <4>1. P \subseteq Nat /\ P # {}
        BY <2>6
      <4>2. PICK x \in P : \A y \in P : x <= y
        <5> HIDE DEF P
        <5> QED
          BY <4>1, Least
      <4>3. PICK v \in V : x = games[v].points
        OBVIOUS
      <4> QED
        BY <4>2, <4>3
    <3> DEFINE U == V \ {v}
    <3>2. IsFiniteSet(U) /\ Cardinality(U) = n - 1 /\ n - 1 \in Nat
      <4>1. IsFiniteSet(U) /\ Cardinality(U) = n - 1
        BY <2>3, <2>4, FS_RemoveElement
      <4> HIDE DEF U
      <4> QED
        BY <4>1, FS_CardinalityType
    <3>3. n - 1 \notin Bad
      <4>1. ~(n <= n - 1)
        BY <2>2
      <4> HIDE DEF Bad
      <4> QED
        BY <2>1, <4>1
    <3>4. Good(U)
      <4>1. U \in SUBSET W
        OBVIOUS
      <4> HIDE DEF U, Good
      <4> QED
        BY <3>2, <3>3, <4>1
    <3>5. PICK g : Sorted(games, U, g)
      BY <3>4
    <3>6. /\ g \in [1 .. n - 1 -> U] /\ \A i, j \in 1 .. n - 1 : g[i] = g[j] => i = j
          /\ \A i, j \in 1 .. n - 1 : i < j => games[g[i]].points >= games[g[j]].points
      <4> HIDE DEF U
      <4> QED
        BY <3>2, <3>5, OrderIs DEF Sorted
    <3> DEFINE f == [i \in 1 .. n |-> IF i = n THEN v ELSE g[i]]
    <3>7. \A i \in 1 .. n : i # n => i \in 1 .. n - 1 /\ g[i] \in V /\ g[i] # v
      BY <2>2, <3>6
    <3>8. /\ \A i \in 1 .. n : f[i] = IF i = n THEN v ELSE g[i]
          /\ f \in [1 .. n -> V]
      BY <3>7
    <3> HIDE DEF f, U
    <3>9. ASSUME NEW i \in 1 .. n, NEW j \in 1 .. n, f[i] = f[j] PROVE i = j
      BY <3>6, <3>7, <3>8, <3>9
    <3>10. ASSUME NEW i \in 1 .. n, NEW j \in 1 .. n, i < j
           PROVE  games[f[i]].points >= games[f[j]].points
      <4>1. i # n /\ i \in 1 .. n - 1 /\ f[i] = g[i] /\ g[i] \in V
        BY <2>2, <3>7, <3>8, <3>10
      <4>2. CASE j = n
        <5>1. f[j] = v /\ games[v].points \in Nat /\ games[g[i]].points \in Nat
          BY <3>8, <4>1, <4>2
        <5>2. games[v].points <= games[g[i]].points
          BY <3>1, <4>1
        <5> QED
          BY <4>1, <5>1, <5>2
      <4>3. CASE j # n
        BY <3>6, <3>7, <3>8, <3>10, <4>1, <4>3
      <4> QED
        BY <4>2, <4>3
    <3>11. f \in Orders(V, n)
      BY <3>8, <3>9, OrderIs
    <3>12. Sorted(games, V, f)
      BY <2>3, <3>10, <3>11 DEF Sorted
    <3> QED
      BY <2>3, <3>12
  <2> QED
    BY <2>5, <2>6
<1>2. Cardinality(W) \in Nat
  BY FS_CardinalityType
<1>3. Good(W)
  <2>1. W \in SUBSET W
    OBVIOUS
  <2> HIDE DEF Good
  <2> QED
    BY <1>1, <1>2, <2>1
<1>4. \E f \in Orders(W, Cardinality(W)) :
        \A i, j \in 1 .. Cardinality(W) : i < j => games[f[i]].points >= games[f[j]].points
  BY <1>3 DEF Sorted
<1> QED
  BY <1>4 DEF Sorted, BestFirst

LEMMA BestFirstIsBest ==
  ASSUME NEW games, NEW W, IsFiniteSet(W), \A w \in W : games[w].points \in Nat,
         NEW b, Sorted(games, W, b), NEW n \in 1 .. Cardinality(W), NEW order \in Orders(W, n)
  PROVE  Total(games, order, n)[n] <= Total(games, b, Cardinality(W))[n]
<1> DEFINE c == Cardinality(W)
           B == Total(games, b, c)
           Good(k) == \A f \in Orders(W, k) : Total(games, f, k)[k] <= B[k]
           Bad == {k \in 0 .. c : ~Good(k)}
<1>0. c \in Nat
  BY FS_CardinalityType
<1>1. /\ b \in [1 .. c -> W] /\ \A i, j \in 1 .. c : b[i] = b[j] => i = j
      /\ \A i, j \in 1 .. c : i < j => games[b[i]].points >= games[b[j]].points
  BY OrderIs DEF Sorted
<1>2. \A i \in 1 .. c : games[b[i]].points \in Nat
  BY <1>1
<1>3. /\ B \in [0 .. c -> Nat] /\ B[0] = 0
      /\ \A k \in 1 .. c : B[k] = B[k - 1] + games[b[k]].points
  <2> HIDE DEF c
  <2> QED
    BY <1>0, <1>2, TotalIs
<1>4. \A w \in W : \E j \in 1 .. c : b[j] = w
  <2>1. b \in Injection(1 .. c, W)
    BY DEF Sorted, Orders
  <2>2. Cardinality(1 .. c) = c
    <3> HIDE DEF c
    <3> QED
      BY <1>0, FS_Interval
  <2>3. b \in Surjection(1 .. c, W)
    BY <2>1, <2>2, FS_Injection
  <2> QED
    BY <2>3 DEF Surjection
<1> HIDE DEF B, c
<1>5. ASSUME NEW k \in 1 .. c, Good(k - 1), NEW f \in Orders(W, k)
      PROVE  Total(games, f, k)[k] <= B[k]
  <2>0. k \in Nat \ {0} /\ k - 1 \in Nat /\ k = (k - 1) + 1
    BY <1>0
  <2>1. f \in [1 .. k -> W] /\ \A i, j \in 1 .. k : f[i] = f[j] => i = j
    BY OrderIs
  <2>2. PICK m \in 1 .. k, j \in k .. c : f[m] = b[j]
    <3> SUFFICES ASSUME \A m \in 1 .. k, j \in k .. c : f[m] # b[j] PROVE FALSE
      OBVIOUS
    <3> DEFINE First == {b[i] : i \in 1 .. k - 1}
               a == [i \in 1 .. k - 1 |-> b[i]]
    <3>1. \A m \in 1 .. k : f[m] \in First
      <4> SUFFICES ASSUME NEW m \in 1 .. k PROVE f[m] \in First
        OBVIOUS
      <4>1. PICK i \in 1 .. c : b[i] = f[m]
        BY <1>4, <2>1
      <4>2. i \in 1 .. k - 1
        BY <1>0, <2>0, <4>1
      <4> QED
        BY <4>1, <4>2
    <3>2. f \in [1 .. k -> First]
      BY <2>1, <3>1
    <3>3. a \in Surjection(1 .. k - 1, First)
      BY DEF Surjection
    <3> HIDE DEF First, a
    <3>4. f \in Injection(1 .. k, First)
      BY <2>1, <3>2 DEF Injection, IsInjective
    <3>5. /\ IsFiniteSet(1 .. k - 1) /\ Cardinality(1 .. k - 1) = k - 1
          /\ IsFiniteSet(1 .. k) /\ Cardinality(1 .. k) = k
      BY <2>0, FS_Interval
    <3>6. IsFiniteSet(First) /\ Cardinality(First) <= k - 1
      BY <3>3, <3>5, FS_Surjection
    <3>7. k <= Cardinality(First) /\ Cardinality(First) \in Nat
      BY <3>4, <3>5, <3>6, FS_Injection, FS_CardinalityType
    <3> QED
      BY <2>0, <3>6, <3>7
  <2> DEFINE g == Without(f, m, k - 1)
  <2>3. \A i \in 1 .. k : games[f[i]].points \in Nat
    BY <2>1
  <2>4. Total(games, f, k)[k] = Total(games, g, k - 1)[k - 1] + games[f[m]].points
    BY <2>0, <2>3, TotalWithout
  <2>5. g \in Orders(W, k - 1)
    <3>1. \A i \in 1 .. k - 1 : g[i] = (IF i < m THEN f[i] ELSE f[i + 1])
                                /\ i \in 1 .. k /\ i + 1 \in 1 .. k
      BY <2>0 DEF Without
    <3>2. g \in [1 .. k - 1 -> W]
      BY <2>1, <3>1 DEF Without
    <3> HIDE DEF g
    <3>3. ASSUME NEW i \in 1 .. k - 1, NEW h \in 1 .. k - 1, g[i] = g[h] PROVE i = h
      <4>1. i \in Nat /\ h \in Nat /\ m \in Nat
        BY <2>0
      <4> QED
        BY <2>1, <3>1, <3>3, <4>1
    <3> QED
      BY <3>2, <3>3, OrderIs
  <2>6. Total(games, g, k - 1)[k - 1] <= B[k - 1] /\ Total(games, g, k - 1)[k - 1] \in Nat
    <3> HIDE DEF g
    <3>0. g \in [1 .. k - 1 -> W]
      BY <2>5, OrderIs
    <3>1. \A i \in 1 .. k - 1 : games[g[i]].points \in Nat
      BY <3>0
    <3>2. Total(games, g, k - 1) \in [0 .. k - 1 -> Nat]
      BY <2>0, <3>1, TotalIs
    <3> QED
      BY <1>5, <2>0, <2>5, <3>2
  <2>7. games[f[m]].points <= games[b[k]].points
    <3>1. k \in 1 .. c /\ j \in 1 .. c /\ (k = j \/ k < j)
      BY <1>0
    <3>2. games[b[k]].points \in Nat /\ games[b[j]].points \in Nat
      BY <1>2, <3>1
    <3> QED
      BY <1>1, <2>2, <3>1, <3>2
  <2>8. games[f[m]].points \in Nat /\ games[b[k]].points \in Nat /\ B[k - 1] \in Nat
        /\ B[k] = B[k - 1] + games[b[k]].points
    BY <1>0, <1>2, <1>3, <2>0, <2>3
  <2> QED
    BY <2>4, <2>6, <2>7, <2>8
<1>6. Good(0)
  <2> SUFFICES ASSUME NEW f \in Orders(W, 0) PROVE Total(games, f, 0)[0] <= B[0]
    OBVIOUS
  <2>1. Total(games, f, 0)[0] = 0
    <3>1. \A k \in 1 .. 0 : games[f[k]].points \in Nat
      OBVIOUS
    <3> QED
      BY <3>1, TotalIs
  <2> QED
    BY <1>3, <2>1
<1>7. Bad = {}
  <2> SUFFICES ASSUME Bad # {} PROVE FALSE
    OBVIOUS
  <2>1. PICK k \in Bad : \A m \in Bad : k <= m
    <3>1. Bad \subseteq Nat
      OBVIOUS
    <3> HIDE DEF Bad
    <3> QED
      BY <3>1, Least
  <2> HIDE DEF Good
  <2>2. k \in 1 .. c
    BY <1>0, <1>6, <2>1
  <2>3. k - 1 \in 0 .. c /\ k - 1 \notin Bad
    <3>1. k - 1 \in 0 .. c /\ ~(k <= k - 1)
      BY <1>0, <2>2
    <3> HIDE DEF Bad
    <3> QED
      BY <2>1, <3>1
  <2>4. Good(k - 1)
    BY <2>3
  <2>5. Good(k)
    BY <1>5, <2>2, <2>4 DEF Good
  <2> QED
    BY <2>1, <2>5
<1>8. Good(n)
  <2>1. n \in 0 .. c
    BY <1>0 DEF c
  <2> HIDE DEF Good
  <2> QED
    BY <1>7, <2>1
<1> QED
  BY <1>8 DEF B, c

-----------------------------------------------------------------------------
(* The average that counts the best games first is the best average. *)

LEMMA MaxOfList ==
  ASSUME NEW n \in Nat, NEW v \in [1 .. n -> Nat]
  PROVE  \E m \in {0} \cup {v[k] : k \in 1 .. n} :
           \A x \in {0} \cup {v[k] : k \in 1 .. n} : x <= m
<1> DEFINE S(i) == {0} \cup {v[k] : k \in 1 .. i}
           Good(i) == \E m \in S(i) : \A x \in S(i) : x <= m
           Bad == {i \in 0 .. n : ~Good(i)}
<1>1. Good(0)
  OBVIOUS
<1>2. ASSUME NEW i \in 1 .. n, Good(i - 1) PROVE Good(i)
  <2>1. PICK m \in S(i - 1) : \A x \in S(i - 1) : x <= m
    BY <1>2
  <2>2. S(i) = S(i - 1) \cup {v[i]}
    <3>1. \A k \in 1 .. i : k = i \/ k \in 1 .. i - 1
      OBVIOUS
    <3>2. \A k \in 1 .. i - 1 : k \in 1 .. i
      OBVIOUS
    <3> QED
      BY <3>1, <3>2
  <2>3. m \in Nat /\ v[i] \in Nat /\ S(i - 1) \subseteq Nat
    BY <2>1
  <2> HIDE DEF S
  <2>4. CASE v[i] <= m
    BY <2>1, <2>2, <2>3, <2>4
  <2>5. CASE ~(v[i] <= m)
    <3>1. \A x \in S(i) : x <= v[i]
      BY <2>1, <2>2, <2>3, <2>5
    <3> QED
      BY <2>2, <3>1
  <2> QED
    BY <2>4, <2>5
<1> HIDE DEF Good
<1>3. Bad = {}
  <2> SUFFICES ASSUME Bad # {} PROVE FALSE
    OBVIOUS
  <2>1. PICK i \in Bad : \A k \in Bad : i <= k
    <3>1. Bad \subseteq Nat
      OBVIOUS
    <3> HIDE DEF Bad
    <3> QED
      BY <3>1, Least
  <2>2. i \in 1 .. n
    BY <1>1, <2>1
  <2>3. i - 1 \in 0 .. n /\ i - 1 \notin Bad
    BY <2>1, <2>2
  <2>4. Good(i - 1)
    BY <2>3
  <2> QED
    BY <1>2, <2>1, <2>2, <2>4
<1>4. \A i \in 0 .. n : Good(i)
  BY <1>3
<1>5. Good(n)
  BY <1>4
<1> QED
  BY <1>5 DEF Good

LEMMA RoundIs ==
  ASSUME NEW a \in Nat, NEW d \in Nat \ {0}
  PROVE  Round(a, d) \in Nat
         /\ d * Round(a, d) <= a + d \div 2 /\ a + d \div 2 < d * Round(a, d) + d
BY DEF Round

LEMMA RoundGrows ==
  ASSUME NEW a \in Nat, NEW b \in Nat, a <= b, NEW d \in Nat \ {0}
  PROVE  Round(a, d) <= Round(b, d)
<1>1. d \div 2 \in Nat
  OBVIOUS
<1>2. a + d \div 2 \in Nat /\ b + d \div 2 \in Nat /\ a + d \div 2 <= b + d \div 2
  BY <1>1
<1> QED
  BY <1>2 DEF Round

LEMMA GamesToUseIs ==
  ASSUME NEW lost \in Nat, NEW k \in Nat \ {0}, NEW min \in Nat
  PROVE  GamesToUse(lost + k, min) \in Nat \ {0}
BY DEF GamesToUse

LEMMA AverageIsMax ==
  ASSUME NEW games, NEW counted, IsFiniteSet(counted), NEW min \in Nat,
         \A w \in counted : games[w].points \in Nat
  PROVE  LET won == Won(games, counted)
             n == Cardinality(won)
             lost == Cardinality(counted \ won)
             B == Total(games, BestFirst(games, won), n)
             V(k) == Round(B[k], GamesToUse(lost + k, min)) IN
         /\ IsFiniteSet(won) /\ won \subseteq counted /\ n \in Nat /\ lost \in Nat
         /\ B \in [0 .. n -> Nat]
         /\ \A k \in 1 .. n : V(k) \in Nat /\ V(k) <= Average(games, counted, min)
         /\ Average(games, counted, min) \in Nat
         /\ Average(games, counted, min) = 0
            \/ \E k \in 1 .. n : Average(games, counted, min) = V(k)
<1> DEFINE won == Won(games, counted)
           n == Cardinality(won)
           lost == Cardinality(counted \ won)
           b == BestFirst(games, won)
           B == Total(games, b, n)
           V(k) == Round(B[k], GamesToUse(lost + k, min))
<1>1. won \subseteq counted
  BY DEF Won
<1>2. IsFiniteSet(won) /\ n \in Nat /\ lost \in Nat
  <2>1. IsFiniteSet(won) /\ IsFiniteSet(counted \ won)
    <3> HIDE DEF won
    <3> QED
      BY <1>1, FS_Subset
  <2> QED
    BY <2>1, FS_CardinalityType
<1>3. Sorted(games, won, b)
  <2>1. \A w \in won : games[w].points \in Nat
    BY <1>1
  <2> HIDE DEF won
  <2> QED
    BY <1>2, <2>1, SortedExists
<1>4. B \in [0 .. n -> Nat]
  <2>1. b \in [1 .. n -> won]
    <3> HIDE DEF won, b
    <3> QED
      BY <1>3, OrderIs DEF Sorted
  <2>2. \A k \in 1 .. n : games[b[k]].points \in Nat
    BY <1>1, <2>1
  <2> HIDE DEF n, b
  <2> QED
    BY <1>2, <2>2, TotalIs
<1>5. Average(games, counted, min) = Max({0} \cup {V(k) : k \in 1 .. n})
  BY DEF Average
<1> HIDE DEF won, n, lost, b, B
<1>6. \A k \in 1 .. n : V(k) \in Nat
  <2> SUFFICES ASSUME NEW k \in 1 .. n PROVE V(k) \in Nat
    OBVIOUS
  <2>1. B[k] \in Nat /\ k \in Nat \ {0}
    BY <1>2, <1>4
  <2>2. GamesToUse(lost + k, min) \in Nat \ {0}
    BY <1>2, <2>1, GamesToUseIs
  <2> QED
    BY <2>1, <2>2, RoundIs
<1> DEFINE v == [k \in 1 .. n |-> V(k)]
           S == {0} \cup {v[k] : k \in 1 .. n}
<1>7. v \in [1 .. n -> Nat] /\ \A k \in 1 .. n : v[k] = V(k)
  BY <1>6
<1>8. Average(games, counted, min) = Max(S)
  BY <1>5
<1> HIDE DEF V, v
<1>9. PICK m \in S : \A x \in S : x <= m
  BY <1>2, <1>7, MaxOfList
<1>10. S \subseteq Int
  BY <1>7
<1>11. Average(games, counted, min) = m
  <2> HIDE DEF S
  <2> QED
    BY <1>8, <1>9, <1>10, MaxIs
<1>12. \A k \in 1 .. n : V(k) \in Nat /\ V(k) <= m
  BY <1>7, <1>9
<1>13. m \in Nat /\ (m = 0 \/ \E k \in 1 .. n : m = V(k))
  BY <1>7, <1>9
<1> QED
  BY <1>1, <1>2, <1>4, <1>11, <1>12, <1>13 DEF V, B, b, lost, n, won

LEMMA AverageIsBestOne ==
  ASSUME NEW games, NEW counted, IsFiniteSet(counted), NEW min \in Nat,
         \A w \in counted : games[w].points \in Nat
  PROVE  Average(games, counted, min) = Best(games, counted, min)
<1> DEFINE won == Won(games, counted)
           n == Cardinality(won)
           lost == Cardinality(counted \ won)
           b == BestFirst(games, won)
           B == Total(games, b, n)
           U(k) == GamesToUse(lost + k, min)
           Of(k) == {Round(Total(games, f, k)[k], U(k)) : f \in Orders(won, k)}
           S == {0} \cup UNION {Of(k) : k \in 1 .. n}
           A == Average(games, counted, min)
<1>1. /\ IsFiniteSet(won) /\ won \subseteq counted /\ n \in Nat /\ lost \in Nat
      /\ B \in [0 .. n -> Nat]
      /\ \A k \in 1 .. n : Round(B[k], U(k)) \in Nat /\ Round(B[k], U(k)) <= A
      /\ A \in Nat
      /\ A = 0 \/ \E k \in 1 .. n : A = Round(B[k], U(k))
  BY AverageIsMax
<1>2. Best(games, counted, min) = Max(S)
  BY DEF Best
<1>3. \A w \in won : games[w].points \in Nat
  BY <1>1
<1>4. Sorted(games, won, b)
  <2> HIDE DEF won
  <2> QED
    BY <1>1, <1>3, SortedExists
<1> HIDE DEF won, b
<1>5. \A k \in 1 .. n : k \in Nat \ {0} /\ U(k) \in Nat \ {0}
  <2>1. lost \in Nat /\ \A k \in 1 .. n : k \in Nat \ {0}
    BY <1>1
  <2> HIDE DEF lost, n
  <2> QED
    BY <2>1, GamesToUseIs
<1> HIDE DEF U, A, lost
<1>6. ASSUME NEW k \in 1 .. n, NEW f \in Orders(won, k)
      PROVE  /\ Round(Total(games, f, k)[k], U(k)) \in Nat
             /\ Round(Total(games, f, k)[k], U(k)) <= A
  <2>1. Total(games, f, k)[k] <= B[k]
    BY <1>1, <1>3, <1>4, BestFirstIsBest
  <2>2. Total(games, f, k)[k] \in Nat
    <3>1. f \in [1 .. k -> won]
      BY OrderIs
    <3>2. \A i \in 1 .. k : games[f[i]].points \in Nat
      BY <1>3, <3>1
    <3>3. Total(games, f, k) \in [0 .. k -> Nat] /\ k \in 0 .. k
      BY <1>5, <3>2, TotalIs
    <3> QED
      BY <3>3
  <2> HIDE DEF B
  <2>3. B[k] \in Nat /\ U(k) \in Nat \ {0}
    BY <1>1, <1>5
  <2>4. Round(Total(games, f, k)[k], U(k)) <= Round(B[k], U(k))
    BY <2>1, <2>2, <2>3, RoundGrows
  <2>5. Round(Total(games, f, k)[k], U(k)) \in Nat
    BY <2>2, <2>3, RoundIs
  <2> QED
    BY <1>1, <2>4, <2>5
<1>7. ASSUME NEW k \in 1 .. n PROVE Round(B[k], U(k)) \in Of(k)
  <2> DEFINE g == [i \in 1 .. k |-> b[i]]
  <2>1. b \in [1 .. n -> won] /\ \A i, j \in 1 .. n : b[i] = b[j] => i = j
    BY <1>4, OrderIs DEF Sorted
  <2>2. \A i \in 1 .. k : i \in 1 .. n /\ g[i] = b[i]
    BY <1>1
  <2>3. g \in [1 .. k -> won]
    BY <2>1, <2>2
  <2> HIDE DEF g
  <2>4. g \in Orders(won, k)
    BY <2>1, <2>2, <2>3, OrderIs
  <2>5. Total(games, g, k)[k] = B[k]
    <3>1. \A i \in 1 .. n : games[b[i]].points \in Nat
      BY <1>3, <2>1
    <3>2. n \in Nat /\ k \in 0 .. n
      BY <1>1
    <3>3. \A i \in 1 .. k : b[i] = g[i]
      BY <2>2
    <3> HIDE DEF n
    <3> QED
      BY <3>1, <3>2, <3>3, TotalsAgree
  <2> QED
    BY <2>4, <2>5
<1>8. A \in S /\ S \subseteq Int /\ \A x \in S : x <= A
  <2>1. ASSUME NEW x \in S PROVE x \in Nat /\ x <= A
    <3>1. CASE x = 0
      BY <1>1, <3>1
    <3>2. CASE x # 0
      <4>1. PICK k \in 1 .. n : x \in Of(k)
        BY <3>2
      <4>2. PICK f \in Orders(won, k) : x = Round(Total(games, f, k)[k], U(k))
        BY <4>1
      <4> QED
        BY <1>6, <4>2
    <3> QED
      BY <3>1, <3>2
  <2>2. A \in S
    <3> HIDE DEF Of, B, n
    <3>1. CASE A = 0
      BY <3>1
    <3>2. CASE A # 0
      <4>1. PICK k \in 1 .. n : A = Round(B[k], U(k))
        BY <1>1, <3>2
      <4>2. A \in Of(k)
        BY <1>7, <4>1
      <4> QED
        BY <4>2
    <3> QED
      BY <3>1, <3>2
  <2> HIDE DEF S
  <2> QED
    BY <2>1, <2>2
<1>9. Max(S) = A
  <2> HIDE DEF S
  <2> QED
    BY <1>8, MaxIs
<1> QED
  BY <1>2, <1>9 DEF A

(* The points and the numbers of a power are natural numbers. *)
LEMMA PowerIs ==
  ASSUME NEW b \in Nat \ {0}
  PROVE  /\ \A x \in 0 .. AmountOfLevels : Power(b)[x] \in Nat \ {0}
         /\ Power(b)[0] = 1
         /\ \A x \in 1 .. AmountOfLevels : Power(b)[x] = Power(b)[x - 1] * b
<1> DEFINE n == AmountOfLevels
           P == Power(b)
           step == [k \in 1 .. n |-> [x \in Nat |-> x * b]]
<1>0. n \in Nat
  BY SystemIsValid
<1>1. step \in [1 .. n -> [Nat -> Nat]]
  OBVIOUS
<1>2. PICK f \in [0 .. n -> Nat] : f[0] = 1 /\ \A k \in 1 .. n : f[k] = step[k][f[k - 1]]
  <2> HIDE DEF step, n
  <2>1. 1 \in Nat
    OBVIOUS
  <2> QED
    BY <1>0, <1>1, <2>1, Recursion
<1>3. ASSUME NEW k \in 0 .. n PROVE f[k] = IF k = 0 THEN 1 ELSE f[k - 1] * b
  <2>1. CASE k = 0
    BY <1>2, <2>1
  <2>2. CASE k # 0
    <3>1. k \in 1 .. n /\ k - 1 \in 0 .. n
      BY <1>0, <2>2
    <3>2. f[k - 1] \in Nat
      BY <3>1
    <3> QED
      BY <1>2, <2>2, <3>1, <3>2
  <2> QED
    BY <2>1, <2>2
<1>4. f = [k \in 0 .. n |-> IF k = 0 THEN 1 ELSE f[k - 1] * b]
  BY <1>3
<1>5. P = [k \in 0 .. n |-> IF k = 0 THEN 1 ELSE P[k - 1] * b]
  BY <1>4 DEF Power
<1> HIDE DEF P
<1> DEFINE Bad == {k \in 0 .. n : P[k] \notin Nat \ {0}}
<1>6. Bad = {}
  <2> SUFFICES ASSUME Bad # {} PROVE FALSE
    OBVIOUS
  <2>1. PICK k \in Bad : \A m \in Bad : k <= m
    <3>1. Bad \subseteq Nat
      BY <1>0
    <3> HIDE DEF Bad
    <3> QED
      BY <3>1, Least
  <2>2. k # 0
    BY <1>0, <1>5, <2>1
  <2>3. k \in 1 .. n /\ k - 1 \in 0 .. n /\ k - 1 \notin Bad
    BY <1>0, <2>1, <2>2
  <2>4. P[k - 1] \in Nat \ {0} /\ P[k] = P[k - 1] * b
    BY <1>5, <2>3
  <2> QED
    BY <2>1, <2>4
<1>7. P[0] = 1 /\ \A x \in 1 .. n : P[x] = P[x - 1] * b
  BY <1>0, <1>5
<1> QED
  BY <1>6, <1>7 DEF P

LEMMA WindowIs ==
  ASSUME NEW games \in Window, NEW limit
  PROVE  /\ IsFiniteSet(DOMAIN games)
         /\ Counting(games, limit) \subseteq DOMAIN games
         /\ IsFiniteSet(Counting(games, limit))
         /\ \A i \in DOMAIN games :
              /\ games[i].points \in Nat /\ games[i].difference \in Int
              /\ games[i].points > 0 => games[i].difference = 0
<1>1. PICK n \in 0 .. MaxGames : games \in [1 .. n -> Game]
  BY DEF Window
<1>2. n \in Nat /\ DOMAIN games = 1 .. n
  BY <1>1, SystemIsValid
<1>3. IsFiniteSet(DOMAIN games)
  BY <1>2, FS_Interval
<1>4. Counting(games, limit) \subseteq DOMAIN games
  BY DEF Counting
<1>5. \A x \in 0 .. AmountOfLevels - 1 : PointsWhenWinningAgainst[x] \in Nat
  <2> SUFFICES ASSUME NEW x \in 0 .. AmountOfLevels - 1
               PROVE  PointsWhenWinningAgainst[x] \in Nat
    OBVIOUS
  <2>1. x \in 0 .. AmountOfLevels /\ ProcentWinning \in Nat \ {0} /\ ProcentWinningPlus1 \in Nat \ {0}
    BY SystemIsValid
  <2>2. Power(ProcentWinning)[x] \in Nat \ {0} /\ Power(ProcentWinningPlus1)[x] \in Nat \ {0}
    BY <2>1, PowerIs
  <2>3. 50 * Power(ProcentWinning)[x] \in Nat
    BY <2>2
  <2>4. Round(50 * Power(ProcentWinning)[x], Power(ProcentWinningPlus1)[x]) \in Nat
    BY <2>2, <2>3, RoundIs
  <2> QED
    BY <2>4 DEF PointsWhenWinningAgainst
<1>6. \A g \in Game : g.points \in Nat /\ g.difference \in Int /\ (g.points > 0 => g.difference = 0)
  <2>1. DifferenceForUpgrade \in Nat
    BY SystemIsValid
  <2> QED
    BY <1>5, <2>1 DEF Game
<1>7. \A i \in DOMAIN games : games[i] \in Game
  BY <1>1
<1>8. IsFiniteSet(Counting(games, limit))
  BY <1>3, <1>4, FS_Subset
<1> QED
  BY <1>3, <1>4, <1>6, <1>7, <1>8

(* For every system: no other choice among the won games gives another     *)
(* level.                                                                  *)
LEMMA GreedyWins == GreedyIsBest
<1>1. ASSUME NEW games \in Window, NEW limit, NEW min \in Nat
      PROVE  Average(games, Counting(games, limit), min) = Best(games, Counting(games, limit), min)
  <2>1. IsFiniteSet(Counting(games, limit))
        /\ \A i \in Counting(games, limit) : games[i].points \in Nat
    BY WindowIs
  <2> QED
    BY <2>1, AverageIsBestOne
<1>2. MinGamesForUpgrade \in Nat /\ MinGamesForDowngrade \in Nat
  BY SystemIsValid
<1> QED
  BY <1>1, <1>2 DEF GreedyIsBest, Upgrade, Downgrade

-----------------------------------------------------------------------------
(* The rows of a player with the same games settle if the caps are apart   *)
(* and more counts for going up than for going down: the lost games that   *)
(* are left out and the least number of games.                             *)

CapsAreApart ==
  /\ \A x \in 0 .. AmountOfLevels - 2 : PointsToGoDown[x] < PointsToGoUp[x]
  /\ \A x \in 0 .. AmountOfLevels - 3 : PointsToGoDown[x + 1] < PointsToGoUp[x]

UpIsHarder ==
  DifferenceForDowngrade <= DifferenceForUpgrade /\ MinGamesForDowngrade <= MinGamesForUpgrade

LEMMA RoundShrinks ==
  ASSUME NEW a \in Nat, NEW c \in Nat \ {0}, NEW d \in Nat \ {0}, c <= d
  PROVE  Round(a, d) <= Round(a, c)
<1> DEFINE q == Round(a, d)
           r == Round(a, c)
           u == c \div 2
           v == d \div 2
           m == d - c
<1>1. /\ q \in Nat /\ d * q <= a + v
      /\ r \in Nat /\ a + u < c * r + c
  BY RoundIs
<1>2. u \in Nat /\ v \in Nat /\ v <= u + m /\ m \in Nat /\ d = c + m
  OBVIOUS
<1> HIDE DEF q, r, u, v, m
<1> SUFFICES ASSUME q > r PROVE FALSE
  BY <1>1 DEF q, r
<1>3. q >= 1 /\ q >= r + 1
  BY <1>1
<1>4. d * q = c * q + m * q
  BY <1>1, <1>2
<1>5. m * q >= m
  <2>1. m * q = m * (q - 1) + m /\ m * (q - 1) \in Nat
    BY <1>1, <1>2, <1>3
  <2> QED
    BY <1>1, <1>2, <2>1
<1>6. c * q >= c * r + c
  <2>1. c * q = c * r + c + c * (q - r - 1) /\ c * (q - r - 1) \in Nat
    BY <1>1, <1>3
  <2>2. c * r \in Nat
    BY <1>1
  <2> QED
    BY <2>1, <2>2
<1>7. c * q \in Nat /\ m * q \in Nat /\ c * r \in Nat
  BY <1>1, <1>2
<1> QED
  BY <1>1, <1>2, <1>4, <1>5, <1>6, <1>7

(* What counts for staying is no less than what counts for going up. *)
LEMMA UpgradeIsLess ==
  ASSUME UpIsHarder, NEW games \in Window
  PROVE  Upgrade(games) \in Nat /\ Downgrade(games) \in Nat /\ Upgrade(games) <= Downgrade(games)
<1> DEFINE cu == Counting(games, DifferenceForUpgrade)
           cd == Counting(games, DifferenceForDowngrade)
           minU == MinGamesForUpgrade
           minD == MinGamesForDowngrade
           won == Won(games, cu)
           n == Cardinality(won)
           B == Total(games, BestFirst(games, won), n)
           lostU == Cardinality(cu \ won)
           lostD == Cardinality(cd \ won)
<1>1. /\ DifferenceForUpgrade \in Nat /\ DifferenceForDowngrade \in Nat
      /\ DifferenceForDowngrade <= DifferenceForUpgrade
      /\ minU \in Nat /\ minD \in Nat /\ minD <= minU
  BY SystemIsValid DEF UpIsHarder
<1>2. /\ cu \subseteq DOMAIN games /\ IsFiniteSet(cu)
      /\ cd \subseteq DOMAIN games /\ IsFiniteSet(cd)
      /\ \A i \in DOMAIN games :
           /\ games[i].points \in Nat /\ games[i].difference \in Int
           /\ games[i].points > 0 => games[i].difference = 0
  BY WindowIs
<1>3. cd \subseteq cu
  BY <1>1, <1>2 DEF Counting
<1>4. Won(games, cd) = won
  <2>1. \A i \in DOMAIN games : games[i].points > 0 => i \in cd /\ i \in cu
    BY <1>1, <1>2 DEF Counting
  <2> HIDE DEF cd, cu
  <2> QED
    BY <1>2, <2>1 DEF Won
<1>5. Upgrade(games) = Average(games, cu, minU) /\ Downgrade(games) = Average(games, cd, minD)
  BY DEF Upgrade, Downgrade
<1> DEFINE V(k) == Round(B[k], GamesToUse(lostU + k, minU))
           W(k) == Round(B[k], GamesToUse(lostD + k, minD))
<1>6. /\ n \in Nat /\ lostU \in Nat /\ B \in [0 .. n -> Nat]
      /\ Average(games, cu, minU) \in Nat
      /\ Average(games, cu, minU) = 0 \/ \E k \in 1 .. n : Average(games, cu, minU) = V(k)
  <2> HIDE DEF cu
  <2>1. \A w \in cu : games[w].points \in Nat
    BY <1>2
  <2>2. minU \in Nat /\ IsFiniteSet(cu)
    BY <1>1, <1>2
  <2> HIDE DEF minU
  <2> QED
    BY <2>1, <2>2, AverageIsMax
<1>7. /\ lostD \in Nat /\ Average(games, cd, minD) \in Nat
      /\ \A k \in 1 .. n : W(k) <= Average(games, cd, minD)
  <2> HIDE DEF cd, cu, won
  <2>1. \A w \in cd : games[w].points \in Nat
    BY <1>2
  <2> QED
    BY <1>1, <1>2, <1>4, <2>1, AverageIsMax
<1>8. lostD <= lostU
  <2>1. IsFiniteSet(cu \ won) /\ cd \ won \subseteq cu \ won
    <3> HIDE DEF cd, cu, won
    <3> QED
      BY <1>2, <1>3, FS_Difference
  <2> QED
    BY <2>1, FS_Subset
<1> HIDE DEF n, B, lostU, lostD, cu, cd, minU, minD
<1>9. ASSUME NEW k \in 1 .. n PROVE V(k) <= W(k) /\ V(k) \in Nat /\ W(k) \in Nat
  <2>1. k \in Nat \ {0} /\ B[k] \in Nat
    BY <1>6
  <2>2. GamesToUse(lostU + k, minU) \in Nat \ {0} /\ GamesToUse(lostD + k, minD) \in Nat \ {0}
        /\ GamesToUse(lostD + k, minD) <= GamesToUse(lostU + k, minU)
    BY <1>1, <1>6, <1>7, <1>8, <2>1 DEF GamesToUse
  <2> QED
    BY <2>1, <2>2, RoundShrinks, RoundIs
<1> HIDE DEF V, W
<1>10. CASE Average(games, cu, minU) = 0
  BY <1>5, <1>6, <1>7, <1>10
<1>11. CASE \E k \in 1 .. n : Average(games, cu, minU) = V(k)
  <2>1. PICK k \in 1 .. n : Average(games, cu, minU) = V(k)
    BY <1>11
  <2> QED
    BY <1>5, <1>6, <1>7, <1>9, <2>1
<1> QED
  BY <1>6, <1>10, <1>11

LEMMA CapsAre ==
  ASSUME NEW x \in 0 .. AmountOfLevels - 2
  PROVE  PointsToGoUp[x] \in Nat /\ PointsToGoDown[x] \in Nat
<1>1. /\ x \in 0 .. AmountOfLevels - 1 /\ x + 1 \in 0 .. AmountOfLevels - 1
      /\ ProcentWinning \in Nat \ {0} /\ ProcentWinningPlus1 \in Nat \ {0} /\ ProcentLosing \in Nat
  BY SystemIsValid
<1>2. \A y \in 0 .. AmountOfLevels - 1 : PointsWhenWinningAgainst[y] \in Nat
  <2> SUFFICES ASSUME NEW y \in 0 .. AmountOfLevels - 1
               PROVE  PointsWhenWinningAgainst[y] \in Nat
    OBVIOUS
  <2>1. y \in 0 .. AmountOfLevels
    BY SystemIsValid
  <2>2. Power(ProcentWinning)[y] \in Nat \ {0} /\ Power(ProcentWinningPlus1)[y] \in Nat \ {0}
    BY <1>1, <2>1, PowerIs
  <2>3. 50 * Power(ProcentWinning)[y] \in Nat
    BY <2>2
  <2>4. Round(50 * Power(ProcentWinning)[y], Power(ProcentWinningPlus1)[y]) \in Nat
    BY <2>2, <2>3, RoundIs
  <2> QED
    BY <2>4 DEF PointsWhenWinningAgainst
<1>3. /\ PointsWhenWinningAgainst[x] * ProcentWinning \in Nat
      /\ PointsWhenWinningAgainst[x + 1] * ProcentLosing \in Nat
  BY <1>1, <1>2
<1>4. /\ Round(PointsWhenWinningAgainst[x] * ProcentWinning, 100) \in Nat
      /\ Round(PointsWhenWinningAgainst[x + 1] * ProcentLosing, 100) \in Nat
  <2>1. 100 \in Nat \ {0}
    OBVIOUS
  <2> QED
    BY <1>3, <2>1, RoundIs
<1> QED
  BY <1>4 DEF PointsToGoUp, PointsToGoDown

(* A discipline by itself, on the same games again.  A level that was not  *)
(* lowered is not lowered: what was enough to reach it, or stay on it, is  *)
(* enough to keep it.                                                      *)
LEMMA NotLoweredAgain ==
  ASSUME CapsAreApart, UpIsHarder,
         NEW l \in Level, NEW was \in BOOLEAN, NEW games \in Window,
         NEW is \in MayBeInactive(games), NEW new \in Nat \ {0},
         new = NewPlace(l, was, games, is), new <= l
  PROVE  new \in Level /\ NewPlace(new, is, games, is) <= new
<1> DEFINE A == AmountOfLevels
           up == Upgrade(games)
           down == Downgrade(games)
           found1 == FindRanking(l, up, down)
           found2 == FindRanking(new, up, down)
           again == NewPlace(new, is, games, is)
<1>1. is \in BOOLEAN /\ A \in Nat \ {0, 1} /\ l \in 1 .. A
  BY SystemIsValid DEF MayBeInactive, Level
<1>2. up \in Nat /\ down \in Nat /\ up <= down
  BY UpgradeIsLess
<1>4. new = IF found1 <= l THEN found1
              ELSE IF is THEN IF Freeze \/ was THEN l ELSE l + 2
              ELSE IF Len(games) <= GamesForInactivity THEN l ELSE found1
  BY DEF NewPlace
<1>6. again = IF found2 <= new THEN found2
              ELSE IF is THEN new
              ELSE IF Len(games) <= GamesForInactivity THEN new ELSE found2
  BY <1>1 DEF NewPlace
<1>7. new \in 1 .. A /\ new \in Level
  BY <1>1 DEF Level
<1>8. /\ found1 \in Level
      /\ found1 < l => TopLevel(l, up) <= found1
  BY FindRankingIs
<1>9. /\ found2 \in Level
      /\ found2 > new => found2 <= BottomLevel(new, down)
  BY <1>7, FindRankingIs
<1>10. found1 \in 1 .. A /\ found2 \in 1 .. A /\ (new = l => found2 = found1)
  BY <1>8, <1>9 DEF Level
<1> HIDE DEF up, down, found1, found2, again
<1>11. ASSUME new < l PROVE again <= new
  <2>1. found1 < l /\ new = found1
    BY <1>1, <1>4, <1>10, <1>11
  <2>2. TopLevel(l, up) <= new /\ new + 1 \in TopLevel(l, up) + 1 .. l
    BY <1>1, <1>7, <1>8, <1>11, <2>1, TopLevelIs
  <2> DEFINE x == A - (new + 1)
  <2>3. ~(PointsToGoUp[x] > up)
    BY <2>2, TopLevelIs
  <2>4. x \in 0 .. A - 2 /\ x = A - 1 - new
    BY <1>1, <1>7, <1>11
  <2>5. PointsToGoUp[x] \in Nat /\ PointsToGoDown[x] \in Nat /\ PointsToGoDown[x] < PointsToGoUp[x]
    BY <2>4, CapsAre DEF CapsAreApart
  <2>6. PointsToGoDown[x] < down
    BY <1>2, <2>3, <2>5
  <2>7. BottomLevel(new, down) = new
    <3>1. /\ BottomLevel(new, down) \in new .. A
          /\ \A e \in new .. BottomLevel(new, down) - 1 : ~(PointsToGoDown[A - 1 - e] < down)
      BY <1>7, BottomLevelIs
    <3>2. new \notin new .. BottomLevel(new, down) - 1
      BY <2>4, <2>6, <3>1
    <3> QED
      BY <1>1, <1>7, <3>1, <3>2
  <2>8. found2 <= new
    BY <1>7, <1>9, <1>10, <2>7
  <2> QED
    BY <1>6, <2>8
<1>12. ASSUME new = l PROVE again <= new
  BY <1>1, <1>4, <1>6, <1>10, <1>12
<1> QED
  BY <1>1, <1>7, <1>11, <1>12 DEF again

(* A level that was not raised is not raised from there, nor from a level  *)
(* on the way to where the games would have put it.                        *)
LEMMA NotRaisedAgain ==
  ASSUME CapsAreApart, UpIsHarder,
         NEW l \in Level, NEW was \in BOOLEAN, NEW games \in Window,
         NEW is \in MayBeInactive(games), NEW new \in Nat \ {0},
         new = NewPlace(l, was, games, is),
         NEW f \in Level, l <= f, f <= new
  PROVE  NewPlace(f, is, games, is) >= f
<1> DEFINE A == AmountOfLevels
           up == Upgrade(games)
           down == Downgrade(games)
           found1 == FindRanking(l, up, down)
           found2 == FindRanking(f, up, down)
           again == NewPlace(f, is, games, is)
<1>1. is \in BOOLEAN /\ A \in Nat \ {0, 1} /\ l \in 1 .. A /\ f \in 1 .. A
  BY SystemIsValid DEF MayBeInactive, Level
<1>2. up \in Nat /\ down \in Nat /\ up <= down
  BY UpgradeIsLess
<1>4. new = IF found1 <= l THEN found1
              ELSE IF is THEN IF Freeze \/ was THEN l ELSE l + 2
              ELSE IF Len(games) <= GamesForInactivity THEN l ELSE found1
  BY DEF NewPlace
<1>6. again = IF found2 <= f THEN found2
              ELSE IF is THEN f
              ELSE IF Len(games) <= GamesForInactivity THEN f ELSE found2
  BY <1>1 DEF NewPlace
<1>8. /\ found1 \in Level
      /\ found1 > l => found1 <= BottomLevel(l, down)
  BY FindRankingIs
<1>9. /\ found2 \in Level
      /\ TopLevel(f, up) = f => found2 >= f
  BY FindRankingIs
<1>10. found1 \in 1 .. A /\ found2 \in 1 .. A /\ (f = l => found2 = found1)
  BY <1>8, <1>9 DEF Level
<1> HIDE DEF up, down, found1, found2, again
<1>11. ASSUME f = l PROVE again >= f
  BY <1>1, <1>4, <1>6, <1>10, <1>11
<1>12. ASSUME f > l PROVE again >= f
  <2> DEFINE bottom == BottomLevel(l, down)
             x == A - f
  <2>1. /\ found1 > l /\ f >= 2 /\ x \in 0 .. A - 2
        /\ f <= found1 \/ f <= l + 2
    BY <1>1, <1>4, <1>10, <1>12
  <2>2. /\ bottom \in l .. A /\ found1 <= bottom
        /\ \A e \in l .. bottom - 1 : ~(PointsToGoDown[A - 1 - e] < down)
    BY <1>8, <2>1, BottomLevelIs
  <2>3. PointsToGoUp[x] \in Nat /\ PointsToGoDown[x] \in Nat /\ PointsToGoDown[x] < PointsToGoUp[x]
    BY <2>1, CapsAre DEF CapsAreApart
  <2>4. PointsToGoUp[x] > up
    <3>1. CASE f <= bottom
      <4>1. f - 1 \in l .. bottom - 1 /\ A - 1 - (f - 1) = x
        BY <1>1, <1>12, <2>2, <3>1
      <4>2. ~(PointsToGoDown[x] < down)
        BY <2>2, <4>1
      <4> QED
        BY <1>2, <2>3, <4>2
    <3>2. CASE ~(f <= bottom)
      <4>1. bottom = l + 1 /\ f = l + 2
        BY <1>1, <1>10, <1>12, <2>1, <2>2, <3>2
      <4>2. l \in l .. bottom - 1 /\ A - 1 - l = x + 1 /\ x \in 0 .. A - 3 /\ x + 1 \in 0 .. A - 2
        BY <1>1, <4>1
      <4>3. ~(PointsToGoDown[x + 1] < down)
        BY <2>2, <4>2
      <4>4. PointsToGoDown[x + 1] \in Nat /\ PointsToGoDown[x + 1] < PointsToGoUp[x]
        BY <4>2, CapsAre DEF CapsAreApart
      <4> QED
        BY <1>2, <2>3, <4>3, <4>4
    <3> QED
      BY <3>1, <3>2
  <2>5. TopLevel(f, up) = f
    <3>1. /\ TopLevel(f, up) \in 1 .. f
          /\ \A e \in TopLevel(f, up) + 1 .. f : ~(PointsToGoUp[A - e] > up)
      BY TopLevelIs
    <3>2. f \notin TopLevel(f, up) + 1 .. f
      BY <2>4, <3>1
    <3> QED
      BY <1>1, <3>1, <3>2
  <2>6. found2 >= f
    BY <1>9, <2>5
  <2> QED
    BY <1>1, <1>6, <1>10, <2>6
<1> QED
  BY <1>1, <1>11, <1>12 DEF again

(* Both, of an effect. *)
LEMMA EffectSettles ==
  ASSUME CapsAreApart, UpIsHarder,
         NEW x \in Effect, NEW l \in Level, NEW w \in BOOLEAN
  PROVE  /\ x.inactive \in BOOLEAN /\ x.place[l][w] \in Nat \ {0}
         /\ x.place[l][w] <= l =>
              x.place[l][w] \in Level /\ x.place[x.place[l][w]][x.inactive] <= x.place[l][w]
         /\ \A f \in Level :
              l <= f /\ f <= x.place[l][w] => x.place[f][x.inactive] >= f
<1>1. PICK g \in Window, is \in BOOLEAN :
        /\ is \in MayBeInactive(g) /\ x.inactive = is
        /\ \A y \in Level, v \in BOOLEAN : x.place[y][v] = NewPlace(y, v, g, is)
  BY EffectIs
<1>2. PICK new \in Nat \ {0} : new = NewPlace(l, w, g, is)
  BY <1>1, NewPlaceIs
<1>3. x.place[l][w] = new
  BY <1>1, <1>2
<1>4. ASSUME new <= l PROVE new \in Level /\ x.place[new][is] <= new
  <2>1. new \in Level /\ NewPlace(new, is, g, is) <= new
    BY <1>1, <1>2, <1>4, NotLoweredAgain
  <2> QED
    BY <1>1, <2>1
<1>5. ASSUME NEW f \in Level, l <= f, f <= new PROVE x.place[f][is] >= f
  <2>1. NewPlace(f, is, g, is) >= f
    BY <1>1, <1>2, <1>5, NotRaisedAgain
  <2> QED
    BY <1>1, <2>1
<1> QED
  BY <1>1, <1>3, <1>4, <1>5

LEMMA HeldIs ==
  ASSUME NEW levels \in Held
  PROVE  /\ levels \in [Discipline -> Level] /\ levels \in [Discipline -> Nat \ {0}]
         /\ \A c, d \in Discipline : levels[d] <= levels[c] + MaxDiffLevels
<1>1. /\ levels \in [Discipline -> Level] /\ Protected(levels) = levels
      /\ AmountOfLevels \in Nat /\ MaxDiffLevels \in Nat
  BY SystemIsValid DEF Held
<1>2. levels \in [Discipline -> Nat \ {0}] /\ \A d \in Discipline : levels[d] \in 1 .. AmountOfLevels
  BY <1>1 DEF Level
<1>3. ASSUME NEW c \in Discipline, NEW d \in Discipline
      PROVE  levels[d] <= levels[c] + MaxDiffLevels
  <2>1. PICK e \in Discipline : \A b \in Discipline : levels[e] <= levels[b]
    BY <1>2, <1>3, SomeBest
  <2>2. levels[d] = IF levels[d] <= levels[e] + MaxDiffLevels /\ levels[d] <= AmountOfLevels
                    THEN levels[d]
                    ELSE IF levels[e] + MaxDiffLevels <= AmountOfLevels
                    THEN levels[e] + MaxDiffLevels ELSE AmountOfLevels
    BY <1>1, <1>2, <2>1, ProtectedIs
  <2> QED
    BY <1>1, <1>2, <2>1, <2>2
<1> QED
  BY <1>1, <1>2, <1>3

(* All disciplines together: the protection may pull a level up, but only  *)
(* along with the best one, which is itself not lowered any more.          *)
LEMMA Settling ==
  ASSUME CapsAreApart, UpIsHarder
  PROVE  RowsSettle
<1> SUFFICES ASSUME NEW old \in Held, NEW was \in [Discipline -> BOOLEAN],
                    NEW e \in [Discipline -> Effect], NEW d \in Discipline
             PROVE  LET first == Protected([c \in Discipline |-> e[c].place[old[c]][was[c]]])
                        second == Protected([c \in Discipline |-> e[c].place[first[c]][e[c].inactive]]) IN
                    /\ first[d] <= old[d] => second[d] <= first[d]
                    /\ first[d] >= old[d] /\ second[d] < first[d] =>
                         \E b \in Discipline :
                           second[b] < first[b] /\ second[d] = second[b] + MaxDiffLevels
  BY DEF RowsSettle
<1> DEFINE A == AmountOfLevels
           D == MaxDiffLevels
           place1 == [c \in Discipline |-> e[c].place[old[c]][was[c]]]
           first == Protected(place1)
           place2 == [c \in Discipline |-> e[c].place[first[c]][e[c].inactive]]
           second == Protected(place2)
<1>1. A \in Nat \ {0, 1} /\ D \in Nat \ {0}
  BY SystemIsValid
<1>2. /\ old \in [Discipline -> Level]
      /\ \A c \in Discipline : old[d] <= old[c] + D
  BY HeldIs
<1>3. \A c \in Discipline : /\ e[c] \in Effect /\ old[c] \in Level /\ was[c] \in BOOLEAN
                            /\ place1[c] = e[c].place[old[c]][was[c]]
  BY <1>2
<1>4. place1 \in [Discipline -> Nat \ {0}]
  BY <1>3, EffectSettles
<1>5. first \in Held
  <2> HIDE DEF place1
  <2> QED
    BY <1>4, ProtectedIsHeld
<1> HIDE DEF place1, first
<1>6. first \in [Discipline -> Level] /\ \A c \in Discipline : first[d] <= first[c] + D
  BY <1>5, HeldIs
<1>7. \A c \in Discipline :
        /\ place2[c] = e[c].place[first[c]][e[c].inactive]
        /\ place2[c] \in Nat \ {0}
        /\ place1[c] <= old[c] /\ first[c] = place1[c] => place2[c] <= first[c]
        /\ old[c] <= first[c] /\ first[c] <= place1[c] => place2[c] >= first[c]
  <2> SUFFICES ASSUME NEW c \in Discipline
               PROVE  /\ place2[c] = e[c].place[first[c]][e[c].inactive]
                      /\ place2[c] \in Nat \ {0}
                      /\ place1[c] <= old[c] /\ first[c] = place1[c] => place2[c] <= first[c]
                      /\ old[c] <= first[c] /\ first[c] <= place1[c] => place2[c] >= first[c]
    OBVIOUS
  <2>1. place2[c] = e[c].place[first[c]][e[c].inactive] /\ first[c] \in Level
    BY <1>6
  <2>2. e[c].inactive \in BOOLEAN
    BY <1>3, EffectSettles
  <2>3. e[c].place[first[c]][e[c].inactive] \in Nat \ {0}
    BY <1>3, <2>1, <2>2, EffectSettles
  <2>4. place1[c] <= old[c] => e[c].place[place1[c]][e[c].inactive] <= place1[c]
    BY <1>3, EffectSettles
  <2>5. old[c] <= first[c] /\ first[c] <= place1[c] => e[c].place[first[c]][e[c].inactive] >= first[c]
    BY <1>3, <2>1, EffectSettles
  <2> QED
    BY <2>1, <2>3, <2>4, <2>5
<1>8. place2 \in [Discipline -> Nat \ {0}]
  BY <1>7
<1> HIDE DEF place2
<1>9. PICK b1 \in Discipline : \A c \in Discipline : place1[b1] <= place1[c]
  BY <1>4, SomeBest
<1>10. PICK b2 \in Discipline : \A c \in Discipline : place2[b2] <= place2[c]
  BY <1>8, SomeBest
<1>11. \A c \in Discipline :
         first[c] = IF place1[c] <= place1[b1] + D /\ place1[c] <= A THEN place1[c]
                    ELSE IF place1[b1] + D <= A THEN place1[b1] + D ELSE A
  BY <1>4, <1>9, ProtectedIs DEF first
<1>12. \A c \in Discipline :
         second[c] = IF place2[c] <= place2[b2] + D /\ place2[c] <= A THEN place2[c]
                     ELSE IF place2[b2] + D <= A THEN place2[b2] + D ELSE A
  BY <1>8, <1>10, ProtectedIs
<1> HIDE DEF second
<1>13. \A c \in Discipline : /\ old[c] \in 1 .. A /\ first[c] \in 1 .. A
                             /\ place1[c] \in Nat \ {0} /\ place2[c] \in Nat \ {0}
  BY <1>2, <1>4, <1>6, <1>8 DEF Level
<1> HIDE DEF A, D
<1>14. ASSUME first[d] <= old[d] PROVE second[d] <= first[d]
  <2>1. CASE first[d] = place1[d]
    <3>1. place2[d] <= first[d]
      BY <1>7, <1>14, <2>1
    <3> QED
      BY <1>1, <1>12, <1>13, <3>1
  <2>2. CASE first[d] = A
    BY <1>1, <1>12, <1>13, <2>2
  <2>3. CASE first[d] # place1[d] /\ first[d] # A
    <3>1. first[d] = place1[b1] + D
      BY <1>11, <2>3
    <3>2. place1[b1] <= old[b1] /\ place1[b1] <= A
      BY <1>1, <1>2, <1>13, <1>14, <3>1
    <3>3. first[b1] = place1[b1]
      BY <1>1, <1>11, <1>13, <3>2
    <3>4. place2[b1] <= place1[b1]
      BY <1>7, <3>2, <3>3
    <3>5. place2[b2] + D <= first[d]
      BY <1>1, <1>10, <1>13, <3>1, <3>4
    <3> QED
      BY <1>1, <1>12, <1>13, <3>5
  <2> QED
    BY <2>1, <2>2, <2>3
<1>15. ASSUME first[d] >= old[d], second[d] < first[d]
       PROVE  second[b2] < first[b2] /\ second[d] = second[b2] + D
  <2>1. first[d] <= place1[d]
    BY <1>1, <1>11, <1>13
  <2>2. place2[d] >= first[d]
    BY <1>7, <1>13, <1>15, <2>1
  <2>3. second[d] = place2[b2] + D /\ place2[b2] + D < first[d]
    BY <1>1, <1>12, <1>13, <1>15, <2>2
  <2>4. second[b2] = place2[b2]
    BY <1>1, <1>12, <1>13, <2>3
  <2>5. first[d] <= first[b2] + D
    BY <1>6
  <2> QED
    BY <1>1, <1>13, <2>3, <2>4, <2>5
<1> QED
  BY <1>14, <1>15 DEF first, second, place1, place2, D

-----------------------------------------------------------------------------
(* With the percentages for winning of the repository's tests the caps are *)
(* apart, however many levels there are, if losing counts 31 % at most.    *)

LEMMA RoundPercent ==
  ASSUME NEW a \in Nat
  PROVE  /\ Round(a, 100) \in Nat
         /\ 100 * Round(a, 100) <= a + 50 /\ a - 50 < 100 * Round(a, 100)
BY DEF Round

LEMMA Cancel ==
  ASSUME NEW q \in Nat \ {0}, NEW u \in Int, NEW v \in Int, q * u <= q * v
  PROVE  u <= v
<1> SUFFICES ASSUME v + 1 <= u PROVE FALSE
  OBVIOUS
<1>1. PICK m \in Nat : u = v + 1 + m
  <2>1. u - v - 1 \in Nat /\ u = v + 1 + (u - v - 1)
    OBVIOUS
  <2> QED
    BY <2>1
<1>2. q * u = q * v + q + q * m /\ q * v \in Int
  BY <1>1
<1>3. q * m \in Nat
  OBVIOUS
<1> QED
  BY <1>2, <1>3

(* The greater base has the greater powers. *)
LEMMA PowersCompare ==
  ASSUME NEW b \in Nat \ {0}, NEW d \in Nat \ {0}, d <= b
  PROVE  \A x \in 0 .. AmountOfLevels : Power(d)[x] <= Power(b)[x]
<1> DEFINE n == AmountOfLevels
           P == Power(b)
           Q == Power(d)
           Bad == {k \in 0 .. n : ~(Q[k] <= P[k])}
<1>0. n \in Nat
  BY SystemIsValid
<1>1. /\ \A x \in 0 .. n : P[x] \in Nat \ {0} /\ Q[x] \in Nat \ {0}
      /\ P[0] = 1 /\ Q[0] = 1
      /\ \A x \in 1 .. n : P[x] = P[x - 1] * b /\ Q[x] = Q[x - 1] * d
  BY PowerIs
<1> HIDE DEF P, Q
<1>2. Bad = {}
  <2> SUFFICES ASSUME Bad # {} PROVE FALSE
    OBVIOUS
  <2>1. PICK k \in Bad : \A m \in Bad : k <= m
    <3>1. Bad \subseteq Nat
      BY <1>0
    <3> HIDE DEF Bad
    <3> QED
      BY <3>1, Least
  <2>2. k # 0
    BY <1>1, <2>1
  <2>3. k \in 1 .. n /\ k - 1 \in 0 .. n /\ k - 1 \notin Bad
    BY <1>0, <2>1, <2>2
  <2>4. PICK p \in Nat, q \in Nat : p = P[k - 1] /\ q = Q[k - 1]
    BY <1>1, <2>3
  <2>5. q <= p /\ P[k] = p * b /\ Q[k] = q * d
    BY <1>1, <2>3, <2>4
  <2>6. PICK m \in Nat, e \in Nat : p = q + m /\ b = d + e
    <3>1. p - q \in Nat /\ b - d \in Nat /\ p = q + (p - q) /\ b = d + (b - d)
      BY <2>5
    <3> QED
      BY <3>1
  <2>7. p * b = q * d + q * e + m * b
    BY <2>6
  <2>8. q * e \in Nat /\ m * b \in Nat /\ q * d \in Nat
    OBVIOUS
  <2>9. Q[k] <= P[k]
    BY <2>5, <2>7, <2>8
  <2> QED
    BY <2>1, <2>9
<1> QED
  BY <1>2 DEF P, Q

LEMMA CapsOfTests ==
  ASSUME ProcentWinning = 75, ProcentWinningPlus1 = 50, ProcentLosing <= 31
  PROVE  CapsAreApart
<1> DEFINE n == AmountOfLevels
           P == Power(75)
           Q == Power(50)
           Points(x) == Round(50 * P[x], Q[x])
<1>0. n \in Nat \ {0, 1}
  BY SystemIsValid
<1>1. /\ \A x \in 0 .. n : P[x] \in Nat \ {0} /\ Q[x] \in Nat \ {0} /\ Q[x] <= P[x]
      /\ \A x \in 1 .. n : P[x] = P[x - 1] * 75 /\ Q[x] = Q[x - 1] * 50
  <2>1. 75 \in Nat \ {0} /\ 50 \in Nat \ {0} /\ 50 <= 75
    OBVIOUS
  <2> QED
    BY <2>1, PowerIs, PowersCompare
<1>2. \A x \in 0 .. n - 1 : PointsWhenWinningAgainst[x] = Points(x)
  BY DEF PointsWhenWinningAgainst
<1> HIDE DEF P, Q
<1>3. ASSUME NEW x \in 0 .. n
      PROVE  /\ Points(x) \in Nat /\ Points(x) >= 50
             /\ 2 * (Q[x] * Points(x)) <= 100 * P[x] + Q[x]
             /\ 100 * P[x] <= 2 * (Q[x] * Points(x)) + Q[x]
  <2>1. PICK p \in Nat \ {0}, q \in Nat \ {0} : p = P[x] /\ q = Q[x] /\ q <= p
    BY <1>1
  <2>2. 50 * p \in Nat
    OBVIOUS
  <2>3. PICK a \in Nat : a = Round(50 * p, q)
    BY <2>2, RoundIs
  <2>4. q * a <= 50 * p + q \div 2 /\ 50 * p + q \div 2 < q * a + q
    BY <2>2, <2>3, RoundIs
  <2>5. PICK h \in Nat, z \in Nat : h = q \div 2 /\ z = q * a
    <3>1. q \div 2 \in Nat /\ q * a \in Nat
      OBVIOUS
    <3> QED
      BY <3>1
  <2>6. 2 * h <= q /\ q <= 2 * h + 1
    BY <2>5
  <2>7. 2 * z <= 100 * p + q /\ 100 * p <= 2 * z + q
    BY <2>4, <2>5, <2>6
  <2>8. a >= 50
    <3>1. q * 50 <= q * a + q - 1
      BY <2>1, <2>4, <2>5, <2>6
    <3>2. q * 50 < q * (a + 1)
      BY <3>1
    <3>3. 50 < a + 1
      <4> SUFFICES ASSUME a + 1 <= 50 PROVE FALSE
        OBVIOUS
      <4>1. PICK m \in Nat : 50 = a + 1 + m
        <5>1. 50 - a - 1 \in Nat /\ 50 = a + 1 + (50 - a - 1)
          OBVIOUS
        <5> QED
          BY <5>1
      <4>2. q * (a + 1 + m) = q * (a + 1) + q * m /\ q * m \in Nat /\ q * (a + 1) \in Nat
        OBVIOUS
      <4> QED
        BY <3>2, <4>1, <4>2
    <3> QED
      BY <3>3
  <2> QED
    BY <2>1, <2>3, <2>5, <2>7, <2>8
<1> HIDE DEF Points
<1>4. ASSUME NEW x \in 0 .. n - 1
      PROVE  4 * Points(x + 1) <= 6 * Points(x) + 5
  <2>1. x \in 0 .. n /\ x + 1 \in 1 .. n /\ x + 1 \in 0 .. n /\ (x + 1) - 1 = x
    BY <1>0
  <2>2. PICK p \in Nat, q \in Nat \ {0} : p = P[x] /\ q = Q[x]
    BY <1>1, <2>1
  <2>3. P[x + 1] = p * 75 /\ Q[x + 1] = q * 50
    BY <1>1, <2>1, <2>2
  <2>4. PICK a \in Nat, b \in Nat : a = Points(x) /\ b = Points(x + 1)
    BY <1>3, <2>1
  <2>5. 100 * p <= 2 * (q * a) + q /\ 2 * ((q * 50) * b) <= 100 * (p * 75) + q * 50
    BY <1>3, <2>1, <2>2, <2>3, <2>4
  <2>6. PICK y \in Nat, z \in Nat : y = q * a /\ z = q * b
    <3>1. q * a \in Nat /\ q * b \in Nat
      OBVIOUS
    <3> QED
      BY <3>1
  <2>7. (q * 50) * b = 50 * z
    BY <2>6
  <2>8. 4 * z <= 6 * y + 5 * q
    BY <2>5, <2>6, <2>7
  <2>9. q * (4 * b) = 4 * z /\ q * (6 * a + 5) = 6 * y + 5 * q
    BY <2>6
  <2>10. 4 * b \in Int /\ 6 * a + 5 \in Int /\ q * (4 * b) <= q * (6 * a + 5)
    BY <2>8, <2>9
  <2>11. 4 * b <= 6 * a + 5
    BY <2>10, Cancel
  <2> QED
    BY <2>4, <2>11
<1>5. ASSUME NEW x \in 0 .. n - 2
      PROVE  8 * Points(x + 2) <= 18 * Points(x) + 13
  <2>1. x \in 0 .. n /\ x + 1 \in 1 .. n /\ x + 2 \in 1 .. n /\ x + 2 \in 0 .. n
        /\ (x + 1) - 1 = x /\ (x + 2) - 1 = x + 1
    BY <1>0
  <2>2. PICK p \in Nat, q \in Nat \ {0} : p = P[x] /\ q = Q[x]
    BY <1>1, <2>1
  <2>3. P[x + 2] = (p * 75) * 75 /\ Q[x + 2] = (q * 50) * 50
    BY <1>1, <2>1, <2>2
  <2>4. PICK a \in Nat, c \in Nat : a = Points(x) /\ c = Points(x + 2)
    BY <1>3, <2>1
  <2>5. /\ 100 * p <= 2 * (q * a) + q
        /\ 2 * (((q * 50) * 50) * c) <= 100 * ((p * 75) * 75) + (q * 50) * 50
    BY <1>3, <2>1, <2>2, <2>3, <2>4
  <2>6. PICK y \in Nat, z \in Nat : y = q * a /\ z = q * c
    <3>1. q * a \in Nat /\ q * c \in Nat
      OBVIOUS
    <3> QED
      BY <3>1
  <2>7. ((q * 50) * 50) * c = 2500 * z
    BY <2>6
  <2>8. 8 * z <= 18 * y + 13 * q
    BY <2>5, <2>6, <2>7
  <2>9. q * (8 * c) = 8 * z /\ q * (18 * a + 13) = 18 * y + 13 * q
    BY <2>6
  <2>10. 8 * c \in Int /\ 18 * a + 13 \in Int /\ q * (8 * c) <= q * (18 * a + 13)
    BY <2>8, <2>9
  <2>11. 8 * c <= 18 * a + 13
    BY <2>10, Cancel
  <2> QED
    BY <2>4, <2>11
<1> DEFINE L == ProcentLosing
<1>6. ASSUME NEW a \in Nat
      PROVE  /\ Round(a * 75, 100) \in Nat /\ 100 * Round(a * 75, 100) > 75 * a - 50
             /\ Round(a * L, 100) \in Nat /\ 100 * Round(a * L, 100) <= 31 * a + 50
  <2>1. PICK l \in Nat, m \in Nat : l = L /\ 31 = l + m
    <3>1. L \in Nat /\ 31 - L \in Nat /\ 31 = L + (31 - L)
      BY SystemIsValid
    <3> QED
      BY <3>1
  <2>2. PICK y \in Nat, z \in Nat : y = a * l /\ z = a * 75
    <3>1. a * l \in Nat /\ a * 75 \in Nat
      OBVIOUS
    <3> QED
      BY <3>1
  <2>3. y <= 31 * a
    <3>1. 31 * a = a * l + a * m /\ a * m \in Nat
      BY <2>1
    <3> QED
      BY <2>2, <3>1
  <2>4. PICK u \in Nat, d \in Nat : u = Round(z, 100) /\ d = Round(y, 100)
    BY RoundPercent
  <2>5. 100 * u > z - 50 /\ 100 * d <= y + 50
    BY <2>4, RoundPercent
  <2>6. 100 * u > 75 * a - 50 /\ 100 * d <= 31 * a + 50
    BY <2>2, <2>3, <2>5
  <2> QED
    BY <2>1, <2>2, <2>4, <2>6
<1> HIDE DEF L
<1>7. ASSUME NEW x \in 0 .. n - 2
      PROVE  /\ PointsToGoUp[x] = Round(Points(x) * 75, 100)
             /\ PointsToGoDown[x] = Round(Points(x + 1) * L, 100)
  <2>1. x \in 0 .. n - 1 /\ x + 1 \in 0 .. n - 1
    BY <1>0
  <2> QED
    BY <1>2, <2>1 DEF PointsToGoUp, PointsToGoDown, L
<1>8. ASSUME NEW x \in 0 .. n - 2 PROVE PointsToGoDown[x] < PointsToGoUp[x]
  <2>1. x \in 0 .. n /\ x \in 0 .. n - 1 /\ x + 1 \in 0 .. n
    BY <1>0
  <2>2. PICK a \in Nat, b \in Nat : a = Points(x) /\ b = Points(x + 1)
    BY <1>3, <2>1
  <2>3. a >= 50 /\ 4 * b <= 6 * a + 5
    BY <1>3, <1>4, <2>1, <2>2
  <2>4. PICK u \in Nat, d \in Nat : u = Round(a * 75, 100) /\ d = Round(b * L, 100)
    BY <1>6
  <2>5. 100 * u > 75 * a - 50 /\ 100 * d <= 31 * b + 50
    BY <1>6, <2>4
  <2>6. d < u
    BY <2>3, <2>5
  <2> QED
    BY <1>7, <2>2, <2>4, <2>6
<1>9. ASSUME NEW x \in 0 .. n - 3 PROVE PointsToGoDown[x + 1] < PointsToGoUp[x]
  <2>1. /\ x \in 0 .. n /\ x \in 0 .. n - 2 /\ x + 1 \in 0 .. n - 2 /\ x + 2 \in 0 .. n
        /\ (x + 1) + 1 = x + 2
    BY <1>0
  <2>2. PICK a \in Nat, c \in Nat : a = Points(x) /\ c = Points(x + 2)
    BY <1>3, <2>1
  <2>3. a >= 50 /\ 8 * c <= 18 * a + 13
    BY <1>3, <1>5, <2>1, <2>2
  <2>4. PICK u \in Nat, d \in Nat : u = Round(a * 75, 100) /\ d = Round(c * L, 100)
    BY <1>6
  <2>5. 100 * u > 75 * a - 50 /\ 100 * d <= 31 * c + 50
    BY <1>6, <2>4
  <2>6. d < u
    BY <2>3, <2>5
  <2>7. PointsToGoUp[x] = u /\ PointsToGoDown[x + 1] = d
    BY <1>7, <2>1, <2>2, <2>4
  <2> QED
    BY <2>6, <2>7
<1> QED
  BY <1>8, <1>9 DEF CapsAreApart

-----------------------------------------------------------------------------
(* What the rules say of every table the worker has written. *)

(* No row holds another level than the best choice among the won games of  *)
(* its player would give: counting them from the best one down, as         *)
(* _findPointsAverage does, loses nothing                                  *)
(* (belgium-flanders-places.service.ts), for any number of games.          *)
THEOREM BestAverage == Spec => []AverageIsBest
<1>1. AverageIsBest
  BY GreedyWins DEF AverageIsBest, WrittenBy
<1> QED
  BY <1>1, PTL

(* From row to row levels stay within the system and maxDiffLevels, and    *)
(* move by maxLevelUpPerChange and maxLevelDownPerChange at most, but for  *)
(* the one penalty of a player who becomes inactive (getRankingProtected   *)
(* and _getNewPlace of belgium-flanders-places.service.ts).                *)
THEOREM BoundedMoves == Spec => []MovesAreBounded
<1>1. MovesAreBounded
  BY UpdateBounded DEF MovesAreBounded, WrittenBy
<1> QED
  BY <1>1, PTL

(* The rows of a player with the same games in every period settle: no     *)
(* level goes down again that did not go down before, and none goes up     *)
(* that did not, unless it follows a better discipline up to stay within   *)
(* maxDiffLevels (_findRanking, _getNewPlace and getRankingProtected of    *)
(* belgium-flanders-places.service.ts) - for any system of levels whose    *)
(* caps are apart, as those of _bvlCaps are, and which asks no less for    *)
(* going up than for staying, as the defaults of ranking-system.model.ts   *)
(* do.                                                                     *)
THEOREM SettledLevels ==
  ASSUME CapsAreApart, UpIsHarder
  PROVE  Spec => []SameGamesSettle
<1>1. SameGamesSettle
  BY Settling DEF SameGamesSettle, WrittenBy
<1> QED
  BY <1>1, PTL

(* That is so with the percentages for winning of the repository's tests   *)
(* (SystemBuilder.Create(BVL, ..., 75, 50)) and any for losing up to 31,   *)
(* however many levels there are (_bvlCaps).                               *)
THEOREM SettledPercentages ==
  ASSUME ProcentWinning = 75, ProcentWinningPlus1 = 50, ProcentLosing <= 31, UpIsHarder
  PROVE  Spec => []SameGamesSettle
BY CapsOfTests, SettledLevels
=============================================================================
