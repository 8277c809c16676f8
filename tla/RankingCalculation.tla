------------------------- MODULE RankingCalculation -------------------------
(***************************************************************************)
(* The calculation of a ranking: the cron that queues UpdateRanking        *)
(* (cron.ts), the run over the periods since the last one                  *)
(* (calculation.service.ts, place.service.ts) and the worker that computes *)
(* the place of one player (places.processor.ts,                           *)
(* belgium-flanders-places.service.ts).                                    *)
(*                                                                         *)
(* For each period a run deletes the places of that date, queues one job   *)
(* per player and waits for all of them; then the period is the system's   *)
(* calculationLastUpdate.  A job reads the player's last place up to the   *)
(* date, which it does not know to be the one of the period before, and    *)
(* adds a row; the table has a unique index on player and date.  There is  *)
(* no transaction around any of this.  A run that takes too long loses its *)
(* job but goes on; jobs of a run that ended are still executed.           *)
(*                                                                         *)
(* A level is the number of updates that went into it: what an update does *)
(* to a level is the subject of module RankingLevels.  Every day is a      *)
(* period.  Not modelled: the points (the scheduled job does not compute   *)
(* them), a second chunk of players, a place job that times out.           *)
(***************************************************************************)
EXTENDS Integers, Sequences, FiniteSets

CONSTANTS
  Player,
  Update,     \* days whose period may change levels
  Job,        \* places for UpdateRanking jobs
  Run,        \* executions of updateRanking that may exist at the same time
  NoJob,
  MaxDay,     \* bound on the days
  Attempts,   \* attempts of a job that was triggered by hand
  MaxFault,   \* bound on failures, crashes and timeouts
  MaxPosted   \* bound on jobs posted with dates

Day == 1 .. MaxDay

ASSUME CalculationConstants ==
  /\ IsFiniteSet(Player) /\ MaxDay \in Nat /\ Update \subseteq Day
  /\ NoJob \notin Job
  /\ Attempts \in Nat \ {0} /\ MaxFault \in Nat /\ MaxPosted \in Nat

NoPlace == -1   \* no row
Start0 == 0     \* level of a player without a place

VARIABLES
  today,
  place,       \* place[p][d]: the RankingPlace of player p for day d
  last,        \* last[p]: [on, level] of RankingLastPlace
  lastUpdate,  \* RankingSystem.calculationLastUpdate
  job,         \* job[j]: state of an UpdateRanking job, its dates and attempts
  faults, posted,
  pc,          \* pc[r]: the next step of run r
  owner,       \* owner[r]: its job, or NoJob once that has timed out
  at, upto,    \* the period of run r and the last one it will do
  loaded,      \* loaded[r]: calculationLastUpdate in its system object
  result,      \* result[r][p]: what became of the place job of p
  queue,       \* the places queue
  active,      \* the place job being executed: at most one
  overlap,     \* history: two runs were at work at the same time
  sound        \* history: days calculated after the sound day before them

work  == <<queue, active>>
table == <<place, last, lastUpdate>>
run   == <<pc, owner, at, upto, loaded>>
bound == <<faults, posted>>
ghost == <<overlap, sound>>
vars  == <<today, table, job, bound, run, result, work, ghost>>

State == {"none", "waiting", "active", "delayed"}
Request == [state : State, from : 0 .. MaxDay, to : 0 .. MaxDay,
            tries : 0 .. Attempts]
Idle == [state |-> "none", from |-> 0, to |-> 0, tries |-> 0]
Working == {"period", "queue", "wait"}
Task == [run : Run, player : Player, day : Day]
Step == {"none", "taken", "read", "saved"}
NoTask == [step |-> "none", task |-> <<>>, level |-> 0]

TypeOK ==
  /\ today \in 0 .. MaxDay
  /\ place \in [Player -> [Day -> Nat \cup {NoPlace}]]
  /\ last \in [Player -> [on : 0 .. MaxDay, level : Nat]]
  /\ lastUpdate \in 0 .. MaxDay
  /\ job \in [Job -> Request]
  /\ faults \in 0 .. MaxFault /\ posted \in 0 .. MaxPosted
  /\ pc \in [Run -> Working \cup {"idle"}]
  /\ owner \in [Run -> Job \cup {NoJob}]
  /\ at \in [Run -> 0 .. MaxDay] /\ upto \in [Run -> 0 .. MaxDay]
  /\ loaded \in [Run -> 0 .. MaxDay]
  /\ result \in [Run -> [Player -> {"none", "ok", "failed"}]]
  /\ queue \in Seq(Task)
  /\ active.step \in Step /\ active.level \in Nat
  /\ active.step # "none" => active.task \in Task
  /\ overlap \in BOOLEAN /\ sound \in SUBSET Day

Init ==
  /\ today = 0
  /\ place = [p \in Player |-> [d \in Day |-> NoPlace]]
  /\ last = [p \in Player |-> [on |-> 0, level |-> Start0]]
  /\ lastUpdate = 0
  /\ job = [j \in Job |-> Idle]
  /\ faults = 0 /\ posted = 0
  /\ pc = [r \in Run |-> "idle"] /\ owner = [r \in Run |-> NoJob]
  /\ at = [r \in Run |-> 0] /\ upto = [r \in Run |-> 0]
  /\ loaded = [r \in Run |-> 0]
  /\ result = [r \in Run |-> [p \in Player |-> "none"]]
  /\ queue = <<>> /\ active = NoTask
  /\ overlap = FALSE /\ sound = {}

Fault == faults < MaxFault /\ faults' = faults + 1

----------------------------------------------------------------------------
(* The queue of UpdateRanking jobs. *)

NextDay ==
  /\ today < MaxDay
  /\ today' = today + 1
  /\ UNCHANGED <<table, job, bound, run, result, work, ghost>>

Enqueue(j, from, to, tries) ==
  /\ job[j].state = "none"
  /\ job' = [job EXCEPT ![j] =
       [state |-> "waiting", from |-> from, to |-> to, tries |-> tries]]
  /\ UNCHANGED <<today, table, faults, run, result, work, ghost>>

Running == \E k \in Job : job[k].state \in {"waiting", "active"}

(* onTick: unless one is active or waiting, and with a single attempt.  It *)
(* asks for periods from the last one, which is a period itself, so there  *)
(* always is one.                                                          *)
CronAdd(j) == ~Running /\ Enqueue(j, 0, 0, 1) /\ UNCHANGED posted

(* runJob, the same by hand, but with retries. *)
RunJob(j) == ~Running /\ Enqueue(j, 0, 0, Attempts) /\ UNCHANGED posted

(* POST /queue-job: any days, whatever is running. *)
PostJob(j, from, to) ==
  /\ posted < MaxPosted
  /\ posted' = posted + 1
  /\ from <= to /\ to <= today
  /\ Enqueue(j, from, to, 1)

Retry(j) ==
  /\ job[j].state = "delayed"
  /\ job' = [job EXCEPT ![j].state = "waiting"]
  /\ UNCHANGED <<today, table, bound, run, result, work, ghost>>

(* The job fails: again later, or never.                                   *)
Failed(j) ==
  IF job[j].tries > 1
  THEN [job[j] EXCEPT !.state = "delayed", !.tries = @ - 1]
  ELSE Idle

----------------------------------------------------------------------------
(* A run. *)

(* The day the run begins with: that of its arguments, or the one after    *)
(* calculationLastUpdate.                                                  *)
From(j) == IF job[j].from # 0 THEN job[j].from ELSE lastUpdate + 1

(* Bug: the period that is still running is calculated too. *)
ToNext(j) == IF job[j].to # 0 THEN job[j].to ELSE today + 1

(* The last day: that of its arguments, or now. *)
To(j) == IF job[j].to # 0 THEN job[j].to ELSE today

(* updateRanking: loads the system and asks for the periods; without any,  *)
(* it is done.  The queue has one slot.                                    *)
Begin(r, j) ==
  /\ job[j].state = "waiting"
  /\ \A k \in Job : job[k].state # "active"
  /\ pc[r] = "idle"
  /\ \A i \in 1 .. Len(queue) : queue[i].run # r
  /\ IF active.step = "none" THEN TRUE ELSE active.task.run # r
  /\ IF From(j) > To(j)
     THEN /\ job' = [job EXCEPT ![j] = Idle]
          /\ UNCHANGED <<run, overlap>>
     ELSE /\ job' = [job EXCEPT ![j].state = "active"]
          /\ pc' = [pc EXCEPT ![r] = "period"]
          /\ owner' = [owner EXCEPT ![r] = j]
          /\ at' = [at EXCEPT ![r] = From(j)]
          /\ upto' = [upto EXCEPT ![r] = To(j)]
          /\ loaded' = [loaded EXCEPT ![r] = lastUpdate]
          /\ overlap' = (overlap \/ \E s \in Run : pc[s] # "idle")
  /\ UNCHANGED <<today, table, bound, result, work, sound>>

(* Bug: the places are left where they are. *)
KeepPlaces(r) ==
  /\ pc[r] = "period"
  /\ sound' = sound \ {at[r]}
  /\ pc' = [pc EXCEPT ![r] = "queue"]
  /\ UNCHANGED <<today, table, job, bound, owner, at, upto, loaded,
                 result, work, overlap>>

(* createUpdateRanking: the places of the date are deleted; a bulk         *)
(* deletion runs no hook.                                                  *)
Truncate(r) ==
  /\ pc[r] = "period"
  /\ place' = [p \in Player |-> [place[p] EXCEPT ![at[r]] = NoPlace]]
  /\ sound' = sound \ {at[r]}
  /\ pc' = [pc EXCEPT ![r] = "queue"]
  /\ UNCHANGED <<today, last, lastUpdate, job, bound, owner, at, upto, loaded,
                 result, work, overlap>>

(* One job per player. *)
AddJobs(r) ==
  /\ pc[r] = "queue"
  /\ \E order \in [1 .. Cardinality(Player) -> Player] :
       /\ \A p \in Player : \E i \in DOMAIN order : order[i] = p
       /\ queue' = queue \o [i \in DOMAIN order |->
            [run |-> r, player |-> order[i], day |-> at[r]]]
  /\ result' = [result EXCEPT ![r] = [p \in Player |-> "none"]]
  /\ pc' = [pc EXCEPT ![r] = "wait"]
  /\ UNCHANGED <<today, table, job, bound, owner, at, upto, loaded, active, ghost>>

(* The run and its job come to an end. *)
Leave(r, after) ==
  /\ pc' = [pc EXCEPT ![r] = "idle"]
  /\ owner' = [owner EXCEPT ![r] = NoJob]
  /\ at' = [at EXCEPT ![r] = 0] /\ upto' = [upto EXCEPT ![r] = 0]
  /\ loaded' = [loaded EXCEPT ![r] = 0]
  /\ result' = [result EXCEPT ![r] = [p \in Player |-> "none"]]
  /\ job' = IF owner[r] = NoJob THEN job ELSE [job EXCEPT ![owner[r]] = after]

(* Bug: the run does not look at the results of its jobs. *)
FinishedAnyway(r) == \A p \in Player : result[r][p] # "none"

Finished(r) == \A p \in Player : result[r][p] = "ok"

(* Bug: the last period of a run is not recorded. *)
RecordedLate(r) == IF at[r] < upto[r] THEN at[r] ELSE lastUpdate

(* Sequelize writes the date if it differs from the loaded one. *)
Recorded(r) == IF loaded[r] = at[r] THEN lastUpdate ELSE at[r]

Calculated(d) ==
  sound' = IF d = 1 \/ d - 1 \in sound THEN sound \cup {d} ELSE sound \ {d}

(* All jobs of the period are finished: it is recorded as the              *)
(* calculationLastUpdate, and the next one begins.                         *)
Advance(r) ==
  /\ pc[r] = "wait"
  /\ Finished(r)
  /\ lastUpdate' = Recorded(r)
  /\ Calculated(at[r])
  /\ IF at[r] < upto[r]
     THEN /\ pc' = [pc EXCEPT ![r] = "period"]
          /\ at' = [at EXCEPT ![r] = @ + 1]
          /\ loaded' = [loaded EXCEPT ![r] = at[r]]
          /\ UNCHANGED <<job, owner, upto, result>>
     ELSE Leave(r, Idle)
  /\ UNCHANGED <<today, place, last, bound, work, overlap>>

(* One of its jobs failed: Promise.all rejects at once, and the jobs that  *)
(* wait stay in the places queue.                                          *)
JobFailed(r) ==
  /\ pc[r] = "wait"
  /\ \E p \in Player : result[r][p] = "failed"
  /\ Leave(r, Failed(owner[r]))
  /\ UNCHANGED <<today, table, bound, work, ghost>>

(* Anything else that throws. *)
RunFails(r) ==
  /\ Fault
  /\ pc[r] # "idle"
  /\ Leave(r, Failed(owner[r]))
  /\ UNCHANGED <<today, table, posted, work, ghost>>

(* The job of the run reaches its time limit and fails; the run goes on.   *)
Timeout(r) ==
  /\ Fault
  /\ pc[r] # "idle" /\ owner[r] # NoJob
  /\ job' = [job EXCEPT ![owner[r]] = Failed(owner[r])]
  /\ owner' = [owner EXCEPT ![r] = NoJob]
  /\ UNCHANGED <<today, table, posted, pc, at, upto, loaded, result, work, ghost>>

(* The ranking worker dies: its runs are gone, its job is found stalled    *)
(* and waits again.                                                        *)
Crash ==
  /\ Fault
  /\ pc' = [r \in Run |-> "idle"] /\ owner' = [r \in Run |-> NoJob]
  /\ at' = [r \in Run |-> 0] /\ upto' = [r \in Run |-> 0]
  /\ loaded' = [r \in Run |-> 0]
  /\ result' = [r \in Run |-> [p \in Player |-> "none"]]
  /\ job' = [j \in Job |-> IF job[j].state = "active"
                           THEN [job[j] EXCEPT !.state = "waiting"] ELSE job[j]]
  /\ UNCHANGED <<today, table, posted, work, ghost>>

----------------------------------------------------------------------------
(* The places worker. *)

Take ==
  /\ active.step = "none" /\ queue # <<>>
  /\ active' = [NoTask EXCEPT !.step = "taken", !.task = Head(queue)]
  /\ queue' = Tail(queue)
  /\ UNCHANGED <<today, table, job, bound, run, result, ghost>>

(* The level of the last place up to day d. *)
LastLevel(p, d) ==
  LET rows == {c \in Day : c <= d /\ place[p][c] # NoPlace} IN
  IF rows = {} THEN Start0
  ELSE place[p][CHOOSE c \in rows : \A b \in rows : b <= c]

Read ==
  /\ active.step = "taken"
  /\ active' = [active EXCEPT !.step = "read",
       !.level = LastLevel(active.task.player, active.task.day)
                 + IF active.task.day \in Update THEN 1 ELSE 0]
  /\ UNCHANGED <<today, table, job, bound, run, result, queue, ghost>>

(* The task ends; its run, if that still waits, hears of it. *)
Report(what) ==
  LET t == active.task IN
  /\ active' = NoTask
  /\ result' = IF pc[t.run] = "wait" /\ at[t.run] = t.day
               THEN [result EXCEPT ![t.run][t.player] = what] ELSE result

(* Bug: no unique index. *)
SaveAlways ==
  LET p == active.task.player
      d == active.task.day IN
  /\ active.step = "read"
  /\ place' = [place EXCEPT ![p][d] = active.level]
  /\ active' = [active EXCEPT !.step = "saved"]
  /\ UNCHANGED <<today, last, lastUpdate, job, bound, run, result, queue, ghost>>

(* The new row, which the unique index may refuse. *)
Save ==
  LET p == active.task.player
      d == active.task.day IN
  /\ active.step = "read"
  /\ IF place[p][d] = NoPlace
     THEN /\ place' = [place EXCEPT ![p][d] = active.level]
          /\ active' = [active EXCEPT !.step = "saved"]
          /\ UNCHANGED result
     ELSE /\ Report("failed")
          /\ UNCHANGED place
  /\ UNCHANGED <<today, last, lastUpdate, job, bound, run, queue, ghost>>

(* Bug: a row of the same day does not replace the one of before. *)
HookNewer ==
  LET p == active.task.player
      d == active.task.day IN
  /\ active.step = "saved"
  /\ last' = IF d > last[p].on
             THEN [last EXCEPT ![p] = [on |-> d, level |-> active.level]]
             ELSE last
  /\ Report("ok")
  /\ UNCHANGED <<today, place, lastUpdate, job, bound, run, queue, ghost>>

(* The hook of the row and the end of the job. *)
Hook ==
  LET p == active.task.player
      d == active.task.day IN
  /\ active.step = "saved"
  /\ last' = IF d >= last[p].on
             THEN [last EXCEPT ![p] = [on |-> d, level |-> active.level]]
             ELSE last
  /\ Report("ok")
  /\ UNCHANGED <<today, place, lastUpdate, job, bound, run, queue, ghost>>

(* The place job fails before or after its row was stored. *)
TaskFails ==
  /\ Fault
  /\ active.step # "none"
  /\ Report("failed")
  /\ UNCHANGED <<today, table, job, posted, run, queue, ghost>>

(* The places worker dies: the job is found stalled and taken again.       *)
TaskStalls ==
  /\ Fault
  /\ active.step # "none"
  /\ queue' = <<active.task>> \o queue
  /\ active' = NoTask
  /\ UNCHANGED <<today, table, job, posted, run, result, ghost>>

----------------------------------------------------------------------------
RunStep(r) ==
  \/ Truncate(r) \/ AddJobs(r) \/ Advance(r) \/ JobFailed(r)
  \/ \E j \in Job : Begin(r, j)

PlaceStep == Take \/ Read \/ Save \/ Hook

Next ==
  \/ NextDay
  \/ \E j \in Job : CronAdd(j) \/ RunJob(j) \/ Retry(j)
  \/ \E j \in Job, from, to \in Day : PostJob(j, from, to)
  \/ \E r \in Run : RunStep(r) \/ RunFails(r) \/ Timeout(r)
  \/ Crash
  \/ PlaceStep \/ TaskFails \/ TaskStalls

Spec == Init /\ [][Next]_vars

(* The cron ticks for ever, backoffs end, and the two workers keep going.  *)
(* Days, jobs made by hand and faults are not fair.                        *)
Fairness ==
  /\ SF_vars(\E j \in Job : CronAdd(j))
  /\ \A j \in Job : WF_vars(Retry(j))
  /\ \A r \in Run : SF_vars(RunStep(r))
  /\ WF_vars(PlaceStep)

FairSpec == Spec /\ Fairness

----------------------------------------------------------------------------
UpdatesUpTo(d) == Cardinality({c \in Update : c <= d})

(* Whatever failed, was repeated or crashed before it, a day calculated    *)
(* on top of the days before it went through every update exactly once for *)
(* every player - as long as no two runs were at work at once.  Without    *)
(* jobs for chosen days, that is every day up to calculationLastUpdate.    *)
EachUpdateOnce ==
  ~overlap =>
    /\ \A p \in Player, d \in sound : place[p][d] = UpdatesUpTo(d)
    /\ posted = 0 => 1 .. lastUpdate \subseteq sound

(* RankingLastPlace never lags behind what is calculated, and shows the    *)
(* place itself if it is of that day.                                      *)
LastPlaceFollows ==
  ~overlap => \A p \in Player :
    /\ last[p].on >= lastUpdate
    /\ last[p].on \in sound => last[p].level = UpdatesUpTo(last[p].on)

(* Nothing of the calculation is left to do: no run, no job, no place job. *)
Quiet ==
  /\ \A j \in Job : job[j].state = "none"
  /\ \A r \in Run : pc[r] = "idle"
  /\ queue = <<>> /\ active.step = "none"

(* If the ticks leave the workers the time to finish what they are at (the *)
(* jobs a failed run leaves behind would make the next one fail, and so    *)
(* on), everything up to today is calculated in the end, also after runs   *)
(* that overlapped and after a run over old days, which moves              *)
(* calculationLastUpdate back.                                             *)
CatchesUp == []<>Quiet => <>[](lastUpdate = today)
=============================================================================
