--------------------------- MODULE ScheduledSync ---------------------------
(***************************************************************************)
(* The scheduled event sync: the cron of the API that queues a SyncEvents  *)
(* job (cron.ts) and the job itself (sync-events.processor.ts).            *)
(*                                                                         *)
(* A tick, or a click on "run now", asks the queue for waiting and active  *)
(* jobs and THEN adds one; a job that waits for its next attempt is not    *)
(* seen.  A run reads CronJob.lastRun, asks toernooi.nl for the            *)
(* tournaments changed since that DAY and synchronises them one by one,    *)
(* each in a transaction of its own; one that fails is rolled back and     *)
(* skipped.  In the end, after a failure too, lastRun becomes the present. *)
(* An operator can add a job for one tournament, which moves lastRun as    *)
(* well.                                                                   *)
(*                                                                         *)
(* The content of a tournament is a version number.  Not modelled: the     *)
(* options date, search, startDate, skip, only, offset and limit of        *)
(* hand-made jobs; more than one page of changes (100); the row's amount,  *)
(* which this job counts and never reads (module RankingSync has the jobs  *)
(* that do).                                                               *)
(***************************************************************************)
EXTENDS Naturals

CONSTANTS
  Event,       \* tournaments and leagues of toernooi.nl
  Api,         \* processes (or requests) that queue the scheduled job
  Job,         \* places for SyncEvents jobs in the queue
  MaxDay,      \* bound on the days
  MaxVersion,  \* bound on the changes of a tournament
  Attempts,    \* attempts of a job
  MaxFault,    \* bound on failures and crashes
  MaxHandMade  \* bound on jobs an operator adds

ASSUME ScheduledConstants ==
  /\ MaxDay \in Nat /\ MaxVersion \in Nat
  /\ Attempts \in Nat /\ MaxFault \in Nat /\ MaxHandMade \in Nat

VARIABLES
  day,
  site,        \* site[e]: the version on toernooi.nl
  changedOn,   \* changedOn[e]: the day of that version
  synced,      \* synced[e]: the version in the database
  lastRun,     \* the day of CronJob.lastRun
  asked,       \* asked[a]: found no job of that name and is about to add one
  phase,       \* phase[j]: where the job stands
  only,        \* only[j]: {} for a scheduled job, {e} for one of tournament e
  failed,      \* failed[j]: attempts that failed
  since,       \* since[j]: the lastRun its run read
  fetchedOn,   \* fetchedOn[j]: the day its run fetched the list
  list,        \* list[j]: tournaments still to be synchronised
  open,        \* open[j]: the tournament of the open transaction, {} or {e}
  seen,        \* seen[j]: the version that transaction read
  faults,      \* failures and crashes so far
  handMade,    \* jobs operators added so far
  excused      \* history: tournaments a failure, a run for another one or a
               \* run over midnight left behind

queue == <<asked, only, failed, handMade>>
world == <<day, site, changedOn>>
run   == <<since, fetchedOn, list, open, seen>>
vars  == <<world, synced, lastRun, phase, queue, run, faults, excused>>

Active == {"started", "working"}
Phase == Active \cup {"none", "waiting", "delayed"}
Singleton == {{}} \cup {{e} : e \in Event}

TypeOK ==
  /\ day \in 0 .. MaxDay
  /\ site \in [Event -> 0 .. MaxVersion]
  /\ changedOn \in [Event -> 0 .. MaxDay]
  /\ synced \in [Event -> 0 .. MaxVersion]
  /\ lastRun \in 0 .. MaxDay
  /\ asked \in [Api -> BOOLEAN]
  /\ phase \in [Job -> Phase]
  /\ only \in [Job -> Singleton]
  /\ failed \in [Job -> 0 .. Attempts]
  /\ since \in [Job -> 0 .. MaxDay]
  /\ fetchedOn \in [Job -> 0 .. MaxDay]
  /\ list \in [Job -> SUBSET Event]
  /\ open \in [Job -> Singleton]
  /\ seen \in [Job -> 0 .. MaxVersion]
  /\ faults \in 0 .. MaxFault /\ handMade \in 0 .. MaxHandMade
  /\ excused \in SUBSET Event

Init ==
  /\ day = 0
  /\ site = [e \in Event |-> 0] /\ changedOn = [e \in Event |-> 0]
  /\ synced = [e \in Event |-> 0]
  /\ lastRun = 0
  /\ asked = [a \in Api |-> FALSE]
  /\ phase = [j \in Job |-> "none"]
  /\ only = [j \in Job |-> {}] /\ failed = [j \in Job |-> 0]
  /\ since = [j \in Job |-> 0] /\ fetchedOn = [j \in Job |-> 0]
  /\ list = [j \in Job |-> {}] /\ open = [j \in Job |-> {}]
  /\ seen = [j \in Job |-> 0]
  /\ faults = 0 /\ handMade = 0
  /\ excused = {}

Stale(e) == site[e] # synced[e]

----------------------------------------------------------------------------
(* Days pass, tournaments change. *)

Tick ==
  /\ day < MaxDay
  /\ day' = day + 1
  /\ UNCHANGED <<site, changedOn, synced, lastRun, phase, queue, run, faults, excused>>

Change(e) ==
  /\ site[e] < MaxVersion
  /\ site' = [site EXCEPT ![e] = @ + 1]
  /\ changedOn' = [changedOn EXCEPT ![e] = day]
  /\ excused' = excused \ {e}
  /\ UNCHANGED <<day, synced, lastRun, phase, queue, run, faults>>

----------------------------------------------------------------------------
(* The queue. *)

(* onTick or runJob: getJobs(["active", "waiting"]) finds no such job.     *)
Ask(a) ==
  /\ ~asked[a]
  /\ \A j \in Job : phase[j] \in {"none", "delayed"}
  /\ asked' = [asked EXCEPT ![a] = TRUE]
  /\ UNCHANGED <<world, synced, lastRun, phase, only, failed, handMade,
                 run, faults, excused>>

(* queue.add, whatever was added since. *)
Add(a, j) ==
  /\ asked[a]
  /\ phase[j] = "none"
  /\ asked' = [asked EXCEPT ![a] = FALSE]
  /\ phase' = [phase EXCEPT ![j] = "waiting"]
  /\ UNCHANGED <<world, synced, lastRun, only, failed, handMade,
                 run, faults, excused>>

(* POST /queue-job with the id of a tournament: no check.  Jobs without    *)
(* end would keep the scheduled one away for ever, hence the bound.        *)
AddOne(j, e) ==
  /\ phase[j] = "none"
  /\ handMade < MaxHandMade
  /\ handMade' = handMade + 1
  /\ phase' = [phase EXCEPT ![j] = "waiting"]
  /\ only' = [only EXCEPT ![j] = {e}]
  /\ UNCHANGED <<world, synced, lastRun, asked, failed, run, faults, excused>>

(* The backoff of a failed attempt is over. *)
Promote(j) ==
  /\ phase[j] = "delayed"
  /\ phase' = [phase EXCEPT ![j] = "waiting"]
  /\ UNCHANGED <<world, synced, lastRun, queue, run, faults, excused>>

----------------------------------------------------------------------------
(* One run. *)

(* The run reads the row. *)
Start(j) ==
  /\ phase[j] = "waiting"
  /\ phase' = [phase EXCEPT ![j] = "started"]
  /\ since' = [since EXCEPT ![j] = lastRun]
  /\ UNCHANGED <<world, synced, lastRun, queue, fetchedOn, list, open, seen,
                 faults, excused>>

(* Bug: the changes of the day of the last run are taken to be in. *)
ChangedAfter(d) == {e \in Event : changedOn[e] > d}

(* getChangeEvents: the refdate is a day. *)
ChangedSince(d) == {e \in Event : changedOn[e] >= d}

Fetch(j) ==
  /\ phase[j] = "started"
  /\ phase' = [phase EXCEPT ![j] = "working"]
  /\ list' = [list EXCEPT ![j] =
       IF only[j] = {} THEN ChangedSince(since[j]) ELSE only[j]]
  /\ fetchedOn' = [fetchedOn EXCEPT ![j] = day]
  /\ UNCHANGED <<world, synced, lastRun, queue, since, open, seen, faults, excused>>

(* The transaction of the next tournament begins and its XML is fetched. *)
Read(j, e) ==
  /\ phase[j] = "working"
  /\ open[j] = {} /\ e \in list[j]
  /\ open' = [open EXCEPT ![j] = {e}]
  /\ seen' = [seen EXCEPT ![j] = site[e]]
  /\ UNCHANGED <<world, synced, lastRun, phase, queue, since, fetchedOn, list,
                 faults, excused>>

(* What j does with e comes to an end. *)
Close(j, e) ==
  /\ open[j] = {e}
  /\ open' = [open EXCEPT ![j] = {}]
  /\ list' = [list EXCEPT ![j] = @ \ {e}]
  /\ seen' = [seen EXCEPT ![j] = 0]
  /\ UNCHANGED <<since, fetchedOn>>

(* The transaction commits.  A run that works since yesterday may write    *)
(* what a later one has overtaken.                                         *)
CommitEvent(j, e) ==
  /\ phase[j] = "working"
  /\ Close(j, e)
  /\ synced' = [synced EXCEPT ![e] = seen[j]]
  /\ excused' = IF fetchedOn[j] < day /\ seen[j] < site[e]
                THEN excused \cup {e} ELSE excused
  /\ UNCHANGED <<world, lastRun, phase, queue, faults>>

(* The tournament fails: rollback, reported to Sentry, and on to the next. *)
DropEvent(j, e) ==
  /\ phase[j] = "working"
  /\ faults < MaxFault
  /\ faults' = faults + 1
  /\ Close(j, e)
  /\ excused' = excused \cup {e}
  /\ UNCHANGED <<world, synced, lastRun, phase, queue>>

(* The job leaves the queue. *)
Remove(j) ==
  /\ phase' = [phase EXCEPT ![j] = "none"]
  /\ only' = [only EXCEPT ![j] = {}]
  /\ failed' = [failed EXCEPT ![j] = 0]

Reset(j) ==
  /\ since' = [since EXCEPT ![j] = 0] /\ fetchedOn' = [fetchedOn EXCEPT ![j] = 0]
  /\ list' = [list EXCEPT ![j] = {}] /\ open' = [open EXCEPT ![j] = {}]
  /\ seen' = [seen EXCEPT ![j] = 0]

(* Bug: lastRun is rounded up to the next run. *)
EndAhead(j) ==
  /\ phase[j] = "working"
  /\ list[j] = {}
  /\ lastRun' = day + 1
  /\ Remove(j)
  /\ Reset(j)
  /\ UNCHANGED <<world, synced, asked, handMade, faults, excused>>

(* Bug: the run ends before its list does. *)
EndEarly(j) ==
  /\ phase[j] = "working"
  /\ open[j] = {}
  /\ lastRun' = day
  /\ Remove(j)
  /\ Reset(j)
  /\ UNCHANGED <<world, synced, asked, handMade, faults, excused>>

(* The finally block of a run that came to its end.  excused: a run for    *)
(* one tournament skips the others, a run over midnight what changed       *)
(* after it fetched the list.                                              *)
End(j) ==
  /\ phase[j] = "working"
  /\ list[j] = {}
  /\ lastRun' = day
  /\ Remove(j)
  /\ Reset(j)
  /\ excused' = excused \cup
       {e \in Event : /\ Stale(e) /\ changedOn[e] < day
                      /\ only[j] # {} \/ changedOn[e] >= fetchedOn[j]}
  /\ UNCHANGED <<world, synced, asked, handMade, faults>>

(* The attempt throws (the request for the list, a notification, the       *)
(* database); the finally block moves lastRun all the same, unless its     *)
(* save is what fails.  Bull retries later or gives up.                    *)
Fail(j, saved) ==
  /\ phase[j] \in Active
  /\ faults < MaxFault
  /\ faults' = faults + 1
  /\ IF failed[j] + 1 < Attempts
     THEN /\ phase' = [phase EXCEPT ![j] = "delayed"]
          /\ failed' = [failed EXCEPT ![j] = @ + 1]
          /\ UNCHANGED only
     ELSE Remove(j)
  /\ Reset(j)
  /\ lastRun' = IF saved THEN day ELSE lastRun
  /\ excused' = IF saved
                THEN excused \cup {e \in Event : Stale(e) /\ changedOn[e] < day}
                ELSE excused
  /\ UNCHANGED <<world, synced, asked, handMade>>

(* The worker dies; Bull finds its jobs stalled and queues them again. *)
Crash ==
  /\ faults < MaxFault
  /\ faults' = faults + 1
  /\ phase' = [j \in Job |-> IF phase[j] \in Active THEN "waiting" ELSE phase[j]]
  /\ since' = [j \in Job |-> 0] /\ fetchedOn' = [j \in Job |-> 0]
  /\ list' = [j \in Job |-> {}] /\ open' = [j \in Job |-> {}]
  /\ seen' = [j \in Job |-> 0]
  /\ UNCHANGED <<world, synced, lastRun, queue, excused>>

----------------------------------------------------------------------------
RunStep(j) ==
  \/ Promote(j) \/ Start(j) \/ Fetch(j) \/ End(j)
  \/ \E e \in Event : Read(j, e) \/ CommitEvent(j, e)

Queueing == \E a \in Api : Ask(a) \/ \E j \in Job : Add(a, j)

Next ==
  \/ Tick
  \/ Queueing
  \/ \E e \in Event : Change(e)
  \/ \E j \in Job : RunStep(j)
  \/ \E j \in Job, e \in Event : AddOne(j, e) \/ DropEvent(j, e)
  \/ \E j \in Job, saved \in BOOLEAN : Fail(j, saved)
  \/ Crash

Spec == Init /\ [][Next]_vars

(* The cron ticks for ever and the worker keeps taking steps.  Days,       *)
(* changes, hand-made jobs and faults are not fair.                        *)
Fairness ==
  /\ SF_vars(\E a \in Api : Ask(a))
  /\ SF_vars(\E a \in Api, j \in Job : Add(a, j))
  /\ \A j \in Job : WF_vars(RunStep(j))

FairSpec == Spec /\ Fairness

----------------------------------------------------------------------------
(* lastRun never passes a change that is not in the database: the next     *)
(* scheduled run asks for it, whatever was crashed, retried, queued twice  *)
(* or changed during a run - unless a failure, a run for one tournament or *)
(* a run over midnight left it behind.                                     *)
StillCovered ==
  \A e \in Event : Stale(e) /\ e \notin excused => changedOn[e] >= lastRun

(* Such a change reaches the database. *)
ChangeArrives ==
  \A e \in Event : Stale(e) ~> (~Stale(e) \/ e \in excused)
=============================================================================
