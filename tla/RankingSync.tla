---------------------------- MODULE RankingSync ----------------------------
(***************************************************************************)
(* The ranking sync of worker-sync: the SyncRanking job of SyncQueue       *)
(* (sync-ranking.processor.ts), the RankingSyncer it drives                *)
(* (ranking-sync.ts) and the hook that keeps RankingLastPlace              *)
(* (ranking-place.model.ts, updateLatestRankings).                         *)
(*                                                                         *)
(* One run of the job opens an OUTER transaction.  In it the steps read    *)
(* the ranking system, fetch the list of publications, move the watermark  *)
(* calculationLastUpdate to the last visible one and destroy the places of *)
(* the hidden ones.  Then every visible publication after the start of the *)
(* window (the job's start, or a week ago) is written in an INNER          *)
(* transaction of its own, and at last the outer one commits.  An error    *)
(* rolls the outer transaction back, not the inner ones, and Bull retries. *)
(*                                                                         *)
(* A run that finds the counter of its CronJob row positive ("running")    *)
(* ends at once; but the counter is read, incremented and saved without a  *)
(* lock, two jobs started together both pass.  All runs of a worker share  *)
(* ONE RankingSyncer, and the steps leave their results in it (step*       *)
(* below): a run that overlaps another reads what the other left there.    *)
(*                                                                         *)
(* Dates are days of publications; one player list per date.  Not          *)
(* modelled: stop dates of a job, levels and points, new players,          *)
(* updateLastUpdate (written with the watermark), lastRun (module          *)
(* ScheduledSync), game memberships.                                       *)
(***************************************************************************)
EXTENDS Naturals

CONSTANTS
  Run,       \* jobs of the queue that can exist at once
  Player,
  MaxDate,   \* last day of the calendar
  Window,    \* length of the default window (a week) in days
  Listed,    \* Listed[d]: the players on the publication of day d
  Attempts,  \* attempts of a job
  MaxFault   \* bound on failed steps and worker crashes

Date == 1 .. MaxDate

ASSUME RankingConstants ==
  /\ MaxDate \in Nat \ {0} /\ Window \in Nat
  /\ Attempts \in Nat \ {0} /\ MaxFault \in Nat
  /\ Listed \in [Date -> SUBSET Player]

VARIABLES
  now,         \* today
  site,        \* site[d]: day d on toernooi.nl: "visible", or "hidden" when not published
  watermark,   \* calculationLastUpdate, committed (0: the initial date)
  places,      \* committed RankingPlace rows, as <<date, player>>
  last,        \* last[p]: date of RankingLastPlace (0: no row, or no date)
  amount,      \* the counter of the CronJob row
  booted,      \* the worker has reset the counter after its last start
  phase,       \* phase[r]: where the job stands
  jobStart,    \* jobStart[r]: start in the job's data, or NoStart
  failed,      \* failed[r]: attempts that failed
  fetched,     \* fetched[r]: the publication list the run fetched
  outerMark,   \* outerMark[r]: watermark written in the outer transaction (0: none)
  outerGone,   \* outerGone[r]: dates destroyed in the outer transaction
  todo,        \* todo[r]: publications still to be written
  readLast,    \* readLast[r]: what the hook of the open inner transaction read
  loaded,      \* loaded[r]: watermark in the system object r's getRankings loaded
  system,      \* system[r]: the run whose system object r works on
  stepStart, stepSystem, stepVisible,   \* step data of the shared RankingSyncer
  faults,      \* failures and crashes so far
  accounted,   \* history: dates a committed run saw visible, not hidden since
  outage,      \* history: a visible publication left the window unwritten
  overlap      \* history: two runs were between their first and last step

db     == <<watermark, places, last>>
world  == <<now, site>>
row    == <<amount, booted>>
job    == <<jobStart, failed>>
run    == <<fetched, outerMark, outerGone, todo, readLast, loaded, system>>
steps  == <<stepStart, stepSystem, stepVisible>>
ghost  == <<accounted, outage, overlap>>
vars   == <<world, db, row, phase, job, run, steps, faults, ghost>>

NoStart == MaxDate + 1
Shown == {"visible", "hidden"}
Open == {"categories", "save", "remove", "points", "writing"}
Active == Open \cup {"counting", "begin"}
Phase == Active \cup {"none", "waiting", "delayed"}
NoList == [visible |-> {}, hidden |-> {}]

TypeOK ==
  /\ now \in Date /\ site \in [Date -> Shown]
  /\ watermark \in 0 .. MaxDate /\ places \in SUBSET (Date \X Player)
  /\ last \in [Player -> 0 .. MaxDate]
  /\ amount \in {0, 1} /\ booted \in BOOLEAN
  /\ phase \in [Run -> Phase]
  /\ jobStart \in [Run -> 0 .. NoStart]
  /\ failed \in [Run -> 0 .. Attempts]
  /\ fetched \in [Run -> [visible : SUBSET Date, hidden : SUBSET Date]]
  /\ outerMark \in [Run -> 0 .. MaxDate]
  /\ outerGone \in [Run -> SUBSET Date]
  /\ todo \in [Run -> SUBSET Date]
  /\ readLast \in [Run -> [Player -> 0 .. MaxDate]]
  /\ loaded \in [Run -> 0 .. MaxDate] /\ system \in [Run -> SUBSET Run]
  /\ stepStart \in 0 .. MaxDate /\ stepSystem \in SUBSET Run
  /\ stepVisible \in SUBSET Date
  /\ faults \in 0 .. MaxFault
  /\ accounted \in SUBSET Date
  /\ outage \in BOOLEAN /\ overlap \in BOOLEAN

Init ==
  /\ now = 1 /\ site = [d \in Date |-> "hidden"]
  /\ watermark = 0 /\ places = {} /\ last = [p \in Player |-> 0]
  /\ amount = 0 /\ booted = TRUE
  /\ phase = [r \in Run |-> "none"]
  /\ jobStart = [r \in Run |-> NoStart] /\ failed = [r \in Run |-> 0]
  /\ fetched = [r \in Run |-> NoList]
  /\ outerMark = [r \in Run |-> 0]
  /\ outerGone = [r \in Run |-> {}] /\ todo = [r \in Run |-> {}]
  /\ readLast = [r \in Run |-> [p \in Player |-> 0]]
  /\ loaded = [r \in Run |-> 0] /\ system = [r \in Run |-> {}]
  /\ stepStart = 0 /\ stepSystem = {} /\ stepVisible = {}
  /\ faults = 0
  /\ accounted = {} /\ outage = FALSE /\ overlap = FALSE

Rows(D) == {dp \in Date \X Player : dp[1] \in D /\ dp[2] \in Listed[dp[1]]}
On(shown) == {d \in Date : site[d] = shown}

(* A visible publication is outside the default window and not stored. *)
Left(s, n, pl) ==
  \E d \in Date : s[d] = "visible" /\ d + Window <= n /\ ~(Rows({d}) \subseteq pl)

----------------------------------------------------------------------------
(* The environment: days pass, the federation publishes, hides and shows   *)
(* publications.                                                           *)

Tick ==
  /\ now < MaxDate
  /\ now' = now + 1
  /\ outage' = (outage \/ Left(site, now + 1, places))
  /\ UNCHANGED <<site, db, row, phase, job, run, steps, faults, accounted, overlap>>

Publish(d, shown) ==
  /\ d <= now
  /\ site[d] # shown
  /\ site' = [site EXCEPT ![d] = shown]
  /\ outage' = (outage \/ Left(site', now, places))
  /\ UNCHANGED <<now, db, row, phase, job, run, steps, faults, accounted, overlap>>

----------------------------------------------------------------------------
(* The queue. *)

(* The job leaves the queue. *)
Remove(r) ==
  /\ phase' = [phase EXCEPT ![r] = "none"]
  /\ jobStart' = [jobStart EXCEPT ![r] = NoStart]
  /\ failed' = [failed EXCEPT ![r] = 0]

(* The cron adds a job without data unless one waits or runs. *)
CronAdd(r) ==
  /\ phase[r] = "none"
  /\ \A s \in Run : phase[s] \in {"none", "delayed"}
  /\ phase' = [phase EXCEPT ![r] = "waiting"]
  /\ UNCHANGED <<world, db, row, job, run, steps, faults, ghost>>

(* An operator adds a backfill by hand: no check, and a start in the job's *)
(* data, before the default window (docs/ranking-sync.md, Recovery).       *)
Backfill(r, d) ==
  /\ phase[r] = "none"
  /\ d + Window <= now
  /\ phase' = [phase EXCEPT ![r] = "waiting"]
  /\ jobStart' = [jobStart EXCEPT ![r] = d]
  /\ UNCHANGED <<world, db, row, failed, run, steps, faults, ghost>>

(* Bull hands the job to a slot of the worker: syncRanking opens the outer *)
(* transaction and reads the CronJob row.                                  *)
Start(r) ==
  /\ phase[r] = "waiting"
  /\ amount = 0
  /\ phase' = [phase EXCEPT ![r] = "counting"]
  /\ UNCHANGED <<world, db, row, job, run, steps, faults, ghost>>

(* The row says a run is going on: the job completes without a step. *)
Decline(r) ==
  /\ phase[r] = "waiting"
  /\ amount > 0
  /\ Remove(r)
  /\ UNCHANGED <<world, db, row, run, steps, faults, ghost>>

(* amount++ on the row that was read, and save. *)
Count(r) ==
  /\ phase[r] = "counting"
  /\ phase' = [phase EXCEPT ![r] = "begin"]
  /\ amount' = 1
  /\ UNCHANGED <<world, db, booted, job, run, steps, faults, ghost>>

(* The backoff of a failed attempt is over. *)
Promote(r) ==
  /\ phase[r] = "delayed"
  /\ phase' = [phase EXCEPT ![r] = "waiting"]
  /\ UNCHANGED <<world, db, row, job, run, steps, faults, ghost>>

----------------------------------------------------------------------------
(* One run. *)

Reset(r) ==
  /\ fetched' = [fetched EXCEPT ![r] = NoList]
  /\ outerMark' = [outerMark EXCEPT ![r] = 0]
  /\ outerGone' = [outerGone EXCEPT ![r] = {}]
  /\ todo' = [todo EXCEPT ![r] = {}]
  /\ readLast' = [readLast EXCEPT ![r] = [p \in Player |-> 0]]
  /\ system' = [system EXCEPT ![r] = {}]
  /\ UNCHANGED loaded

(* Bug: the default window is forgotten. *)
WindowStartRaw(r) == jobStart[r]

(* The start in the job's data, by default a week ago. *)
WindowStart(r) ==
  IF jobStart[r] # NoStart THEN jobStart[r]
  ELSE IF now > Window THEN now - Window ELSE 0

(* getRankings: the start of the window and the system go to the shared    *)
(* step data.                                                              *)
GetRankings(r) ==
  /\ phase[r] = "begin"
  /\ phase' = [phase EXCEPT ![r] = "categories"]
  /\ stepStart' = WindowStart(r)
  /\ stepSystem' = {r}
  /\ loaded' = [loaded EXCEPT ![r] = watermark]
  /\ overlap' = (overlap \/ \E s \in Run : phase[s] \in Open)
  /\ UNCHANGED <<world, db, row, job, fetched, outerMark, outerGone, todo, readLast,
                 system, stepVisible, faults, accounted, outage>>

(* getCategories, then getPublications takes the system out of the step    *)
(* data and requests the list.                                             *)
FetchPublications(r) ==
  /\ phase[r] = "categories"
  /\ phase' = [phase EXCEPT ![r] = "save"]
  /\ fetched' = [fetched EXCEPT ![r] =
       [visible |-> On("visible"), hidden |-> On("hidden")]]
  /\ system' = [system EXCEPT ![r] = stepSystem]
  /\ UNCHANGED <<world, db, row, job, outerMark, outerGone, todo, readLast, loaded,
                 steps, faults, ghost>>

(* Bug: hidden publications are not filtered out before the last is taken. *)
IsLastOfAll(mark, list) ==
  LET D == list.visible \cup list.hidden
  IN IF D = {} THEN mark = 0 ELSE mark \in D /\ \A d \in D : d <= mark

(* The date of the last visible publication, 0 when there is none. *)
IsLastOf(mark, list) ==
  LET D == list.visible
  IN IF D = {} THEN mark = 0 ELSE mark \in D /\ \A d \in D : d <= mark

(* getPublications saves the system.  Sequelize writes nothing when the    *)
(* date is the one in the object; a write locks the row until the outer    *)
(* transaction ends.                                                       *)
SavePublications(r) ==
  \E mark \in 0 .. MaxDate :
    LET writes == mark # 0 /\ \A o \in system[r] : mark # loaded[o]
    IN
     /\ phase[r] = "save"
     /\ IsLastOf(mark, fetched[r])
     /\ writes => \A s \in Run : outerMark[s] = 0
     /\ phase' = [phase EXCEPT ![r] = "remove"]
     /\ outerMark' = [outerMark EXCEPT ![r] = IF writes THEN mark ELSE 0]
     /\ loaded' = [o \in Run |->
          IF writes /\ o \in system[r] THEN mark ELSE loaded[o]]
     /\ stepVisible' = fetched[r].visible
     /\ UNCHANGED <<world, db, row, job, fetched, outerGone, todo, readLast, system,
                    stepStart, stepSystem, faults, ghost>>

Stored == {dp[1] : dp \in places}

(* removeInvisiblePublications counts and destroys in the outer            *)
(* transaction; then processPointsWithSeparateTransactions reads the step  *)
(* data and chooses the publications of the window.                        *)
RemoveInvisible(r) ==
  /\ phase[r] = "remove"
  /\ phase' = [phase EXCEPT ![r] = "points"]
  /\ outerGone' = [outerGone EXCEPT ![r] = fetched[r].hidden \cap Stored]
  /\ todo' = [todo EXCEPT ![r] = {d \in stepVisible : d > stepStart}]
  /\ UNCHANGED <<world, db, row, job, fetched, outerMark, readLast, loaded, system,
                 steps, faults, ghost>>

(* The oldest publication left: an inner transaction is opened; its hook   *)
(* reads RankingLastPlace before it writes.                                *)
OpenPublication(r) ==
  /\ phase[r] = "points"
  /\ todo[r] # {}
  /\ phase' = [phase EXCEPT ![r] = "writing"]
  /\ readLast' = [readLast EXCEPT ![r] = last]
  /\ UNCHANGED <<world, db, row, job, fetched, outerMark, outerGone, todo, loaded,
                 system, steps, faults, ghost>>

(* Bug: the hook writes the place it was called for, whatever was there. *)
NewLastAlways(r, d, p) == IF p \in Listed[d] THEN d ELSE last[p]

(* updateLatestRankings for a created place of day d: written when the row *)
(* had no date or no later one.                                            *)
NewLast(r, d, p) ==
  IF p \in Listed[d] /\ d >= readLast[r][p] THEN d ELSE last[p]

(* The inner transaction upserts the places, runs the hooks and commits.   *)
(* Rows another transaction destroyed stay locked until it ends.           *)
CommitPublication(r) ==
  \E d \in todo[r] :
     /\ phase[r] = "writing"
     /\ \A e \in todo[r] : d <= e
     /\ \A s \in Run : d \notin outerGone[s]
     /\ places' = places \cup Rows({d})
     /\ last' = [p \in Player |-> NewLast(r, d, p)]
     /\ todo' = [todo EXCEPT ![r] = @ \ {d}]
     /\ phase' = [phase EXCEPT ![r] = "points"]
     /\ readLast' = [readLast EXCEPT ![r] = [p \in Player |-> 0]]
     /\ UNCHANGED <<world, watermark, row, job, fetched, outerMark, outerGone,
                    loaded, system, steps, faults, ghost>>

(* Bug: the outer transaction commits before the publications are written. *)
CommitEarly(r) ==
  /\ phase[r] = "points"
  /\ Remove(r)
  /\ watermark' = IF outerMark[r] # 0 THEN outerMark[r] ELSE watermark
  /\ places' = {dp \in places : dp[1] \notin outerGone[r]}
  /\ accounted' = (accounted \cup fetched[r].visible) \ fetched[r].hidden
  /\ outage' = (outage \/ Left(site, now, places'))
  /\ amount' = 0
  /\ Reset(r)
  /\ UNCHANGED <<world, last, booted, steps, faults, overlap>>

(* Bug: the places of hidden publications stay. *)
CommitKeepingHidden(r) ==
  /\ phase[r] = "points"
  /\ todo[r] = {}
  /\ Remove(r)
  /\ watermark' = IF outerMark[r] # 0 THEN outerMark[r] ELSE watermark
  /\ accounted' = (accounted \cup fetched[r].visible) \ fetched[r].hidden
  /\ outage' = (outage \/ Left(site, now, places))
  /\ amount' = 0
  /\ Reset(r)
  /\ UNCHANGED <<world, places, last, booted, steps, faults, overlap>>

(* All publications are written: the outer transaction commits.  The bulk  *)
(* destroy in it runs no hook, RankingLastPlace stays.                     *)
Commit(r) ==
  /\ phase[r] = "points"
  /\ todo[r] = {}
  /\ Remove(r)
  /\ watermark' = IF outerMark[r] # 0 THEN outerMark[r] ELSE watermark
  /\ places' = {dp \in places : dp[1] \notin outerGone[r]}
  /\ accounted' = (accounted \cup fetched[r].visible) \ fetched[r].hidden
  /\ outage' = (outage \/ Left(site, now, places'))
  /\ amount' = 0
  /\ Reset(r)
  /\ UNCHANGED <<world, last, booted, steps, faults, overlap>>

(* The attempt is over: Bull retries later or gives up. *)
EndFailed(r) ==
  IF failed[r] + 1 < Attempts
  THEN /\ phase' = [phase EXCEPT ![r] = "delayed"]
       /\ failed' = [failed EXCEPT ![r] = @ + 1]
       /\ UNCHANGED jobStart
  ELSE Remove(r)

(* A step fails (a request, the database): the open transactions roll      *)
(* back, the publications that were written stay.  The finally block saves *)
(* the counter it decremented, unless the database is what fails.          *)
Fail(r, saved) ==
  /\ phase[r] \in Active \ {"counting"}
  /\ faults < MaxFault
  /\ faults' = faults + 1
  /\ EndFailed(r)
  /\ amount' = IF saved THEN 0 ELSE amount
  /\ Reset(r)
  /\ UNCHANGED <<world, db, booted, steps, ghost>>

(* The worker dies: the database rolls back every open transaction, Bull   *)
(* finds the jobs stalled and queues them again, the step data are new.    *)
Crash ==
  /\ faults < MaxFault
  /\ faults' = faults + 1
  /\ booted' = FALSE
  /\ phase' = [r \in Run |-> IF phase[r] \in Active THEN "waiting" ELSE phase[r]]
  /\ fetched' = [r \in Run |-> NoList]
  /\ outerMark' = [r \in Run |-> 0]
  /\ outerGone' = [r \in Run |-> {}] /\ todo' = [r \in Run |-> {}]
  /\ readLast' = [r \in Run |-> [p \in Player |-> 0]]
  /\ loaded' = [r \in Run |-> 0] /\ system' = [r \in Run |-> {}]
  /\ stepStart' = 0 /\ stepSystem' = {} /\ stepVisible' = {}
  /\ UNCHANGED <<world, db, amount, job, ghost>>

(* onApplicationBootstrap of the new worker, which may already run jobs. *)
Boot ==
  /\ ~booted
  /\ booted' = TRUE
  /\ amount' = 0
  /\ UNCHANGED <<world, db, phase, job, run, steps, faults, ghost>>

----------------------------------------------------------------------------
RunStep(r) ==
  \/ Start(r) \/ Decline(r) \/ Count(r) \/ Promote(r) \/ GetRankings(r) \/ FetchPublications(r)
  \/ SavePublications(r) \/ RemoveInvisible(r) \/ OpenPublication(r)
  \/ CommitPublication(r) \/ Commit(r)

Next ==
  \/ Tick
  \/ \E d \in Date, shown \in Shown : Publish(d, shown)
  \/ \E r \in Run : CronAdd(r) \/ RunStep(r)
  \/ \E r \in Run, saved \in BOOLEAN : Fail(r, saved)
  \/ \E r \in Run, d \in 0 .. MaxDate : Backfill(r, d)
  \/ Crash
  \/ Boot

Spec == Init /\ [][Next]_vars

(* The cron ticks every day and the worker keeps taking steps: every run   *)
(* is scheduled.  Days, the federation, operators and faults are not fair. *)
Fairness ==
  /\ SF_vars(\E r \in Run : CronAdd(r))
  /\ \A r \in Run : WF_vars(RunStep(r))
  /\ WF_vars(Boot)

FairSpec == Spec /\ Fairness

----------------------------------------------------------------------------
(* As long as runs do not overlap, RankingLastPlace keeps up with          *)
(* RankingPlace (docs/ranking-sync-recovery.md:129): no stored place of a  *)
(* player is newer than his last place, in whatever order backfills and    *)
(* scheduled runs write their publications.                                *)
KeepsUp == \A dp \in places : last[dp[2]] >= dp[1]
LastPlaceKeepsUp == overlap \/ KeepsUp

(* Without an outage of a week and without overlapping runs the sync heals *)
(* itself (docs/ranking-sync.md, section 5): whatever failed, crashed and  *)
(* was retried in between, a publication that a committed run saw visible  *)
(* is stored for every player on it.                                       *)
NoHole == (~overlap /\ ~outage) => Rows(accounted) \subseteq places

(* The watermark that gates the recalculation only names a publication     *)
(* some committed run accounted for, or one it hid again.                  *)
MarkIsAccounted ==
  [][watermark' # watermark => watermark' \in accounted']_vars

(* A publication that is hidden loses its places, whatever order failed    *)
(* runs, retries, backfills and crashes come in - or it is shown again, or *)
(* the counter stays up because the save that ends a run failed: then no   *)
(* run gets past the guard until the worker restarts.                      *)
Blocked == amount > 0 /\ \A r \in Run : phase[r] \notin Open \cup {"begin"}

HiddenIsRemoved ==
  \A d \in Date :
    (site[d] = "hidden") ~> (d \notin Stored \/ site[d] # "hidden" \/ Blocked)
=============================================================================
