# Badman: models, checks and proofs

Badman runs the badminton competitions of Flanders: an API (NestJS, GraphQL) over
PostgreSQL, Bull queues in Redis, a sync worker that reads from and writes to
toernooi.nl (a website driven with puppeteer, and an XML API), and a ranking worker.
The workers live on Render.com, which suspends and resumes them. This directory models
the parts of it whose correctness depends on the order in which things happen, checks
them with TLC and proves the main results with TLAPS. Paths are relative to the
repository's root.

## 1. Inventory

| Component | State it keeps | Operations | What is hard |
| --- | --- | --- | --- |
| **EnterScores serial queue** (`apps/worker/sync/.../enter-scores.processor.ts`) | `_serialQueue`, one promise per invocation | join, wait, release | any number of Bull slots call the handler at once; an invocation may throw; the process may die |
| **EnterScores push pipeline** (same directory, `retry-failed-encounters`, `backend-queue/enter-scores-request.ts`, `updateEncounterCompetition`) | the Bull job of each encounter, `scoresSyncedAt`, the singleton page, toernooi.nl | request, dispatch, the steps of an invocation, timeout, backoff, stall, retry cron | an abandoned invocation keeps running; the site answers late, wrongly or not at all; others enter results too |
| **Worker orchestrator** (`packages/backend-orchestrator`) | `hasStarted`, `startTime`, the `Service` row, Render's own state | check of every minute, start, stop, init | a check is a chain of awaits and the next one does not wait for it; Render may fail |
| **Shared browser** (`packages/backend-pupeteer/src/shared.ts`, `idle-shutdown.service.ts`) | `sharedBrowser`, `browserPromise`, `browserStartTime`, `activeRequestCount` | `getBrowser`, `getPage`, close, health monitor, idle shutdown | every await lets other jobs change the module's variables; Chrome crashes or hangs |
| **Encounter change requests** (`encounter-change.service.ts`, `adminChangeEncounterDate`) | requests, dates with a status, the date of the encounter | propose, triage, finalize, the administrator's change | two clubs act at the same time; statuses read before the commit that depends on them |
| **ChangeDate job and event sync of dates** (`change-date.ts`, `competition-sync/processors/encounter.ts`) | the date, `dateSyncedAt`, the date on toernooi.nl, cached XML | one job per changed date; the event sync reads the site's date back | concurrent jobs; a failing PUT; a sync that read before the change |
| **Ranking sync** (`sync-ranking`, `ranking-place.model.ts`) | `RankingPlace`, `RankingLastPlace`, the watermark `calculationLastUpdate`, `CronJob.amount`, step data | scheduled run, backfill, reset at boot | an outer transaction around many inner ones; two runs share one object; retries and crashes between the two |
| **Scheduled event sync** (`cron.ts`, `sync-events.processor.ts`) | `CronJob.lastRun`, the queue, one transaction per tournament | tick, manual trigger, job made by hand, run | check-then-add; `lastRun` moves after a failure too |
| **Event sync, second version** (`transaction-manger.service.ts`, `sync-events-v2`) | maps of transactions and of jobs in memory, Bull's job states | schedule, the tree of jobs, wait, commit, roll back | one database transaction over many jobs of a queue; timeout, crash |
| **Enrollment** (`submit-enrollment`, `enrollment-finalize`, `enrollment-entry`, `team-write`, `team.resolver.ts`) | teams, entries with `sendOn`, Logging rows | submit, finalize, enroll one team, create teams | four mutations overlap at READ COMMITTED, with row locks |
| **Ranking calculation** (`apps/worker/ranking`, `packages/backend-ranking`, the places worker) | `RankingPlace` by day, `RankingLastPlace`, `calculationLastUpdate`, two queues | cron, run over the periods, one job per player and period | no transaction; a failed run leaves jobs behind; a job that timed out keeps running; every update builds on the row before |
| **Levels** (`belgium-flanders-places.service.ts`, `get-ranking-protected.ts`, `ranking-system.model.ts`) | three levels and inactivity flags of a player | one update | caps by index, rounding, penalties at the last level, rules that pull against each other |
| Assembly, game generation, transfers | database rows | validation and computation | boundaries of pure functions, no interleavings |
| API controllers, other GraphQL resolvers, notifications, mail, cache, search, logging, translation, ... | none of their own | I/O | out of scope |

How they interact: the API and the crons *add jobs* to Redis; Bull in the worker *calls*
the processors, whose pages come from the *shared* browser; the orchestrator in the API
looks at the *counts* of the queues and tells Render to resume or suspend the worker;
results travel back through the database (`scoresSyncedAt`, `dateSyncedAt`,
`Service.status`). Nothing is transactional across these.
In particular the *negotiation* about a date ends with a ChangeDate job, whose result the
*event sync* may undo; the *crons* queue the syncs and read how many run from a counter
that the syncs themselves keep.

What makes each component correct:

- *serial queue*: one invocation at a time, in order of arrival, none forgotten;
- *push pipeline*: a result is stored at most once, never over somebody else's, and every
  finished encounter is eventually pushed, found on the site or out of season;
- *orchestrator*: waiting work gets a worker, an idle worker is suspended, and not early;
- *shared browser*: the request count covers everyone who holds the browser, nobody waits
  on a launch that failed, every `getPage` ends;
- *change requests*: the encounter moves only to a date both clubs agreed on, or to an
  administrator's; what was withdrawn is not accepted;
- *dates*: toernooi.nl ends with the date Badman has, and "synced" says so;
- *ranking sync*: what a run accounted for is stored, hidden publications are gone, the last
  place of a player is his newest, the watermark names nothing that was not written;
- *scheduled event sync*: no change of a tournament is forgotten by `lastRun`;
- *event sync, second version*: a tournament is committed whole or not at all, and no
  transaction stays open;
- *ranking calculation*: a calculated day went through every update once for every player, the last
  place follows, and what failed is made good;
- *levels*: they stay in range and move by what the system allows, and do not swing;
- *enrollment*: what a submission reports as submitted is sent, a repeated finalization
  finds nothing to do, what was sent stays sent, a mutation that fails leaves nothing behind,
  and overlapping mutations end.

## 2. Modules

| Module | Models | Relation to the others |
| --- | --- | --- |
| `PushLock` | what the serial queue promises: at most one invocation past the gate | abstract |
| `SerialGate` | the promise chain of `enterScores` | implements `PushLock` (`ImplementsLock`) |
| `EnterScores` | request, Bull job, invocation, retry cron, toernooi.nl | has `PushLock` in place of `SerialGate` |
| `MCEnterScores` | values of the constants and the symmetry for TLC | |
| `AgreedDate` | what the negotiation promises: the encounter moves only to a backed or imposed date | abstract |
| `EncounterChange` | the four operations on a change request, from read to commit | implements `AgreedDate` (`ImplementsAgreement`) |
| `MCEncounterChange` | names of the rows and operations, and their symmetry, for TLC | |
| `DateSync` | the date on its way: change, job, site, event sync | takes dates from where `EncounterChange` commits them |
| `RankingSync` | the SyncRanking job, its transactions and the hook of `RankingPlace` | |
| `MCRankingSync` | which player is on which publication | |
| `ScheduledSync` | the cron of the event sync and the run over changed tournaments | |
| `SyncTransaction` | TransactionManager, a scheduler and the tree of jobs of a tournament | |
| `MCSyncTransaction` | the tree of one draw with two games and a standing | |
| `Enrollment` | the four mutations of a club's enrollment, statement by statement | |
| `MCEnrollment` | the lists of teams a mutation may bring | |
| `RankingCalculation` | the calculation: its cron, runs, place jobs and rows; a level is the number of updates in it | |
| `RankingLevels` | what one update does to the levels of a player, as operators | the content of a step `RankingCalculation` only counts |
| `MCRanking` | one instance of both | `RankingCalculation`, `RankingLevels` |
| `Orchestrator` | the check of every minute, Render, the worker and its queue | |
| `SharedBrowser` | the module state of `shared.ts`, its callers and its two keepers | |
| `*Proofs` | the theorems about the module of that name | `EnterScoresProofs` also holds those about `SerialGate`, `SharedBrowserProofs` those about `Orchestrator`, `EncounterChangeProofs` those about `DateSync`, `RankingCalculationProofs` those about `RankingLevels` |

**SerialGate.** A promise is the number of its creation. `Enter` is the part of
`enterScores` before `await waitFor` (there is no await in it, so it is one step), `Start`
is the return of that await, `Release` the `finally`. `Restart` is the death of the
process.

**EnterScores.** `jobState`, `attempts`, `reason`, `stalled` and `owner` are Bull's record
of the job `enter-scores-<id>`; `pc`, `enc`, `form`, `err` belong to an
invocation; `page` is `EncounterFormPageService.page`; `site` and `pending` are toernooi.nl
and the saves on their way to it. `Timeout` sets `owner` to nobody but leaves the
invocation alive, as Bull does: its promise is abandoned, not cancelled. An invocation
takes one step of `_enterScoresImpl` at a time; steps that differ in nothing the
properties see are merged (`FillForm` is the clearing, filling and validation of the form,
`EnterEditMode` the cookies, sign-in and edit page), and `StepThrows` lets each of them
fail. `requestEnterScores` is split at its awaits (`GetJob`, `AddJob` or `GetState`,
`RetryJob`) and has two callers, the mutation and the cron. `enabled` never changes: it
tells a deployment whose preflight accepts from one whose preflight refuses. `pushes` and
`early` are history: the results stored per encounter, and whether a foreign result was
entered while no form of the encounter was open. Abstracted: the rows of the form, mails,
audit rows and the renewal of the job's lock; `shouldSave` is taken to be true and the worker to be one process.

**EncounterChange.** `requests` are `EncounterChange` rows, numbered in the order of
`createdAt`; `request`, `offered`, `by`, `status` are the columns of `EncounterChangeDate`.
`task[s]` is the operation of session `s`: the step it does next and what it carries over
its awaits. An operation reads at its awaits (`ReadLatest`, `ReadDates`, `ReadExisting`;
`TriageReads`; `Finalize` and `ReadSiblings`; `FindRequest` and `ReadOpen`) and writes in one
step, its commit, because PostgreSQL runs at READ COMMITTED and none of these reads takes a
lock: nothing of a transaction is seen before its commit, and what it writes was computed
from the rows as they were when read. Sequelize writes only changed attributes, hence
`was` (a row loaded as ACCEPTED is not written) and `seen` (a date equal to the loaded one
is not written). `Abort` is any error or death of the API in between. `endorsed`, `imposed`
and `raced` are history: the rows the away team endorsed, those an administrator
inserted, and whether two operations ever overlapped. Abstracted: permissions, locations,
`originalDate`, `lastActionBy`, more than one new date per input, the verdict of the
validation (any operation may abort). The event sync also writes the date of an
encounter; that is `DateSync`.

**Orchestrator.** Time advances by the minute with the cron (`Minute`); an execution of the
check then goes through its awaits: the counts (`Check`), GET of the service
(`StartGet`, `StopGet`), POST (`Resume`, `Suspend`), the code after it (`Started`,
`Stopped`). `Tick` is the set of executions that can overlap. The worker process runs
Bull's timers, so delayed and orphaned jobs go back to waiting only while it is up. `quiet`
is history: the minutes since a check last ran with work in the queue, which no restart
of the API resets (`idle`, from `startTime`, is reset).

**SharedBrowser.** A step is what runs between two awaits. A browser is a number,
`chrome` the state of its process, `mine[j]` the local variable `browser` (or the promise)
of job `j`. `count` is `activeRequestCount`. `getPage` calls itself in two places. After `forceClose` (`ForceClosed`)
the call stands in the `catch`, and what it throws leaves `getPage`; after too many pages (`TooManyClosed`)
it stands in the `try`, and `tries[j]` counts the calls around the current one that would catch what it
throws: such a call closes its browser, which is gone already, resets the module state and starts over
(`Recover`). `MonitorAsks`/`MonitorDecides` are the two halves
of the health check around `await pages()`, `IdleAsks`/`IdleDecides` those of `onIdle`, and
`RestartBrowser`/`KeeperClosed` those of `restartBrowser`.

**DateSync.** A change loads the encounter (`LoadForChange`), is refused or commits (`Accept`, `Impose`); `from[c]` is
the date it loaded, because Sequelize writes a date only if it differs from that. `phase[j]` and
`held[j]` are a ChangeDate job and the date it loaded (`Load`, `Send`, `Mark` are its awaits; `SendFails` and `MarkFails` the catch block and a failing save);
`at[s]`, `seen[s]`, `got[s]` an event sync, the date of the encounter it loaded and the one in the
XML. `owed` is the gap between the commit of a change and `syncQueue.add`. `seen` is to
`SaveDate` what `from` is to a change. `cached` is the XML of
the draw, read until the season has `begun`. `wanted` and `excused` are history: the last date a
change gave, and whether one of the events named in `Agreed` happened since things were last
at rest and in order. `listed` says that toernooi.nl lists the competition as changed and no sync has taken
it since; a scheduled sync takes it then, one made by hand at any time. `missed` is history: a sync failed on
the change (`SyncFails`) or `lastRun` moved past it (`PassBy`); how that comes about is in `ScheduledSync`.

**RankingSync.** A job is `waiting`, then reads the counter (`Start` or `Decline`), counts (`Count`), and
takes the steps of `RankingSyncer` (`GetRankings` to `RemoveInvisible`) in its outer transaction:
`outerMark` and `outerGone` are what that transaction wrote and nobody else sees. Publications are
written one by one in inner transactions (`OpenPublication`, `CommitPublication`), and `Commit` is
the end of the outer one. `stepStart`, `stepSystem`, `stepVisible` are the step data all runs of a
worker share; `system` and `loaded` say on whose system object a run works, because
Sequelize compares with what that object loaded. `accounted`, `outage`, `overlap` are history.

**ScheduledSync.** Time is a day, a tournament a version number and the day it changed on.
`Ask` and `Add` are the two awaits of `onTick` and `runJob`; `AddOne` is `POST /queue-job`. A run reads
`lastRun`, fetches the list, and then reads and commits tournament by tournament; `End` and `Fail`
include the `finally` block. `excused` is history: the tournaments that a failure, a run for another
tournament or a run over midnight left behind.

**SyncTransaction.** `known` and `reg` are the two maps of the TransactionManager, `status` is the job
in Bull, `step` and `adding` its handler: a handler takes the transaction out of the map
(`Hold`), writes, and queues its children, each first added and then registered. A scheduler's steps
are `OpenTransaction`, `AddRoot`, `RegisterRoot`, `AwaitRoot` (`finished()`), `Poll`, `Decide`, and `Commit` or
`Rollback` and `Purge`. `Take` is Bull: a free slot and the oldest job. `Timeout` fails the job and
leaves the handler alive; `Crash` empties the maps and brings the active jobs back.

**Enrollment.** `by` is who sees a row: a session or, once committed, `Db`. `lock` and `elock` are the row
locks of PostgreSQL, with the foreign key's (attaching an entry locks its team against FOR
UPDATE). A mutation takes a step per statement: a team found or made (`FindTeam`, `NewTeam`), its entry
kept or made, read again and attached (`KeepEntry`, `MakeEntry`, `ReadOld`, `AttachEntry`: Sequelize's
`setEntry` reads and then detaches what it read), the teams read (`ReadTeams`), their entries
locked (`LockEntries`), and the commit with its stamps. `Rollback` is any error; `DeadlockVictim`
the detector of PostgreSQL. `first` is history: the team an entry was made for.

**RankingCalculation.** Every day is a period; those in `Update` may change levels. `place[p][d]` is the row of
a player and a day, and its level the number of updates that went into it, so that "twice" and
"never" can be seen. `job` is the queue of UpdateRanking jobs (`CronAdd`, `RunJob`, `PostJob`), a run is
`Begin`, then per period `Truncate` (the rows of the date are destroyed), `AddJobs`, and `Advance` once all
its jobs are finished. The places worker takes a job (`Take`), reads the newest row up to the date
(`Read`), stores the new one, which the unique index on player and date may refuse (`Save`), and the
hook follows (`Hook`). `JobFailed` ends a run at its first failed job and leaves the others in the queue;
`Timeout` fails the UpdateRanking job and leaves the run alive (`owner` is then `NoJob`). `overlap` and
`sound` are history: two runs at work at once, and the days that were calculated on top of the day before.

**RankingLevels.** Operators: `Updated` is `newPlaceForPlayer` in a period with an update, from three levels and flags
to what the new row may hold; `MCRanking` puts them next to `RankingCalculation`
and states what `GreedyIsBest`, `RowsSettle` and `UpdateStaysInBounds` say of all levels and games as
invariants of the rows (`AverageIsBest`, `SameGamesSettle`, `MovesAreBounded`).
`Window` is every sequence of up to `MaxGames` games, `Average` is `_findPointsAverage`, `FindRanking` and
`NewPlace` are `_findRanking` and `_getNewPlace`, `Protected` is `getRankingProtected`. The two loops over caps are the
largest and the smallest level that meets the condition of their `break`. `Effect` is what a period does to a
discipline, at every level; `RowsSettle` applies one effect for each discipline twice, with the protection over
all of them each time. The points of a game are those of a whole level: the half levels of a
doubles pair are not modelled.

## 3. Runs

Passing runs:

| Run | Checks | Instance |
| --- | --- | --- |
| `serial_gate` | `EveryoneServed`, `ImplementsLock` | 3 invocations, 5 promises per life of the process, restarts |
| `push_safety` | `AtMostOnePush`, `EarlyResultKept` | one encounter, two invocations (an abandoned one and its successor), 2 attempts, a crash, unbounded faults |
| `push_liveness` | `EveryResultSettles`, `ClosedSeasonLeavesQueue` | one encounter, one invocation, 2 attempts, a stall, a crash, one fault |
| `orchestrator` | `SuspendsAfterWaitTime`, `WorkIsPickedUp`, `IdleWorkerIsSuspended` | one execution at a time, two jobs that may fail and be retried, a failing call of Render, a missing `renderId`, a restart of the API |
| `browser` | `CountCoversHolders`, `CallEnds` | two jobs, a fault of Chrome, an ageing browser, a limit of one page, one round of a keeper |
| `encounter_change` | `AcceptedWasAgreed`, `EndorsementStands`, `ImplementsAgreement` | two dates, three rows, two requests, four operations of which two may overlap |
| `ranking_sync` | `LastPlaceKeepsUp`, `NoHole`, `MarkIsAccounted`, `HiddenIsRemoved` | three days, a window of two, two players of whom one is on the odd days only, one job at a time that may be retried, a failure or crash |
| `scheduled_sync` | `StillCovered`, `ChangeArrives` | two tournaments, two jobs, one of them made by hand, two days, a failure or crash |
| `sync_transaction` | `TypeOK`, `CommitIsComplete`, `StandingAfterGames`, `NoStrayWrite`, `TransactionEnds` | an event with one draw, two games and a standing, three slots, a second transaction after a crash, one failure, timeout or crash |
| `date_sync` | `Agreed`, `SiteDateArrives` | two dates, one change under way at a time, two jobs, one event sync, three changes, a failure or crash |
| `enrollment` | `TypeOK`, `LogHasNews`, `SubmittedIsSent`, `SentStays`, `CallEnds` | two mutations of any of the four kinds, lists of one or two teams in either order or a new team, every earlier state of up to four teams and entries |
| `ranking` | `TypeOK`, `EachUpdateOnce`, `LastPlaceFollows`, `CatchesUp`, `AverageIsBest`, `SameGamesSettle`, `MovesAreBounded` | two days, both with an update, two players, one job of up to two attempts at a time, two runs, one posted job, a failure, crash or timeout; five levels with the percentages for winning of the repository's tests (75, 50) and 30 for losing, three disciplines, every period of up to three games |

A type invariant that is a theorem (section 5: eight modules) is not checked again; those of
`SyncTransaction`, `Enrollment` and `RankingCalculation` are.

The page limit of `browser` is 1, so that "too many pages" happens with two jobs, and its
browser numbers (6) are more than the faults, closings and rounds can use up, so that a
launch never lacks one. `CHECK_DEADLOCK FALSE` stands where the system may stop: in
`SharedBrowser.cfg` the modelled jobs have nothing left to do when the counted requests,
faults and rounds are used up; in the `EncounterChange` ones the negotiation is over when
the deadline has passed or the counted operations have been done; in `RankingSync`,
`ScheduledSync`, `SyncTransaction`, `Enrollment` and `MCRanking` when the days, faults, tournaments to schedule
or mutations have been used up. All other runs check deadlock.

Bounds. The races of these components are between two actors (an abandoned
invocation and its successor, two executions of the check, two jobs at one browser, two
clubs at one request), so two of each suffice to show them; a third invocation is in
`serial_gate`, where order matters. Attempts are 2 instead of 3, which still tells the last
attempt from the others. Encounters do not interact except through the page (the gate) and
the batch limit, which with one encounter is never reached. Four
operations are a whole negotiation (propose, triage, finalize) with an intruder, or two
proposals with what can go wrong between them; two requests are the most two racing
proposals create, and the third row is what a triage or the administrator adds. Faults
are counted where a liveness property needs them to end (`FaultCost = 1`), and unbounded
where it does not (`FaultCost = 0`).

In `ranking_sync` one job exists at a time: the properties speak of runs that do not overlap, and what
two do to each other is in section 6; the theorems of section 5 hold for any number. Three days
are a publication before, at and after the start of the window; the second player tells a place
missing on a publication from one never listed. `scheduled_sync` needs two tournaments to let a
job for one of them skip the other, and two days because `lastRun` is compared by day.
The tree of `sync_transaction` has every kind of job that waits or queues, and three slots are one
more than a scheduler and the job it waits for; a second transaction is what a scheduler opens
after a crash. Three changes in `date_sync` are two that race and one that repairs. `enrollment` was
also checked by hand with three mutations (2.8 million states) and with three sessions over one
team (5.6 million), `Agreed` of `date_sync` with two event syncs (8.5 million) and with two changes under way (3.1 million).

Two days in `ranking` are a row and the one that builds on it, or a day calculated and one to
come; one failure is enough for the next run to fail on the jobs it leaves behind. By hand it was also
checked, for safety, with two jobs (1.7 million states), three days (2.0 million) and two faults (2.8 million). It has five
levels because a level nobody is at the edge of is then left in the middle, and three games to tell the
order of the won ones from their choice; by hand also four games, `freeze`, and other minimums:
`SameGamesSettle` is a fact about the numbers of a system, and holds for those of the run, with the
defaults for the differences and equal minimums (section 5); with a higher minimum for staying than for going up (2 and 3,
or 0 and 2), or caps as close as `procentLosing = 50`, the same games do move a player up and down. Its
disciplines matter to each other through `getRankingProtected`: a single that loses its games goes down until
the double that wins them goes up, and is then pulled along (4, 5, 4, 3), which is the exception the
property names.

`WorkIsPickedUp`, `SuspendsAfterWaitTime` and `IdleWorkerIsSuspended` are checked with one execution of the
check at a time; with two elements in `Tick` TLC finds each of them violated (section 6).

## 4. Fairness

- *SerialGate*: a resolved promise wakes its waiter; every invocation ends, because every
  step of it has a timeout (20 s, 45 s, or puppeteer's own).
- *EnterScores*: Bull keeps dispatching and its backoff and stall timers fire; the awaits of
  an invocation return; toernooi.nl applies or drops what it got; the cron runs. `Acquire` is
  strongly fair because the gate serves in order of arrival, which `SerialGate` shows. Users
  and seasons have no fairness, a timeout has none either.
- *Orchestrator*: the cron fires every minute, awaits return (with an answer or an error),
  Render boots a service that is not suspended, the worker works. The liveness properties of
  the passing run assume `[]Healthy` (the `renderId` is known and Render answers every call);
  `SetRenderId` is fair because somebody fills in a missing one.
- *SharedBrowser*: awaits return and a Chrome told to close is gone in the end
  (`forceCloseBrowser` kills it). Nothing is assumed of the keepers, of time or of the jobs.
- *RankingSync*: the cron ticks every day (`CronAdd` is strongly fair: a job that is there keeps it
  away for a while), a worker takes the steps of a run and resets the counters after its start.
  Days, the federation, operators and faults have no fairness.
- *ScheduledSync*: the cron ticks for ever (`Ask`, `Add` strongly fair for the same reason) and the
  worker keeps going. Days, changes and hand-made jobs have none.
- *SyncTransaction*: handlers and schedulers go on, and the worker takes the next job when a slot
  is free: Bull does. Faults have none.
- *DateSync*: jobs are worked off; a competition that stays listed is taken by a scheduled sync, whose runs
  come every day (`ScheduledSync`), and a sync that has begun goes on. Nothing is assumed of syncs by
  hand, of a competition that is not listed, of `PassBy`, of changes and of faults, nor that a cached draw
  expires: `SiteDateArrives` speaks of the season, when the cache is not asked.
- *RankingCalculation*: the cron ticks for ever, backoffs end, and the two workers keep going. Days, jobs by
  hand and faults have none. `CatchesUp` also assumes that again and again nothing is left to do: a cron
  that ticked while the jobs of a failed run were still in the queue, each time, could fail for ever.
- *RankingLevels*: no behaviours, hence none.
- *Enrollment*: a statement that need not wait returns; an API call that fails rolls back;
  PostgreSQL's detector fails a statement of a deadlock. Nobody has to call anything.
- *EncounterChange*: none. Its properties are safety properties; clubs may stop at any point.

## 5. Theorems

The proofs hold for all values of the constants that meet the modules' assumptions:
any number of invocations, encounters, executions, jobs, browsers, rows, dates, teams,
players and sessions, any tree of jobs, any bounds. Three modules of proofs have a second part about
another module, taken in as a named instance; what that module assumes of its constants is there
a hypothesis of each theorem. Every safety property a run checks is stated by a theorem, two of them under
hypotheses: `SuspendsAfterWaitTime` for checks that do not overlap (`PatientWhenSerial`), `SameGamesSettle` for
systems of levels whose caps are apart and that ask no more for staying than for going up (`SettledLevels`).
Most parts of the inductive invariants were checked by TLC on the instances of the runs before they were proved.

- `EnterScoresProofs`: `TypeCorrect`, `PageIsOwned`, `PushedOnce`, `EarlyResultIsKept`. The
  invariant adds to the type: one invocation in its critical section (`Excl`); a form being
  filled was empty when loaded (`FilledEmpty`); an early foreign result implies that no
  form of that encounter is open over it and no save is on its way (`EarlySeen`); and, when the site
  answers in order (assumption `SiteInOrder`), that a loaded empty form or a pending save
  means nothing was pushed yet (`OnePush`).
  That `Acquire` waits for an empty critical section is an assumption of `EnterScores`, not a result: it is
  `Grant` of `PushLock`. What justifies it is the second part.
  The second part is about the gate, `SerialGate` (named `Chain`): `ChainTypeCorrect`, `Exclusion`,
  `NoGateIsLost`, `ServedInOrder`, `ChainIsLock` (every step of the chain is a step or a stutter of `PushLock`), with `MaxGate` a natural number. Its invariant `Inv` says that
  the resolved promises are a prefix of the chain (`Prefix`), that each live invocation waits for
  the promise just before its own (`Chained`), and that no two live ones share a promise (`OwnGate`). Mutual
  exclusion is not inductive by itself: that the second of two could not have started needs the
  prefix.
- `SharedBrowserProofs`: `TypeCorrect`, `CountCovers`, `MonitorIsGraceful`. That the count covers the
  holders is inductive together with the type: each of the places that count down
  belongs to a call that stops holding the browser in the same step; a call whose nested `getPage` threw
  (`Recover`) holds none.
  The second part is about `Orchestrator` (named `Orch`, its constants as in `RenderConstants`): `RenderTypeCorrect`,
  and `PatientWhenSerial`: if checks do not overlap, the worker is suspended only after the wait time.
  The invariant is `Patient`: an execution on its way to suspend decided so when the time had passed
  (`Decided`), and the orchestrator's own clock never runs ahead of the truth (`idle <= quiet`). That checks
  do not overlap is needed: a second execution can see new work while the first still waits for
  Render, and the first then suspends the worker (section 6).

- `EncounterChangeProofs`: `TypeCorrect`, `Agreement`, `EndorsementStandsAlways`, `Refinement` (every step is a step or a
  stutter of `AgreedDate`). `AcceptedWasAgreed` is not inductive by itself: `Tentative` adds that
  a tentatively accepted row was endorsed, and `Ready` that an operation about to write
  still stands on what it read: the rows a triage endorses exist, the row a finalization
  accepts is backed by the away team (backing is never taken back, although a status
  may be), the request an operation works on is one whose rows the type allows. That an endorsement
  stands when the date is accepted needs more (`Unraced`): until two operations overlap, one at most
  is under way (`Alone`), and the row a finalization has loaded is still what it was (`Standing`).
  The last part is about `DateSync` (named `Dates`, its bounds natural numbers): `DateTypeCorrect`, `AgreedAlways`.
  `Agreed` speaks of a moment of rest and says nothing of the way there; the invariant adds that,
  unless excused, nothing old is on its way (`NothingOld`: the date is the wanted one, a job that
  loaded holds it, what an event sync read is that, what it had loaded, or nothing), and that after
  a change a job still has to bring the date (`Pending`) or has brought it and the mark is set or about to
  be (`Delivered`).

- `RankingSyncProofs`: `TypeCorrect`, `LastPlaceKeepsUpAlways`, `NoHoleAlways`, `MarkIsAccountedAlways`, for any number
  of runs, players and days. All but the type rest on the invariant of runs that do not overlap:
  the run between its first and its last step is alone, so the step data and the system object are its
  own; what the hook read is still the last place (`LastPlaceKeepsUp` is not inductive without
  it); what is left to write, together with what is stored, covers every publication in the
  window; and the mark the outer transaction wrote is a publication the run will account for.

- `ScheduledSyncProofs`: `TypeCorrect`, `StillCoveredAlways`. The end of a run moves `lastRun` to today, so the
  invariant has to say why nothing older is left: a change that is not in the database is still on the
  list of every scheduled run that fetched its list after it (`StillListed`), because `since` is not
  later than `lastRun` (`SinceIsOld`) and a transaction that read an old version read it after its run
  fetched the list (`ReadAfterFetch`).

- `SyncTransactionProofs`: `TypeCorrect`, `CommitIsAtomic`, `StandingSeesGames`, `NothingStrays`, for any finite tree of
  jobs, any number of schedulers and transactions. The module assumes of the tree what the handlers
  build: no job is queued twice, and a job that works after others (the standing after the games of
  its draw, draw.processor.ts) comes after them under the same parent. A scheduler commits when the jobs it
  knows of are done, and it knows of those that were registered; so the invariant has to follow a job
  from its parent's handler to the queue and the map: a handler that is done has queued all its
  children (`Handlers`), a queued job is registered or its parent is about to register it, and the child before it
  is (`Registered`). From these two lemmas go down the tree from the root: if every registered job is
  done, every job of the tree is (`AllDone`), which is what the scheduler's decision needs (`Settled`).
  While a scheduler looks after a transaction, a job that is done, or is queueing its children, has written in
  it (`Written`). `NothingStrays` speaks of the time before the first timeout or crash (`~outlived`)
  and of nothing else: after one the code does write outside the transaction (section 6). `Inside` says why
  it holds until then: a job that waits or works belongs to a transaction that is still known.
- `RankingCalculationProofs`: `TypeCorrect`, `UpdatesAreExact`, `LastPlaceIsExact`, for finitely many players and any
  number of days, jobs, attempts and faults. `EachUpdateOnce` speaks of stored rows and is far from
  inductive: while runs do not overlap, at most one is at work and it found none of its place jobs
  left when it began, so the results it hears are of its own jobs (`Single`, `Current`); a row is
  written over a truncated day only (`SavedRow`, `Alone`), the days of a run follow one another (`Onward`), and a
  job computes from the row of the day before, which is settled (`OwnTask`, `ResultOk`).
  The second part is about `RankingLevels`: `BestAverage`, `BoundedMoves`, `SettledLevels`, `SettledPercentages`, for any number of levels and
  disciplines, caps, limits and numbers of games. The rows play no part in it; the theorems follow
  from three facts about the operators. `GreedyWins`: the total of the first *k* games in the order of
  `BestFirst` is at least that of any *k* of the won games. The order is not computed: that one exists, and that
  the total of the first *k* games is no less than that of any others, follow by looking at the least number of
  games for which they would fail and taking one game away (`SortedExists`, `TotalWithout`, `BestFirstIsBest`); that
  `Power` and `Total` are defined at all is the same argument (`Recursion`). Rounding grows with the total
  (`RoundGrows`), so the greatest average is found on the way. `UpdateBounded`: `TopLevel` and `BottomLevel` end
  inside the system, and `Protected` returns what it returned before. `Settling`: what counts for staying is
  no less than what counts for going up (`UpgradeIsLess`), so a discipline by itself keeps a level that was
  reached by going up (`NotLoweredAgain`) and does not leave upwards one it was let down to, nor one on the way to where
  it would have been (`NotRaisedAgain`: the protection may stop it there). Between disciplines, a level that the
  protection holds or pulls up hangs on the best one, which was not lowered and so is not lowered again. Its hypotheses are `CapsAreApart`, which
  `SettledPercentages` proves for any number of levels with the percentages for winning of the repository's tests (75
  and 50) and up to 31 for losing, which no test sets (the LFBB table, where both caps are the same,
  does not meet it); and `UpIsHarder`, which the defaults of ranking-system.model.ts meet: a difference of 1 for
  going up and of 0 for staying, and no minimum for either.
  Both are needed: section 3 names systems without them in which a player moves up and down.
- `EnrollmentProofs`: `TypeCorrect`, `LoggedIsNews`, `SubmissionIsSent`, `SentForGood`, `NothingIsLeft`, for any club, lists of teams and number of
  sessions. The first properties look at one step, the commit, but rest on everything the session read
  before under READ COMMITTED. `CallInv` says what a session may rely on at each statement: the entry
  it is making is its own and unattached, what it takes from a team has a successor (`Making`), the teams it
  has passed have an entry (`Served`), what it read with the teams is still there and is sent unless it is
  about to be stamped (`Picked`), and the verdict reached under the row locks stays true (`Verdict`).
  `OthersSteady` is the heart of it: whatever another session does, a row this one sees stays what it is but
  for being stamped, which a row lock prevents, and for being detached, which happens only to a
  team of which two mutations made the entry. That is why the properties except such teams
  (`Crossed`). `Counted` bounds the Logging rows by the mutations, with cardinalities of finite sets.
  `SentForGood` needs of an entry that setEntry takes away that the session has made another for the same team
  (`Making`). `NothingIsLeft` states an invariant of its own: a row that is not committed has a session that
  will commit or undo it, and the team of an entry is committed, or private to the same session.

Only model-checked: the liveness properties and everything about fairness or ENABLED, which are out of
the prover's reach. The theorems of induction take an operator as a parameter, which the provers
cannot instantiate; where an induction is needed (over the tree of a transaction, the games of a period,
a least free number) the proofs use the well-foundedness of the natural numbers, which is stated for
sets (`Least`, `Greatest`).

## 6. Disagreements, and what is not modelled

Seen while modelling, all of them behaviours the models have; no run is spent on them.

*EnterScores.* A crash between the save and the update of `scoresSyncedAt` leaves a pushed
result "never successfully synced" (docs/sync-process.md:364), and every later attempt fails
as "already present". A result entered on the site between the loading of the form and the
save is overwritten (`assertNoExistingResult`, enter-scores.processor.ts:526), although
docs/result-entry-rules.md:14 says "Badman never pushes a result to toernooi.nl when toernooi.nl
already has one". `waitForSaveResult` (line 412) takes a navigation timeout without visible row
errors for a success, and `scoresSyncedAt` is set although the site may have dropped the save
(docs/sync-process.md:321: "On success"). `findFailedEncounters` (retry-failed-encounters.processor.ts:219)
takes the newest 50 unsynced encounters: once 50 of them can never be pushed, an older one whose
request was lost is never requested again, although encounter.resolver.ts:850 says that the
"RetryFailedEncounterSync cron requests the push later". A preflight that refuses throws outside
the `try`, and the interval that renews the job's lock runs on. `requestEnterScores` reads `failedReason` with the
job and the state later, so a job that has meanwhile failed as "already present" is retried,
against `enter-scores-request.spec.ts:80`; it costs an attempt, nothing is stored.

*Orchestrator.* `startService` catches the error of POST /resume (render.service.ts:73) and returns
normally, so `hasStarted` becomes true and no later tick starts the worker, against the comment at
base.orchestrator.ts:158 ("Leave hasStarted = false so the next cron tick retries"). An execution
whose calls of Render take longer than a minute overlaps the next one, and nothing guards the two
(line 156): they may suspend before the wait time, and a late suspend followed by the late
`hasStarted = true` of the other leaves a suspended worker that is believed to run, so that waiting jobs
are never picked up, against docs/queue-job-and-worker-lifecycle.md:271 ("picked up by the
orchestrator's 1-minute check and starts the worker"). A start without
`renderId` sets `hasStarted`. A worker suspended over a job in backoff is not resumed for
it, since the counts leave delayed jobs out. A failing GET while stopping is taken for a stop.

*Shared browser.* Two jobs that recover from the same crash leave two Chromes alive, one
of them forgotten (shared.ts:5 speaks of one). So may one that recovers from an error of the `getPage`
it called after too many pages: the `catch` (line 127) is meant for its old browser, and its reset forgets what
another job has launched since. `activeRequestCount` stays above zero after
a `getPage` that started over, and the monitor then restarts nothing. A browser of more
than an hour is closed under the page of another job.

*Change requests.* Two racing first proposals create two requests. Triage works on requests
that are already finished, and `finalize` accepts a date of the away team whatever its status
(encounter-change.service.ts:381), also one that was rejected or resolved, which
specs/037-encounter-multi-date-proposals/data-model.md:59 calls terminal. A request can end with two ACCEPTED rows. New dates of a triage are
not compared with those the request has. The administrator's change may resolve the dates of
an older request than the newest. Triage and finalize refuse after the deadline, while
specs/037-encounter-multi-date-proposals/spec.md:110 keeps existing dates actionable. A triage
racing a finalization overwrites ACCEPTED with REJECTED or TENTATIVELY_ACCEPTED; a
finalization racing a rejection accepts a date that was withdrawn; and one that loaded the
encounter with the date it accepts does not write it over what came in between. The
failure of the ChangeDate job's `add` after a finalization is swallowed. This is why
`EndorsementStands` speaks of negotiations in which no two operations overlapped, and why `AcceptedWasAgreed` and `ImplementsAgreement`, which speak of all, look at
what the away team ever backed.

*Dates.* A PUT that fails is caught, and a ChangeDate job has one attempt: the date stays unsent
with `dateSyncedAt` cleared, a column nobody reads. An event sync that loaded the encounter
before a change and read the site before its job takes the change back; before 1 August the
cached draw does so for as long as a week. A change that finds its date already there writes nothing (encounter-change.service.ts:445; `update` in
encounter.resolver.ts:616 likewise): if an event sync commits another date between its load and its commit, that date
stays, although the change is logged and its job queued. These are the events `excused` collects. In season
the two sides then end up with the same date, the last one toernooi.nl got (`SiteDateArrives`), which need not be
the wanted one; before it, and when the scheduled sync fails on the competition or passes it by, they may stay apart.

*Ranking sync.* A declined run (sync-ranking.processor.ts:52) returns without ending the
transaction it opened, and completes: a run that Bull starts again after a crash, before the
counters are reset, is lost that way; sync-twizzit has the same lines. When runs overlap, one may
take the other's window, system object and publications out of the shared step data, and
`RankingLastPlace` can move backwards, because the hook reads before it writes
(ranking-place.model.ts:346); docs/ranking-sync.md says of late publications that the last place
"only moves forward". The bulk destroy of hidden publications runs no hook: a last place then
keeps the date of a publication that is gone. A backfill whose start lies in the window moves
the watermark past older publications that are not stored; the model's backfills start before it.

*Scheduled event sync.* `lastRun` moves in the `finally` block, after a failure too, and after a job
for one tournament: what these skipped is synchronised only when it changes again.
docs/sync-process.md:61 says the tick updates `lastRun`; only the job does. The check before adding
"prevents duplicates" (docs/sync-process.md:59) but for two ticks at once and for delayed retries.
`offset ?? 0 + limit` (sync-events.processor.ts:136) is `offset` alone. A notification that fails
after a commit rolls back a transaction that is over, which ends the run.

*Event sync, second version.* A crash empties the maps: the jobs of the first tree come back,
find no transaction and write without one; a handler that outlived its timeout does the same
after the rollback. docs/sync-process.md:231 promises a "Transaction rollback on any child job
failure". A rollback that meets an active job throws, and the entries of the maps stay. A scheduler
whose `queue.add` fails leaves its transaction open, because it is added before the `try`. As many
schedulers as there are slots wait for jobs that get none, until their timeout.

*Enrollment.* `Team.max` (team.resolver.ts:149) runs outside the transaction, so that the teams of one
call can get the same number although the comment at line 444 relies on doing them in turn.
Two mutations that find a team without entry make two, and `setEntry` detaches one, possibly one
already sent; every later finalization of such a club logs again. So does one of a club none
of whose teams has an entry. A finalization that read before another's commit stamps `sendOn` again.
The mail after the commit may be lost.

*Ranking calculation.* After a timeout the abandoned run and the next one are at work together: one
destroys rows the other's jobs have just stored, and `calculationLastUpdate` then covers a day a player
has no row for, so that the next update builds on an older level. A run by hand over old days that fails
leaves a hole in the same way, and one that succeeds moves `calculationLastUpdate` back
(place.service.ts:102), after which the cron calculates the days behind it again. The destroy runs no
hook. `runCurrently` is written and never asked. In the model the cron reads the queue and adds its job in one
step, as does the handler for a run by hand (two jobs at once come from a retry), and a run queues all its place jobs or none.

*Levels.* The inactivity flag is written in a period without update too, and a player who already has it
pays no penalty (belgium-flanders-places.service.ts:169): who becomes inactive between two updates never
does. The penalty is two levels whatever `maxLevelDownPerChange` says. The caps of LFBB are the same for
going up and for staying (ranking-system.model.ts:385): a player whose average is exactly a cap goes up
and down in turn. The comment at belgium-flanders-places.service.ts:347 says counting stops at the first
lower average; the code goes on, with the same result.

**Not modelled.** `PROJECT.json` lists the components and why. Of the roughly 98,000 lines of
the repository's implementation, most are outside what states and interleavings are about: one-off scripts with their data tables (clubs, players
to correct), generated translations, migrations, declarations of database rows and of GraphQL
types, the screens of mails, clients of websites, and resolvers that read or write one row behind a
permission check. The other pure rules (assembly, enrollment, transfers, change-encounter validation)
are functions of one input whose boundaries unit tests reach. What is modelled is the
code in which the order of steps decides the outcome. The `Service.status` column is written by
three processes and read by a screen; its lost updates are not modelled either.

## 7. Plan

Done, in this order: the serial queue and the push pipeline on top of it, the
orchestrator, the shared browser, the negotiation about a date, the ranking sync, the scheduled
event sync, the transactions of its second version, the dates on their way to toernooi.nl and
back, the enrollment, the calculation of a ranking and the levels it gives. What would come next:

1. `sync-twizzit` and `check-encounters`, two more users of the counter and of the browser.
2. More pure rules as operators checked against reference definitions: the games of an encounter
   and their merge, ranking periods, season guards.
3. The refinement of an abstract enrollment (teams and entries that appear at once, one log for each
   gain) by the statements of the mutations, from the invariant that is proved.
