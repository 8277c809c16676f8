---------------------------- MODULE EnterScores -----------------------------
(***************************************************************************)
(* Pushing the results of finished encounters from Badman to toernooi.nl.  *)
(*                                                                         *)
(* The parts that interact:                                                *)
(*   - the GraphQL mutation updateEncounterCompetition and the cron job    *)
(*     RetryFailedEncounterSync, which both call requestEnterScores;       *)
(*   - the Bull queue (one job per encounter: its id is derived from the   *)
(*     encounter) with attempts, backoff, job timeout and stall recovery;  *)
(*   - EnterScoresProcessor, whose invocations share one browser page      *)
(*     behind the serial gate (module SerialGate, here its abstraction     *)
(*     PushLock);                                                          *)
(*   - toernooi.nl, where clubs and the sports commission also enter       *)
(*     results, and which applies or drops a save after it was sent.       *)
(*                                                                         *)
(* An invocation whose job Bull gave up on (timeout) keeps running: its    *)
(* promise is abandoned, not cancelled.  It is alive but owns no job.      *)
(*                                                                         *)
(* Abstracted: what is in the form (a result is absent, Badman's, or       *)
(* someone else's), e-mails and audit logs, the contents of the games, the *)
(* renewal of the job's lock (without a crash it does not lapse).          *)
(* Assumed: production settings (shouldSave), one worker process.          *)
(***************************************************************************)
EXTENDS Naturals, FiniteSets

CONSTANTS
  Enc,          \* encounters with a visualCode, games and a date in the past
  Date,         \* Date[e]: when the encounter was played, as a number
  Run,          \* invocations of the handler that can be alive at once
  NoRun,        \* "no invocation"
  Attempts,     \* attempts of a sync job (3 in the code)
  MaxStalled,   \* maxStalledCount of the queue
  BatchLimit,   \* encounters one retry run looks at (50 in the code)
  MaxCrash,     \* bound on the crashes of the worker
  MaxFault,     \* bound on the faults of the web: throwing steps, lost saves
  FaultCost,    \* what one fault counts: with 0 they are not bounded
  SiteInOrder   \* toernooi.nl answers requests about one match in order

ASSUME ConstantTypes ==
  /\ NoRun \notin Run
  /\ Date \in [Enc -> Nat]
  /\ Attempts \in Nat \ {0}
  /\ MaxStalled \in Nat
  /\ BatchLimit \in Nat
  /\ MaxCrash \in Nat
  /\ MaxFault \in Nat /\ FaultCost \in {0, 1}
  /\ SiteInOrder \in BOOLEAN

Result == {"none", "badman", "other"}
JobState == {"none", "waiting", "active", "delayed", "failed"}
Reason == {"none", "present", "closed", "other"}
Step == {"idle", "gate", "open", "season", "edit", "check", "fill", "click",
         "wait", "mark", "cleanup", "settle"}
Requester == {"api", "cron"}
RequestStep == {"idle", "getJob", "add", "getState", "retry"}
CronStep == {"idle", "list", "remove", "each"}

VARIABLES
  finished,    \* encounter.finished (with enteredOn), per encounter
  synced,      \* encounter.scoresSyncedAt # null
  open,        \* the season of the encounter is open
  jobState,    \* Bull: state of job enter-scores-<id>
  attempts,    \* Bull: attemptsMade (saturates at Attempts)
  reason,      \* Bull: failedReason, as far as the code tells reasons apart
  stalled,     \* Bull: stalledCounter
  owner,       \* Bull: the invocation whose promise the job waits for
  pc,          \* next step of each invocation
  enc,         \* job.data.encounterId of each invocation
  form,        \* the result on the edit form an invocation loaded
  err,         \* how the invocation ends
  page,        \* EncounterFormPageService.page: the invocation driving it
  site,        \* the result on toernooi.nl
  pending,     \* encounters with a save sent and not yet applied or dropped
  reqPc, reqEnc, reqReason,  \* the calls of requestEnterScores
  cron, todo,  \* RetryFailedEncounterSync: its step and its remaining work
  enabled,     \* the configuration lets EnterScores run (of this deployment)
  crashes,     \* crashes of the worker so far
  faults,      \* counted faults of the web so far
  pushes,      \* history: saves of Badman that toernooi.nl applied (up to 2)
  early        \* history: site's foreign result was there before any push

db == <<finished, synced, open>>
job == <<jobState, attempts, reason, stalled, owner>>
run == <<pc, enc, form, err, page>>
web == <<site, pending, pushes, early>>
request == <<reqPc, reqEnc, reqReason>>
retry == <<cron, todo>>
env == <<enabled, crashes, faults>>
vars == <<db, job, run, web, request, retry, env>>

TypeOK ==
  /\ finished \in [Enc -> BOOLEAN]
  /\ synced \in [Enc -> BOOLEAN]
  /\ open \in [Enc -> BOOLEAN]
  /\ jobState \in [Enc -> JobState]
  /\ attempts \in [Enc -> 0 .. Attempts]
  /\ reason \in [Enc -> Reason]
  /\ stalled \in [Enc -> 0 .. MaxStalled]
  /\ owner \in [Enc -> Run \cup {NoRun}]
  /\ pc \in [Run -> Step]
  /\ enc \in [Run -> Enc]
  /\ form \in [Run -> Result]
  /\ err \in [Run -> Reason]
  /\ page \in Run \cup {NoRun}
  /\ site \in [Enc -> Result]
  /\ pending \in SUBSET Enc
  /\ reqPc \in [Requester -> RequestStep]
  /\ reqEnc \in [Requester -> Enc]
  /\ reqReason \in [Requester -> Reason]
  /\ cron \in CronStep
  /\ todo \in SUBSET Enc
  /\ enabled \in BOOLEAN
  /\ crashes \in 0 .. MaxCrash
  /\ faults \in 0 .. MaxFault
  /\ pushes \in [Enc -> 0 .. 2]
  /\ early \in [Enc -> BOOLEAN]

Init ==
  /\ finished = [e \in Enc |-> FALSE]
  /\ synced = [e \in Enc |-> FALSE]
  /\ open = [e \in Enc |-> TRUE]
  /\ jobState = [e \in Enc |-> "none"]
  /\ attempts = [e \in Enc |-> 0]
  /\ reason = [e \in Enc |-> "none"]
  /\ stalled = [e \in Enc |-> 0]
  /\ owner = [e \in Enc |-> NoRun]
  /\ pc = [r \in Run |-> "idle"]
  /\ enc \in {[r \in Run |-> e] : e \in Enc}
  /\ form = [r \in Run |-> "none"]
  /\ err = [r \in Run |-> "none"]
  /\ page = NoRun
  /\ site = [e \in Enc |-> "none"]
  /\ pending = {}
  /\ reqPc = [q \in Requester |-> "idle"]
  /\ reqEnc \in {[q \in Requester |-> e] : e \in Enc}
  /\ reqReason = [q \in Requester |-> "none"]
  /\ cron = "idle"
  /\ todo = {}
  /\ enabled \in BOOLEAN
  /\ crashes = 0
  /\ faults = 0
  /\ pushes = [e \in Enc |-> 0]
  /\ early = [e \in Enc |-> FALSE]

-----------------------------------------------------------------------------
(***************************************************************************)
(* Bull (external): what the queue does with one job.                      *)
(***************************************************************************)

(* moveToFailed: the attempt counts; a discarded job or one without        *)
(* attempts left is failed, any other one waits for its backoff.           *)
Fail(e, why, discarded) ==
  LET last == discarded \/ attempts[e] + 1 >= Attempts
  IN  /\ attempts' = [attempts EXCEPT ![e] = IF @ < Attempts THEN @ + 1 ELSE @]
      /\ jobState' = [jobState EXCEPT ![e] = IF last THEN "failed" ELSE "delayed"]
      /\ reason' = [reason EXCEPT ![e] = why]
      /\ owner' = [owner EXCEPT ![e] = NoRun]
      /\ UNCHANGED stalled

(* The job is removed with all it records. *)
Drop(e) ==
  /\ jobState' = [jobState EXCEPT ![e] = "none"]
  /\ attempts' = [attempts EXCEPT ![e] = 0]
  /\ reason' = [reason EXCEPT ![e] = "none"]
  /\ stalled' = [stalled EXCEPT ![e] = 0]
  /\ owner' = [owner EXCEPT ![e] = NoRun]

(* job.discard() was called by the invocation. *)
Discarded(r) == err[r] \in {"present", "closed"}

(* A free slot takes a waiting job and calls the handler, which joins the  *)
(* serial queue.                                                           *)
Dispatch(e, r) ==
  /\ jobState[e] = "waiting" /\ pc[r] = "idle"
  /\ jobState' = [jobState EXCEPT ![e] = "active"]
  /\ owner' = [owner EXCEPT ![e] = r]
  /\ pc' = [pc EXCEPT ![r] = "gate"]
  /\ enc' = [enc EXCEPT ![r] = e]
  /\ UNCHANGED <<db, attempts, reason, stalled, form, err, page, web, request,
                 retry, env>>

(* The job timeout: Bull abandons the invocation, which goes on. *)
Timeout(e) ==
  /\ jobState[e] = "active" /\ owner[e] # NoRun
  /\ Fail(e, "other", Discarded(owner[e]))
  /\ UNCHANGED <<db, run, web, request, retry, env>>

(* The backoff of a retried job is over. *)
BackoffOver(e) ==
  /\ jobState[e] = "delayed"
  /\ jobState' = [jobState EXCEPT ![e] = "waiting"]
  /\ UNCHANGED <<db, attempts, reason, stalled, owner, run, web, request, retry,
                 env>>

(* Bug: the stall check does not count how often it recovered a job. *)
StallCheckForever(e) ==
  /\ jobState[e] = "active" /\ owner[e] = NoRun
  /\ stalled' = [stalled EXCEPT ![e] = @ + 1]
  /\ jobState' = [jobState EXCEPT ![e] = "waiting"]
  /\ UNCHANGED <<db, attempts, reason, owner, run, web, request, retry, env>>

(* The stall check finds an active job nobody holds the lock of. *)
StallCheck(e) ==
  /\ jobState[e] = "active" /\ owner[e] = NoRun
  /\ \/ /\ stalled[e] < MaxStalled
        /\ stalled' = [stalled EXCEPT ![e] = @ + 1]
        /\ jobState' = [jobState EXCEPT ![e] = "waiting"]
        /\ UNCHANGED reason
     \/ /\ stalled[e] = MaxStalled
        /\ jobState' = [jobState EXCEPT ![e] = "failed"]
        /\ reason' = [reason EXCEPT ![e] = "other"]
        /\ UNCHANGED stalled
  /\ UNCHANGED <<db, attempts, owner, run, web, request, retry, env>>

(* Bull hears how the invocation ended, unless it abandoned it before.  A  *)
(* completed job is removed (removeOnComplete).                            *)
Settle(r) ==
  /\ pc[r] = "settle"
  /\ pc' = [pc EXCEPT ![r] = "idle"]
  /\ err' = [err EXCEPT ![r] = "none"]
  /\ \/ owner[enc[r]] # r /\ UNCHANGED job
     \/ owner[enc[r]] = r /\ err[r] # "none"
        /\ Fail(enc[r], err[r], Discarded(r))
     \/ owner[enc[r]] = r /\ err[r] = "none" /\ Drop(enc[r])
  /\ UNCHANGED <<db, enc, form, page, web, request, retry, env>>

-----------------------------------------------------------------------------
(***************************************************************************)
(* EnterScoresProcessor: one invocation.                                   *)
(***************************************************************************)

(* Something on the web went wrong. *)
Fault ==
  /\ faults < MaxFault
  /\ faults' = faults + FaultCost

Goto(r, step) == pc' = [pc EXCEPT ![r] = step]

Throw(r, why) ==
  /\ Goto(r, "cleanup")
  /\ err' = [err EXCEPT ![r] = why]
  /\ form' = [form EXCEPT ![r] = "none"]

(* The steps between the serial gate and its release. *)
Critical == {"open", "season", "edit", "check", "fill", "click", "wait",
             "mark", "cleanup"}

(* The steps that drive the page. *)
UsesPage == {"season", "edit", "check", "fill", "click", "wait", "mark"}

(* The steps on a loaded edit form that is not saved yet. *)
OnForm == {"check", "fill", "click"}

(* Bug: the singleton page is not behind the gate. *)
AcquireAnyway(r) ==
  /\ pc[r] = "gate"
  /\ Goto(r, "open")
  /\ UNCHANGED <<db, job, enc, form, err, page, web, request, retry,
                 env>>

(* The serial gate lets the invocation in. *)
Acquire(r) ==
  /\ pc[r] = "gate"
  /\ \A s \in Run : pc[s] \notin Critical
  /\ Goto(r, "open")
  /\ UNCHANGED <<db, job, enc, form, err, page, web, request, retry,
                 env>>

(* enterScoresPreflight refuses: thrown before the try with the cleanup.   *)
PreflightRefuses(r) ==
  /\ pc[r] = "open" /\ ~enabled
  /\ Goto(r, "settle")
  /\ err' = [err EXCEPT ![r] = "other"]
  /\ UNCHANGED <<db, job, enc, form, page, web, request, retry, env>>

(* browser_open: a new page, or the one a failed close left behind. *)
OpenBrowser(r) ==
  /\ pc[r] = "open" /\ enabled
  /\ Goto(r, "season")
  /\ page' = r
  /\ UNCHANGED <<db, job, enc, form, err, web, request, retry, env>>

(* load_encounter, season_check. *)
SeasonCheck(r) ==
  /\ pc[r] = "season"
  /\ \/ open[enc[r]] /\ Goto(r, "edit") /\ UNCHANGED <<form, err>>
     \/ ~open[enc[r]] /\ Throw(r, "closed")
  /\ UNCHANGED <<db, job, enc, page, web, request, retry, env>>

(* cookie_accept, sign_in, edit_mode: the edit form of the encounter is    *)
(* loaded and shows the result of that moment.                             *)
EnterEditMode(r) ==
  /\ pc[r] = "edit"
  /\ SiteInOrder => enc[r] \notin pending
  /\ Goto(r, "check")
  /\ form' = [form EXCEPT ![r] = site[enc[r]]]
  /\ UNCHANGED <<db, job, enc, err, page, web, request, retry, env>>

(* Bug: only Badman's own rows count as an existing result. *)
AssertNotPushedBefore(r) ==
  /\ pc[r] = "check"
  /\ \/ form[r] # "badman" /\ Goto(r, "fill") /\ UNCHANGED <<form, err>>
     \/ form[r] = "badman" /\ Throw(r, "present")
  /\ UNCHANGED <<db, job, enc, page, web, request, retry, env>>

(* existing_result_check. *)
AssertNoExistingResult(r) ==
  /\ pc[r] = "check"
  /\ \/ form[r] = "none" /\ Goto(r, "fill") /\ UNCHANGED <<form, err>>
     \/ form[r] # "none" /\ Throw(r, "present")
  /\ UNCHANGED <<db, job, enc, page, web, request, retry, env>>

(* clear_fields, enter_games, optional_fields, input_validation and        *)
(* row_validation.                                                         *)
FillForm(r) ==
  /\ pc[r] = "fill"
  /\ Goto(r, "click")
  /\ UNCHANGED <<db, job, enc, form, err, page, web, request, retry,
                 env>>

(* save: the button is clicked, the save is on its way. *)
ClickSave(r) ==
  /\ pc[r] = "click"
  /\ Goto(r, "wait")
  /\ pending' = pending \cup {enc[r]}
  /\ UNCHANGED <<db, job, enc, form, err, page, site, pushes, early,
                 request, retry, env>>

(* waitForSaveResult returns: the page navigated, or the navigation timed  *)
(* out and the page is neither the edit form nor shows row errors.  The    *)
(* page never says whether the result was stored.                          *)
SaveSucceeds(r) ==
  /\ pc[r] = "wait"
  /\ Goto(r, "mark")
  /\ UNCHANGED <<db, job, enc, form, err, page, web, request, retry,
                 env>>

(* encounter.update({ scoresSyncedAt }); then only audit and mail. *)
MarkSynced(r) ==
  /\ pc[r] = "mark"
  /\ Goto(r, "cleanup")
  /\ synced' = [synced EXCEPT ![enc[r]] = TRUE]
  /\ UNCHANGED <<finished, open, job, enc, form, err, page, web, request,
                 retry, env>>

(* Any step of the try block may throw: an unreachable site, a failed      *)
(* sign-in, an unreadable form, row errors, a save dialog, a closed page,  *)
(* a database error.                                                       *)
StepThrows(r) ==
  /\ pc[r] \in (UsesPage \cup {"open"}) /\ (pc[r] = "open" => enabled)
  /\ Throw(r, "other")
  /\ Fault
  /\ UNCHANGED <<db, job, enc, page, web, request, retry, enabled,
                 crashes>>

(* cleanup: the page is closed, which may fail; then the gate is released. *)
Cleanup(r) ==
  /\ pc[r] = "cleanup"
  /\ Goto(r, "settle")
  /\ page' \in {page, NoRun}
  /\ UNCHANGED <<db, job, enc, form, err, web, request, retry, env>>

(* The worker process dies: its invocations, its timers, its page and the  *)
(* retry job are gone; the queue, the database and what was sent remain.   *)
Crash ==
  /\ crashes < MaxCrash
  /\ crashes' = crashes + 1
  /\ pc' = [r \in Run |-> "idle"]
  /\ form' = [r \in Run |-> "none"]
  /\ err' = [r \in Run |-> "none"]
  /\ page' = NoRun
  /\ owner' = [e \in Enc |-> NoRun]
  /\ cron' = "idle" /\ todo' = {}
  /\ reqPc' = [reqPc EXCEPT !["cron"] = "idle"]
  /\ reqReason' = [reqReason EXCEPT !["cron"] = "none"]
  /\ UNCHANGED <<db, jobState, attempts, reason, stalled, enc, web, reqEnc,
                 enabled, faults>>

-----------------------------------------------------------------------------
(***************************************************************************)
(* requestEnterScores: q asks for a push of encounter reqEnc[q].           *)
(***************************************************************************)

(* queue.getJob: the job object keeps the failedReason of this moment. *)
GetJob(q) ==
  /\ reqPc[q] = "getJob"
  /\ reqPc' = [reqPc EXCEPT ![q] =
                 IF jobState[reqEnc[q]] = "none" THEN "add" ELSE "getState"]
  /\ reqReason' = [reqReason EXCEPT ![q] = reason[reqEnc[q]]]
  /\ UNCHANGED <<db, job, run, web, reqEnc, retry, env>>

(* queue.add: ignored while a job with the same id exists. *)
AddJob(q) ==
  LET e == reqEnc[q]
  IN  /\ reqPc[q] = "add"
      /\ reqPc' = [reqPc EXCEPT ![q] = "idle"]
      /\ jobState' = [jobState EXCEPT ![e] = IF @ = "none" THEN "waiting" ELSE @]
      /\ UNCHANGED <<db, attempts, reason, stalled, owner, run, web, reqEnc,
                     reqReason, retry, env>>

(* Bug: a failed job is left to add(), which ignores it. *)
GetStateNeverRetries(q) ==
  /\ reqPc[q] = "getState"
  /\ reqPc' = [reqPc EXCEPT ![q] = "idle"]
  /\ reqReason' = [reqReason EXCEPT ![q] = "none"]
  /\ UNCHANGED <<db, job, run, web, reqEnc, retry, env>>

(* getState: only a failed job is retried, and not one that failed because *)
(* toernooi.nl had a result.                                               *)
GetState(q) ==
  /\ reqPc[q] = "getState"
  /\ reqPc' = [reqPc EXCEPT ![q] =
                 IF jobState[reqEnc[q]] = "failed" /\ reqReason[q] # "present"
                 THEN "retry" ELSE "idle"]
  /\ reqReason' = [reqReason EXCEPT ![q] = "none"]
  /\ UNCHANGED <<db, job, run, web, reqEnc, retry, env>>

(* existingJob.retry(): back to waiting with its attempts.  It throws when *)
(* the job is no longer failed, which ends the run of the retry job.       *)
RetryJob(q) ==
  LET e == reqEnc[q]
  IN  /\ reqPc[q] = "retry"
      /\ reqPc' = [reqPc EXCEPT ![q] = "idle"]
      /\ \/ /\ jobState[e] = "failed"
            /\ jobState' = [jobState EXCEPT ![e] = "waiting"]
            /\ reason' = [reason EXCEPT ![e] = "none"]
            /\ UNCHANGED retry
         \/ /\ jobState[e] # "failed"
            /\ IF q = "cron" THEN cron' = "idle" /\ todo' = {} ELSE UNCHANGED retry
            /\ UNCHANGED <<jobState, reason>>
      /\ UNCHANGED <<db, attempts, stalled, owner, run, web, reqEnc, reqReason,
                     env>>

-----------------------------------------------------------------------------
(***************************************************************************)
(* updateEncounterCompetition: the result of a finished encounter is       *)
(* committed, then the push is requested when none was recorded.           *)
(***************************************************************************)

SaveEncounter(e) ==
  /\ reqPc["api"] = "idle"
  /\ finished' = [finished EXCEPT ![e] = TRUE]
  /\ IF synced[e] THEN UNCHANGED request
     ELSE /\ reqPc' = [reqPc EXCEPT !["api"] = "getJob"]
          /\ reqEnc' = [reqEnc EXCEPT !["api"] = e]
          /\ UNCHANGED reqReason
  /\ UNCHANGED <<synced, open, job, run, web, retry, env>>

(* requestResultPush swallows an error of Redis; or the API dies. *)
RequestLost ==
  /\ reqPc["api"] # "idle"
  /\ reqPc' = [reqPc EXCEPT !["api"] = "idle"]
  /\ reqReason' = [reqReason EXCEPT !["api"] = "none"]
  /\ UNCHANGED <<db, job, run, web, reqEnc, retry, env>>

-----------------------------------------------------------------------------
(***************************************************************************)
(* RetryFailedEncounterSync.                                               *)
(***************************************************************************)

CronFires ==
  /\ cron = "idle"
  /\ cron' = "list"
  /\ UNCHANGED <<db, job, run, web, request, todo, env>>

(* Bug: failed jobs of closed seasons are not looked for. *)
ListNothing ==
  /\ cron = "list"
  /\ cron' = "remove"
  /\ todo' = {}
  /\ UNCHANGED <<db, job, run, web, request, env>>

(* removeClosedSeasonJobs: the failed jobs of closed seasons ... *)
ListClosedJobs ==
  /\ cron = "list"
  /\ cron' = "remove"
  /\ todo' = {e \in Enc : jobState[e] = "failed" /\ ~open[e]}
  /\ UNCHANGED <<db, job, run, web, request, env>>

(* ... are removed one by one.  job.remove() throws on a locked job. *)
RemoveJob(e) ==
  /\ cron = "remove" /\ e \in todo
  /\ \/ jobState[e] # "active" /\ Drop(e)
        /\ todo' = todo \ {e} /\ UNCHANGED cron
     \/ jobState[e] = "active" /\ UNCHANGED job
        /\ cron' = "idle" /\ todo' = {}
  /\ UNCHANGED <<db, run, web, request, env>>

(* Then findFailedEncounters: the newest BatchLimit of those not synced. *)
ScanEncounters ==
  LET failed == {e \in Enc : finished[e] /\ ~synced[e] /\ open[e]}
  IN  /\ cron = "remove" /\ todo = {}
      /\ cron' = "each"
      /\ todo' = {e \in failed :
                   Cardinality({d \in failed : Date[d] > Date[e]}) < BatchLimit}
      /\ UNCHANGED <<db, job, run, web, request, env>>

(* The next encounter of the batch. *)
RequestNext(e) ==
  /\ cron = "each" /\ reqPc["cron"] = "idle" /\ e \in todo
  /\ reqPc' = [reqPc EXCEPT !["cron"] = "getJob"]
  /\ reqEnc' = [reqEnc EXCEPT !["cron"] = e]
  /\ todo' = todo \ {e}
  /\ UNCHANGED <<db, job, run, web, reqReason, cron, env>>

CronEnds ==
  /\ cron = "each" /\ reqPc["cron"] = "idle" /\ todo = {}
  /\ cron' = "idle"
  /\ UNCHANGED <<db, job, run, web, request, todo, env>>

-----------------------------------------------------------------------------
(***************************************************************************)
(* toernooi.nl (external) and the calendar.                                *)
(***************************************************************************)

SiteApplies(e) ==
  /\ e \in pending
  /\ pending' = pending \ {e}
  /\ site' = [site EXCEPT ![e] = "badman"]
  /\ pushes' = [pushes EXCEPT ![e] = IF @ < 2 THEN @ + 1 ELSE @]
  /\ UNCHANGED <<db, job, run, early, request, retry, env>>

SiteDrops(e) ==
  /\ e \in pending
  /\ pending' = pending \ {e}
  /\ Fault
  /\ UNCHANGED <<db, job, run, site, pushes, early, request, retry, enabled,
                 crashes>>

(* A club or the sports commission enters the result on the site.  It is   *)
(* early when no save is on its way and no form of this encounter is open. *)
OtherEnters(e) ==
  /\ site[e] = "none"
  /\ site' = [site EXCEPT ![e] = "other"]
  /\ early' = [early EXCEPT ![e] =
        e \notin pending /\ ~\E r \in Run : pc[r] \in OnForm /\ enc[r] = e]
  /\ UNCHANGED <<db, job, run, pending, pushes, request, retry, env>>

SeasonCloses(e) ==
  /\ open[e]
  /\ open' = [open EXCEPT ![e] = FALSE]
  /\ UNCHANGED <<finished, synced, job, run, web, request, retry, env>>

-----------------------------------------------------------------------------
Bull(e) == Timeout(e) \/ BackoffOver(e) \/ StallCheck(e)

Invocation(r) ==
  \/ Acquire(r) \/ PreflightRefuses(r) \/ OpenBrowser(r) \/ SeasonCheck(r)
  \/ EnterEditMode(r) \/ AssertNoExistingResult(r) \/ FillForm(r)
  \/ ClickSave(r) \/ SaveSucceeds(r) \/ MarkSynced(r) \/ StepThrows(r)
  \/ Cleanup(r) \/ Settle(r)

RequestEnterScores(q) == GetJob(q) \/ AddJob(q) \/ GetState(q) \/ RetryJob(q)

RetryFailedEncounterSync ==
  \/ CronFires \/ ListClosedJobs \/ ScanEncounters \/ CronEnds
  \/ \E e \in Enc : RemoveJob(e) \/ RequestNext(e)

World(e) == SaveEncounter(e) \/ SiteApplies(e) \/ SiteDrops(e) \/ OtherEnters(e)
            \/ SeasonCloses(e)

Next ==
  \/ \E e \in Enc : Bull(e) \/ World(e)
  \/ \E r \in Run : Invocation(r)
  \/ \E e \in Enc, r \in Run : Dispatch(e, r)
  \/ \E q \in Requester : RequestEnterScores(q)
  \/ RequestLost \/ RetryFailedEncounterSync \/ Crash

Spec == Init /\ [][Next]_vars

(***************************************************************************)
(* Bull keeps dispatching, its timers fire, an awaited promise continues,  *)
(* toernooi.nl answers, the retry job runs every day.  The gate serves in  *)
(* order of arrival (SerialGate), hence the strong fairness of Acquire.    *)
(* Users need not do anything, and seasons need not close.                 *)
(***************************************************************************)
Fairness ==
  /\ \A e \in Enc :
       /\ WF_vars(BackoffOver(e) \/ StallCheck(e))
       /\ WF_vars(\E r \in Run : Dispatch(e, r))
       /\ WF_vars(SiteApplies(e) \/ SiteDrops(e))
  /\ \A r \in Run : WF_vars(Invocation(r)) /\ SF_vars(Acquire(r))
  /\ \A q \in Requester : WF_vars(RequestEnterScores(q))
  /\ WF_vars(RetryFailedEncounterSync)

FairSpec == Spec /\ Fairness

-----------------------------------------------------------------------------
(* The page of EncounterFormPageService is driven by one invocation at a   *)
(* time: between browser_open and save it is the one that opened it, also  *)
(* when Bull timed out the job and started the next attempt.               *)
PageOwned == \A r \in Run : pc[r] \in UsesPage => page = r

(* toernooi.nl stores a Badman result at most once per encounter, whatever *)
(* the retries, timeouts, crashes and repeated requests, provided the site *)
(* does not show an empty form while it still holds an earlier save.       *)
AtMostOnePush == \A e \in Enc : pushes[e] <= 1

(* A result that somebody else entered while Badman had no form of that    *)
(* encounter open and no save on its way is never overwritten.             *)
EarlyResultKept ==
  [][\A e \in Enc : site[e] = "other" /\ early[e] => site'[e] = "other"]_vars

(* Every result entered in Badman is eventually pushed, found on the site, *)
(* or out of season; a lost request is made good by the retry job.         *)
EveryResultSettles ==
  \A e \in Enc :
    enabled /\ finished[e] ~> (synced[e] \/ site[e] # "none" \/ ~open[e])

(* Once a season is closed and nobody edits its results any more, its job  *)
(* leaves the queue for good: it ends, or fails as closed and the retry    *)
(* job removes it.                                                         *)
ClosedSeasonLeavesQueue ==
  \A e \in Enc : <>[](~open[e] /\ reqPc["api"] = "idle") => <>[](jobState[e] = "none")
=============================================================================
