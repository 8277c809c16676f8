---------------------------- MODULE Orchestrator ----------------------------
(***************************************************************************)
(* Starting and stopping a worker on Render (packages/backend-orchestrator)*)
(*                                                                         *)
(* The API runs one orchestrator per queue.  Once a minute it reads the    *)
(* counts of the queue and resumes the suspended worker when there is      *)
(* work, or suspends it after a time without work.  Nothing keeps two      *)
(* executions of that minute's check apart: each is a chain of awaits (the *)
(* counts in Redis, the Service row, the Render API) and shares hasStarted *)
(* and startTime with the others.                                          *)
(*                                                                         *)
(* Only the worker runs Bull's timers, so a job in backoff ("delayed") is  *)
(* put back to waiting only while the worker is up; the counts the check   *)
(* reads leave delayed jobs out.                                           *)
(*                                                                         *)
(* Time advances by the minute, with the cron.  Abstracted: which jobs     *)
(* there are (they are counted), the column Service.status (written here,  *)
(* read by nobody but the screen), websocket events, logging.              *)
(***************************************************************************)
EXTENDS Naturals

CONSTANTS
  Tick,          \* executions of the check that can overlap
  WaitTime,      \* RENDER_WAIT_TIME in minutes
  Backoff,       \* backoff of a failed job in minutes
  MaxJobs,       \* bound on the jobs in the queue
  MaxFault,      \* bound on the failing calls of the Render API
  MaxRestart,    \* bound on the restarts of the API
  JobsFail,      \* a job may fail and be retried after its backoff
  HasRenderId    \* the Service row surely has its renderId from the start

ASSUME ConstantTypes ==
  /\ WaitTime \in Nat /\ Backoff \in Nat
  /\ MaxJobs \in Nat /\ MaxFault \in Nat /\ MaxRestart \in Nat
  /\ JobsFail \in BOOLEAN /\ HasRenderId \in BOOLEAN

VARIABLES
  hasStarted,  \* OrchestratorBase.hasStarted
  idle,        \* minutes since startTime, up to WaitTime
  booting,     \* onModuleInit has not ended
  step,        \* next step of each execution of the check
  renderId,    \* the Service row has a renderId
  suspended,   \* Render: the worker service is suspended
  up,          \* the worker process consumes the queue
  waiting, active, delayed,  \* job counts of the queue
  orphans,     \* active jobs whose worker is gone
  due,         \* minutes until the delayed jobs are due
  quiet,       \* history: minutes since a check ran while there was work
  faults, restarts           \* bounded events so far

api == <<hasStarted, idle, booting, step>>
render == <<suspended, up>>
queue == <<waiting, active, delayed, orphans, due>>
bounds == <<faults, restarts>>
vars == <<api, renderId, render, queue, quiet, bounds>>

Step == {"none", "counts", "startGet", "resume", "started", "stopGet",
         "suspend", "stopped"}

TypeOK ==
  /\ hasStarted \in BOOLEAN
  /\ idle \in 0 .. WaitTime /\ quiet \in 0 .. WaitTime
  /\ booting \in BOOLEAN
  /\ step \in [Tick -> Step]
  /\ renderId \in BOOLEAN
  /\ suspended \in BOOLEAN
  /\ up \in BOOLEAN
  /\ waiting \in 0 .. MaxJobs /\ active \in 0 .. MaxJobs
  /\ delayed \in 0 .. MaxJobs /\ orphans \in 0 .. MaxJobs
  /\ due \in 0 .. Backoff
  /\ faults \in 0 .. MaxFault
  /\ restarts \in 0 .. MaxRestart

Init ==
  /\ hasStarted = FALSE /\ idle = 0 /\ booting = TRUE
  /\ step = [t \in Tick |-> "none"]
  /\ renderId \in {HasRenderId, TRUE}
  /\ suspended \in BOOLEAN /\ up = FALSE
  /\ waiting = 0 /\ active = 0 /\ delayed = 0 /\ orphans = 0 /\ due = 0
  /\ quiet = 0 /\ faults = 0 /\ restarts = 0

Jobs == waiting + active + delayed + orphans

(* getJobCounts(): what the check calls work. *)
SeesWork == waiting > 0 \/ active + orphans > 0

Goto(t, s) == step' = [step EXCEPT ![t] = s]

(* A call of the Render API fails. *)
Fault == faults < MaxFault /\ faults' = faults + 1

-----------------------------------------------------------------------------
(* Bug: hasStarted is not set for a worker found running. *)
UpdateStatusesOnly ==
  /\ booting
  /\ booting' = FALSE
  /\ UNCHANGED <<hasStarted, idle, step, renderId, render, queue, quiet,
                 bounds>>

(* onModuleInit, _updateStatuses: the state of the service is asked once.  *)
(* (When Render does not answer the API does not come up.)                 *)
UpdateStatuses ==
  /\ booting
  /\ booting' = FALSE
  /\ IF renderId
     THEN /\ hasStarted' = ~suspended
          /\ idle' = IF suspended THEN idle ELSE 0
     ELSE UNCHANGED <<hasStarted, idle>>
  /\ UNCHANGED <<step, renderId, render, queue, quiet, bounds>>

(* The cron of checkQueue fires: a minute has passed.  Bull's timer puts   *)
(* due jobs back at once while the worker is up.                           *)
Minute(t) ==
  /\ ~booting /\ step[t] = "none"
  /\ ~(up /\ delayed > 0 /\ due = 0)
  /\ Goto(t, "counts")
  /\ idle' = IF idle < WaitTime THEN idle + 1 ELSE idle
  /\ quiet' = IF quiet < WaitTime THEN quiet + 1 ELSE quiet
  /\ due' = IF due > 0 THEN due - 1 ELSE 0
  /\ UNCHANGED <<hasStarted, booting, renderId, render, waiting, active,
                 delayed, orphans, bounds>>

(* The history: this check runs with these jobs in the queue. *)
Remember == quiet' = IF waiting + active + orphans > 0 THEN 0 ELSE quiet

(* Bug: startTime is not reset when there is work. *)
CheckKeepingTime(t) ==
  /\ step[t] = "counts"
  /\ UNCHANGED idle
  /\ \/ SeesWork /\ Goto(t, IF hasStarted THEN "none" ELSE "startGet")
     \/ ~SeesWork
        /\ Goto(t, IF hasStarted /\ idle >= WaitTime THEN "stopGet" ELSE "none")
  /\ Remember
  /\ UNCHANGED <<hasStarted, booting, renderId, render, queue, bounds>>

(* _checkAndStartStopIfNeeded, with the counts just read. *)
Check(t) ==
  /\ step[t] = "counts"
  /\ \/ SeesWork /\ idle' = 0
        /\ Goto(t, IF hasStarted THEN "none" ELSE "startGet")
     \/ ~SeesWork /\ UNCHANGED idle
        /\ Goto(t, IF hasStarted /\ idle >= WaitTime THEN "stopGet" ELSE "none")
  /\ Remember
  /\ UNCHANGED <<hasStarted, booting, renderId, render, queue, bounds>>

(* startServer up to GET /services/<id>.  Without a renderId it returns    *)
(* normally; an error of the GET is caught by the check.                   *)
StartGet(t) ==
  /\ step[t] = "startGet"
  /\ \/ ~renderId /\ hasStarted' = TRUE /\ Goto(t, "none") /\ UNCHANGED faults
     \/ renderId /\ Fault /\ Goto(t, "none") /\ UNCHANGED hasStarted
     \/ renderId /\ Goto(t, IF suspended THEN "resume" ELSE "started")
        /\ UNCHANGED <<hasStarted, faults>>
  /\ UNCHANGED <<idle, booting, renderId, render, queue, quiet, restarts>>

(* POST /resume: an error is caught and logged in startService. *)
Resume(t) ==
  /\ step[t] = "resume"
  /\ Goto(t, "started")
  /\ \/ suspended' = FALSE /\ UNCHANGED faults
     \/ Fault /\ UNCHANGED suspended
  /\ UNCHANGED <<hasStarted, idle, booting, renderId, up, queue, quiet,
                 restarts>>

(* The end of startService, then hasStarted = true. *)
Started(t) ==
  /\ step[t] = "started"
  /\ Goto(t, "none")
  /\ hasStarted' = TRUE
  /\ UNCHANGED <<idle, booting, renderId, render, queue, quiet, bounds>>

(* stopServer up to the GET.  The finally clears hasStarted on an error. *)
StopGet(t) ==
  /\ step[t] = "stopGet"
  /\ \/ ~renderId /\ hasStarted' = FALSE /\ Goto(t, "none") /\ UNCHANGED faults
     \/ renderId /\ Fault /\ Goto(t, "none") /\ hasStarted' = FALSE
     \/ renderId /\ Goto(t, IF suspended THEN "stopped" ELSE "suspend")
        /\ UNCHANGED <<hasStarted, faults>>
  /\ UNCHANGED <<idle, booting, renderId, render, queue, quiet, restarts>>

(* Bug: the jobs of the killed worker are counted once more. *)
SuspendCountingTwice(t) ==
  /\ step[t] = "suspend"
  /\ Goto(t, "stopped")
  /\ \/ /\ suspended' = TRUE /\ up' = FALSE
        /\ orphans' = orphans + active
        /\ UNCHANGED <<faults, active>>
     \/ Fault /\ UNCHANGED <<suspended, up, orphans, active>>
  /\ UNCHANGED <<hasStarted, idle, booting, renderId, waiting, delayed, due,
                 quiet, restarts>>

(* POST /suspend: the worker is killed, its jobs stay active in Redis. *)
Suspend(t) ==
  /\ step[t] = "suspend"
  /\ Goto(t, "stopped")
  /\ \/ /\ suspended' = TRUE /\ up' = FALSE
        /\ orphans' = orphans + active /\ active' = 0
        /\ UNCHANGED faults
     \/ Fault /\ UNCHANGED <<suspended, up, orphans, active>>
  /\ UNCHANGED <<hasStarted, idle, booting, renderId, waiting, delayed, due,
                 quiet, restarts>>

(* Bug: hasStarted is left as it is when the worker was stopped. *)
StoppedStillStarted(t) ==
  /\ step[t] = "stopped"
  /\ Goto(t, "none")
  /\ UNCHANGED <<hasStarted, idle, booting, renderId, render, queue, quiet,
                 bounds>>

(* The end of suspendService, then the finally. *)
Stopped(t) ==
  /\ step[t] = "stopped"
  /\ Goto(t, "none")
  /\ hasStarted' = FALSE
  /\ UNCHANGED <<idle, booting, renderId, render, queue, quiet, bounds>>

(* The API process is replaced. *)
RestartApi ==
  /\ restarts < MaxRestart
  /\ restarts' = restarts + 1
  /\ hasStarted' = FALSE /\ idle' = 0 /\ booting' = TRUE
  /\ step' = [t \in Tick |-> "none"]
  /\ UNCHANGED <<renderId, render, queue, quiet, faults>>

(* An administrator fills in the renderId of the service. *)
SetRenderId ==
  /\ ~renderId
  /\ renderId' = TRUE
  /\ UNCHANGED <<api, render, queue, quiet, bounds>>

-----------------------------------------------------------------------------
(* The worker process. *)

(* Render starts the process, which then consumes the queue. *)
Boot ==
  /\ ~suspended /\ ~up
  /\ up' = TRUE
  /\ UNCHANGED <<api, renderId, suspended, queue, quiet, bounds>>

Take ==
  /\ up /\ waiting > 0
  /\ waiting' = waiting - 1 /\ active' = active + 1
  /\ UNCHANGED <<api, renderId, render, delayed, orphans, due, quiet, bounds>>

Complete ==
  /\ up /\ active > 0
  /\ active' = active - 1
  /\ UNCHANGED <<api, renderId, render, waiting, delayed, orphans, due, quiet,
                 bounds>>

(* A failed attempt waits for its backoff. *)
FailJob ==
  /\ JobsFail /\ up /\ active > 0
  /\ active' = active - 1 /\ delayed' = delayed + 1 /\ due' = Backoff
  /\ UNCHANGED <<api, renderId, render, waiting, orphans, quiet, bounds>>

(* Bull's delay timer, which only a consumer of the queue runs. *)
Promote ==
  /\ up /\ delayed > 0 /\ due = 0
  /\ waiting' = waiting + delayed /\ delayed' = 0
  /\ UNCHANGED <<api, renderId, render, active, orphans, due, quiet, bounds>>

(* Bull's stall check, likewise. *)
Recover ==
  /\ up /\ orphans > 0
  /\ waiting' = waiting + orphans /\ orphans' = 0
  /\ UNCHANGED <<api, renderId, render, active, delayed, due, quiet, bounds>>

Worker == Boot \/ Take \/ Complete \/ FailJob \/ Promote \/ Recover

(* Anybody queues a job. *)
AddJob ==
  /\ Jobs < MaxJobs
  /\ waiting' = waiting + 1
  /\ UNCHANGED <<api, renderId, render, active, delayed, orphans, due, quiet,
                 bounds>>

-----------------------------------------------------------------------------
Execution(t) ==
  \/ Check(t) \/ StartGet(t) \/ Resume(t) \/ Started(t)
  \/ StopGet(t) \/ Suspend(t) \/ Stopped(t)

Next ==
  \/ UpdateStatuses \/ RestartApi \/ SetRenderId
  \/ \E t \in Tick : Minute(t) \/ Execution(t)
  \/ Worker \/ AddJob

Spec == Init /\ [][Next]_vars

(* The cron fires every minute, awaits return, the worker boots and works. *)
Fairness ==
  /\ WF_vars(UpdateStatuses) /\ WF_vars(SetRenderId)
  /\ WF_vars(\E t \in Tick : Minute(t))
  /\ \A t \in Tick : WF_vars(Execution(t))
  /\ WF_vars(Boot) /\ WF_vars(Take) /\ WF_vars(Complete \/ FailJob)
  /\ WF_vars(Promote) /\ WF_vars(Recover)

FairSpec == Spec /\ Fairness

-----------------------------------------------------------------------------
(* stopServer: the worker is suspended only when WaitTime has passed since *)
(* a check last ran with work in the queue, also across a restart of the   *)
(* API and calls of Render that fail.                                      *)
SuspendsAfterWaitTime == [][~suspended /\ suspended' => quiet >= WaitTime]_vars

(* The service is known and Render has answered every call. *)
Healthy == renderId /\ faults = 0

(* checkQueue: a job that waits, or that a killed worker left active, gets *)
(* a worker that picks it up, if Render answers and the service is known.  *)
WorkIsPickedUp ==
  []Healthy => ((waiting + orphans > 0) ~> (active > 0))

(* When no jobs come any more the worker ends up suspended, whatever the   *)
(* API believed of it after a restart.  (A GET that fails while stopping    *)
(* is taken for a stop: then the worker stays up until the next job.)      *)
IdleWorkerIsSuspended == []Healthy /\ <>[](Jobs = 0) => <>[]suspended
=============================================================================
