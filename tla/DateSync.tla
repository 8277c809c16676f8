------------------------------ MODULE DateSync ------------------------------
(***************************************************************************)
(* The date of one encounter on its way to toernooi.nl and back: the       *)
(* operations that change it in Badman and queue a ChangeDate job          *)
(* (encounter-change.service.ts, encounter.resolver.ts), the job that      *)
(* sends it (change-date.ts), and the event sync that reads the draw of    *)
(* toernooi.nl and takes its dates over (competition-sync/processors/      *)
(* encounter.ts).                                                          *)
(*                                                                         *)
(* A change loads the encounter, checks, and commits; Sequelize writes the *)
(* date only if it differs from the loaded one, and so does the event      *)
(* sync.  A job loads the encounter when it runs, sends the date, and      *)
(* marks the result; one that fails is not tried again.  Jobs run at the   *)
(* same time.                                                              *)
(* The event sync loads the encounters, reads the XML and saves; before    *)
(* the season begins, the XML may be a week old.  The scheduled sync takes *)
(* a competition that toernooi.nl lists as changed; that its runs come,    *)
(* and what they leave behind, is the subject of module ScheduledSync.     *)
(*                                                                         *)
(* Where the dates come from is the subject of module EncounterChange.     *)
(* Not modelled: encounters without visualCode (the job does nothing),     *)
(* locations, deployments other than production (nothing is sent).         *)
(***************************************************************************)
EXTENDS Naturals

CONSTANTS
  Date,       \* dates of the encounter
  NoDate,     \* toernooi.nl has not scheduled the match; nothing is cached
  Session,    \* changes that may be under way at the same time
  Job,        \* places for ChangeDate jobs
  Sync,       \* event syncs that may run at the same time
  MaxChange,  \* bound on changes, here and there, and renewed pushes
  MaxFault    \* bound on failures and crashes

ASSUME DateSyncConstants ==
  NoDate \notin Date /\ MaxChange \in Nat /\ MaxFault \in Nat

VARIABLES
  date,      \* EncounterCompetition.date
  synced,    \* EncounterCompetition.dateSyncedAt is set
  site,      \* MatchTime on toernooi.nl
  cached,    \* that of the cached XML of the draw
  begun,     \* 1 August of the season has passed
  listed,    \* the next scheduled event sync takes the competition
  from,      \* from[c]: the date of the encounter that change c loaded
  phase,     \* phase[j]: where the job stands; owed: committed, not yet queued
  held,      \* held[j]: the date the job read
  at,        \* at[s]: where the event sync stands
  seen,      \* seen[s]: the date of the encounter it loaded
  got,       \* got[s]: the date it read from the XML
  changes, faults,
  wanted,    \* history: the date a change last gave the encounter
  missed,    \* history: a sync failed, or passed by, since the match changed
  excused    \* history: an event that may keep wanted from toernooi.nl or Badman

db    == <<date, synced>>
web   == <<site, cached, begun>>
jobs  == <<phase, held>>
syncs == <<at, seen, got>>
count == <<changes, faults>>
list  == <<listed, missed>>
vars  == <<db, web, list, from, jobs, syncs, count, wanted, excused>>

MaybeDate == Date \cup {NoDate}
Sending == {"loaded", "sent", "refused"}

TypeOK ==
  /\ date \in Date /\ synced \in BOOLEAN
  /\ site \in MaybeDate /\ cached \in MaybeDate /\ begun \in BOOLEAN
  /\ listed \in BOOLEAN /\ missed \in BOOLEAN
  /\ from \in [Session -> MaybeDate]
  /\ phase \in [Job -> {"none", "owed", "waiting"} \cup Sending]
  /\ held \in [Job -> MaybeDate]
  /\ \A j \in Job : phase[j] \in Sending <=> held[j] # NoDate
  /\ at \in [Sync -> {"idle", "loaded", "read"}]
  /\ seen \in [Sync -> MaybeDate] /\ got \in [Sync -> MaybeDate]
  /\ changes \in 0 .. MaxChange /\ faults \in 0 .. MaxFault
  /\ wanted \in Date /\ excused \in BOOLEAN

(* An encounter the event sync has just brought in. *)
Init ==
  /\ date \in Date /\ site = date /\ cached = date /\ wanted = date
  /\ synced = FALSE
  /\ begun \in BOOLEAN
  /\ listed = FALSE /\ missed = FALSE
  /\ from = [c \in Session |-> NoDate]
  /\ phase = [j \in Job |-> "none"] /\ held = [j \in Job |-> NoDate]
  /\ at = [s \in Sync |-> "idle"]
  /\ seen = [s \in Sync |-> NoDate] /\ got = [s \in Sync |-> NoDate]
  /\ changes = 0 /\ faults = 0
  /\ excused = FALSE

NoJob == \A j \in Job : phase[j] = "none"
Quiet == NoJob /\ \A s \in Sync : at[s] = "idle"

(* Another job will still load the encounter. *)
Carried(j) == \E k \in Job \ {j} : phase[k] \in {"owed", "waiting"}

(* What is about to be written was read before the date became d: a job    *)
(* holds another date, an event sync is about to save one.                 *)
Overtakes(d) ==
  \/ \E j \in Job : phase[j] = "loaded" /\ held[j] # d
  \/ \E s \in Sync : at[s] = "read" /\ got[s] # NoDate
                     /\ got[s] # seen[s] /\ got[s] # d

Once == changes < MaxChange /\ changes' = changes + 1
Fault == faults < MaxFault /\ faults' = faults + 1

----------------------------------------------------------------------------
(* Changes. *)

(* finalize or adminChangeEncounterDate loads the encounter; its checks    *)
(* follow.                                                                 *)
LoadForChange(c) ==
  /\ from[c] = NoDate
  /\ from' = [from EXCEPT ![c] = date]
  /\ UNCHANGED <<db, web, list, jobs, syncs, count, wanted, excused>>

(* A check, or the database, refuses the change. *)
Refuse(c) ==
  /\ from[c] # NoDate
  /\ from' = [from EXCEPT ![c] = NoDate]
  /\ UNCHANGED <<db, web, list, jobs, syncs, count, wanted, excused>>

(* The commit of date d, which is written if it is not the loaded one. *)
Commit(c, d) ==
  /\ Once
  /\ from[c] # NoDate
  /\ from' = [from EXCEPT ![c] = NoDate]
  /\ date' = (IF from[c] = d THEN date ELSE d)
  /\ wanted' = d
  /\ UNCHANGED <<synced, web, list, syncs, faults>>

(* finalize, or adminChangeEncounterDate with updateBadman and             *)
(* updateVisual.  The job is added after the commit.                       *)
Accept(c, d, j) ==
  /\ Commit(c, d)
  /\ phase[j] = "none"
  /\ phase' = [phase EXCEPT ![j] = "owed"]
  /\ excused' = \/ date' # d
                \/ ~Quiet /\ (excused \/ Overtakes(d))
  /\ UNCHANGED held

Queue(j) ==
  /\ phase[j] = "owed"
  /\ phase' = [phase EXCEPT ![j] = "waiting"]
  /\ UNCHANGED <<db, web, list, from, held, syncs, count, wanted, excused>>

(* syncQueue.add fails (finalize swallows the error), or the API dies.     *)
QueueFails(j) ==
  /\ Fault
  /\ phase[j] = "owed"
  /\ phase' = [phase EXCEPT ![j] = "none"]
  /\ excused' = (excused \/ ~Carried(j))
  /\ UNCHANGED <<db, web, list, from, held, syncs, changes, wanted>>

(* adminChangeEncounterDate with updateBadman alone: nothing is sent, but  *)
(* a job that waits will load the new date.                                *)
Impose(c, d) ==
  /\ Commit(c, d)
  /\ excused' = \/ excused \/ Overtakes(d) \/ date' # d
                \/ \A j \in Job : phase[j] \notin {"owed", "waiting"}
  /\ UNCHANGED jobs

(* adminChangeEncounterDate with updateVisual alone: the date is sent again. *)
PushAgain(j) ==
  /\ Once
  /\ phase[j] = "none"
  /\ phase' = [phase EXCEPT ![j] = "waiting"]
  /\ excused' = (excused /\ ~(Quiet /\ date = wanted))
  /\ UNCHANGED <<db, web, list, from, held, syncs, faults, wanted>>

(* The match has date d on toernooi.nl, which lists it as changed. *)
SiteHas(d) == site' = d /\ listed' = TRUE /\ missed' = FALSE

(* The federation edits the match on toernooi.nl. *)
Reschedule(d) ==
  /\ Once
  /\ SiteHas(d)
  /\ excused' = TRUE
  /\ UNCHANGED <<db, cached, begun, from, jobs, syncs, faults, wanted>>

----------------------------------------------------------------------------
(* The ChangeDate job. *)

Load(j) ==
  /\ phase[j] = "waiting"
  /\ phase' = [phase EXCEPT ![j] = "loaded"]
  /\ held' = [held EXCEPT ![j] = date]
  /\ UNCHANGED <<db, web, list, from, syncs, count, wanted, excused>>

(* PUT, and its answer. *)
Send(j) ==
  /\ phase[j] = "loaded"
  /\ SiteHas(held[j])
  /\ phase' = [phase EXCEPT ![j] = "sent"]
  /\ UNCHANGED <<db, cached, begun, from, held, syncs, count, wanted, excused>>

(* An error, before or after toernooi.nl stored the date. *)
SendFails(j) ==
  /\ Fault
  /\ phase[j] = "loaded"
  /\ SiteHas(held[j]) \/ UNCHANGED <<site, list>>
  /\ phase' = [phase EXCEPT ![j] = "refused"]
  /\ excused' = TRUE
  /\ UNCHANGED <<db, cached, begun, from, held, syncs, changes, wanted>>

Leave(j) ==
  /\ phase[j] \in {"sent", "refused"}
  /\ phase' = [phase EXCEPT ![j] = "none"]
  /\ held' = [held EXCEPT ![j] = NoDate]

(* The finally block saves dateSyncedAt, set or cleared. *)
Mark(j) ==
  /\ Leave(j)
  /\ synced' = (phase[j] = "sent")
  /\ UNCHANGED <<date, web, list, from, syncs, count, wanted, excused>>

(* The save fails and the job with it: it has one attempt. *)
MarkFails(j) ==
  /\ Fault
  /\ Leave(j)
  /\ excused' = TRUE
  /\ UNCHANGED <<db, web, list, from, syncs, changes, wanted>>

----------------------------------------------------------------------------
(* The event sync, in one transaction. *)

(* A run takes the competition: a scheduled one if toernooi.nl lists it,   *)
(* one by hand at any time.                                                *)
LoadEncounters(s) ==
  /\ at[s] = "idle"
  /\ at' = [at EXCEPT ![s] = "loaded"]
  /\ seen' = [seen EXCEPT ![s] = date]
  /\ listed' = FALSE
  /\ UNCHANGED <<db, web, missed, from, jobs, got, count, wanted, excused>>

(* getGames, through the cache until the season has begun; what is fetched *)
(* is cached.                                                              *)
ReadDraw(s) ==
  LET d == IF ~begun /\ cached # NoDate THEN cached ELSE site IN
  /\ at[s] = "loaded"
  /\ at' = [at EXCEPT ![s] = "read"]
  /\ got' = [got EXCEPT ![s] = d]
  /\ cached' = d
  /\ excused' = \/ excused
                \/ d \notin {NoDate, seen[s], wanted}
  /\ UNCHANGED <<db, site, begun, list, from, jobs, seen, count, wanted>>

Finish(s) ==
  /\ at[s] = "read"
  /\ at' = [at EXCEPT ![s] = "idle"]
  /\ seen' = [seen EXCEPT ![s] = NoDate] /\ got' = [got EXCEPT ![s] = NoDate]
  /\ UNCHANGED <<synced, web, list, from, jobs, count, wanted, excused>>

(* Bug: save writes every attribute, the unchanged ones too. *)
SaveAll(s) ==
  /\ Finish(s)
  /\ date' = IF got[s] # NoDate THEN got[s] ELSE date

(* Bug: the date is taken over for new encounters only. *)
SaveNothing(s) == Finish(s) /\ date' = date

(* The date is taken over if the match has one; Sequelize writes it if it  *)
(* differs from the one loaded.                                            *)
SaveDate(s) ==
  /\ Finish(s)
  /\ date' = IF got[s] # NoDate /\ got[s] # seen[s] THEN got[s] ELSE date

(* Something of the competition fails: the transaction is rolled back and  *)
(* the run goes on without it.                                             *)
SyncFails(s) ==
  /\ Fault
  /\ at[s] # "idle"
  /\ at' = [at EXCEPT ![s] = "idle"]
  /\ seen' = [seen EXCEPT ![s] = NoDate] /\ got' = [got EXCEPT ![s] = NoDate]
  /\ missed' = (missed \/ ~listed)
  /\ UNCHANGED <<db, web, listed, from, jobs, changes, wanted, excused>>

(* lastRun moves past the change: after a run that failed before it, was   *)
(* for another tournament or went over midnight (ScheduledSync).           *)
PassBy ==
  /\ listed /\ listed' = FALSE
  /\ missed' = TRUE
  /\ UNCHANGED <<db, web, from, jobs, syncs, count, wanted, excused>>

----------------------------------------------------------------------------
(* The rest of the world. *)

Begin ==
  /\ ~begun /\ begun' = TRUE
  /\ UNCHANGED <<db, site, cached, list, from, jobs, syncs, count, wanted, excused>>

(* The week of the cached XML is over. *)
Expire ==
  /\ cached # NoDate /\ cached' = NoDate
  /\ UNCHANGED <<db, site, begun, list, from, jobs, syncs, count, wanted, excused>>

(* Bug: lastRun is saved before the run. *)
CrashForgets ==
  /\ Fault
  /\ phase' = [j \in Job |-> IF phase[j] \in Sending THEN "waiting" ELSE phase[j]]
  /\ held' = [j \in Job |-> NoDate]
  /\ at' = [s \in Sync |-> "idle"]
  /\ seen' = [s \in Sync |-> NoDate] /\ got' = [s \in Sync |-> NoDate]
  /\ UNCHANGED <<db, web, list, from, changes, wanted, excused>>

(* The worker dies: the transaction of a sync is rolled back, lastRun stays *)
(* where it was, and Bull queues the jobs again.                           *)
Crash ==
  /\ Fault
  /\ phase' = [j \in Job |-> IF phase[j] \in Sending THEN "waiting" ELSE phase[j]]
  /\ held' = [j \in Job |-> NoDate]
  /\ at' = [s \in Sync |-> "idle"]
  /\ seen' = [s \in Sync |-> NoDate] /\ got' = [s \in Sync |-> NoDate]
  /\ listed' = (listed \/ \E s \in Sync : at[s] # "idle")
  /\ UNCHANGED <<db, web, missed, from, changes, wanted, excused>>

----------------------------------------------------------------------------
JobStep(j) == Queue(j) \/ Load(j) \/ Send(j) \/ Mark(j)
JobFault(j) == QueueFails(j) \/ SendFails(j) \/ MarkFails(j)
SyncStep(s) == ReadDraw(s) \/ SaveDate(s)

ChangeStep(c) ==
  \/ LoadForChange(c) \/ Refuse(c)
  \/ \E d \in Date : Impose(c, d) \/ \E j \in Job : Accept(c, d, j)

Next ==
  \/ \E c \in Session : ChangeStep(c)
  \/ \E d \in MaybeDate : Reschedule(d)
  \/ \E j \in Job : PushAgain(j) \/ JobStep(j) \/ JobFault(j)
  \/ \E s \in Sync : LoadEncounters(s) \/ SyncStep(s) \/ SyncFails(s)
  \/ PassBy \/ Begin \/ Expire \/ Crash

Spec == Init /\ [][Next]_vars

(* The queue is worked off; a run of the scheduled sync takes what is      *)
(* listed, and ends.  Syncs by hand, changes and faults are not fair.      *)
Fairness ==
  /\ \A j \in Job : WF_vars(JobStep(j))
  /\ \A s \in Sync : WF_vars(SyncStep(s)) /\ WF_vars(listed /\ LoadEncounters(s))

FairSpec == Spec /\ Fairness

----------------------------------------------------------------------------
(* Once the queue is empty and no event sync runs, Badman and toernooi.nl  *)
(* have the date of the last change, and it is marked as sent - unless a   *)
(* push failed or was not asked for, a job was overtaken by a change while *)
(* it held the older date, an event sync read an older date than the       *)
(* wanted one where it had loaded another, or a change found its date      *)
(* already there and lost it before its commit.  An event sync that reads  *)
(* the date it loaded does no harm, and neither does a change while jobs   *)
(* wait; and a change (or a renewed push) at rest makes good what went     *)
(* wrong before.                                                           *)
Agreed ==
  Quiet /\ ~excused =>
    /\ date = wanted
    /\ (changes > 0 => site = wanted /\ synced)

(* In the season, a date that the federation or a job brought to           *)
(* toernooi.nl comes to Badman as well: whichever of two jobs sent last,   *)
(* and whatever changes and crashes come between the steps of the sync -   *)
(* unless the date is changed there again, or a sync fails on it or passes *)
(* it by.                                                                  *)
SiteDateArrives ==
  \A d \in Date :
    begun /\ listed /\ site = d ~> date = d \/ site # d \/ missed
=============================================================================
