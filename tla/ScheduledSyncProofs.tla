------------------------ MODULE ScheduledSyncProofs ------------------------
(***************************************************************************)
(* Proofs about ScheduledSync, for any number of tournaments, API          *)
(* processes, jobs, days, changes, attempts and faults: lastRun never      *)
(* passes a change that is not in the database, unless excused.            *)
(***************************************************************************)
EXTENDS ScheduledSync, TLAPS

(* No recorded day lies in the future. *)
PastDays ==
  /\ lastRun <= day
  /\ \A e \in Event : changedOn[e] <= day
  /\ \A j \in Job : fetchedOn[j] <= day

(* What a run read of lastRun has not been taken back since. *)
SinceIsOld == \A j \in Job : phase[j] = "started" => since[j] <= lastRun

(* An open transaction read the present version, or the tournament changed *)
(* after the run fetched its list.                                         *)
ReadAfterFetch ==
  \A j \in Job, e \in Event : open[j] = {e} =>
    /\ phase[j] = "working"
    /\ seen[j] <= site[e]
    /\ seen[j] # site[e] => changedOn[e] >= fetchedOn[j]

(* What changed before a scheduled run fetched its list and is not in the  *)
(* database is still on that list.                                         *)
StillListed ==
  \A j \in Job, e \in Event :
    /\ phase[j] = "working" /\ only[j] = {}
    /\ Stale(e) /\ e \notin excused /\ changedOn[e] < fetchedOn[j]
    => e \in list[j]

IInv ==
  TypeOK /\ PastDays /\ SinceIsOld /\ ReadAfterFetch /\ StillListed /\ StillCovered

----------------------------------------------------------------------------
LEMMA InitInv == Init => IInv
<1> SUFFICES ASSUME Init PROVE IInv
  OBVIOUS
<1>1. TypeOK
  BY ScheduledConstants DEF Init, TypeOK, Phase, Active, Singleton
<1>2. PastDays /\ SinceIsOld /\ ReadAfterFetch /\ StillListed /\ StillCovered
  BY DEF Init, PastDays, SinceIsOld, ReadAfterFetch, StillListed, StillCovered, Stale
<1> QED
  BY <1>1, <1>2 DEF IInv

(* Every action keeps the state well typed. *)
LEMMA TypeStep == TypeOK /\ [Next]_vars => TypeOK'
<1> SUFFICES ASSUME TypeOK, [Next]_vars PROVE TypeOK'
  OBVIOUS
<1> USE ScheduledConstants DEF TypeOK, Phase, Active, Singleton, queue, world, run
<1>1. CASE Tick
  BY <1>1 DEF Tick
<1>2. ASSUME NEW a \in Api, Ask(a) PROVE TypeOK'
  BY <1>2 DEF Ask
<1>3. ASSUME NEW a \in Api, NEW j \in Job, Add(a, j) PROVE TypeOK'
  BY <1>3 DEF Add
<1>4. ASSUME NEW e \in Event, Change(e) PROVE TypeOK'
  BY <1>4 DEF Change
<1>5. ASSUME NEW j \in Job, Promote(j) PROVE TypeOK'
  BY <1>5 DEF Promote
<1>6. ASSUME NEW j \in Job, Start(j) PROVE TypeOK'
  BY <1>6 DEF Start
<1>7. ASSUME NEW j \in Job, Fetch(j) PROVE TypeOK'
  BY <1>7 DEF Fetch, ChangedSince
<1>8. ASSUME NEW j \in Job, End(j) PROVE TypeOK'
  BY <1>8 DEF End, Remove, Reset
<1>9. ASSUME NEW j \in Job, NEW e \in Event, Read(j, e) PROVE TypeOK'
  BY <1>9 DEF Read
<1>10. ASSUME NEW j \in Job, NEW e \in Event, CommitEvent(j, e) PROVE TypeOK'
  BY <1>10 DEF CommitEvent, Close
<1>11. ASSUME NEW j \in Job, NEW e \in Event, AddOne(j, e) PROVE TypeOK'
  BY <1>11 DEF AddOne
<1>12. ASSUME NEW j \in Job, NEW e \in Event, DropEvent(j, e) PROVE TypeOK'
  BY <1>12 DEF DropEvent, Close
<1>13. ASSUME NEW j \in Job, NEW saved \in BOOLEAN, Fail(j, saved) PROVE TypeOK'
  <2>1. /\ phase' \in [Job -> Phase] /\ failed' \in [Job -> 0 .. Attempts]
        /\ only' \in [Job -> Singleton]
    <3>1. CASE failed[j] + 1 < Attempts
      BY <1>13, <3>1 DEF Fail
    <3>2. CASE ~(failed[j] + 1 < Attempts)
      BY <1>13, <3>2 DEF Fail, Remove
    <3> QED
      BY <3>1, <3>2
  <2>2. lastRun' \in 0 .. MaxDay /\ excused' \in SUBSET Event /\ faults' \in 0 .. MaxFault
    BY <1>13 DEF Fail
  <2>3. /\ since' \in [Job -> 0 .. MaxDay] /\ fetchedOn' \in [Job -> 0 .. MaxDay]
        /\ list' \in [Job -> SUBSET Event] /\ open' \in [Job -> Singleton]
        /\ seen' \in [Job -> 0 .. MaxVersion]
    BY <1>13 DEF Fail, Reset
  <2>4. UNCHANGED <<world, synced, asked, handMade>>
    BY <1>13 DEF Fail
  <2> QED
    BY <2>1, <2>2, <2>3, <2>4
<1>14. CASE Crash
  BY <1>14 DEF Crash
<1>15. CASE UNCHANGED vars
  BY <1>15 DEF vars
<1> QED
  BY <1>1, <1>2, <1>3, <1>4, <1>5, <1>6, <1>7, <1>8, <1>9, <1>10, <1>11, <1>12,
     <1>13, <1>14, <1>15 DEF Next, Queueing, RunStep
----------------------------------------------------------------------------
(* The three conjuncts about days and runs are invariant on their own. *)
Frame == PastDays /\ SinceIsOld /\ ReadAfterFetch

(* A run that leaves, for good or for a while, takes nothing of it away.   *)
LEMMA LeaveFrame ==
  ASSUME TypeOK, Frame, NEW j \in Job, UNCHANGED world, lastRun' \in {lastRun, day},
         phase'[j] # "started", open'[j] = {}, fetchedOn'[j] = 0,
         \A k \in Job \ {j} : /\ phase'[k] = phase[k] /\ since'[k] = since[k]
                              /\ fetchedOn'[k] = fetchedOn[k]
                              /\ open'[k] = open[k] /\ seen'[k] = seen[k]
  PROVE  Frame'
<1> USE ScheduledConstants DEF TypeOK, Frame, world
<1>1. lastRun' <= day /\ lastRun <= lastRun' /\ 0 <= day
  BY DEF PastDays
<1>2. PastDays'
  BY <1>1 DEF PastDays
<1>3. ASSUME NEW k \in Job, phase'[k] = "started" PROVE since'[k] <= lastRun'
  <2>1. k # j /\ since'[k] = since[k] /\ since[k] <= lastRun
    BY <1>3 DEF SinceIsOld
  <2>2. since[k] \in Nat /\ lastRun \in Nat /\ lastRun' \in Nat
    OBVIOUS
  <2> QED
    BY <1>1, <2>1, <2>2
<1>4. ASSUME NEW k \in Job, NEW e \in Event, open'[k] = {e}
      PROVE  /\ phase'[k] = "working" /\ seen'[k] <= site'[e]
             /\ seen'[k] # site'[e] => changedOn'[e] >= fetchedOn'[k]
  <2>1. k # j
    BY <1>4
  <2> QED
    BY <1>4, <2>1 DEF ReadAfterFetch
<1> QED
  BY <1>2, <1>3, <1>4 DEF SinceIsOld, ReadAfterFetch

LEMMA FrameStep == TypeOK /\ Frame /\ [Next]_vars => Frame'
<1> SUFFICES ASSUME TypeOK, Frame, [Next]_vars PROVE Frame'
  OBVIOUS
<1> USE DEF Frame, PastDays, SinceIsOld, ReadAfterFetch, TypeOK, Phase, Active, Singleton,
        queue, world, run
<1>0. /\ \A e \in Event : {e} # {}
      /\ \A e, f \in Event : {e} = {f} => e = f
      /\ TypeOK'
  BY TypeStep
<1>1. CASE Tick
  BY <1>1 DEF Tick
<1>2. ASSUME NEW a \in Api, Ask(a) PROVE Frame'
  BY <1>2 DEF Ask
<1>3. ASSUME NEW a \in Api, NEW j \in Job, Add(a, j) PROVE Frame'
  BY <1>3 DEF Add
<1>4. ASSUME NEW e \in Event, Change(e) PROVE Frame'
  BY <1>4 DEF Change
<1>5. ASSUME NEW j \in Job, Promote(j) PROVE Frame'
  BY <1>5 DEF Promote
<1>6. ASSUME NEW j \in Job, Start(j) PROVE Frame'
  BY <1>6 DEF Start
<1>7. ASSUME NEW j \in Job, Fetch(j) PROVE Frame'
  BY <1>7 DEF Fetch, ChangedSince
<1>8. ASSUME NEW j \in Job, End(j) PROVE Frame'
  BY <1>0, <1>8, LeaveFrame DEF End, Remove, Reset
<1>9. ASSUME NEW j \in Job, NEW e \in Event, Read(j, e) PROVE Frame'
  <2>1. PastDays' /\ SinceIsOld'
    BY <1>9 DEF Read
  <2>2. ReadAfterFetch'
    BY <1>0, <1>9 DEF Read
  <2> QED
    BY <2>1, <2>2
<1>10. ASSUME NEW j \in Job, NEW e \in Event, CommitEvent(j, e) PROVE Frame'
  BY <1>10 DEF CommitEvent, Close
<1>11. ASSUME NEW j \in Job, NEW e \in Event, AddOne(j, e) PROVE Frame'
  BY <1>11 DEF AddOne
<1>12. ASSUME NEW j \in Job, NEW e \in Event, DropEvent(j, e) PROVE Frame'
  BY <1>12 DEF DropEvent, Close
<1>13. ASSUME NEW j \in Job, NEW saved \in BOOLEAN, Fail(j, saved) PROVE Frame'
  <2>1. /\ UNCHANGED world /\ lastRun' \in {lastRun, day}
        /\ phase'[j] # "started" /\ open'[j] = {} /\ fetchedOn'[j] = 0
        /\ \A k \in Job \ {j} : /\ phase'[k] = phase[k] /\ since'[k] = since[k]
                                 /\ fetchedOn'[k] = fetchedOn[k]
                                 /\ open'[k] = open[k] /\ seen'[k] = seen[k]
    BY <1>13 DEF Fail, Remove, Reset
  <2> QED
    BY <2>1, LeaveFrame
<1>14. CASE Crash
  BY <1>14 DEF Crash
<1>15. CASE UNCHANGED vars
  BY <1>15 DEF vars
<1> QED
  BY <1>1, <1>2, <1>3, <1>4, <1>5, <1>6, <1>7, <1>8, <1>9, <1>10, <1>11, <1>12,
     <1>13, <1>14, <1>15 DEF Next, Queueing, RunStep

LEMMA InvStep == IInv /\ [Next]_vars => IInv'
<1> SUFFICES ASSUME IInv, [Next]_vars PROVE (StillListed /\ StillCovered)'
  BY TypeStep, FrameStep DEF IInv, Frame
<1> DEFINE Goal == (StillListed /\ StillCovered)'
<1>0. TypeOK /\ Frame /\ StillListed /\ StillCovered /\ TypeOK' /\ Frame'
  BY TypeStep, FrameStep DEF IInv, Frame
<1> USE <1>0 DEF StillListed, StillCovered, Stale, TypeOK, Frame, PastDays,
        queue, world, run
<1>1. CASE Tick
  BY <1>1 DEF Tick
<1>2. ASSUME NEW a \in Api, Ask(a) PROVE Goal
  BY <1>2 DEF Ask
<1>3. ASSUME NEW a \in Api, NEW j \in Job, Add(a, j) PROVE Goal
  BY <1>3 DEF Add
<1>4. ASSUME NEW e \in Event, Change(e) PROVE Goal
  BY <1>4 DEF Change
<1>5. ASSUME NEW j \in Job, Promote(j) PROVE Goal
  BY <1>5 DEF Promote
<1>6. ASSUME NEW j \in Job, Start(j) PROVE Goal
  BY <1>6 DEF Start
<1>7. ASSUME NEW j \in Job, Fetch(j) PROVE Goal
  BY <1>7 DEF Fetch, ChangedSince, SinceIsOld
<1>8. ASSUME NEW j \in Job, End(j) PROVE Goal
  <2>1. StillListed'
    BY <1>8 DEF End, Remove, Reset
  <2>2. ASSUME NEW e \in Event, Stale(e)', e \notin excused' PROVE changedOn'[e] >= lastRun'
    <3>1. /\ Stale(e) /\ e \notin excused /\ lastRun' = day /\ changedOn' = changedOn
          /\ changedOn[e] < day => only[j] = {} /\ ~(changedOn[e] >= fetchedOn[j])
          /\ phase[j] = "working" /\ list[j] = {}
      BY <1>8, <2>2 DEF End
    <3>2. ~(changedOn[e] < day)
      BY <3>1
    <3> QED
      BY <3>1, <3>2
  <2> QED
    BY <2>1, <2>2
<1>9. ASSUME NEW j \in Job, NEW e \in Event, Read(j, e) PROVE Goal
  BY <1>9 DEF Read
<1>10. ASSUME NEW j \in Job, NEW e \in Event, CommitEvent(j, e) PROVE Goal
  <2>1. /\ UNCHANGED <<world, lastRun, phase, only, fetchedOn>>
        /\ open[j] = {e} /\ phase[j] = "working"
        /\ synced' = [synced EXCEPT ![e] = seen[j]]
        /\ list' = [list EXCEPT ![j] = @ \ {e}]
        /\ excused \subseteq excused'
    BY <1>10 DEF CommitEvent, Close
  (* If e is stale afterwards it changed today, or it is excused.          *)
  <2>2. Stale(e)' /\ e \notin excused' => changedOn[e] >= day \/ changedOn[e] >= fetchedOn[j]
    BY <2>1 DEF ReadAfterFetch
  <2>3. Stale(e)' /\ e \notin excused' => changedOn[e] >= day
    <3>1. Stale(e)' => seen[j] # site[e] /\ seen[j] <= site[e]
      BY <2>1 DEF ReadAfterFetch
    <3>2. Stale(e)' /\ e \notin excused' => fetchedOn[j] >= day
      BY <1>10, <3>1 DEF CommitEvent
    <3> QED
      BY <2>1, <2>2, <3>2
  <2>4. \A f \in Event : f # e => Stale(f)' = Stale(f)
    BY <2>1
  <2>5. ASSUME NEW k \in Job, NEW f \in Event, phase'[k] = "working", only'[k] = {},
               Stale(f)', f \notin excused', changedOn'[f] < fetchedOn'[k]
        PROVE  f \in list'[k]
    <3>1. f # e
      BY <2>1, <2>3, <2>5
    <3>2. f \in list[k]
      BY <2>1, <2>4, <2>5, <3>1
    <3> QED
      BY <2>1, <3>1, <3>2
  <2>6. ASSUME NEW f \in Event, Stale(f)', f \notin excused'
        PROVE  changedOn'[f] >= lastRun'
    <3>1. CASE f = e
      BY <2>1, <2>3, <2>6, <3>1
    <3>2. CASE f # e
      BY <2>1, <2>4, <2>6, <3>2
    <3> QED
      BY <3>1, <3>2
  <2> QED
    BY <2>5, <2>6
<1>11. ASSUME NEW j \in Job, NEW e \in Event, AddOne(j, e) PROVE Goal
  BY <1>11 DEF AddOne
<1>12. ASSUME NEW j \in Job, NEW e \in Event, DropEvent(j, e) PROVE Goal
  BY <1>12 DEF DropEvent, Close
<1>13. ASSUME NEW j \in Job, NEW saved \in BOOLEAN, Fail(j, saved) PROVE Goal
  <2>1. /\ UNCHANGED <<world, synced>> /\ excused \subseteq excused'
        /\ lastRun' = lastRun \/
             (lastRun' = day /\ \A e \in Event : Stale(e) /\ changedOn[e] < day => e \in excused')
        /\ phase'[j] # "working"
        /\ \A k \in Job \ {j} : /\ phase'[k] = phase[k] /\ only'[k] = only[k]
                                 /\ fetchedOn'[k] = fetchedOn[k] /\ list'[k] = list[k]
    BY <1>13 DEF Fail, Remove, Reset
  <2>2. StillListed'
    BY <2>1
  <2>3. StillCovered'
    BY <2>1
  <2> QED
    BY <2>2, <2>3
<1>14. CASE Crash
  BY <1>14 DEF Crash, Active
<1>15. CASE UNCHANGED vars
  BY <1>15 DEF vars
<1> QED
  BY <1>1, <1>2, <1>3, <1>4, <1>5, <1>6, <1>7, <1>8, <1>9, <1>10, <1>11, <1>12,
     <1>13, <1>14, <1>15 DEF Next, Queueing, RunStep

----------------------------------------------------------------------------
(* The queue, the rows and the runs of the event sync are always well      *)
(* typed.                                                                  *)
THEOREM TypeCorrect == Spec => []TypeOK
<1>1. Init => TypeOK
  BY InitInv DEF IInv
<1> QED
  BY <1>1, TypeStep, PTL DEF Spec

(* A tournament that differs from the database changed on the day of       *)
(* lastRun or later, so the next scheduled run of                          *)
(* sync-events.processor.ts asks for it - with the excuses of StillCovered *)
(* and for any number of jobs queued twice, retried and crashed.           *)
THEOREM StillCoveredAlways == Spec => []StillCovered
<1>1. IInv => StillCovered
  BY DEF IInv
<1> QED
  BY <1>1, InitInv, InvStep, PTL DEF Spec
=============================================================================
