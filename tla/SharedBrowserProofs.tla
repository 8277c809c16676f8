------------------------ MODULE SharedBrowserProofs ------------------------
(***************************************************************************)
(* Proofs about SharedBrowser, for every number of jobs and every bound:   *)
(* the count of requests covers the calls that hold the browser, hence     *)
(* the monitor closes it under no job.  In the second part, about          *)
(* Orchestrator: it suspends the worker only after the wait time.          *)
(***************************************************************************)
EXTENDS SharedBrowser, FiniteSetTheorems, TLAPS

(* The count alone says that nobody holds the browser: the invariant the   *)
(* monitor relies on.                                                      *)
IInv == TypeOK /\ CountCoversHolders

(* Launch, as two actions use it. *)
LEMMA LaunchTypes ==
  ASSUME TypeOK, NEW j \in Job, Launch(j)
  PROVE  /\ promise' \in Browser \cup {None}
         /\ mine' \in [Job -> Browser \cup {None}]
         /\ chrome' \in [Browser -> {"gone", "launching", "failed", "live", "closing"}]
         /\ pc' = [pc EXCEPT ![j] = "launch"]
  BY DEF TypeOK, Launch, Free, Goto

(* A closing browser is written into a typed chrome. *)
LEMMA BeginCloseTypes ==
  ASSUME TypeOK, NEW b, BeginClose(b)
  PROVE  chrome' \in [Browser -> {"gone", "launching", "failed", "live", "closing"}]
  BY DEF TypeOK, BeginClose

(* A call that throws leaves the jobs well typed. *)
LEMMA ThrowsTypes ==
  ASSUME TypeOK, NEW j \in Job, Throws(j)
  PROVE  /\ mine' \in [Job -> Browser \cup {None}]
         /\ tries' \in [Job -> Nat]
         /\ pc' \in {[pc EXCEPT ![j] = "idle"], [pc EXCEPT ![j] = "recover"]}
         /\ \A i \in Job : pc'[i] \in {pc[i], "idle", "recover"}
  BY DEF TypeOK, Throws, Goto

(* Every action keeps the state well typed. *)
LEMMA TypeStep == TypeOK /\ [Next]_vars => TypeOK'
<1> SUFFICES ASSUME TypeOK, [Next]_vars PROVE TypeOK'
  OBVIOUS
<1> USE Bounds DEF TypeOK
<1>1. ASSUME NEW j \in Job, Start(j) PROVE TypeOK'
  BY <1>1 DEF Start, Goto, module, keepers, bounds
<1>2. ASSUME NEW j \in Job, GetBrowser(j) PROVE TypeOK'
  <2>0. inactive' = FALSE /\ count' = count + 1
    BY <1>2, Zenon DEF GetBrowser
  <2>1. inactive' \in BOOLEAN /\ count' \in Nat
    <3>1. count' \in Nat
      BY <2>0
    <3> QED
      BY <2>0, <3>1, Zenon
  <2>2. UNCHANGED <<tries, keeper, target, seenOld, seenInactive, faults, aged, rounds>>
    BY <1>2 DEF GetBrowser, keepers, bounds
  <2>3. CASE shared # None /\ age = "old" /\ Goto(j, "ageClose")
               /\ mine' = [mine EXCEPT ![j] = shared]
               /\ BeginClose(shared) /\ UNCHANGED module
    <3>1. UNCHANGED <<shared, promise, age>>
      BY <2>3 DEF module
    <3> QED
      BY <2>1, <2>2, <2>3, <3>1, BeginCloseTypes DEF Goto
  <2>4. CASE shared # None /\ age # "old" /\ Goto(j, "pages")
               /\ mine' = [mine EXCEPT ![j] = shared]
               /\ UNCHANGED <<module, chrome>>
    BY <2>1, <2>2, <2>4 DEF Goto, module
  <2>5. CASE shared = None /\ promise # None /\ Goto(j, "wait")
               /\ mine' = [mine EXCEPT ![j] = promise]
               /\ UNCHANGED <<module, chrome>>
    BY <2>1, <2>2, <2>5 DEF Goto, module
  <2>6. CASE shared = None /\ promise = None /\ Launch(j) /\ UNCHANGED <<shared, age>>
    BY <2>1, <2>2, <2>6, LaunchTypes
  <2> QED
    BY <1>2, <2>3, <2>4, <2>5, <2>6 DEF GetBrowser
<1>3. ASSUME NEW j \in Job, AgeClosed(j) PROVE TypeOK'
  BY <1>3, LaunchTypes DEF AgeClosed, keepers, bounds
<1>4. ASSUME NEW j \in Job, AgeCloseThrows(j) PROVE TypeOK'
  BY <1>4, ThrowsTypes DEF AgeCloseThrows, Fault, module, keepers
<1>5. ASSUME NEW j \in Job, Launched(j) PROVE TypeOK'
  BY <1>5 DEF Launched, Goto, keepers, bounds
<1>6. ASSUME NEW j \in Job, LaunchFails(j) PROVE TypeOK'
  <2>1. faults' \in 0 .. MaxFault /\ aged' = aged /\ rounds' = rounds
    BY <1>6 DEF LaunchFails, Fault
  <2>2. /\ shared' \in Browser \cup {None} /\ promise' \in Browser \cup {None}
        /\ age' \in {"zero", "young", "old"}
    BY <1>6 DEF LaunchFails, ResetBrowserState, module
  <2>3. count' \in Nat
    BY <1>6 DEF LaunchFails, Decrement
  <2> QED
    BY <1>6, <2>1, <2>2, <2>3, ThrowsTypes DEF LaunchFails, keepers
<1>7. ASSUME NEW j \in Job, Waited(j) PROVE TypeOK'
  <2>1. CASE chrome[mine[j]] = "failed"
    BY <1>7, <2>1, ThrowsTypes DEF Waited, Decrement, module, keepers, bounds
  <2>2. CASE chrome[mine[j]] # "failed"
    BY <1>7, <2>2 DEF Waited, Goto, module, keepers, bounds
  <2> QED
    BY <2>1, <2>2
<1>8. ASSUME NEW j \in Job, CheckPages(j) PROVE TypeOK'
  <2>1. faults' \in 0 .. MaxFault /\ aged' = aged /\ rounds' = rounds
    BY <1>8 DEF CheckPages, Answers, Refuses, Fault, bounds
  <2>2. pc' \in {[pc EXCEPT ![j] = "newPage"], [pc EXCEPT ![j] = "forceClose"],
                [pc EXCEPT ![j] = "tooMany"]}
    BY <1>8 DEF CheckPages, Goto
  <2>3. UNCHANGED chrome \/ BeginClose(mine[j])
    BY <1>8 DEF CheckPages
  <2> QED
    BY <1>8, <2>1, <2>2, <2>3, BeginCloseTypes DEF CheckPages, module, keepers
<1>9. ASSUME NEW j \in Job, NewPage(j) PROVE TypeOK'
  <2>1. faults' \in 0 .. MaxFault /\ aged' = aged /\ rounds' = rounds
    BY <1>9 DEF NewPage, Answers, Refuses, Fault, bounds
  <2>2. UNCHANGED chrome \/ BeginClose(mine[j])
    BY <1>9 DEF NewPage
  <2> QED
    BY <1>9, <2>1, <2>2, BeginCloseTypes DEF NewPage, Goto, module, keepers
<1>10. ASSUME NEW j \in Job, ForceClosed(j) PROVE TypeOK'
  BY <1>10 DEF ForceClosed, Closed, Fault, ResetBrowserState, Goto, keepers, bounds
<1>18. ASSUME NEW j \in Job, TooManyClosed(j) \/ Recover(j) PROVE TypeOK'
  BY <1>18 DEF TooManyClosed, Recover, ResetBrowserState, Goto, keepers, bounds
<1>19. ASSUME NEW j \in Job, TooManyThrows(j) PROVE TypeOK'
  BY <1>19 DEF TooManyThrows, Fault, Goto, module, keepers
<1>11. ASSUME NEW j \in Job, ClosePage(j) PROVE TypeOK'
  BY <1>11 DEF ClosePage, Decrement, Goto, module, keepers, bounds
<1>12. ASSUME NEW b \in Browser, Gone(b) \/ Crash(b) PROVE TypeOK'
  BY <1>12 DEF Gone, Crash, Fault, ResetBrowserState, jobs, keepers, bounds
<1>13. ASSUME GrowOld \/ GrowInactive PROVE TypeOK'
  <2>1. CASE GrowOld
    BY <2>1 DEF GrowOld, jobs, keepers
  <2>2. CASE GrowInactive
    BY <2>2 DEF GrowInactive, module, jobs, keepers, bounds
  <2> QED
    BY <1>13, <2>1, <2>2
<1>14. ASSUME MonitorAsks \/ IdleAsks PROVE TypeOK'
  <2>1. seenOld' \in BOOLEAN /\ seenInactive' \in BOOLEAN
    BY <1>14 DEF MonitorAsks, IdleAsks
  <2>2. \E k \in Keeper, b \in Browser \cup {None} : Ask(k, b)
    BY <1>14 DEF MonitorAsks, IdleAsks, Keeper
  <2>3. PICK k \in Keeper, b \in Browser \cup {None} : Ask(k, b)
    BY <2>2
  <2>4. rounds' \in 0 .. MaxRestart
    BY <2>3 DEF Ask
  <2> QED
    BY <2>1, <2>3, <2>4 DEF Ask, module, jobs
<1>15. ASSUME MonitorDecides \/ IdleDecides PROVE TypeOK'
  <2>1. \E k \in Keeper : RestartBrowser(k) \/ Skip(k)
    BY <1>15 DEF MonitorDecides, IdleDecides, GracefulRestart, Keeper
  <2>2. /\ keeper' \in [Keeper -> {"idle", "asks", "closing"}]
        /\ target' \in [Keeper -> Browser \cup {None}]
        /\ chrome' \in [Browser -> {"gone", "launching", "failed", "live", "closing"}]
    BY <2>1, BeginCloseTypes DEF RestartBrowser, Skip
  <2>3. faults' \in 0 .. MaxFault /\ aged' = aged /\ rounds' = rounds
    BY <1>15 DEF MonitorDecides, IdleDecides, Answers, Refuses, Fault, bounds
  <2> QED
    BY <1>15, <2>2, <2>3 DEF MonitorDecides, IdleDecides, module, jobs
<1>16. ASSUME NEW k \in Keeper, KeeperClosed(k) PROVE TypeOK'
  BY <1>16 DEF KeeperClosed, Closed, Fault, ResetBrowserState, Skip, jobs, bounds
<1>17. CASE UNCHANGED vars
  BY <1>17 DEF vars, module, jobs, keepers, bounds
<1> QED
  BY <1>1, <1>2, <1>3, <1>4, <1>5, <1>6, <1>7, <1>8, <1>9, <1>10, <1>11, <1>12,
     <1>13, <1>14, <1>15, <1>16, <1>17, <1>18, <1>19 DEF Next, GetPage

(* The holders of the next state, when one job takes a step of getPage. *)
LEMMA HoldersStep ==
  ASSUME TypeOK, NEW j \in Job, NEW s, pc' = [pc EXCEPT ![j] = s]
  PROVE  Holders' = IF s \in {"idle", "call", "recover"} THEN Holders \ {j} ELSE Holders \cup {j}
  BY DEF TypeOK, Holders

LEMMA HoldersFinite == IsFiniteSet(Holders) /\ Cardinality(Holders) \in Nat
  BY FiniteJobs, FS_Subset, FS_CardinalityType DEF Holders

(* A job that was counted may go on holding the browser. *)
LEMMA KeepsHolding ==
  ASSUME IInv, NEW j \in Job, pc[j] \notin {"idle", "call", "recover"}, NEW s,
         pc' = [pc EXCEPT ![j] = s], count' = count
  PROVE  CountCoversHolders'
<1>1. j \in Holders
  BY DEF Holders
<1>2. Holders' = Holders \/ Holders' = Holders \ {j}
  <2>1. Holders \cup {j} = Holders
    BY <1>1
  <2>2. Holders' = IF s \in {"idle", "call", "recover"} THEN Holders \ {j} ELSE Holders \cup {j}
    BY HoldersStep DEF IInv
  <2> QED
    BY <2>1, <2>2
<1>3. Cardinality(Holders \ {j}) = Cardinality(Holders) - 1
  BY <1>1, HoldersFinite, FS_RemoveElement
<1> QED
  BY <1>2, <1>3, HoldersFinite DEF IInv, CountCoversHolders, TypeOK

(* A call that is over is counted down, and held the browser before. *)
LEMMA LetsGo ==
  ASSUME IInv, NEW j \in Job, pc[j] \notin {"idle", "call", "recover"},
         NEW s \in {"idle", "recover"}, pc' = [pc EXCEPT ![j] = s], Decrement
  PROVE  CountCoversHolders'
<1>1. j \in Holders
  BY DEF Holders
<1>2. Holders' = Holders \ {j}
  BY HoldersStep DEF IInv
<1>3. Cardinality(Holders') = Cardinality(Holders) - 1
  BY <1>1, <1>2, HoldersFinite, FS_RemoveElement
<1>4. count' = IF count > 0 THEN count - 1 ELSE 0
  BY DEF Decrement
<1>5. Cardinality(Holders') \in Nat
  BY <1>2, HoldersFinite, FS_RemoveElement, FS_CardinalityType
<1> QED
  BY <1>3, <1>4, <1>5, HoldersFinite DEF IInv, CountCoversHolders, TypeOK

(* Every action keeps the holders covered. *)
LEMMA CountStep == IInv /\ [Next]_vars => CountCoversHolders'
<1> SUFFICES ASSUME IInv, [Next]_vars PROVE CountCoversHolders'
  OBVIOUS
<1>1. ASSUME NEW j \in Job, Start(j) PROVE CountCoversHolders'
  <2>1. pc' = [pc EXCEPT ![j] = "call"] /\ count' = count /\ pc[j] = "idle"
    BY <1>1 DEF Start, Goto
  <2>2. Holders' = Holders \ {j} /\ j \notin Holders
    BY <2>1, HoldersStep DEF IInv, Holders
  <2>3. Holders' = Holders
    BY <2>2
  <2> QED
    BY <2>1, <2>3 DEF IInv, CountCoversHolders
<1>2. ASSUME NEW j \in Job, GetBrowser(j) PROVE CountCoversHolders'
  <2>1. count' = count + 1 /\ pc[j] = "call"
    BY <1>2, Zenon DEF GetBrowser
  <2>2. PICK s \in {"ageClose", "pages", "wait", "launch"} :
          pc' = [pc EXCEPT ![j] = s]
    BY <1>2 DEF GetBrowser, Launch, Goto
  <2>3. Holders' = Holders \cup {j} /\ j \notin Holders
    BY <2>1, <2>2, HoldersStep DEF IInv, Holders
  <2>4. Cardinality(Holders') = Cardinality(Holders) + 1
    BY <2>3, HoldersFinite, FS_AddElement
  <2> QED
    BY <2>1, <2>4, HoldersFinite DEF IInv, CountCoversHolders, TypeOK
<1>3. ASSUME NEW j \in Job,
             \/ AgeClosed(j) \/ AgeCloseThrows(j) \/ Launched(j) \/ CheckPages(j)
             \/ NewPage(j) \/ ForceClosed(j) \/ TooManyClosed(j) \/ TooManyThrows(j)
      PROVE  CountCoversHolders'
  <2>1. pc[j] \notin {"idle", "call", "recover"} /\ count' = count
    BY <1>3 DEF AgeClosed, AgeCloseThrows, Launched, CheckPages, NewPage, ForceClosed,
              TooManyClosed, TooManyThrows
  <2>2. \E s : pc' = [pc EXCEPT ![j] = s]
    BY <1>3, Zenon DEF AgeClosed, AgeCloseThrows, Launched, CheckPages, NewPage,
                       ForceClosed, TooManyClosed, TooManyThrows, Launch, Goto,
                       Throws
  <2> QED
    BY <2>1, <2>2, KeepsHolding
<1>4. ASSUME NEW j \in Job, LaunchFails(j) \/ ClosePage(j) PROVE CountCoversHolders'
  <2>1. pc[j] \notin {"idle", "call", "recover"} /\ Decrement
    BY <1>4 DEF LaunchFails, ClosePage
  <2>2. PICK s \in {"idle", "recover"} : pc' = [pc EXCEPT ![j] = s]
    BY <1>4 DEF LaunchFails, ClosePage, Throws, Goto
  <2> QED
    BY <2>1, <2>2, LetsGo
<1>5. ASSUME NEW j \in Job, Waited(j) PROVE CountCoversHolders'
  <2>1. pc[j] \notin {"idle", "call", "recover"}
    BY <1>5 DEF Waited
  <2>2. CASE chrome[mine[j]] = "failed"
    <3>1. PICK s \in {"idle", "recover"} : pc' = [pc EXCEPT ![j] = s]
      BY <1>5, <2>2 DEF Waited, Throws, Goto
    <3> QED
      BY <1>5, <2>1, <2>2, <3>1, LetsGo DEF Waited
  <2>3. CASE chrome[mine[j]] # "failed"
    BY <1>5, <2>1, <2>3, KeepsHolding DEF Waited, Goto
  <2> QED
    BY <2>2, <2>3
<1>10. ASSUME NEW j \in Job, Recover(j) PROVE CountCoversHolders'
  <2>1. pc[j] = "recover" /\ pc' = [pc EXCEPT ![j] = "call"] /\ count' = count
    BY <1>10 DEF Recover, Goto
  <2>2. Holders' = Holders \ {j} /\ j \notin Holders
    BY <2>1, HoldersStep DEF IInv, Holders
  <2>3. Holders' = Holders
    BY <2>2
  <2> QED
    BY <2>1, <2>3 DEF IInv, CountCoversHolders
<1>6. ASSUME UNCHANGED <<pc, count>> PROVE CountCoversHolders'
  BY <1>6 DEF IInv, CountCoversHolders, Holders
<1>7. ASSUME NEW b \in Browser, Gone(b) \/ Crash(b) PROVE UNCHANGED <<pc, count>>
  BY <1>7 DEF Gone, Crash, jobs
<1>8. ASSUME \/ GrowOld \/ GrowInactive \/ MonitorAsks \/ MonitorDecides
             \/ IdleAsks \/ IdleDecides \/ \E k \in Keeper : KeeperClosed(k)
      PROVE  UNCHANGED <<pc, count>>
  BY <1>8 DEF GrowOld, GrowInactive, MonitorAsks, MonitorDecides, IdleAsks,
              IdleDecides, KeeperClosed, Ask, jobs
<1>9. CASE UNCHANGED vars
  BY <1>6, <1>9 DEF vars, jobs
<1> QED
  BY <1>1, <1>2, <1>3, <1>4, <1>5, <1>6, <1>7, <1>8, <1>9, <1>10 DEF Next, GetPage

LEMMA Invariance == Spec => []IInv
<1>1. Init => IInv
  <2> SUFFICES ASSUME Init PROVE IInv
    OBVIOUS
  <2>1. TypeOK
    <3>1. inactive \in BOOLEAN /\ seenOld \in BOOLEAN /\ seenInactive \in BOOLEAN
      BY DEF Init
    <3>2. /\ chrome \in [Browser -> {"gone"}] /\ pc \in [Job -> {"idle"}]
          /\ mine \in [Job -> {None}] /\ tries \in [Job -> {0}] /\ keeper \in [Keeper -> {"idle"}]
          /\ target \in [Keeper -> {None}]
      BY DEF Init
    <3>3. /\ faults \in 0 .. MaxFault /\ aged \in 0 .. MaxAged
          /\ rounds \in 0 .. MaxRestart /\ count \in Nat
      BY Bounds DEF Init
    <3> QED
      BY <3>1, <3>2, <3>3 DEF Init, TypeOK
  <2>2. Holders = {}
    BY DEF Init, Holders
  <2> QED
    BY <2>1, <2>2, FS_EmptySet DEF Init, IInv, CountCoversHolders
<1>2. IInv /\ [Next]_vars => IInv'
  BY TypeStep, CountStep DEF IInv
<1> QED
  BY <1>1, <1>2, PTL DEF Spec

(* TypeOK: the state of the browser module is well typed. *)
THEOREM TypeCorrect == Spec => []TypeOK
<1>1. IInv => TypeOK
  BY DEF IInv
<1> QED
  BY <1>1, Invariance, PTL

(* CountCoversHolders: activeRequestCount is never less than the calls of  *)
(* getBrowser that hold the browser, for any number of jobs, failures and  *)
(* restarts.                                                               *)
THEOREM CountCovers == Spec => []CountCoversHolders
<1>1. IInv => CountCoversHolders
  BY DEF IInv
<1> QED
  BY <1>1, Invariance, PTL

(* MonitorWaitsForJobs: gracefulRestart begins to close the browser only   *)
(* when no job is between its getBrowser and the closing of its page.      *)
THEOREM MonitorIsGraceful == Spec => MonitorWaitsForJobs
<1> DEFINE Closes == keeper["monitor"] = "asks" /\ keeper'["monitor"] = "closing"
<1>1. IInv /\ [Next]_vars => [Closes => Holders = {}]_vars
  <2> SUFFICES ASSUME IInv, Next, Closes PROVE Holders = {}
    BY DEF vars
  <2> USE DEF IInv, TypeOK, Keeper
  <2>1. MonitorDecides
    <3>1. ~ MonitorAsks /\ ~ IdleAsks
      BY DEF MonitorAsks, IdleAsks, Ask
    <3>2. ~ IdleDecides
      BY DEF IdleDecides, RestartBrowser
    <3>3. ~ \E k \in Keeper : KeeperClosed(k)
      BY DEF KeeperClosed, Skip
    <3>4. ~ UNCHANGED keeper
      BY DEF Closes
    <3>5. ~ \E j \in Job : Start(j) \/ GetPage(j) \/ ClosePage(j)
      BY <3>4, Zenon DEF Start, GetPage, GetBrowser, AgeClosed, AgeCloseThrows, Launched,
                  LaunchFails, Waited, CheckPages, TooManyClosed, TooManyThrows, Recover,
                  NewPage, ForceClosed, ClosePage, keepers
    <3>6. ~ \E b \in Browser : Gone(b) \/ Crash(b)
      BY <3>4, Zenon DEF Gone, Crash, keepers
    <3>7. ~ GrowOld /\ ~ GrowInactive
      BY <3>4, Zenon DEF GrowOld, GrowInactive, keepers
    <3> QED
      BY <3>1, <3>2, <3>3, <3>5, <3>6, <3>7, Zenon DEF Next
  <2>2. GracefulRestart
    <3>1. ~ Skip("monitor")
      BY DEF Skip, Closes
    <3> QED
      BY <2>1, <3>1 DEF MonitorDecides
  <2>3. count = 0
    BY <2>2 DEF GracefulRestart, Skip, Closes
  <2>4. Cardinality(Holders) = 0
    BY <2>3, HoldersFinite DEF CountCoversHolders
  <2> QED
    BY <2>4, HoldersFinite, FS_EmptySet
<1> QED
  BY <1>1, Invariance, PTL DEF Spec, MonitorWaitsForJobs

-----------------------------------------------------------------------------
(* The orchestrator that starts and stops the worker this browser runs in  *)
(* has its proofs here too: for every wait time and every bound its state  *)
(* is well typed, and when no two executions of the minute's check overlap *)
(* the worker is suspended only after the wait time.                       *)

CONSTANTS Tick, WaitTime, Backoff, MaxJobs, MaxRenderFault, MaxApiRestart, JobsFail,
          HasRenderId

VARIABLES hasStarted, idle, booting, step, renderId, suspended, up, waiting, active,
          delayed, orphans, due, quiet, renderFaults, restarts

Orch == INSTANCE Orchestrator
  WITH MaxFault <- MaxRenderFault, MaxRestart <- MaxApiRestart, faults <- renderFaults

(* What the module assumes of its constants. *)
RenderConstants ==
  /\ WaitTime \in Nat /\ Backoff \in Nat
  /\ MaxJobs \in Nat /\ MaxRenderFault \in Nat /\ MaxApiRestart \in Nat
  /\ JobsFail \in BOOLEAN /\ HasRenderId \in BOOLEAN

(* The five counts of the queue stay within its jobs: what the type of each *)
(* count alone does not keep.                                              *)
RenderInv ==
  /\ RenderConstants
  /\ Orch!TypeOK
  /\ Orch!Jobs <= MaxJobs

(* The flags and the numbers of TypeOK, which are proved apart. *)
Flags ==
  /\ hasStarted \in BOOLEAN /\ booting \in BOOLEAN /\ renderId \in BOOLEAN
  /\ suspended \in BOOLEAN /\ up \in BOOLEAN

Numbers ==
  /\ RenderConstants
  /\ idle \in 0 .. WaitTime /\ quiet \in 0 .. WaitTime
  /\ step \in [Tick -> Orch!Step]
  /\ waiting \in 0 .. MaxJobs /\ active \in 0 .. MaxJobs
  /\ delayed \in 0 .. MaxJobs /\ orphans \in 0 .. MaxJobs
  /\ due \in 0 .. Backoff
  /\ renderFaults \in 0 .. MaxRenderFault
  /\ restarts \in 0 .. MaxApiRestart
  /\ Orch!Jobs <= MaxJobs

LEMMA RenderParts == RenderInv <=> Flags /\ Numbers
  BY DEF RenderInv, Orch!TypeOK, Flags, Numbers

LEMMA FlagsStep == Flags /\ [Orch!Next]_(Orch!vars) => Flags'
<1> SUFFICES ASSUME Flags, [Orch!Next]_(Orch!vars) PROVE Flags'
  OBVIOUS
<1> USE DEF Flags
<1>1. CASE Orch!UpdateStatuses \/ Orch!RestartApi \/ Orch!SetRenderId
  BY <1>1, Zenon DEF Orch!UpdateStatuses, Orch!RestartApi, Orch!SetRenderId,
       Orch!api, Orch!render
<1>2. ASSUME NEW t \in Tick, Orch!Minute(t) \/ Orch!Check(t) \/ Orch!Resume(t)
                             \/ Orch!Suspend(t)
      PROVE  Flags'
  BY <1>2, Zenon DEF Orch!Minute, Orch!Check, Orch!Resume, Orch!Suspend, Orch!render
<1>3. ASSUME NEW t \in Tick, Orch!StartGet(t) \/ Orch!Started(t)
                             \/ Orch!StopGet(t) \/ Orch!Stopped(t)
      PROVE  Flags'
  BY <1>3, Zenon DEF Orch!StartGet, Orch!Started, Orch!StopGet, Orch!Stopped,
       Orch!render
<1>4. CASE Orch!Worker \/ Orch!AddJob \/ UNCHANGED Orch!vars
  BY <1>4, Zenon DEF Orch!Worker, Orch!Boot, Orch!Take, Orch!Complete,
       Orch!FailJob, Orch!Promote, Orch!Recover, Orch!AddJob, Orch!vars, Orch!api, Orch!render
<1> QED
  BY <1>1, <1>2, <1>3, <1>4 DEF Orch!Next, Orch!Execution

(* Jobs that change from active to orphaned remain as many. *)
LEMMA MovedJobs ==
  ASSUME NEW w \in Nat, NEW a \in Nat, NEW d \in Nat, NEW o \in Nat, NEW n \in Nat,
         NEW a2 \in Nat, NEW o2 \in Nat, w + a + d + o <= n, o2 + a2 = o + a
  PROVE  o2 \in 0 .. n /\ a2 \in 0 .. n /\ w + a2 + d + o2 <= n
  OBVIOUS

LEMMA NumbersStep == Numbers /\ [Orch!Next]_(Orch!vars) => Numbers'
<1> SUFFICES ASSUME Numbers, [Orch!Next]_(Orch!vars) PROVE Numbers'
  OBVIOUS
<1> USE DEF Numbers, RenderConstants, Orch!Jobs
<1>1. CASE Orch!UpdateStatuses
  <2>1. idle' \in 0 .. WaitTime
    BY <1>1 DEF Orch!UpdateStatuses
  <2> QED
    BY <1>1, <2>1 DEF Orch!UpdateStatuses, Orch!queue, Orch!bounds
<1>2. CASE Orch!RestartApi \/ Orch!SetRenderId
  BY <1>2 DEF Orch!RestartApi, Orch!SetRenderId, Orch!Step, Orch!api, Orch!queue,
       Orch!bounds
<1>3. ASSUME NEW t \in Tick, Orch!Minute(t) PROVE Numbers'
  <2>1. /\ idle' \in 0 .. WaitTime /\ quiet' \in 0 .. WaitTime
        /\ due' \in 0 .. Backoff
    BY <1>3 DEF Orch!Minute
  <2> QED
    BY <1>3, <2>1 DEF Orch!Minute, Orch!Goto, Orch!Step, Orch!bounds
<1>4. ASSUME NEW t \in Tick, Orch!Check(t) PROVE Numbers'
  <2>1. idle' \in 0 .. WaitTime /\ quiet' \in 0 .. WaitTime
    BY <1>4 DEF Orch!Check, Orch!Remember
  <2>2. \E s \in Orch!Step : Orch!Goto(t, s)
    BY <1>4 DEF Orch!Check, Orch!Step
  <2> QED
    BY <1>4, <2>1, <2>2 DEF Orch!Check, Orch!Goto, Orch!queue, Orch!bounds
<1>5. ASSUME NEW t \in Tick, Orch!StartGet(t) \/ Orch!StopGet(t) PROVE Numbers'
  <2>1. renderFaults' \in 0 .. MaxRenderFault
    BY <1>5 DEF Orch!StartGet, Orch!StopGet, Orch!Fault
  <2>2. \E s \in Orch!Step : Orch!Goto(t, s)
    BY <1>5 DEF Orch!StartGet, Orch!StopGet, Orch!Step
  <2> QED
    BY <1>5, <2>1, <2>2 DEF Orch!StartGet, Orch!StopGet, Orch!Goto, Orch!queue
<1>6. ASSUME NEW t \in Tick, Orch!Resume(t) PROVE Numbers'
  <2>1. renderFaults' \in 0 .. MaxRenderFault
    BY <1>6 DEF Orch!Resume, Orch!Fault
  <2> QED
    BY <1>6, <2>1 DEF Orch!Resume, Orch!Goto, Orch!Step, Orch!queue
<1>7. ASSUME NEW t \in Tick, Orch!Started(t) \/ Orch!Stopped(t) PROVE Numbers'
  BY <1>7 DEF Orch!Started, Orch!Stopped, Orch!Goto, Orch!Step, Orch!queue, Orch!bounds
<1>8. ASSUME NEW t \in Tick, Orch!Suspend(t) PROVE Numbers'
  <2>1. renderFaults' \in 0 .. MaxRenderFault
    BY <1>8 DEF Orch!Suspend, Orch!Fault
  <2>2. orphans' + active' = orphans + active /\ orphans' \in Nat /\ active' \in Nat
    BY <1>8 DEF Orch!Suspend
  <2>3. /\ idle' = idle /\ quiet' = quiet /\ waiting' = waiting /\ delayed' = delayed
        /\ due' = due /\ restarts' = restarts
    BY <1>8, Zenon DEF Orch!Suspend
  <2>4. step' \in [Tick -> Orch!Step]
    BY <1>8 DEF Orch!Suspend, Orch!Goto, Orch!Step
  <2>5. /\ waiting \in Nat /\ active \in Nat /\ delayed \in Nat /\ orphans \in Nat
        /\ waiting + active + delayed + orphans <= MaxJobs /\ MaxJobs \in Nat
    OBVIOUS
  <2>6. /\ orphans' \in 0 .. MaxJobs /\ active' \in 0 .. MaxJobs
        /\ waiting + active' + delayed + orphans' <= MaxJobs
    BY <2>2, <2>5, MovedJobs
  <2> QED
    BY <2>1, <2>3, <2>4, <2>6
<1>9. CASE Orch!Boot \/ Orch!Take \/ Orch!Complete
  BY <1>9 DEF Orch!Boot, Orch!Take, Orch!Complete, Orch!api, Orch!queue, Orch!bounds
<1>10. CASE Orch!FailJob \/ Orch!Promote \/ Orch!Recover
  BY <1>10 DEF Orch!FailJob, Orch!Promote, Orch!Recover, Orch!api, Orch!bounds
<1>11. CASE Orch!AddJob \/ UNCHANGED Orch!vars
  BY <1>11 DEF Orch!AddJob, Orch!vars, Orch!api, Orch!queue, Orch!bounds
<1> QED
  BY <1>1, <1>2, <1>3, <1>4, <1>5, <1>6, <1>7, <1>8, <1>9, <1>10, <1>11
     DEF Orch!Next, Orch!Execution, Orch!Worker

LEMMA RenderTyping ==
  ASSUME RenderConstants
  PROVE  Orch!Spec => []RenderInv
<1>1. Orch!Init => Flags
  BY Zenon DEF RenderConstants, Orch!Init, Flags
<1>2. Orch!Init => Numbers
  BY DEF RenderConstants, Orch!Init, Numbers, Orch!Jobs, Orch!Step
<1> QED
  BY <1>1, <1>2, FlagsStep, NumbersStep, RenderParts, PTL DEF Orch!Spec

(* TypeOK: the orchestrator's state is well typed, for any number of       *)
(* overlapping executions.                                                 *)
THEOREM RenderTypeCorrect ==
  ASSUME RenderConstants
  PROVE  Orch!Spec => []Orch!TypeOK
<1>1. RenderInv => Orch!TypeOK
  BY DEF RenderInv
<1> QED
  BY <1>1, RenderTyping, PTL

-----------------------------------------------------------------------------
(* An execution that is stopping the worker decided so after WaitTime, and *)
(* none runs before onModuleInit has ended; startTime is never older than  *)
(* the last check that ran with work in the queue.                         *)
Decided(t) == /\ step[t] \in {"stopGet", "suspend"} => idle >= WaitTime
              /\ booting => step[t] = "none"

Patient == idle <= quiet /\ \A t \in Tick : Decided(t)

LEMMA QuietStep ==
  RenderInv /\ idle <= quiet /\ [Orch!Next]_(Orch!vars) => idle' <= quiet'
<1> SUFFICES ASSUME RenderInv, idle <= quiet,
     [Orch!Next]_(Orch!vars) PROVE idle' <= quiet'
  OBVIOUS
<1>a. /\ idle \in Nat /\ quiet \in Nat /\ WaitTime \in Nat
      /\ idle <= WaitTime /\ quiet <= WaitTime
  BY DEF RenderInv, RenderConstants, Orch!TypeOK
<1>1. CASE Orch!UpdateStatuses \/ Orch!RestartApi
  BY <1>1, <1>a DEF Orch!UpdateStatuses, Orch!RestartApi
<1>2. ASSUME NEW t \in Tick, Orch!Minute(t) PROVE idle' <= quiet'
  BY <1>2, <1>a DEF Orch!Minute
<1>3. ASSUME NEW t \in Tick, Orch!Check(t) PROVE idle' <= quiet'
  BY <1>3, <1>a DEF Orch!Check, Orch!Remember, Orch!SeesWork, RenderInv, Orch!TypeOK
<1>4. CASE UNCHANGED <<idle, quiet>>
  BY <1>4
<1>5. ASSUME NEW t \in Tick, ~Orch!Minute(t), ~Orch!Check(t), Orch!Execution(t)
      PROVE  UNCHANGED <<idle, quiet>>
  BY <1>5, Zenon DEF Orch!Execution, Orch!StartGet, Orch!Resume, Orch!Started,
       Orch!StopGet, Orch!Suspend, Orch!Stopped
<1>6. CASE Orch!SetRenderId \/ Orch!AddJob \/ Orch!Worker \/ UNCHANGED Orch!vars
  BY <1>4, <1>6, Zenon DEF Orch!SetRenderId, Orch!AddJob, Orch!Worker, Orch!Boot,
       Orch!Take, Orch!Complete,
     Orch!FailJob, Orch!Promote, Orch!Recover, Orch!vars, Orch!api
<1> QED
  BY <1>1, <1>2, <1>3, <1>4, <1>5, <1>6 DEF Orch!Next

LEMMA DecidedStep ==
  ASSUME \A t, u \in Tick : t = u
  PROVE  RenderInv /\ Patient /\ [Orch!Next]_(Orch!vars) => Patient'
<1> SUFFICES ASSUME RenderInv, Patient, [Orch!Next]_(Orch!vars), NEW t \in Tick
             PROVE  Decided(t)'
  BY QuietStep DEF Patient
<1> USE DEF Decided
<1>a. step \in [Tick -> Orch!Step] /\ idle \in Nat /\ WaitTime \in Nat
  BY DEF RenderInv, RenderConstants, Orch!TypeOK
<1>b. /\ step[t] \in {"stopGet", "suspend"} => idle >= WaitTime
      /\ booting => step[t] = "none"
  BY DEF Patient
<1>1. CASE Orch!UpdateStatuses
  BY <1>1, <1>b, Zenon DEF Orch!UpdateStatuses
<1>2. CASE Orch!RestartApi
  BY <1>2 DEF Orch!RestartApi
<1>3. CASE Orch!Minute(t)
  BY <1>3, <1>a DEF Orch!Minute, Orch!Goto
<1>4. CASE Orch!Check(t)
  BY <1>4, <1>a, <1>b DEF Orch!Check, Orch!Goto
<1>5. CASE Orch!StartGet(t) \/ Orch!Resume(t) \/ Orch!Started(t)
  BY <1>5, <1>a, <1>b DEF Orch!StartGet, Orch!Resume, Orch!Started, Orch!Goto
<1>6. CASE Orch!StopGet(t) \/ Orch!Suspend(t) \/ Orch!Stopped(t)
  BY <1>6, <1>a, <1>b DEF Orch!StopGet, Orch!Suspend, Orch!Stopped, Orch!Goto
<1>7. CASE UNCHANGED <<step, idle, booting>>
  BY <1>7, <1>b
<1>8. CASE Orch!SetRenderId \/ Orch!AddJob \/ Orch!Worker \/ UNCHANGED Orch!vars
  BY <1>7, <1>8 DEF Orch!SetRenderId, Orch!AddJob, Orch!Worker, Orch!Boot,
       Orch!Take, Orch!Complete, Orch!FailJob, Orch!Promote, Orch!Recover, Orch!vars, Orch!api
<1> QED
  BY <1>1, <1>2, <1>3, <1>4, <1>5, <1>6, <1>8 DEF Orch!Next, Orch!Execution

(* SuspendsAfterWaitTime: when executions of the check do not overlap, the *)
(* worker is suspended only when WaitTime has passed since a check last    *)
(* ran with work in the queue.                                             *)
THEOREM PatientWhenSerial ==
  ASSUME RenderConstants, \A t, u \in Tick : t = u
  PROVE  Orch!Spec => Orch!SuspendsAfterWaitTime
<1>1. Orch!Init => Patient
  BY DEF Orch!Init, Patient, Decided
<1>2. RenderInv /\ Patient /\ [Orch!Next]_(Orch!vars)
      => [~suspended /\ suspended' => quiet >= WaitTime]_(Orch!vars)
  <2> SUFFICES ASSUME RenderInv, Patient, Orch!Next, ~suspended, suspended'
               PROVE  quiet >= WaitTime
    BY DEF Orch!vars
  <2>1. \E t \in Tick : Orch!Suspend(t)
    BY Zenon DEF Orch!Next, Orch!Execution, Orch!UpdateStatuses, Orch!RestartApi,
       Orch!SetRenderId, Orch!Minute, Orch!Check, Orch!StartGet, Orch!Resume,
       Orch!Started, Orch!StopGet, Orch!Stopped, Orch!Worker, Orch!Boot, Orch!Take,
       Orch!Complete, Orch!FailJob, Orch!Promote, Orch!Recover, Orch!AddJob, Orch!render
  <2>2. idle >= WaitTime
    BY <2>1 DEF Orch!Suspend, Patient, Decided
  <2> QED
    BY <2>2 DEF Patient, RenderInv, RenderConstants, Orch!TypeOK
<1> QED
  BY <1>1, <1>2, DecidedStep, RenderTyping, PTL DEF Orch!Spec,
       Orch!SuspendsAfterWaitTime
=============================================================================
