------------------------- MODULE EnterScoresProofs --------------------------
(***************************************************************************)
(* Proofs about EnterScores, for any sets of encounters and invocations    *)
(* and any bounds: the state keeps its type, one invocation at a time      *)
(* drives the page, an early foreign result is never overwritten, and      *)
(* Badman pushes a result at most once when the site answers in order.     *)
(*                                                                         *)
(* None of the last three is inductive alone.  What carries them is what   *)
(* an invocation may conclude from a form it loaded a while ago: as long   *)
(* as it holds the gate nobody else can send a save, so an empty form of   *)
(* an encounter still means that no save of it was stored or is on its way *)
(* (OnePush), and a foreign result that was there before the form was      *)
(* loaded is on the form (EarlySeen).                                      *)
(*                                                                         *)
(* Then, about SerialGate: the promise chain is the lock PushLock, which   *)
(* EnterScores has in place of it.                                         *)
(***************************************************************************)
EXTENDS EnterScores, TLAPS

(* One invocation between the gate and its release. *)
Excl == \A r, s \in Run : pc[r] \in Critical /\ pc[s] \in Critical => r = s

(* Only an empty form is filled. *)
FilledEmpty == \A r \in Run : pc[r] \in {"fill", "click"} => form[r] = "none"

EarlySeen ==
  \A e \in Enc : early[e] /\ site[e] = "other" =>
    /\ e \notin pending
    /\ \A r \in Run : pc[r] \in OnForm /\ enc[r] = e => form[r] # "none"

(* Nothing of the encounter was stored or is on its way. *)
Untouched(e) == pushes[e] = 0 /\ e \notin pending

OnePush ==
  \A e \in Enc :
    /\ pushes[e] \in {0, 1}
    /\ pushes[e] = 1 => site[e] # "none" /\ e \notin pending
    /\ \A r \in Run : pc[r] \in OnForm /\ enc[r] = e /\ form[r] = "none"
                      => Untouched(e)

Inv ==
  /\ TypeOK
  /\ Excl
  /\ PageOwned
  /\ FilledEmpty
  /\ EarlySeen
  /\ SiteInOrder => OnePush

-----------------------------------------------------------------------------
(* Every step keeps the type of every variable. *)
LEMMA TypeNext == TypeOK /\ [Next]_vars => TypeOK'
<1> SUFFICES ASSUME TypeOK, [Next]_vars PROVE TypeOK'
  OBVIOUS
<1> USE ConstantTypes DEF TypeOK, Result, JobState, Reason, Step, Requester,
        RequestStep, CronStep, vars, db, job, run, web, request, retry, env
<1>1. ASSUME NEW e \in Enc, Timeout(e) PROVE TypeOK'
  BY <1>1 DEF Timeout, Fail
<1>2. ASSUME NEW e \in Enc, BackoffOver(e) PROVE TypeOK'
  BY <1>2 DEF BackoffOver
<1>3. ASSUME NEW e \in Enc, StallCheck(e) PROVE TypeOK'
  BY <1>3 DEF StallCheck
<1>4. ASSUME NEW e \in Enc, SaveEncounter(e) PROVE TypeOK'
  BY <1>4 DEF SaveEncounter
<1>5. ASSUME NEW e \in Enc, SiteApplies(e) PROVE TypeOK'
  BY <1>5 DEF SiteApplies
<1>6. ASSUME NEW e \in Enc, SiteDrops(e) PROVE TypeOK'
  BY <1>6 DEF SiteDrops, Fault
<1>7. ASSUME NEW e \in Enc, OtherEnters(e) PROVE TypeOK'
  BY <1>7 DEF OtherEnters
<1>8. ASSUME NEW e \in Enc, SeasonCloses(e) PROVE TypeOK'
  BY <1>8 DEF SeasonCloses
<1>9. ASSUME NEW r \in Run, Invocation(r) PROVE TypeOK'
  <2>1. CASE Acquire(r)
    BY <2>1 DEF Acquire, Goto
  <2>2. CASE PreflightRefuses(r)
    BY <2>2 DEF PreflightRefuses, Goto
  <2>3. CASE OpenBrowser(r)
    BY <2>3 DEF OpenBrowser, Goto
  <2>4. CASE SeasonCheck(r)
    BY <2>4 DEF SeasonCheck, Goto, Throw
  <2>5. CASE EnterEditMode(r)
    BY <2>5 DEF EnterEditMode, Goto
  <2>6. CASE AssertNoExistingResult(r)
    BY <2>6 DEF AssertNoExistingResult, Goto, Throw
  <2>7. CASE FillForm(r)
    BY <2>7 DEF FillForm, Goto
  <2>8. CASE ClickSave(r)
    BY <2>8 DEF ClickSave, Goto
  <2>9. CASE SaveSucceeds(r)
    BY <2>9 DEF SaveSucceeds, Goto
  <2>10. CASE MarkSynced(r)
    BY <2>10 DEF MarkSynced, Goto
  <2>11. CASE StepThrows(r)
    BY <2>11 DEF StepThrows, Throw, Goto, Fault
  <2>12. CASE Cleanup(r)
    BY <2>12 DEF Cleanup, Goto
  <2>13. CASE Settle(r)
    BY <2>13 DEF Settle, Fail, Drop
  <2>14. QED
    BY <1>9, <2>1, <2>2, <2>3, <2>4, <2>5, <2>6, <2>7, <2>8, <2>9, <2>10, <2>11,
       <2>12, <2>13 DEF Invocation
<1>10. ASSUME NEW e \in Enc, NEW r \in Run, Dispatch(e, r) PROVE TypeOK'
  BY <1>10 DEF Dispatch
<1>11. ASSUME NEW q \in Requester, RequestEnterScores(q) PROVE TypeOK'
  <2>1. CASE GetJob(q)
    BY <2>1 DEF GetJob
  <2>2. CASE AddJob(q)
    BY <2>2 DEF AddJob
  <2>3. CASE GetState(q)
    BY <2>3 DEF GetState
  <2>4. CASE RetryJob(q)
    BY <2>4 DEF RetryJob
  <2>5. QED
    BY <1>11, <2>1, <2>2, <2>3, <2>4 DEF RequestEnterScores
<1>12. CASE RequestLost
  BY <1>12 DEF RequestLost
<1>13. CASE RetryFailedEncounterSync
  <2>1. CASE CronFires
    BY <2>1 DEF CronFires
  <2>2. CASE ListClosedJobs
    BY <2>2 DEF ListClosedJobs
  <2>3. CASE ScanEncounters
    BY <2>3 DEF ScanEncounters
  <2>4. CASE CronEnds
    BY <2>4 DEF CronEnds
  <2>5. ASSUME NEW e \in Enc, RemoveJob(e) PROVE TypeOK'
    BY <2>5 DEF RemoveJob, Drop
  <2>6. ASSUME NEW e \in Enc, RequestNext(e) PROVE TypeOK'
    BY <2>6 DEF RequestNext
  <2>7. QED
    BY <1>13, <2>1, <2>2, <2>3, <2>4, <2>5, <2>6 DEF RetryFailedEncounterSync
<1>14. CASE Crash
  BY <1>14 DEF Crash
<1>15. CASE UNCHANGED vars
  BY <1>15
<1>16. QED
  BY <1>1, <1>2, <1>3, <1>4, <1>5, <1>6, <1>7, <1>8, <1>9, <1>10, <1>11, <1>12,
     <1>13, <1>14, <1>15 DEF Next, Bull, World

(* The initial state has its type. *)
LEMMA TypeInit == Init => TypeOK
  BY ConstantTypes DEF Init, TypeOK, Result, JobState, Reason, Step, Requester,
     RequestStep, CronStep

(* The state of the queue, the worker, the site and the database always    *)
(* has its type: attemptsMade and stalledCounter stay within the limits    *)
(* Bull enforces, a job's owner is an invocation.                          *)
THEOREM TypeCorrect == Spec => []TypeOK
  BY TypeInit, TypeNext, PTL DEF Spec

-----------------------------------------------------------------------------
(* What the invariant says of the invocations and the site. *)
Safe ==
  /\ Excl
  /\ PageOwned
  /\ FilledEmpty
  /\ EarlySeen
  /\ SiteInOrder => OnePush

(* A step of the queue, the retry job or a requester disturbs none of it. *)
LEMMA SafeElsewhere ==
  ASSUME Safe, UNCHANGED <<run, web>>
  PROVE  Safe'
  BY DEF Safe, Excl, PageOwned, FilledEmpty, EarlySeen, OnePush, Untouched, run, web

(* Passing the gate, or ending without the page. *)
LEMMA SafeOutside ==
  ASSUME TypeOK, Safe, NEW r \in Run,
         Acquire(r) \/ PreflightRefuses(r) \/ Settle(r) \/ Cleanup(r)
  PROVE  Safe'
<1> USE DEF TypeOK, Safe, Excl, PageOwned, FilledEmpty, EarlySeen, OnePush, Untouched,
        Goto, web, Critical, UsesPage, OnForm
<1>1. CASE Acquire(r)
  BY <1>1 DEF Acquire
<1>2. CASE PreflightRefuses(r)
  BY <1>2 DEF PreflightRefuses
<1>3. CASE Settle(r)
  BY <1>3 DEF Settle
<1>4. CASE Cleanup(r)
  BY <1>4 DEF Cleanup
<1>5. QED
  BY <1>1, <1>2, <1>3, <1>4

(* The steps that leave the form and the site alone. *)
LEMMA SafeOnPage ==
  ASSUME TypeOK, Safe, NEW r \in Run,
         \/ OpenBrowser(r) \/ SeasonCheck(r) \/ AssertNoExistingResult(r)
         \/ FillForm(r) \/ SaveSucceeds(r) \/ MarkSynced(r) \/ StepThrows(r)
  PROVE  Safe'
<1> USE DEF TypeOK, Safe, Excl, PageOwned, FilledEmpty, EarlySeen, OnePush, Untouched,
        Goto, Throw, web, Critical, UsesPage, OnForm
<1>1. CASE OpenBrowser(r)
  BY <1>1 DEF OpenBrowser
<1>2. CASE SeasonCheck(r)
  BY <1>2 DEF SeasonCheck
<1>3. CASE AssertNoExistingResult(r)
  BY <1>3 DEF AssertNoExistingResult
<1>4. CASE FillForm(r)
  BY <1>4 DEF FillForm
<1>5. CASE SaveSucceeds(r)
  BY <1>5 DEF SaveSucceeds
<1>6. CASE MarkSynced(r)
  BY <1>6 DEF MarkSynced
<1>7. CASE StepThrows(r)
  BY <1>7 DEF StepThrows
<1>8. QED
  BY <1>1, <1>2, <1>3, <1>4, <1>5, <1>6, <1>7

(* Loading the form: it shows the site of this moment, and when the site   *)
(* answers in order no save of the encounter is on its way.                *)
LEMMA SafeLoad ==
  ASSUME TypeOK, Safe, NEW r \in Run, EnterEditMode(r)
  PROVE  Safe'
  BY DEF TypeOK, Safe, Excl, PageOwned, FilledEmpty, EarlySeen, OnePush, Untouched,
     EnterEditMode, Goto, web, Critical, UsesPage, OnForm

(* Sending the save: the form is empty, so nothing was stored before and   *)
(* no early result is there; whoever holds another form of the encounter   *)
(* would be a second one past the gate.                                    *)
LEMMA SafeClick ==
  ASSUME TypeOK, Safe, NEW r \in Run, ClickSave(r)
  PROVE  Safe'
  BY DEF TypeOK, Safe, Excl, PageOwned, FilledEmpty, EarlySeen, OnePush, Untouched,
     ClickSave, Goto, web, Critical, UsesPage, OnForm

(* toernooi.nl and its other users. *)
LEMMA SafeWorld ==
  ASSUME TypeOK, Safe, NEW e \in Enc, SiteApplies(e) \/ SiteDrops(e) \/ OtherEnters(e)
  PROVE  Safe'
<1> USE DEF TypeOK, Safe, Excl, PageOwned, FilledEmpty, EarlySeen, OnePush, Untouched,
        run, Result, Critical, UsesPage, OnForm
<1>1. CASE SiteApplies(e)
  BY <1>1 DEF SiteApplies
<1>2. CASE SiteDrops(e)
  BY <1>2 DEF SiteDrops
<1>3. CASE OtherEnters(e)
  <2> USE DEF OtherEnters
  <2>1. Excl' /\ PageOwned' /\ FilledEmpty'
    BY <1>3
  <2>2. SiteInOrder => OnePush'
    BY <1>3
  <2>3. ASSUME early'[e]
        PROVE  /\ e \notin pending'
               /\ \A r \in Run : pc'[r] \in OnForm /\ enc'[r] = e => form'[r] # "none"
    <3> DEFINE isEarly ==
          e \notin pending /\ ~\E r \in Run : pc[r] \in {"check", "fill", "click"} /\ enc[r] = e
    <3>1. early' = [early EXCEPT ![e] = isEarly]
      BY <1>3
    <3>2. early'[e] = isEarly
      <4> HIDE DEF isEarly
      <4>1. QED
        BY <3>1
    <3>3. isEarly
      BY <2>3, <3>2
    <3>4. QED
      BY <1>3, <3>3
  <2>4. ASSUME NEW d \in Enc, d # e, early'[d], site'[d] = "other"
        PROVE  /\ d \notin pending'
               /\ \A r \in Run : pc'[r] \in OnForm /\ enc'[r] = d => form'[r] # "none"
    <3>1. early'[d] = early[d] /\ site'[d] = site[d]
      BY <1>3, <2>4
    <3>2. QED
      BY <1>3, <2>4, <3>1
  <2>5. EarlySeen'
    BY <2>3, <2>4
  <2>6. QED
    BY <2>1, <2>2, <2>5
<1>4. QED
  BY <1>1, <1>2, <1>3

(* A new invocation starts behind the gate; a crash leaves none. *)
LEMMA SafeDispatch ==
  ASSUME TypeOK, Safe, NEW e \in Enc, NEW r \in Run, Dispatch(e, r)
  PROVE  Safe'
  BY DEF TypeOK, Safe, Excl, PageOwned, FilledEmpty, EarlySeen, OnePush, Untouched,
     Dispatch, web, Critical, UsesPage, OnForm

LEMMA SafeCrash ==
  ASSUME TypeOK, Safe, Crash
  PROVE  Safe'
  BY DEF TypeOK, Safe, Excl, PageOwned, FilledEmpty, EarlySeen, OnePush, Untouched,
     Crash, web, Critical, UsesPage, OnForm

(* Every step keeps the invariant. *)
LEMMA InvNext == Inv /\ [Next]_vars => Inv'
<1> SUFFICES ASSUME TypeOK, Safe, [Next]_vars PROVE Safe'
  BY TypeNext DEF Inv, Safe
<1>1. ASSUME NEW r \in Run, Invocation(r) PROVE Safe'
  BY <1>1, SafeOutside, SafeOnPage, SafeLoad, SafeClick DEF Invocation
<1>2. ASSUME NEW e \in Enc, NEW r \in Run, Dispatch(e, r) PROVE Safe'
  BY <1>2, SafeDispatch
<1>3. CASE Crash
  BY <1>3, SafeCrash
<1>4. ASSUME NEW e \in Enc, SiteApplies(e) \/ SiteDrops(e) \/ OtherEnters(e)
      PROVE  Safe'
  BY <1>4, SafeWorld
<1>5. ASSUME NEW e \in Enc, Bull(e) \/ SaveEncounter(e) \/ SeasonCloses(e)
      PROVE  Safe'
  <2>1. UNCHANGED <<run, web>>
    BY <1>5 DEF Bull, Timeout, BackoffOver, StallCheck, SaveEncounter, SeasonCloses
  <2>2. QED
    BY <2>1, SafeElsewhere
<1>6. ASSUME NEW q \in Requester, RequestEnterScores(q) PROVE Safe'
  <2>1. UNCHANGED <<run, web>>
    BY <1>6 DEF RequestEnterScores, GetJob, AddJob, GetState, RetryJob
  <2>2. QED
    BY <2>1, SafeElsewhere
<1>7. CASE RequestLost \/ RetryFailedEncounterSync
  <2>1. UNCHANGED <<run, web>>
    BY <1>7 DEF RequestLost, RetryFailedEncounterSync, CronFires, ListClosedJobs,
       ScanEncounters, CronEnds, RemoveJob, RequestNext
  <2>2. QED
    BY <2>1, SafeElsewhere
<1>8. CASE UNCHANGED vars
  <2>1. UNCHANGED <<run, web>>
    BY <1>8 DEF vars
  <2>2. QED
    BY <2>1, SafeElsewhere
<1>9. QED
  BY <1>1, <1>2, <1>3, <1>4, <1>5, <1>6, <1>7, <1>8 DEF Next, World

LEMMA InvInit == Init => Inv
<1> SUFFICES ASSUME Init PROVE Inv
  OBVIOUS
<1>1. TypeOK
  BY TypeInit
<1>2. Excl /\ PageOwned /\ FilledEmpty /\ EarlySeen /\ OnePush
  BY DEF Init, Excl, PageOwned, FilledEmpty, EarlySeen, OnePush, Untouched,
     Critical, UsesPage, OnForm
<1>3. QED
  BY <1>1, <1>2 DEF Inv

LEMMA InvAlways == Spec => []Inv
  BY InvInit, InvNext, PTL DEF Spec

(* Whatever Bull times out, retries or recovers, the page is driven by the *)
(* invocation that opened it.                                              *)
THEOREM PageIsOwned == Spec => []PageOwned
  BY InvAlways, PTL DEF Inv

(* When toernooi.nl answers the requests about a match in order, it stores *)
(* a Badman result at most once.                                           *)
THEOREM PushedOnce == ASSUME SiteInOrder PROVE Spec => []AtMostOnePush
<1>1. Inv => AtMostOnePush
  BY SiteInOrder DEF Inv, OnePush, AtMostOnePush
<1>2. QED
  BY <1>1, InvAlways, PTL

(* A foreign result entered while Badman had no form of the encounter open *)
(* is never overwritten: existing_result_check reads it on the form.       *)
THEOREM EarlyResultIsKept == Spec => EarlyResultKept
<1>1. ASSUME Inv, [Next]_vars, NEW e \in Enc, site[e] = "other", early[e]
      PROVE  site'[e] = "other"
  <2>1. e \notin pending
    BY <1>1 DEF Inv, EarlySeen
  <2>2. ASSUME NEW d \in Enc, SiteApplies(d) PROVE site'[e] = "other"
    BY <1>1, <2>1, <2>2 DEF SiteApplies, Inv, TypeOK
  <2>3. ASSUME NEW d \in Enc, OtherEnters(d) PROVE site'[e] = "other"
    BY <1>1, <2>3 DEF OtherEnters, Inv, TypeOK
  <2>4. CASE UNCHANGED site
    BY <1>1, <2>4
  <2>5. ASSUME NEW d \in Enc, Bull(d) \/ SaveEncounter(d) \/ SiteDrops(d) \/ SeasonCloses(d)
        PROVE  UNCHANGED site
    BY <2>5 DEF Bull, Timeout, BackoffOver, StallCheck, SaveEncounter, SiteDrops,
       SeasonCloses, web
  <2>6. ASSUME NEW r \in Run, Invocation(r) PROVE UNCHANGED site
    BY <2>6 DEF Invocation, Acquire, PreflightRefuses, OpenBrowser, SeasonCheck,
       EnterEditMode, AssertNoExistingResult, FillForm, ClickSave, SaveSucceeds,
       MarkSynced, StepThrows, Cleanup, Settle, web
  <2>7. ASSUME NEW d \in Enc, NEW r \in Run, Dispatch(d, r) PROVE UNCHANGED site
    BY <2>7 DEF Dispatch, web
  <2>8. ASSUME NEW q \in Requester, RequestEnterScores(q) PROVE UNCHANGED site
    BY <2>8 DEF RequestEnterScores, GetJob, AddJob, GetState, RetryJob, web
  <2>9. CASE RequestLost \/ RetryFailedEncounterSync \/ Crash
    <3>1. UNCHANGED site
      BY <2>9 DEF RequestLost, RetryFailedEncounterSync, CronFires, ListClosedJobs,
         ScanEncounters, CronEnds, RemoveJob, RequestNext, Crash, web
    <3>2. QED
      BY <3>1, <2>4
  <2>10. CASE UNCHANGED vars
    BY <2>10, <2>4 DEF vars, web
  <2>11. QED
    BY <1>1, <2>2, <2>3, <2>4, <2>5, <2>6, <2>7, <2>8, <2>9, <2>10 DEF Next, World
<1>2. Inv /\ [Next]_vars
        => [\A e \in Enc : site[e] = "other" /\ early[e] => site'[e] = "other"]_vars
  BY <1>1
<1>3. QED
  BY <1>2, InvAlways, PTL DEF Spec, EarlyResultKept

-----------------------------------------------------------------------------
(* The other side of the lock: SerialGate, the promise chain of            *)
(* enterScores, for any set of invocations and any bound on the gates.  It *)
(* is a mutual exclusion lock, loses no gate, serves in order of arrival,  *)
(* and implements PushLock, the lock that EnterScores has in its place.    *)
(*                                                                         *)
(* Mutual exclusion is not inductive: a waiter starts when one particular  *)
(* promise is resolved, and nothing in MutualExclusion says that the one   *)
(* running is behind it.  The strengthening says that the chain is a       *)
(* contiguous numbering: the resolved gates are a prefix of it, and every  *)
(* live invocation awaits the gate just before its own, which is not yet   *)
(* resolved and which nobody else owns.                                    *)
CONSTANT MaxGate
VARIABLES phase, waitFor, gate, serialQueue, resolved

Chain == INSTANCE SerialGate

Prefix ==
  /\ 0 \in resolved
  /\ \A g \in resolved : g <= serialQueue
  /\ \A g \in resolved, h \in Chain!Gate : h <= g => h \in resolved

Chained ==
  \A r \in Run : Chain!Live(r) =>
    /\ 1 <= gate[r] /\ gate[r] <= serialQueue
    /\ waitFor[r] + 1 = gate[r]
    /\ gate[r] \notin resolved
    /\ phase[r] = "running" => waitFor[r] \in resolved

OwnGate ==
  \A r, s \in Run : Chain!Live(r) /\ Chain!Live(s) /\ gate[r] = gate[s] => r = s

ChainInv ==
  MaxGate \in Nat /\ Chain!TypeOK /\ Prefix /\ Chained /\ OwnGate /\ Chain!NoLostGate

-----------------------------------------------------------------------------
(* The initial chain satisfies the invariant. *)
LEMMA ChainInitInv ==
  ASSUME MaxGate \in Nat
  PROVE  Chain!Init => ChainInv
  BY DEF Chain!Init, ChainInv, Chain!TypeOK, Prefix, Chained, OwnGate, Chain!NoLostGate,
     Chain!Gate, Chain!Phase, Chain!Live

(* Joining the chain keeps the invariant: the new gate is fresh. *)
LEMMA ChainEnterInv ==
  ASSUME ChainInv, NEW r \in Run, Chain!Enter(r)
  PROVE  ChainInv'
<1> USE DEF ChainInv, Chain!TypeOK, Prefix, Chained, OwnGate, Chain!NoLostGate,
      Chain!Gate, Chain!Phase, Chain!Live, Chain!Enter
<1>1. Chain!TypeOK'
  OBVIOUS
<1>2. Prefix'
  OBVIOUS
<1>3. Chained'
  <2> SUFFICES ASSUME NEW s \in Run, Chain!Live(s)'
               PROVE  /\ 1 <= gate'[s] /\ gate'[s] <= serialQueue'
                      /\ waitFor'[s] + 1 = gate'[s]
                      /\ gate'[s] \notin resolved'
                      /\ phase'[s] = "running" => waitFor'[s] \in resolved'
    OBVIOUS
  <2>1. CASE s = r
    BY <2>1
  <2>2. CASE s # r
    BY <2>2
  <2>3. QED
    BY <2>1, <2>2
<1>4. OwnGate'
  OBVIOUS
<1>5. Chain!NoLostGate'
  <2> SUFFICES ASSUME NEW g \in 0 .. serialQueue', g \notin resolved'
               PROVE  \E s \in Run : Chain!Live(s)' /\ gate'[s] = g
    OBVIOUS
  <2>1. CASE g = serialQueue + 1
    BY <2>1
  <2>2. CASE g # serialQueue + 1
    <3>1. PICK s \in Run : Chain!Live(s) /\ gate[s] = g
      BY <2>2
    <3>2. Chain!Live(s)' /\ gate'[s] = g
      BY <3>1
    <3>3. QED
      BY <3>2
  <2>3. QED
    BY <2>1, <2>2
<1>6. QED
  BY <1>1, <1>2, <1>3, <1>4, <1>5

(* Passing the gate keeps the invariant. *)
LEMMA ChainStartInv ==
  ASSUME ChainInv, NEW r \in Run, Chain!Start(r)
  PROVE  ChainInv'
  BY DEF ChainInv, Chain!TypeOK, Prefix, Chained, OwnGate, Chain!NoLostGate,
     Chain!Gate, Chain!Phase, Chain!Live, Chain!Start

(* Releasing the gate keeps the invariant: the resolved gates are still a  *)
(* prefix, because the gate before it was resolved.                        *)
LEMMA ChainReleaseInv ==
  ASSUME ChainInv, NEW r \in Run, Chain!Release(r)
  PROVE  ChainInv'
<1> USE DEF ChainInv, Chain!TypeOK, Prefix, Chained, OwnGate, Chain!NoLostGate,
      Chain!Gate, Chain!Phase, Chain!Live, Chain!Release
<1>1. Chain!TypeOK'
  <2>1. gate[r] \in Chain!Gate
    OBVIOUS
  <2>2. resolved' \in SUBSET Chain!Gate
    BY <2>1
  <2>3. phase' \in [Run -> Chain!Phase]
    OBVIOUS
  <2>4. QED
    BY <2>2, <2>3
<1>2. Prefix'
  OBVIOUS
<1>3. Chained'
  OBVIOUS
<1>4. OwnGate'
  OBVIOUS
<1>5. Chain!NoLostGate'
  OBVIOUS
<1>6. QED
  BY <1>1, <1>2, <1>3, <1>4, <1>5

(* Every step keeps the invariant. *)
LEMMA ChainNextInv == ChainInv /\ [Chain!Next]_(Chain!vars) => ChainInv'
<1> SUFFICES ASSUME ChainInv, [Chain!Next]_(Chain!vars) PROVE ChainInv'
  OBVIOUS
<1>1. ASSUME NEW r \in Run, Chain!Enter(r) PROVE ChainInv'
  BY <1>1, ChainEnterInv
<1>2. ASSUME NEW r \in Run, Chain!Start(r) PROVE ChainInv'
  BY <1>2, ChainStartInv
<1>3. ASSUME NEW r \in Run, Chain!Release(r) PROVE ChainInv'
  BY <1>3, ChainReleaseInv
<1>4. CASE Chain!Restart
  BY <1>4 DEF Chain!Restart, ChainInv, Chain!TypeOK, Prefix, Chained, OwnGate,
     Chain!NoLostGate, Chain!Gate, Chain!Phase, Chain!Live
<1>5. CASE UNCHANGED Chain!vars
  BY <1>5 DEF Chain!vars, ChainInv, Chain!TypeOK, Prefix, Chained, OwnGate,
     Chain!NoLostGate, Chain!Live
<1>6. QED
  BY <1>1, <1>2, <1>3, <1>4, <1>5 DEF Chain!Next

LEMMA ChainAlways ==
  ASSUME MaxGate \in Nat
  PROVE  Chain!Spec => []ChainInv
  BY ChainInitInv, ChainNextInv, PTL DEF Chain!Spec

(* The state of the chain always has its type. *)
THEOREM ChainTypeCorrect ==
  ASSUME MaxGate \in Nat
  PROVE  Chain!Spec => []Chain!TypeOK
  BY ChainAlways, PTL DEF ChainInv

(* An invocation that may start finds nobody running: whoever runs has an  *)
(* unresolved gate that is not behind the promise the other one awaits.    *)
LEMMA StartAlone ==
  ASSUME ChainInv, NEW r \in Run, NEW s \in Run, Chain!Live(r),
         waitFor[r] \in resolved, phase[s] = "running"
  PROVE  r = s
<1> USE DEF ChainInv, Chain!TypeOK, Prefix, Chained, OwnGate, Chain!Gate,
      Chain!Phase, Chain!Live
<1>1. CASE gate[r] < gate[s]
  <2>1. gate[r] <= waitFor[s] /\ waitFor[s] \in resolved
    BY <1>1
  <2>2. gate[r] \in resolved
    BY <2>1
  <2>3. QED
    BY <2>2
<1>2. CASE gate[s] < gate[r]
  <2>1. gate[s] <= waitFor[r]
    BY <1>2
  <2>2. gate[s] \in resolved
    BY <2>1
  <2>3. QED
    BY <2>2
<1>3. CASE gate[r] = gate[s]
  BY <1>3
<1>4. gate[r] \in Nat /\ gate[s] \in Nat
  OBVIOUS
<1>5. QED
  BY <1>1, <1>2, <1>3, <1>4

(* However many Bull slots picked up an EnterScores job, at most one       *)
(* invocation is past the gate of enterScores.                             *)
THEOREM Exclusion ==
  ASSUME MaxGate \in Nat
  PROVE  Chain!Spec => []Chain!MutualExclusion
<1>1. ChainInv => Chain!MutualExclusion
  <2> SUFFICES ASSUME ChainInv, NEW r \in Run, NEW s \in Run,
                      phase[r] = "running", phase[s] = "running"
               PROVE  r = s
    BY DEF Chain!MutualExclusion
  <2>1. Chain!Live(r) /\ waitFor[r] \in resolved
    BY DEF ChainInv, Chained, Chain!Live
  <2>2. QED
    BY <2>1, StartAlone
<1>2. QED
  BY <1>1, ChainAlways, PTL

(* A promise of the chain that is not resolved belongs to an invocation    *)
(* that is alive and will resolve it.                                      *)
THEOREM NoGateIsLost ==
  ASSUME MaxGate \in Nat
  PROVE  Chain!Spec => []Chain!NoLostGate
  BY ChainAlways, PTL DEF ChainInv

(* Invocations start in the order in which they joined the chain. *)
THEOREM ServedInOrder ==
  ASSUME MaxGate \in Nat
  PROVE  Chain!Spec => Chain!NoOvertaking
<1>1. ASSUME ChainInv, [Chain!Next]_(Chain!vars),
             NEW r \in Run, NEW s \in Run,
             phase[r] = "waiting", phase'[r] = "running",
             phase[s] = "waiting", s # r
      PROVE  gate[r] < gate[s]
  <2>1. Chain!Start(r)
    BY <1>1 DEF Chain!Next, Chain!vars, Chain!Enter, Chain!Start, Chain!Release,
       Chain!Restart, ChainInv, Chain!TypeOK, Chain!Phase
  <2>2. gate[r] # gate[s]
    BY <1>1 DEF ChainInv, OwnGate, Chain!Live
  <2>3. ~(gate[s] < gate[r])
    <3> SUFFICES ASSUME gate[s] < gate[r] PROVE FALSE
      OBVIOUS
    <3>1. gate[s] <= waitFor[r] /\ waitFor[r] \in resolved
      BY <1>1, <2>1 DEF Chain!Start, ChainInv, Chain!TypeOK, Chained, Chain!Live,
         Chain!Gate
    <3>2. gate[s] \in resolved
      BY <1>1, <3>1 DEF ChainInv, Chain!TypeOK, Prefix
    <3>3. QED
      BY <1>1, <3>2 DEF ChainInv, Chained, Chain!Live
  <2>4. gate[r] \in Nat /\ gate[s] \in Nat
    BY <1>1 DEF ChainInv, Chain!TypeOK, Chain!Gate
  <2>5. QED
    BY <2>2, <2>3, <2>4
<1>2. ChainInv /\ [Chain!Next]_(Chain!vars)
        => [\A r, s \in Run :
              /\ phase[r] = "waiting" /\ phase'[r] = "running"
              /\ phase[s] = "waiting" /\ s # r
              => gate[r] < gate[s]]_(Chain!vars)
  BY <1>1
<1>3. QED
  BY <1>2, ChainAlways, PTL DEF Chain!Spec, Chain!NoOvertaking

(* Every behaviour of the chain is a behaviour of the lock. *)
THEOREM ChainIsLock ==
  ASSUME MaxGate \in Nat
  PROVE  Chain!Spec => Chain!ImplementsLock
<1>1. Chain!Init => Chain!Lock!Init
  BY DEF Chain!Init, Chain!Lock!Init
<1>2. ASSUME ChainInv, [Chain!Next]_(Chain!vars) PROVE [Chain!Lock!Next]_phase
  <2>1. ASSUME NEW r \in Run, Chain!Enter(r) PROVE Chain!Lock!Request(r)
    BY <2>1 DEF Chain!Enter, Chain!Lock!Request
  <2>2. ASSUME NEW r \in Run, Chain!Start(r) PROVE Chain!Lock!Grant(r)
    <3>1. ASSUME NEW s \in Run, phase[s] = "running" PROVE FALSE
      BY <1>2, <2>2, <3>1, StartAlone DEF Chain!Start, Chain!Live
    <3>2. QED
      BY <2>2, <3>1 DEF Chain!Start, Chain!Lock!Grant
  <2>3. ASSUME NEW r \in Run, Chain!Release(r) PROVE Chain!Lock!Done(r)
    BY <2>3 DEF Chain!Release, Chain!Lock!Done
  <2>4. Chain!Restart => Chain!Lock!Die
    BY DEF Chain!Restart, Chain!Lock!Die
  <2>5. QED
    BY <1>2, <2>1, <2>2, <2>3, <2>4 DEF Chain!Next, Chain!vars, Chain!Lock!Next
<1>3. QED
  BY <1>1, <1>2, ChainAlways, PTL DEF Chain!Spec, Chain!ImplementsLock, Chain!Lock!Spec
=============================================================================
