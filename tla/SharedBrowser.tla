---------------------------- MODULE SharedBrowser ----------------------------
(***************************************************************************)
(* The one Chrome that the jobs of the sync worker share                   *)
(* (packages/backend-pupeteer/src/shared.ts) and its two keepers: the      *)
(* health monitor of that file and the IdleShutdownService.                *)
(*                                                                         *)
(* The module's state is a handful of variables: the browser, the promise  *)
(* of its launch, its start time, the count of requests.  JavaScript runs  *)
(* one step at a time, but every await lets the other jobs and the keepers *)
(* in: a close() or launch() under way belongs to the job that waits for   *)
(* it, while the variables belong to all.  A step here is what runs from   *)
(* one await to the next.                                                  *)
(*                                                                         *)
(* Abstracted: launch arguments, the profile directory, what a job does on *)
(* its page.  The tab Chrome opens with may or may not be counted by       *)
(* pages().  Chromes that are gone give their number to new ones.          *)
(***************************************************************************)
EXTENDS Naturals, FiniteSets

CONSTANTS
  Job,         \* jobs that open a page
  MaxPages,    \* MAX_PAGES
  MaxBrowser,  \* bound on the Chromes that exist at the same time
  MaxCount,    \* bound on activeRequestCount when a job starts
  MaxFault,    \* bound on the failures of Chrome
  MaxAged,     \* bound on the times a browser grows too old
  MaxRestart   \* bound on the rounds of the keepers

ASSUME FiniteJobs == IsFiniteSet(Job)

ASSUME Bounds ==
  /\ MaxPages \in Nat /\ MaxBrowser \in Nat /\ MaxCount \in Nat
  /\ MaxFault \in Nat /\ MaxAged \in Nat /\ MaxRestart \in Nat

VARIABLES
  shared,    \* sharedBrowser
  promise,   \* browserPromise
  age,       \* browserStartTime: zero, or the age it gives
  inactive,  \* lastActivityTime is more than MAX_INACTIVE ago
  count,     \* activeRequestCount
  chrome,    \* the Chrome processes
  pc, mine,  \* what each job waits for, and its `browser`
  tries,     \* calls of getPage, around a job's current one, that would catch
             \* what it throws
  keeper,    \* what each keeper waits for
  target,    \* the browser each keeper looks at
  seenOld, seenInactive,  \* what the monitor computed before its await
  faults, aged, rounds    \* bounded events so far

module == <<shared, promise, age>>
jobs == <<pc, mine, tries>>
keepers == <<keeper, target, seenOld, seenInactive>>
bounds == <<faults, aged, rounds>>
vars == <<module, inactive, count, chrome, jobs, keepers, bounds>>

Browser == 1 .. MaxBrowser
None == 0
Keeper == {"monitor", "idleShutdown"}

TypeOK ==
  /\ shared \in Browser \cup {None} /\ promise \in Browser \cup {None}
  /\ age \in {"zero", "young", "old"}
  /\ inactive \in BOOLEAN
  /\ count \in Nat
  /\ chrome \in [Browser -> {"gone", "launching", "failed", "live", "closing"}]
  /\ pc \in [Job -> {"idle", "call", "ageClose", "launch", "wait", "pages",
                     "newPage", "tooMany", "forceClose", "recover", "using"}]
  /\ mine \in [Job -> Browser \cup {None}]
  /\ tries \in [Job -> Nat]
  /\ keeper \in [Keeper -> {"idle", "asks", "closing"}]
  /\ target \in [Keeper -> Browser \cup {None}]
  /\ seenOld \in BOOLEAN /\ seenInactive \in BOOLEAN
  /\ faults \in 0 .. MaxFault /\ aged \in 0 .. MaxAged
  /\ rounds \in 0 .. MaxRestart

Init ==
  /\ shared = None /\ promise = None /\ age = "zero"
  /\ inactive = TRUE /\ count = 0
  /\ chrome = [b \in Browser |-> "gone"]
  /\ pc = [j \in Job |-> "idle"] /\ mine = [j \in Job |-> None]
  /\ tries = [j \in Job |-> 0]
  /\ keeper = [k \in Keeper |-> "idle"] /\ target = [k \in Keeper |-> None]
  /\ seenOld = FALSE /\ seenInactive = FALSE
  /\ faults = 0 /\ aged = 0 /\ rounds = 0

Goto(j, s) == pc' = [pc EXCEPT ![j] = s]

Fault == faults < MaxFault /\ faults' = faults + 1 /\ UNCHANGED <<aged, rounds>>

(* resetBrowserState *)
ResetBrowserState == shared' = None /\ promise' = None /\ age' = "zero"

(* decrementActiveRequestCount *)
Decrement == count' = IF count > 0 THEN count - 1 ELSE 0

(* close() is sent to Chrome; it is over when the process has gone. *)
BeginClose(b) ==
  chrome' = [chrome EXCEPT ![b] = IF @ = "live" THEN "closing" ELSE @]

(* close() returned, or threw and the process was killed. *)
Closed(b) == (chrome[b] = "gone" /\ UNCHANGED bounds) \/ Fault

(* Numbers of Chromes that nobody refers to any more. *)
Free ==
  {b \in Browser : /\ chrome[b] \in {"gone", "failed"}
                   /\ b \notin {shared, promise}
                   /\ \A j \in Job : mine[j] # b
                   /\ \A k \in Keeper : target[k] # b}

(* pages().length: the pages of the jobs and perhaps the first tab. *)
PageCounts(b) ==
  LET used == Cardinality({j \in Job : pc[j] = "using" /\ mine[j] = b})
  IN  {used, used + 1}

(* A call of Chrome through browser b may answer, or may fail. *)
Answers(b) == chrome[b] \in {"live", "closing"} /\ UNCHANGED bounds
Refuses(b) == (chrome[b] \in {"closing", "gone"} /\ UNCHANGED bounds) \/ Fault

-----------------------------------------------------------------------------
(* A job of the queue begins. *)
Start(j) ==
  /\ pc[j] = "idle" /\ count < MaxCount
  /\ Goto(j, "call")
  /\ UNCHANGED <<module, inactive, count, chrome, mine, tries, keepers, bounds>>

(* getBrowser: browserPromise = createSharedBrowser(). *)
Launch(j) ==
  /\ \E b \in Free :
       /\ \A c \in Free : b <= c
       /\ promise' = b
       /\ mine' = [mine EXCEPT ![j] = b]
       /\ chrome' = [chrome EXCEPT ![b] = "launching"]
  /\ Goto(j, "launch")

(* getPage calls getBrowser, up to its first await. *)
GetBrowser(j) ==
  /\ pc[j] = "call"
  /\ inactive' = FALSE /\ count' = count + 1
  /\ \/ /\ shared # None /\ age = "old"
        /\ Goto(j, "ageClose")
        /\ mine' = [mine EXCEPT ![j] = shared]
        /\ BeginClose(shared)
        /\ UNCHANGED module
     \/ /\ shared # None /\ age # "old"
        /\ Goto(j, "pages")
        /\ mine' = [mine EXCEPT ![j] = shared]
        /\ UNCHANGED <<module, chrome>>
     \/ /\ shared = None /\ promise # None
        /\ Goto(j, "wait")
        /\ mine' = [mine EXCEPT ![j] = promise]
        /\ UNCHANGED <<module, chrome>>
     \/ shared = None /\ promise = None /\ Launch(j) /\ UNCHANGED <<shared, age>>
  /\ UNCHANGED <<tries, keepers, bounds>>

(* The old browser is closed; getBrowser goes on to launch another. *)
AgeClosed(j) ==
  /\ pc[j] = "ageClose" /\ chrome[mine[j]] = "gone"
  /\ Launch(j)
  /\ shared' = None /\ age' = "zero"
  /\ UNCHANGED <<inactive, count, tries, keepers, bounds>>

(* getBrowser throws, and getPage with it: out of the job, or into the     *)
(* catch of the call whose too-many-pages branch called it.                *)
Throws(j) ==
  /\ mine' = [mine EXCEPT ![j] = None]
  /\ \/ tries[j] = 0 /\ Goto(j, "idle") /\ UNCHANGED tries
     \/ tries[j] > 0 /\ Goto(j, "recover") /\ tries' = [tries EXCEPT ![j] = @ - 1]

(* Closing the old browser throws. *)
AgeCloseThrows(j) ==
  /\ pc[j] = "ageClose"
  /\ Fault
  /\ Throws(j)
  /\ UNCHANGED <<module, inactive, count, chrome, keepers>>

(* sharedBrowser = await launch *)
Launched(j) ==
  /\ pc[j] = "launch"
  /\ chrome' = [chrome EXCEPT ![mine[j]] = "live"]
  /\ shared' = mine[j] /\ age' = "young"
  /\ Goto(j, "pages")
  /\ UNCHANGED <<promise, inactive, count, mine, tries, keepers, bounds>>

(* The launch failed: its promise is forgotten unless a newer took over. *)
LaunchFails(j) ==
  /\ pc[j] = "launch"
  /\ Fault
  /\ chrome' = [chrome EXCEPT ![mine[j]] = "failed"]
  /\ IF promise = mine[j] THEN ResetBrowserState ELSE UNCHANGED module
  /\ Decrement
  /\ Throws(j)
  /\ UNCHANGED <<inactive, keepers>>

(* Bug: only the success of the other launch is waited for. *)
WaitedForSuccess(j) ==
  /\ pc[j] = "wait" /\ chrome[mine[j]] \in {"live", "closing", "gone"}
  /\ Goto(j, "pages")
  /\ UNCHANGED <<module, inactive, count, chrome, mine, tries, keepers, bounds>>

(* await browserPromise: the launch of another call is over. *)
Waited(j) ==
  /\ pc[j] = "wait" /\ chrome[mine[j]] # "launching"
  /\ IF chrome[mine[j]] = "failed"
     THEN Throws(j) /\ Decrement
     ELSE Goto(j, "pages") /\ UNCHANGED <<mine, tries, count>>
  /\ UNCHANGED <<module, inactive, chrome, keepers, bounds>>

(* getPage: await browser.pages(), then MAX_PAGES. *)
CheckPages(j) ==
  /\ pc[j] = "pages"
  /\ \/ /\ Answers(mine[j])
        /\ \E n \in PageCounts(mine[j]) :
             \/ n <= MaxPages /\ Goto(j, "newPage") /\ UNCHANGED chrome
             \/ n > MaxPages /\ Goto(j, "tooMany") /\ BeginClose(mine[j])
     \/ Refuses(mine[j]) /\ Goto(j, "forceClose") /\ BeginClose(mine[j])
  /\ UNCHANGED <<module, inactive, count, mine, tries, keepers>>

(* The browser with too many pages is closed: reset, and getPage once      *)
(* more, inside the try.                                                   *)
TooManyClosed(j) ==
  /\ pc[j] = "tooMany" /\ chrome[mine[j]] = "gone"
  /\ ResetBrowserState
  /\ tries' = [tries EXCEPT ![j] = @ + 1]
  /\ Goto(j, "call") /\ mine' = [mine EXCEPT ![j] = None]
  /\ UNCHANGED <<inactive, count, chrome, keepers, bounds>>

(* Its close() throws, into the catch of the same call. *)
TooManyThrows(j) ==
  /\ pc[j] = "tooMany"
  /\ Fault
  /\ Goto(j, "forceClose")
  /\ UNCHANGED <<module, inactive, count, chrome, mine, tries, keepers>>

(* The catch around the nested getPage: the browser it closes has gone     *)
(* already, but the reset takes what others have launched since.           *)
Recover(j) ==
  /\ pc[j] = "recover"
  /\ ResetBrowserState
  /\ Goto(j, "call")
  /\ UNCHANGED <<inactive, count, chrome, mine, tries, keepers, bounds>>

(* await browser.newPage() *)
NewPage(j) ==
  /\ pc[j] = "newPage"
  /\ \/ /\ Answers(mine[j]) /\ Goto(j, "using") /\ UNCHANGED chrome
        /\ tries' = [tries EXCEPT ![j] = 0]
     \/ /\ Refuses(mine[j]) /\ Goto(j, "forceClose") /\ BeginClose(mine[j])
        /\ UNCHANGED tries
  /\ UNCHANGED <<module, inactive, count, mine, keepers>>

(* The browser that did not do is closed: reset, and getPage once more. *)
ForceClosed(j) ==
  /\ pc[j] = "forceClose" /\ Closed(mine[j])
  /\ ResetBrowserState
  /\ Goto(j, "call") /\ mine' = [mine EXCEPT ![j] = None]
  /\ UNCHANGED <<inactive, count, chrome, tries, keepers>>

(* Bug: a page that crashed and is then closed counts twice. *)
ClosePageTwice(j) ==
  /\ pc[j] = "using"
  /\ count' = IF count > 1 THEN count - 2 ELSE 0
  /\ Goto(j, "idle") /\ mine' = [mine EXCEPT ![j] = None]
  /\ UNCHANGED <<module, inactive, chrome, tries, keepers, bounds>>

(* page.close(), or the page's crash: counted once. *)
ClosePage(j) ==
  /\ pc[j] = "using"
  /\ Decrement
  /\ Goto(j, "idle") /\ mine' = [mine EXCEPT ![j] = None]
  /\ UNCHANGED <<module, inactive, chrome, tries, keepers, bounds>>

-----------------------------------------------------------------------------
(* Chrome and time. *)

(* A closed Chrome is gone: its "disconnected" event resets the module. *)
Gone(b) ==
  /\ chrome[b] = "closing"
  /\ chrome' = [chrome EXCEPT ![b] = "gone"]
  /\ ResetBrowserState
  /\ UNCHANGED <<inactive, count, jobs, keepers, bounds>>

(* Chrome crashes: the same event. *)
Crash(b) ==
  /\ chrome[b] = "live"
  /\ Fault
  /\ chrome' = [chrome EXCEPT ![b] = "gone"]
  /\ ResetBrowserState
  /\ UNCHANGED <<inactive, count, jobs, keepers>>

(* BROWSER_MAX_AGE_MS has passed. *)
GrowOld ==
  /\ age = "young" /\ aged < MaxAged
  /\ age' = "old" /\ aged' = aged + 1
  /\ UNCHANGED <<shared, promise, inactive, count, chrome, jobs, keepers,
                 faults, rounds>>

(* MAX_INACTIVE has passed since the last getBrowser. *)
GrowInactive ==
  /\ ~inactive /\ inactive' = TRUE
  /\ UNCHANGED <<module, count, chrome, jobs, keepers, bounds>>

-----------------------------------------------------------------------------
(* The keepers. *)

(* A round of keeper k begins, with an await. *)
Ask(k, b) ==
  /\ keeper[k] = "idle" /\ rounds < MaxRestart
  /\ keeper' = [keeper EXCEPT ![k] = "asks"]
  /\ target' = [target EXCEPT ![k] = b]
  /\ rounds' = rounds + 1
  /\ UNCHANGED <<module, inactive, count, chrome, jobs, faults, aged>>

(* startBrowserHealthMonitoring, up to await sharedBrowser.pages(). *)
MonitorAsks ==
  /\ shared # None
  /\ Ask("monitor", shared)
  /\ seenOld' = (age = "old") /\ seenInactive' = inactive

(* onIdle of the IdleShutdownService found no active or waiting job. *)
IdleAsks ==
  /\ \A j \in Job : pc[j] = "idle"
  /\ Ask("idleShutdown", None)
  /\ UNCHANGED <<seenOld, seenInactive>>

(* restartBrowser, up to the end of forceCloseBrowser. *)
RestartBrowser(k) ==
  /\ IF shared # None
     THEN /\ keeper' = [keeper EXCEPT ![k] = "closing"]
          /\ target' = [target EXCEPT ![k] = shared]
          /\ BeginClose(shared)
     ELSE /\ keeper' = [keeper EXCEPT ![k] = "idle"]
          /\ target' = [target EXCEPT ![k] = None]
          /\ UNCHANGED chrome

(* This round of the keeper ends here. *)
Skip(k) ==
  /\ keeper' = [keeper EXCEPT ![k] = "idle"]
  /\ target' = [target EXCEPT ![k] = None]
  /\ UNCHANGED chrome

(* needsRestart, with pages() returning n pages. *)
NeedsRestart(n) ==
  \/ n > MaxPages
  \/ n = 0 /\ (seenOld \/ (seenInactive /\ count = 0))

(* gracefulRestart: only without active requests. *)
GracefulRestart ==
  IF count = 0 THEN RestartBrowser("monitor") ELSE Skip("monitor")

(* The monitor has the pages, or an error. *)
MonitorDecides ==
  /\ keeper["monitor"] = "asks"
  /\ \/ /\ Answers(target["monitor"])
        /\ \E n \in PageCounts(target["monitor"]) :
             IF NeedsRestart(n) THEN GracefulRestart ELSE Skip("monitor")
     \/ Refuses(target["monitor"]) /\ GracefulRestart
  /\ UNCHANGED <<module, inactive, count, jobs, seenOld, seenInactive>>

(* onIdle goes on with the counts it read. *)
IdleDecides ==
  /\ keeper["idleShutdown"] = "asks"
  /\ RestartBrowser("idleShutdown")
  /\ UNCHANGED <<module, inactive, count, jobs, seenOld, seenInactive, bounds>>

(* The end of restartBrowser. *)
KeeperClosed(k) ==
  /\ keeper[k] = "closing" /\ Closed(target[k])
  /\ ResetBrowserState
  /\ Skip(k)
  /\ UNCHANGED <<inactive, count, jobs, seenOld, seenInactive>>

-----------------------------------------------------------------------------
GetPage(j) ==
  \/ GetBrowser(j) \/ AgeClosed(j) \/ AgeCloseThrows(j)
  \/ Launched(j) \/ LaunchFails(j) \/ Waited(j)
  \/ CheckPages(j) \/ TooManyClosed(j) \/ TooManyThrows(j) \/ Recover(j)
  \/ NewPage(j) \/ ForceClosed(j)

Next ==
  \/ \E j \in Job : Start(j) \/ GetPage(j) \/ ClosePage(j)
  \/ \E b \in Browser : Gone(b) \/ Crash(b)
  \/ GrowOld \/ GrowInactive
  \/ MonitorAsks \/ MonitorDecides \/ IdleAsks \/ IdleDecides
  \/ \E k \in Keeper : KeeperClosed(k)

Spec == Init /\ [][Next]_vars

(* Awaits return and a Chrome that was told to close does. *)
Fairness ==
  /\ \A j \in Job : WF_vars(GetPage(j))
  /\ \A b \in Browser : WF_vars(Gone(b))

FairSpec == Spec /\ Fairness

-----------------------------------------------------------------------------
(* Calls that hold the browser: counted, their page not yet closed. *)
Holders == {j \in Job : pc[j] \notin {"idle", "call", "recover"}}

(* activeRequestCount never misses a call that holds the browser, although *)
(* three places count down and a page may crash and then be closed.        *)
CountCoversHolders == Cardinality(Holders) <= count

(* gracefulRestart: when the monitor closes the browser, no job is between *)
(* its getBrowser and the closing of its page.                             *)
MonitorWaitsForJobs ==
  [][keeper["monitor"] = "asks" /\ keeper'["monitor"] = "closing"
       => Holders = {}]_vars

(* getPage: every call ends, with a page or by throwing, whatever Chrome,  *)
(* the other jobs and the keepers do meanwhile.                            *)
CallEnds ==
  \A j \in Job : pc[j] = "call" ~> pc[j] \in {"using", "idle"}
=============================================================================
