----------------------------- MODULE Enrollment -----------------------------
(***************************************************************************)
(* The enrollment of one club for one season: teams, the entry of each     *)
(* team in a sub-event, and the finalization that stamps sendOn, writes    *)
(* one Logging row and has one mail sent.  Four mutations work on the same *)
(* rows, each in a transaction of its own:                                 *)
(*   submitEnrollment    all at once (submit-enrollment.service.ts)        *)
(*   finishEventEntry    the finalization alone (entry.resolver.ts)        *)
(*   createEnrollment    the entry of one team (enrollment.resolver.ts)    *)
(*   createTeam(s)       a team, with or without entry (team.resolver.ts)  *)
(*                                                                         *)
(* PostgreSQL runs at READ COMMITTED: a statement sees what is committed   *)
(* when it runs and what its own transaction wrote, and waits for the row  *)
(* locks of others.  A step here is a statement, or several between which  *)
(* nothing another transaction does can matter.                            *)
(*                                                                         *)
(* Not modelled: the contents of teams and entries (numbers, players,      *)
(* base players, the sub-event), transfers and loans, remarks, the contact *)
(* of the club, the mail after the commit, deletions.                      *)
(***************************************************************************)
EXTENDS Naturals, Sequences

CONSTANTS
  Link,      \* what identifies a team across the seasons
  Team,      \* rows of Teams, natural numbers
  Entry,     \* rows of event.Entries, natural numbers
  Call,      \* sessions, each with one mutation at a time
  None,      \* no link, no row, no session
  Db,        \* owner of a committed row
  Inputs,    \* lists of links (or None: a new team) a mutation may bring
  MaxCalls   \* bound on mutations

ASSUME EnrollmentConstants ==
  /\ Team \subseteq Nat /\ Entry \subseteq Nat /\ MaxCalls \in Nat
  /\ None \notin Link \cup Team \cup Entry \cup Call
  /\ Db \notin Call \cup {None}
  /\ Inputs \subseteq Seq(Link \cup {None}) /\ <<>> \notin Inputs

VARIABLES
  team,    \* team[t]: its link; by: the session it is private to, Db, or None
  entry,   \* entry[e]: its team; first: the team it was made for; sent; by
  lock,    \* lock[t]: the session that read the row FOR UPDATE
  elock,   \* elock[e]: the session that locked or updated the row
  call,    \* call[c]: the mutation of a session
  logged,  \* Logging rows EnrollmentSubmitted
  calls

rows == <<team, entry>>
locks == <<lock, elock>>
vars == <<rows, locks, call, logged, calls>>

Kinds == {"submit", "finish", "enroll", "create"}

(* links: teams still to write; teams: teams written, in order; entered:   *)
(* how many of them have got their entry; made, old: the entry just made   *)
(* and the one setEntry found; drop: entries it takes from their team;     *)
(* pick: the entries read with the teams, unsent: those without sendOn     *)
(* then; fresh: the finalization is not a repetition.                      *)
Idle == [kind |-> "finish", at |-> "idle", links |-> <<>>, teams |-> <<>>,
         entered |-> 0, made |-> None, old |-> None, drop |-> {},
         pick |-> {}, unsent |-> {}, fresh |-> FALSE]

Phases == {"idle", "upsert", "enter", "set", "attach", "read", "lock",
           "commit", "done"}
Running(c) == call[c].at \notin {"idle", "done"}

TypeOK ==
  /\ team \in [Team -> [link : Link \cup {None}, by : Call \cup {Db, None}]]
  /\ entry \in [Entry -> [team : Team \cup {None}, first : Team \cup {None},
                          sent : BOOLEAN, by : Call \cup {Db, None}]]
  /\ lock \in [Team -> Call \cup {None}]
  /\ elock \in [Entry -> Call \cup {None}]
  /\ call \in [Call -> [kind : Kinds, at : Phases, links : Seq(Link \cup {None}),
                        teams : Seq(Team), entered : Nat,
                        made : Entry \cup {None}, old : Entry \cup {None},
                        drop : SUBSET Entry, pick : SUBSET Entry,
                        unsent : SUBSET Entry, fresh : BOOLEAN]]
  /\ logged \in 0 .. MaxCalls /\ calls \in 0 .. MaxCalls
  /\ \A t \in Team : lock[t] # None => Running(lock[t])
  /\ \A e \in Entry : elock[e] # None => Running(elock[e])

(* Teams of earlier days, one for a link, entered and sent or not. *)
NoTeam == [link |-> None, by |-> None]
NoEntry == [team |-> None, first |-> None, sent |-> FALSE, by |-> None]
EntryOf(t, s) == [team |-> t, first |-> t, sent |-> s, by |-> Db]

Init ==
  /\ team \in [Team -> {NoTeam} \cup [link : Link, by : {Db}]]
  /\ \A t, u \in Team : t # u /\ team[t].by = Db => team[t].link # team[u].link
  /\ \A t \in Team : team[t].by = Db => \A u \in Team : u < t => team[u].by = Db
  /\ entry \in [Entry -> {NoEntry} \cup {EntryOf(t, s) : t \in Team, s \in BOOLEAN}]
  /\ \A e \in Entry : entry[e].by = Db => entry[e].team = e /\ team[e].by = Db
  /\ lock = [t \in Team |-> None] /\ elock = [e \in Entry |-> None]
  /\ call = [c \in Call |-> Idle]
  /\ logged = 0 /\ calls = 0

----------------------------------------------------------------------------
(* What a session sees. *)

Sees(c, row) == row.by \in {Db, c}
TeamsSeen(c) == {t \in Team : Sees(c, team[t])}
EntriesSeen(c) ==
  {e \in Entry : Sees(c, entry[e]) /\ entry[e].team # None /\ e \notin call[c].drop}
EntriesOf(c, T) == {e \in EntriesSeen(c) : entry[e].team \in T}

(* Attaching an entry locks its team against FOR UPDATE (the foreign key), *)
(* and the other way round.                                                *)
NotReadForUpdate(c, t) == lock[t] \in {c, None}
MayReadForUpdate(c, t) ==
  /\ lock[t] \in {c, None}
  /\ \A e \in Entry : entry[e].team = t => entry[e].by \in {c, Db}
Writable(c, e) == elock[e] \in {c, None}

Free(table) == {r \in DOMAIN table : table[r].by = None}
First(S) == CHOOSE r \in S : \A q \in S : r <= q

Current(c) == call[c].teams[call[c].entered + 1]

----------------------------------------------------------------------------
(* Starting a mutation. *)

Start(c, kind, at, links, teams) ==
  /\ ~Running(c)
  /\ calls < MaxCalls /\ calls' = calls + 1
  /\ call' = [call EXCEPT ![c] = [Idle EXCEPT !.kind = kind, !.at = at,
                                              !.links = links, !.teams = teams]]
  /\ UNCHANGED <<rows, locks, logged>>

SubmitEnrollment(c) == \E links \in Inputs : Start(c, "submit", "upsert", links, <<>>)
FinishEventEntry(c) == Start(c, "finish", "read", <<>>, <<>>)
CreateEnrollment(c) ==
  \E t \in Team : team[t].by = Db /\ Start(c, "enroll", "enter", <<>>, <<t>>)
CreateTeams(c) == \E links \in Inputs : Start(c, "create", "upsert", links, <<>>)

----------------------------------------------------------------------------
(* Writing the teams: upsertTeamCore of a submission, _createTeamCore of   *)
(* createTeams.                                                            *)

Found(c) ==
  {t \in TeamsSeen(c) : team[t].link = Head(call[c].links) /\ team[t].link # None}

AfterTeams(k, links) ==
  IF links # <<>> THEN "upsert" ELSE IF k = "submit" THEN "enter" ELSE "commit"

WroteTeam(c, t) ==
  LET k == call[c].kind IN
  call' = [call EXCEPT ![c].links = Tail(@), ![c].teams = Append(@, t),
                       ![c].at = AfterTeams(k, Tail(call[c].links))]

(* The team exists: a submission locks the row, a creation leaves it. *)
FindTeam(c) ==
  /\ call[c].at = "upsert"
  /\ \E t \in Found(c) :
       /\ IF call[c].kind = "submit"
            THEN MayReadForUpdate(c, t) /\ lock' = [lock EXCEPT ![t] = c]
            ELSE UNCHANGED lock
       /\ WroteTeam(c, t)
  /\ UNCHANGED <<rows, elock, logged, calls>>

(* A new team; createTeams may give it an entry at once. *)
NewTeam(c) ==
  /\ call[c].at = "upsert" /\ Found(c) = {} /\ Free(team) # {}
  /\ LET t == First(Free(team)) IN
       /\ team' = [team EXCEPT ![t] = [link |-> Head(call[c].links), by |-> c]]
       /\ WroteTeam(c, t)
       /\ \/ UNCHANGED entry
          \/ /\ call[c].kind = "create" /\ Free(entry) # {}
             /\ entry' = [entry EXCEPT ![First(Free(entry))] =
                            [EntryOf(t, FALSE) EXCEPT !.by = c]]
  /\ UNCHANGED <<locks, logged, calls>>

----------------------------------------------------------------------------
(* createEntry: the entry of the next team. *)

Entered(c) ==
  IF call[c].kind = "enroll" THEN "commit"
  ELSE IF call[c].entered + 1 < Len(call[c].teams) THEN "enter" ELSE "read"

(* The team has an entry, which is saved when the call brings base players *)
(* or another sub-event.                                                   *)
KeepEntry(c) ==
  /\ call[c].at = "enter"
  /\ \E e \in EntriesOf(c, {Current(c)}) :
       \/ Writable(c, e) /\ elock' = [elock EXCEPT ![e] = c]
       \/ UNCHANGED elock
  /\ call' = [call EXCEPT ![c].entered = @ + 1, ![c].at = Entered(c)]
  /\ UNCHANGED <<rows, lock, logged, calls>>

(* It has none: EventEntry.create, still without team. *)
MakeEntry(c) ==
  /\ call[c].at = "enter"
  /\ EntriesOf(c, {Current(c)}) = {} /\ Free(entry) # {}
  /\ LET e == First(Free(entry)) IN
       /\ entry' = [entry EXCEPT ![e] = [NoEntry EXCEPT !.first = Current(c), !.by = c]]
       /\ call' = [call EXCEPT ![c].at = "set", ![c].made = e]
  /\ UNCHANGED <<team, locks, logged, calls>>

(* BUG: it reads the first entry there is, of whichever team. *)
ReadAny(c) ==
  /\ call[c].at = "set"
  /\ \E o \in IF EntriesSeen(c) = {} THEN {None} ELSE EntriesSeen(c) :
       call' = [call EXCEPT ![c].at = "attach", ![c].old = o]
  /\ UNCHANGED <<rows, locks, logged, calls>>

(* team.setEntry reads the entry of the team once more ... *)
ReadOld(c) ==
  /\ call[c].at = "set"
  /\ LET there == EntriesOf(c, {Current(c)}) IN
     \E o \in IF there = {} THEN {None} ELSE there :
       call' = [call EXCEPT ![c].at = "attach", ![c].old = o]
  /\ UNCHANGED <<rows, locks, logged, calls>>

(* ... takes the one it found from the team, and attaches the new one. *)
AttachEntry(c) ==
  LET o == call[c].old IN
  /\ call[c].at = "attach"
  /\ NotReadForUpdate(c, Current(c))
  /\ o # None => Writable(c, o)
  /\ elock' = IF o = None THEN elock ELSE [elock EXCEPT ![o] = c]
  /\ entry' = [entry EXCEPT ![call[c].made].team = Current(c)]
  /\ call' = [call EXCEPT ![c].entered = @ + 1, ![c].at = Entered(c),
                          ![c].made = None, ![c].old = None,
                          ![c].drop = IF o = None THEN @ ELSE @ \cup {o}]
  /\ UNCHANGED <<team, lock, logged, calls>>

----------------------------------------------------------------------------
(* finalize. *)

(* BUG: without the transaction, the teams are those already committed. *)
ReadCommitted(c) ==
  /\ call[c].at = "read"
  /\ LET seen == {e \in EntriesSeen(c) : entry[e].by = Db} IN
     call' = [call EXCEPT ![c].at = "lock", ![c].pick = seen,
                          ![c].unsent = {e \in seen : ~entry[e].sent}]
  /\ UNCHANGED <<rows, locks, logged, calls>>

(* The teams with their entries, one entry for each team. *)
ReadTeams(c) ==
  /\ call[c].at = "read"
  /\ TeamsSeen(c) # {}
  /\ \E pick \in SUBSET EntriesOf(c, TeamsSeen(c)) :
       /\ \A t \in TeamsSeen(c) : EntriesOf(c, {t}) # {} =>
            \E e \in pick : entry[e].team = t
       /\ \A e, f \in pick : entry[e].team = entry[f].team => e = f
       /\ call' = [call EXCEPT ![c].at = "lock", ![c].pick = pick,
                               ![c].unsent = {e \in pick : ~entry[e].sent}]
  /\ UNCHANGED <<rows, locks, logged, calls>>

(* BUG: the verdict comes from what was read with the teams. *)
TrustRead(c) ==
  /\ call[c].at = "lock"
  /\ call' = [call EXCEPT ![c].at = "commit", ![c].fresh = call[c].unsent # {}]
  /\ UNCHANGED <<rows, locks, logged, calls>>

(* Their entries FOR UPDATE, and the verdict: nothing is left to be sent. *)
LockEntries(c) ==
  LET locked == EntriesOf(c, {entry[e].team : e \in call[c].pick}) IN
  /\ call[c].at = "lock"
  /\ \A e \in locked : Writable(c, e)
  /\ elock' = [e \in Entry |-> IF e \in locked THEN c ELSE elock[e]]
  /\ call' = [call EXCEPT ![c].at = "commit",
                ![c].fresh = locked = {} \/ \E e \in locked : ~entry[e].sent]
  /\ UNCHANGED <<rows, lock, logged, calls>>

----------------------------------------------------------------------------
(* The end of a transaction. *)

Unlocked(c) ==
  /\ lock' = [t \in Team |-> IF lock[t] = c THEN None ELSE lock[t]]
  /\ elock' = [e \in Entry |-> IF elock[e] = c THEN None ELSE elock[e]]

(* A finalization first stamps the entries it read without sendOn, and     *)
(* writes its Logging row.                                                 *)
Commit(c) ==
  LET stamped == IF call[c].fresh THEN call[c].unsent ELSE {} IN
  /\ call[c].at = "commit"
  /\ \A e \in stamped : Writable(c, e)
  /\ team' = [t \in Team |-> IF team[t].by = c THEN [team[t] EXCEPT !.by = Db]
                             ELSE team[t]]
  /\ entry' = [e \in Entry |->
                [team  |-> IF e \in call[c].drop THEN None ELSE entry[e].team,
                 first |-> entry[e].first,
                 sent  |-> entry[e].sent \/ e \in stamped,
                 by    |-> IF entry[e].by = c THEN Db ELSE entry[e].by]]
  /\ logged' = IF call[c].fresh THEN logged + 1 ELSE logged
  /\ call' = [call EXCEPT ![c] = [Idle EXCEPT !.at = "done"]]
  /\ Unlocked(c)
  /\ UNCHANGED calls

Undo(c) ==
  /\ team' = [t \in Team |-> IF team[t].by = c THEN NoTeam ELSE team[t]]
  /\ entry' = [e \in Entry |-> IF entry[e].by = c THEN NoEntry ELSE entry[e]]
  /\ call' = [call EXCEPT ![c] = Idle]
  /\ UNCHANGED <<logged, calls>>

(* BUG: an error leaves the transaction open. *)
RollbackForgotten(c) ==
  /\ Running(c)
  /\ call' = [call EXCEPT ![c] = Idle]
  /\ UNCHANGED <<rows, locks, logged, calls>>

(* An error of any statement, a refusal, the death of the API. *)
Rollback(c) == Running(c) /\ Undo(c) /\ Unlocked(c)

(* The session waits for what these sessions hold. *)
WaitsFor(c) ==
  CASE call[c].at = "upsert" ->
         LET T == {t \in Found(c) : ~MayReadForUpdate(c, t)} IN
         IF call[c].kind = "submit" /\ Found(c) # {} /\ T = Found(c)
           THEN {lock[t] : t \in T} \cup {entry[e].by : e \in {f \in Entry : entry[f].team \in T}}
           ELSE {}
    [] call[c].at = "attach" ->
         {lock[Current(c)]} \cup (IF call[c].old = None THEN {} ELSE {elock[call[c].old]})
    [] call[c].at = "lock" ->
         {elock[e] : e \in EntriesOf(c, {entry[f].team : f \in call[c].pick})}
    [] call[c].at = "commit" ->
         IF call[c].fresh THEN {elock[e] : e \in call[c].unsent} ELSE {}
    [] OTHER -> {}

Deadlocked(S) == \A c \in S : (WaitsFor(c) \ {c}) \cap S # {}

(* PostgreSQL's deadlock detector fails one of the statements. *)
DeadlockVictim(c) ==
  /\ \E S \in SUBSET Call : c \in S /\ Deadlocked(S)
  /\ Rollback(c)

----------------------------------------------------------------------------
Begin(c) == SubmitEnrollment(c) \/ FinishEventEntry(c) \/ CreateEnrollment(c) \/ CreateTeams(c)
Statement(c) ==
  FindTeam(c) \/ NewTeam(c) \/ KeepEntry(c) \/ MakeEntry(c) \/ ReadOld(c)
    \/ AttachEntry(c) \/ ReadTeams(c) \/ LockEntries(c) \/ Commit(c)

Next == \E c \in Call : Begin(c) \/ Statement(c) \/ Rollback(c)

Spec == Init /\ [][Next]_vars

(* Statements that need not wait return; an error ends the transaction; of *)
(* sessions that wait for each other one is made to fail.                  *)
Stuck(c) == call[c].at = "read" /\ TeamsSeen(c) = {}
Fairness == \A c \in Call :
  /\ WF_vars(Statement(c))
  /\ WF_vars(DeadlockVictim(c))
  /\ WF_vars(Stuck(c) /\ Rollback(c))

FairSpec == Spec /\ Fairness

----------------------------------------------------------------------------
(* Two entries were made for the team: two mutations found none. *)
Crossed(t) == \E e, f \in Entry : e # f /\ entry[e].first = t /\ entry[f].first = t
SentRows == {e \in Entry : entry[e].by = Db /\ entry[e].sent}

(* A finalization that writes a Logging row, and has the mail sent, sent   *)
(* at least one entry that nobody had sent: of two concurrent ones over    *)
(* the same entries one finds nothing to do (enrollment-finalize.service.  *)
(* ts locks the entries before it decides).  Outside the claim: teams of   *)
(* which two mutations made the entry, and a club none of whose teams had  *)
(* an entry.                                                               *)
LogHasNews ==
  [][\A c \in Call :
       logged' # logged /\ call[c].at = "commit" /\ call'[c].at = "done" =>
         \/ \E e \in SentRows' : e \notin SentRows
         \/ call[c].pick = {}
         \/ \E t \in Team : Crossed(t)]_vars

(* When a submission commits, every team of its input has an entry that is *)
(* sent, although the finalization reads the teams before it locks their   *)
(* entries and stamps what it read then.                                   *)
SubmittedIsSent ==
  [][\A c \in Call :
       call[c].at = "commit" /\ call[c].kind = "submit" /\ call'[c].at = "done" =>
         \A i \in 1 .. Len(call[c].teams) :
           \/ \E e \in SentRows' : entry'[e].team = call[c].teams[i]
           \/ Crossed(call[c].teams[i])]_vars

(* An entry that was sent stays sent, and stays with its team: setEntry    *)
(* reads the entry of the team again and takes away what it finds, but it  *)
(* finds one only if another mutation made an entry for that team too.     *)
SentStays ==
  [][\A e \in SentRows :
       /\ e \in SentRows'
       /\ entry'[e].team = entry[e].team \/ Crossed(entry[e].first)]_vars

(* Every mutation ends, although submissions lock teams and entries in the *)
(* order of their input: no row lock outlives its transaction, and a       *)
(* deadlock is broken.                                                     *)
CallEnds == \A c \in Call : Running(c) ~> ~Running(c)
=============================================================================
