-------------------------- MODULE EncounterChange --------------------------
(***************************************************************************)
(* The negotiation about the date of one encounter                         *)
(* (backend-graphql, encounter-change.service.ts and the mutation          *)
(* adminChangeEncounterDate of encounter.resolver.ts).                     *)
(*                                                                         *)
(* Both clubs propose dates in a change request; the away club triages     *)
(* them (endorse, reject, counter); the home club finalizes one; an        *)
(* administrator may set the date over everybody's head.  Each operation   *)
(* is a chain of awaits: it reads rows, partly before its transaction, and *)
(* writes what follows from them.  PostgreSQL runs at READ COMMITTED and   *)
(* no row is locked for reading, so a writer does not look again: its      *)
(* writes take effect together, at the commit, over whatever is there.     *)
(* Sequelize writes only the attributes that differ from the loaded ones.  *)
(*                                                                         *)
(* An operation of a session is a task with the step it does next.  A date *)
(* of a request (an EncounterChangeDate) is a row.  Abstracted: permission *)
(* checks (every caller has them), locations, originalDate, lastActionBy,  *)
(* notifications and the audit log; a proposal and a triage carry at most  *)
(* one new date; the verdict of the validation may be anything (Abort).    *)
(* The event sync, which also writes encounter.date, is in DateSync.       *)
(***************************************************************************)
EXTENDS Naturals

CONSTANTS
  Date,        \* the dates that come into play
  Scheduled,   \* the date of the encounter at first
  NoDate,      \* no date
  Row,         \* the EncounterChangeDate rows that can exist
  NoRow,       \* no row
  Session,     \* operations that can overlap
  MaxRequest,  \* bound on the EncounterChange rows
  MaxBegun     \* bound on the operations that begin

ASSUME ConstantTypes ==
  /\ Scheduled \in Date /\ NoDate \notin Date
  /\ NoRow \notin Row
  /\ MaxRequest \in Nat /\ MaxBegun \in Nat

VARIABLES
  date,      \* EncounterCompetition.date
  closed,    \* the deadline for date changes has passed
  requests,  \* EncounterChange rows, numbered in the order of createdAt
  created,   \* number of the last one created, committed or not
  request,   \* request[r], offered[r], by[r], status[r]: the columns of row
  offered,   \*   r: encounterChangeId, date, proposedBy and status;
  by,        \*   status "none" stands for a row that is not there
  status,
  task,      \* the operation of each session
  endorsed,  \* history: rows the away team endorsed
  imposed,   \* history: rows an administrator inserted
  raced,     \* history: two operations have overlapped
  begun      \* operations begun so far

table == <<requests, request, offered, by, status>>
history == <<endorsed, imposed>>
vars == <<date, closed, table, created, task, history, raced, begun>>

Party == {"HOME", "AWAY"}
Live == {"PENDING", "TENTATIVELY_ACCEPTED"}
Status == Live \cup {"none", "ACCEPTED", "REJECTED", "RESOLVED"}

Step == {"idle", "latest", "dates", "existing", "insert",  \* propose
         "triage", "triaged",                              \* triage
         "siblings", "accept",                             \* finalize
         "find", "open", "impose"}                         \* administrator

(* What an operation carries from one await to the next. *)
Task == [step : Step,
         party : Party,               \* on whose behalf it proposes
         date : Date \cup {NoDate},   \* the new date it brings
         request : 0 .. MaxRequest,   \* the request it works on
         row : Row \cup {NoRow},      \* the row it finalizes ...
         was : Status,                \* ... with the status it was loaded
         seen : Date \cup {NoDate},   \* the loaded date of the encounter
         endorse : SUBSET Row,        \* rows it will endorse
         close : SUBSET Row]          \* rows it will reject or resolve

Idle == [step |-> "idle", party |-> "HOME", date |-> NoDate, request |-> 0,
         row |-> NoRow, was |-> "none", seen |-> NoDate,
         endorse |-> {}, close |-> {}]

TypeOK ==
  /\ date \in Date
  /\ closed \in BOOLEAN /\ raced \in BOOLEAN
  /\ requests \subseteq 1 .. MaxRequest
  /\ created \in 0 .. MaxRequest
  /\ request \in [Row -> requests \cup {0}]
  /\ offered \in [Row -> Date \cup {NoDate}]
  /\ \A r \in Row : status[r] = "none" <=> offered[r] = NoDate
  /\ by \in [Row -> Party]
  /\ status \in [Row -> Status]
  /\ task \in [Session -> Task]
  /\ endorsed \subseteq Row /\ imposed \subseteq Row
  /\ begun \in 0 .. MaxBegun

Init ==
  /\ date = Scheduled
  /\ closed = FALSE /\ raced = FALSE
  /\ requests = {} /\ created = 0
  /\ request = [r \in Row |-> 0]
  /\ offered = [r \in Row |-> NoDate]
  /\ by = [r \in Row |-> "HOME"]
  /\ status = [r \in Row |-> "none"]
  /\ task = [s \in Session |-> Idle]
  /\ endorsed = {} /\ imposed = {} /\ begun = 0

(* The rows of request c with a status in S. *)
RowsOf(c, S) == {r \in Row : request[r] = c /\ status[r] \in S}

(* The operation of session s begins with task t. *)
Begin(s, t) ==
  /\ task[s] = Idle /\ begun < MaxBegun
  /\ task' = [task EXCEPT ![s] = t]
  /\ begun' = begun + 1
  /\ raced' = (raced \/ \E o \in Session \ {s} : task[o] # Idle)
  /\ UNCHANGED <<date, closed, table, created, history>>

(* The operation goes on with task t, having read but not written. *)
Continue(s, t) ==
  /\ task' = [task EXCEPT ![s] = t]
  /\ UNCHANGED <<date, closed, table, history, raced, begun>>

End(s) ==
  /\ task' = [task EXCEPT ![s] = Idle]
  /\ UNCHANGED <<closed, created, raced, begun>>

(* EncounterChange.create: the number is taken, the row is not yet visible. *)
NewRequest(s, step) ==
  /\ created < MaxRequest
  /\ created' = created + 1
  /\ Continue(s, [task[s] EXCEPT !.step = step, !.request = created + 1])

(* EncounterChangeDate.create of row r; S is the status of all rows after  *)
(* the other writes of the transaction.                                    *)
InsertRow(r, c, d, p, st, S) ==
  /\ status[r] = "none"
  /\ request' = [request EXCEPT ![r] = c]
  /\ offered' = [offered EXCEPT ![r] = d]
  /\ by' = [by EXCEPT ![r] = p]
  /\ status' = [S EXCEPT ![r] = st]

(* The status of the rows after those of E become e and those of C become c. *)
Marked(E, e, C, c) ==
  [r \in Row |-> IF r \in C THEN c ELSE IF r \in E THEN e ELSE status[r]]

-----------------------------------------------------------------------------
(* propose *)

(* The deadline is checked before the transaction begins. *)
Propose(s, p, d) ==
  /\ ~closed
  /\ Begin(s, [Idle EXCEPT !.step = "latest", !.party = p, !.date = d])

(* findOne ordered by createdAt: the newest committed request, or none. *)
ReadLatest(s) ==
  /\ task[s].step = "latest"
  /\ \E c \in requests \cup {0} :
       /\ \A o \in requests : o <= c
       /\ Continue(s, [task[s] EXCEPT !.step = "dates", !.request = c])
  /\ UNCHANGED created

(* A request with an accepted date is over; the proposal opens a new one. *)
ReadDates(s) ==
  /\ task[s].step = "dates"
  /\ LET c == task[s].request IN
     IF c = 0 \/ RowsOf(c, {"ACCEPTED"}) # {}
     THEN NewRequest(s, "existing")
     ELSE /\ Continue(s, [task[s] EXCEPT !.step = "existing"])
          /\ UNCHANGED created

(* A date that the request already has is refused. *)
ReadExisting(s) ==
  /\ task[s].step = "existing"
  /\ \A r \in RowsOf(task[s].request, Status \ {"none", "REJECTED"}) :
       offered[r] # task[s].date
  /\ Continue(s, [task[s] EXCEPT !.step = "insert"])
  /\ UNCHANGED created

CommitProposal(s, r) ==
  /\ task[s].step = "insert"
  /\ requests' = requests \cup {task[s].request}
  /\ InsertRow(r, task[s].request, task[s].date, task[s].party, "PENDING",
               status)
  /\ End(s)
  /\ UNCHANGED <<date, history>>

-----------------------------------------------------------------------------
(* triage *)

Triage(s, c, d) ==
  /\ ~closed
  /\ c \in requests
  /\ Begin(s, [Idle EXCEPT !.step = "triage", !.request = c, !.date = d])

(* The dates are read in the transaction: endorsed is what is pending,     *)
(* rejected what is live (a date in both lists ends rejected).             *)
TriageReads(s, E, R) ==
  /\ task[s].step = "triage"
  /\ E \subseteq RowsOf(task[s].request, {"PENDING"})
  /\ R \subseteq RowsOf(task[s].request, Live) \ E
  /\ Continue(s, [task[s] EXCEPT !.step = "triaged", !.endorse = E,
                                 !.close = R])
  /\ UNCHANGED created

(* Bug: a counter-date is inserted also when the triage brings none. *)
CommitTriageAlways(s) ==
  /\ task[s].step = "triaged"
  /\ LET t == task[s]
         S == Marked(t.endorse, "TENTATIVELY_ACCEPTED", t.close, "REJECTED")
     IN  /\ endorsed' = endorsed \cup t.endorse
         /\ \E r \in Row : InsertRow(r, t.request, t.date, "AWAY", "PENDING", S)
  /\ End(s)
  /\ UNCHANGED <<date, requests, imposed>>

(* The writes and, when the triage brings one, the counter-date. *)
CommitTriage(s) ==
  /\ task[s].step = "triaged"
  /\ LET t == task[s]
         S == Marked(t.endorse, "TENTATIVELY_ACCEPTED", t.close, "REJECTED")
     IN  /\ endorsed' = endorsed \cup t.endorse
         /\ IF t.date = NoDate
            THEN /\ status' = S
                 /\ UNCHANGED <<request, offered, by>>
            ELSE \E r \in Row :
                   InsertRow(r, t.request, t.date, "AWAY", "PENDING", S)
  /\ End(s)
  /\ UNCHANGED <<date, requests, imposed>>

-----------------------------------------------------------------------------
(* finalize *)

(* Bug: the endorsement of the away team is not asked for. *)
FinalizeAnything(s, r) ==
  /\ ~closed
  /\ status[r] # "none"
  /\ Begin(s, [Idle EXCEPT !.step = "siblings", !.row = r,
                 !.request = request[r], !.was = status[r], !.seen = date])

(* Bug: whatever is not pending any more counts as endorsed. *)
FinalizeUnlessPending(s, r) ==
  /\ ~closed
  /\ status[r] # "none"
  /\ status[r] # "PENDING" \/ by[r] = "AWAY"
  /\ Begin(s, [Idle EXCEPT !.step = "siblings", !.row = r,
                 !.request = request[r], !.was = status[r], !.seen = date])

(* Row and encounter are loaded, and the endorsement, the deadline and the *)
(* rules of the competition are checked, before the transaction.           *)
Finalize(s, r) ==
  /\ ~closed
  /\ status[r] # "none"
  /\ status[r] = "TENTATIVELY_ACCEPTED" \/ by[r] = "AWAY"
  /\ Begin(s, [Idle EXCEPT !.step = "siblings", !.row = r,
                 !.request = request[r], !.was = status[r], !.seen = date])

ReadSiblings(s) ==
  /\ task[s].step = "siblings"
  /\ Continue(s, [task[s] EXCEPT !.step = "accept",
                    !.close = RowsOf(task[s].request, Live) \ {task[s].row}])
  /\ UNCHANGED created

(* A row loaded as accepted and a date equal to the loaded one are not     *)
(* written: Sequelize finds them unchanged.                                *)
CommitFinal(s) ==
  /\ task[s].step = "accept"
  /\ LET t == task[s] IN
     /\ status' = Marked(IF t.was = "ACCEPTED" THEN {} ELSE {t.row},
                         "ACCEPTED", t.close, "RESOLVED")
     /\ date' = IF t.seen = offered[t.row] THEN date ELSE offered[t.row]
  /\ End(s)
  /\ UNCHANGED <<requests, request, offered, by, history>>

-----------------------------------------------------------------------------
(* adminChangeEncounterDate and resolveProposalsForAdminChange *)

AdminChange(s, d) ==
  Begin(s, [Idle EXCEPT !.step = "find", !.date = d, !.seen = date])

(* findOne without an order: any request of the encounter, or a new one. *)
FindRequest(s) ==
  /\ task[s].step = "find"
  /\ IF requests = {}
     THEN NewRequest(s, "open")
     ELSE /\ \E c \in requests :
               Continue(s, [task[s] EXCEPT !.step = "open", !.request = c])
          /\ UNCHANGED created

ReadOpen(s) ==
  /\ task[s].step = "open"
  /\ Continue(s, [task[s] EXCEPT !.step = "impose",
                                 !.close = RowsOf(task[s].request, Live)])
  /\ UNCHANGED created

CommitAdmin(s, r) ==
  /\ task[s].step = "impose"
  /\ LET t == task[s] IN
     /\ requests' = requests \cup {t.request}
     /\ InsertRow(r, t.request, t.date, "HOME", "ACCEPTED",
                  Marked({}, "none", t.close, "RESOLVED"))
     /\ date' = IF t.seen = t.date THEN date ELSE t.date
  /\ imposed' = imposed \cup {r}
  /\ End(s)
  /\ UNCHANGED endorsed

-----------------------------------------------------------------------------
(* The operation throws (a refused input, the validation, the database or  *)
(* the death of the API) and its transaction is rolled back.               *)
Abort(s) ==
  /\ task[s] # Idle
  /\ End(s)
  /\ UNCHANGED <<date, table, history>>

Close ==
  /\ ~closed
  /\ closed' = TRUE
  /\ UNCHANGED <<date, table, created, task, history, raced, begun>>

ProposeSteps(s) ==
  \/ \E p \in Party, d \in Date : Propose(s, p, d)
  \/ ReadLatest(s) \/ ReadDates(s) \/ ReadExisting(s)
  \/ \E r \in Row : CommitProposal(s, r)

TriageSteps(s) ==
  \/ \E c \in 1 .. MaxRequest, d \in Date \cup {NoDate} : Triage(s, c, d)
  \/ \E E, R \in SUBSET Row : TriageReads(s, E, R)
  \/ CommitTriage(s)

FinalizeSteps(s) ==
  \/ \E r \in Row : Finalize(s, r)
  \/ ReadSiblings(s) \/ CommitFinal(s)

AdminSteps(s) ==
  \/ \E d \in Date : AdminChange(s, d)
  \/ FindRequest(s) \/ ReadOpen(s)
  \/ \E r \in Row : CommitAdmin(s, r)

Next ==
  \/ \E s \in Session : \/ ProposeSteps(s) \/ TriageSteps(s)
                        \/ FinalizeSteps(s) \/ AdminSteps(s) \/ Abort(s)
  \/ Close

Spec == Init /\ [][Next]_vars

-----------------------------------------------------------------------------
(* The away team backs the date of row r: it proposed or endorsed it. *)
BackedByAway(r) == \/ status[r] # "none" /\ by[r] = "AWAY"
                   \/ r \in endorsed

(* Whatever operations overlap, an accepted date that no administrator     *)
(* inserted was proposed or endorsed by the away team (FR-012).            *)
AcceptedWasAgreed ==
  \A r \in Row : status[r] = "ACCEPTED" => BackedByAway(r) \/ r \in imposed

(* As long as no two operations overlapped, a date of the home team that   *)
(* is finalized is endorsed at that moment: an endorsement withdrawn       *)
(* (rejected) or resolved is none, and does not come back.                 *)
EndorsementStands ==
  [][\A r \in Row : ~raced' /\ status[r] # "ACCEPTED" /\ status'[r] = "ACCEPTED"
        => \/ by'[r] = "AWAY" \/ r \in imposed'
           \/ status[r] = "TENTATIVELY_ACCEPTED"]_vars

BackedDates == {offered[r] : r \in {o \in Row : BackedByAway(o)}}
ImposedDates == {offered[r] : r \in imposed}

Agreed == INSTANCE AgreedDate WITH backed <- BackedDates,
                                   imposed <- ImposedDates

(* Every step is a step of AgreedDate: the encounter moves only to a date  *)
(* the away team backed or an administrator imposes, and neither backing   *)
(* nor imposing is ever forgotten.                                         *)
ImplementsAgreement == Agreed!Spec
=============================================================================
