----------------------- MODULE EncounterChangeProofs -----------------------
(***************************************************************************)
(* Proofs about EncounterChange, for any number of dates, rows, requests   *)
(* and overlapping operations: the tables are well formed, an accepted     *)
(* date was backed by the away team or imposed, an endorsement stands      *)
(* while operations do not overlap, and the negotiation implements         *)
(* AgreedDate.  The last part is about DateSync, the date after that.      *)
(***************************************************************************)
EXTENDS EncounterChange, TLAPS

Proposing == {"latest", "dates", "existing", "insert"}
Imposing == {"find", "open", "impose"}

(* What an operation with task t relies on while the others go on: its     *)
(* date, its request and its rows exist, and a row it will accept is       *)
(* backed by the away team.                                                *)
Ready(t) ==
  /\ t.step \in Proposing \cup Imposing => t.date \in Date
  /\ t.step \in {"existing", "insert", "open", "impose"}
       => t.request \in 1 .. MaxRequest
  /\ t.step \in {"triage", "triaged"} => t.request \in requests
  /\ t.step \in {"siblings", "accept"}
       => t.row \in Row /\ status[t.row] # "none" /\ BackedByAway(t.row)
  /\ \A r \in t.endorse \cup t.close : status[r] # "none"

Tasks == task \in [Session -> Task] /\ \A s \in Session : Ready(task[s])

(* The tables; the flags of TypeOK are proved apart. *)
Tables ==
  /\ date \in Date
  /\ requests \subseteq 1 .. MaxRequest
  /\ created \in 0 .. MaxRequest
  /\ request \in [Row -> requests \cup {0}]
  /\ offered \in [Row -> Date \cup {NoDate}]
  /\ \A r \in Row : status[r] = "none" <=> offered[r] = NoDate
  /\ by \in [Row -> Party]
  /\ status \in [Row -> Status]
  /\ endorsed \subseteq Row /\ imposed \subseteq Row
  /\ \A r \in endorsed \cup imposed : status[r] # "none"
  /\ begun \in 0 .. MaxBegun

Flags == closed \in BOOLEAN /\ raced \in BOOLEAN

(* A tentatively accepted row was endorsed. *)
Tentative ==
  \A r \in Row : status[r] = "TENTATIVELY_ACCEPTED" => r \in endorsed

IInv == Tables /\ Tasks /\ Tentative /\ AcceptedWasAgreed

(* Rows are never removed, moved or attributed to somebody else. *)
Stays ==
  /\ \A r \in Row : status[r] # "none" =>
       status'[r] # "none" /\ offered'[r] = offered[r] /\ by'[r] = by[r]
  /\ requests \subseteq requests'
  /\ endorsed \subseteq endorsed' /\ imposed \subseteq imposed'

(* The columns of the rows stay well formed, and the old rows what they were. *)
RowsKept ==
  /\ request' \in [Row -> requests' \cup {0}]
  /\ offered' \in [Row -> Date \cup {NoDate}]
  /\ by' \in [Row -> Party]
  /\ status' \in [Row -> Status]
  /\ \A o \in Row : status'[o] = "none" <=> offered'[o] = NoDate
  /\ \A o \in Row : status[o] # "none" =>
       status'[o] # "none" /\ offered'[o] = offered[o] /\ by'[o] = by[o]

-----------------------------------------------------------------------------
LEMMA IdleIsTask == Idle \in Task /\ Idle.step = "idle"
BY ConstantTypes DEF Idle, Task, Step, Party, Status, Live

LEMMA InitOK == Init => IInv
<1> SUFFICES ASSUME Init PROVE IInv
  OBVIOUS
<1>1. Tables
  BY ConstantTypes DEF Init, Tables, Party, Status, Live
<1>2. Tasks
  <2>1. ASSUME NEW s \in Session PROVE Ready(task[s])
    BY DEF Init, Ready, Idle, Proposing, Imposing
  <2> QED
    BY <2>1, IdleIsTask DEF Init, Tasks
<1>3. AcceptedWasAgreed
  BY DEF Init, AcceptedWasAgreed
<1>4. Tentative
  BY DEF Init, Tentative
<1> QED
  BY <1>1, <1>2, <1>3, <1>4 DEF IInv

(* The facts a step leaves alone suffice for the others' tasks. *)
LEMMA OthersReady ==
  ASSUME Tables, Tasks, Stays, NEW s \in Session, task'[s] = task[s]
  PROVE  Ready(task[s])'
<1>1. Ready(task[s]) /\ task[s] \in Task
  BY DEF Tasks
<1>2. \A r \in task[s].endorse \cup task[s].close : r \in Row
  BY <1>1 DEF Task
<1> QED
  BY <1>1, <1>2 DEF Ready, Stays, BackedByAway

(* A step that changes one task only. *)
LEMMA OneTask ==
  ASSUME Tables, Tasks, Stays, NEW s \in Session, NEW t \in Task,
         task' = [task EXCEPT ![s] = t], Ready(task[s])'
  PROVE  Tasks'
<1>1. task' \in [Session -> Task]
  BY DEF Tasks
<1>2. ASSUME NEW o \in Session PROVE Ready(task[o])'
  <2>1. CASE o = s
    BY <2>1
  <2>2. CASE o # s
    BY <2>2, OthersReady DEF Tasks
  <2> QED
    BY <2>1, <2>2
<1> QED
  BY <1>1, <1>2 DEF Tasks

(* An operation that reads, begins or ends without writing. *)
LEMMA NoWrite ==
  ASSUME IInv, NEW s \in Session, NEW t \in Task,
         task' = [task EXCEPT ![s] = t],
         UNCHANGED <<date, table, history>>,
         created' \in 0 .. MaxRequest, begun' \in 0 .. MaxBegun, Ready(t)
  PROVE  IInv'
<1>1. Tables'
  BY DEF IInv, Tables, table, history
<1>2. Stays
  BY DEF Stays, table, history
<1>3. task'[s] = t
  BY DEF IInv, Tasks
<1>4. Ready(task[s])'
  BY <1>3 DEF Ready, BackedByAway, table, history
<1>5. Tasks'
  BY <1>2, <1>4, OneTask DEF IInv
<1>6. AcceptedWasAgreed' /\ Tentative'
  BY DEF IInv, AcceptedWasAgreed, Tentative, BackedByAway, table, history
<1> QED
  BY <1>1, <1>5, <1>6 DEF IInv

LEMMA IdleReady == Ready(Idle)
BY DEF Ready, Idle, Proposing, Imposing

LEMMA BeginStep ==
  ASSUME IInv, NEW s \in Session, NEW t \in Task, Begin(s, t), Ready(t)
  PROVE  IInv'
<1>1. created' \in 0 .. MaxRequest /\ begun' \in 0 .. MaxBegun
  BY ConstantTypes DEF IInv, Tables, Begin
<1> QED
  BY <1>1, NoWrite DEF Begin

LEMMA ContinueStep ==
  ASSUME IInv, NEW s \in Session, NEW t \in Task, Continue(s, t), Ready(t),
         created' \in 0 .. MaxRequest
  PROVE  IInv'
<1>1. begun' \in 0 .. MaxBegun
  BY DEF IInv, Tables, Continue
<1> QED
  BY <1>1, NoWrite DEF Continue

(* What an operation may note while it goes on. *)
LEMMA Noting ==
  ASSUME NEW u \in Task, NEW st \in Step, NEW c \in 0 .. MaxRequest,
         NEW E \in SUBSET Row, NEW C \in SUBSET Row
  PROVE  /\ [u EXCEPT !.step = st] \in Task
         /\ [u EXCEPT !.step = st, !.request = c] \in Task
         /\ [u EXCEPT !.step = st, !.close = C] \in Task
         /\ [u EXCEPT !.step = st, !.endorse = E, !.close = C] \in Task
BY DEF Task

LEMMA NewRequestStep ==
  ASSUME IInv, NEW s \in Session, NEW st \in {"existing", "open"},
         task[s].step \in {"dates", "find"}, NewRequest(s, st)
  PROVE  IInv'
<1> DEFINE t == [task[s] EXCEPT !.step = st, !.request = created + 1]
<1>1. task[s] \in Task /\ Ready(task[s])
  BY DEF IInv, Tasks
<1>2. created' \in 0 .. MaxRequest /\ created + 1 \in 1 .. MaxRequest
      /\ created + 1 \in 0 .. MaxRequest
  BY ConstantTypes DEF NewRequest, IInv, Tables
<1>3. t \in Task
  BY <1>1, <1>2, Noting DEF Step
<1>4. /\ t.step = st /\ t.request = created + 1 /\ t.date = task[s].date
      /\ t.endorse = task[s].endorse /\ t.close = task[s].close
  BY <1>1 DEF Task
<1>5. Ready(t)
  <2> HIDE DEF t
  <2> QED
    BY <1>1, <1>2, <1>4 DEF Ready, Proposing, Imposing
<1>6. Continue(s, t)
  BY DEF NewRequest
<1> HIDE DEF t
<1> QED
  BY <1>2, <1>3, <1>5, <1>6, ContinueStep

-----------------------------------------------------------------------------
(* The writes of a transaction. *)
LEMMA EndTasks ==
  ASSUME IInv, Stays, NEW s \in Session, End(s)
  PROVE  Tasks'
<1>1. task' = [task EXCEPT ![s] = Idle] /\ task'[s] = Idle
  BY DEF End, IInv, Tasks
<1>2. Ready(task[s])'
  BY <1>1 DEF Ready, Idle, Proposing, Imposing
<1> QED
  BY <1>1, <1>2, OneTask, IdleIsTask DEF IInv

LEMMA MarkedKeeps ==
  ASSUME Tables, NEW E, NEW C, NEW e \in Status \ {"none"}, NEW c \in Status \ {"none"},
         \A r \in E \cup C : status[r] # "none"
  PROVE  /\ Marked(E, e, C, c) \in [Row -> Status]
         /\ \A r \in Row : Marked(E, e, C, c)[r] = "none" <=> status[r] = "none"
BY DEF Tables, Marked

LEMMA Inserted ==
  ASSUME Tables, NEW r \in Row, NEW c, NEW d \in Date, NEW p \in Party,
         NEW st \in Status \ {"none"}, NEW S \in [Row -> Status],
         \A o \in Row : S[o] = "none" <=> status[o] = "none",
         InsertRow(r, c, d, p, st, S), c \in requests', requests \subseteq requests'
  PROVE  /\ RowsKept
         /\ status[r] = "none"
         /\ status'[r] = st /\ by'[r] = p /\ offered'[r] = d
         /\ \A o \in Row \ {r} : /\ status'[o] = S[o]
                                 /\ by'[o] = by[o] /\ offered'[o] = offered[o]
<1>1. /\ request' = [request EXCEPT ![r] = c]
      /\ offered' = [offered EXCEPT ![r] = d]
      /\ by' = [by EXCEPT ![r] = p]
      /\ status' = [S EXCEPT ![r] = st]
      /\ status[r] = "none"
  BY DEF InsertRow
<1>2. request' \in [Row -> requests' \cup {0}]
  BY <1>1 DEF Tables
<1>3. /\ offered' \in [Row -> Date \cup {NoDate}]
      /\ by' \in [Row -> Party]
      /\ status' \in [Row -> Status]
  BY <1>1 DEF Tables
<1>4. /\ status'[r] = st /\ by'[r] = p /\ offered'[r] = d
      /\ \A o \in Row \ {r} : /\ status'[o] = S[o]
                              /\ by'[o] = by[o] /\ offered'[o] = offered[o]
  BY <1>1 DEF Tables
<1>5. \A o \in Row : status'[o] = "none" <=> offered'[o] = NoDate
  BY <1>4, ConstantTypes DEF Tables
<1>6. \A o \in Row : status[o] # "none" =>
        status'[o] # "none" /\ offered'[o] = offered[o] /\ by'[o] = by[o]
  BY <1>1, <1>4
<1> QED
  BY <1>1, <1>2, <1>3, <1>4, <1>5, <1>6 DEF RowsKept

(* A row is accepted by a step only when it is backed or imposed. *)
LEMMA AcceptedKept ==
  ASSUME AcceptedWasAgreed, Stays,
         \A r \in Row : /\ status'[r] = "ACCEPTED"
                        /\ status[r] # "ACCEPTED"
                        => BackedByAway(r)' \/ r \in imposed'
  PROVE  AcceptedWasAgreed'
BY DEF AcceptedWasAgreed, BackedByAway, Stays

LEMMA ProposalStep ==
  ASSUME IInv, NEW s \in Session, NEW r \in Row, CommitProposal(s, r)
  PROVE  IInv' /\ Stays
<1> DEFINE t == task[s]
<1>1. t \in Task /\ t.date \in Date /\ t.request \in 1 .. MaxRequest
  BY DEF IInv, Tasks, Ready, Proposing, CommitProposal
<1>2. /\ InsertRow(r, t.request, t.date, t.party, "PENDING", status)
      /\ requests' = requests \cup {t.request}
      /\ UNCHANGED <<date, created, begun, endorsed, imposed>>
  BY DEF CommitProposal, End, history
<1>3. /\ t.party \in Party /\ "PENDING" \in Status \ {"none"}
      /\ Tables /\ status \in [Row -> Status]
      /\ t.request \in requests' /\ requests \subseteq requests'
  BY <1>1, <1>2 DEF Task, Status, Live, IInv, Tables
<1> HIDE DEF t
<1>4. /\ RowsKept
      /\ status'[r] = "PENDING"
      /\ \A o \in Row \ {r} : status'[o] = status[o]
  BY <1>1, <1>2, <1>3, Inserted
<1>5. Stays
  BY <1>2, <1>4 DEF Stays, RowsKept
<1>6. Tables'
  BY <1>1, <1>2, <1>3, <1>4 DEF Tables, RowsKept
<1>7. Tasks'
  BY <1>5, EndTasks DEF CommitProposal
<1>8. AcceptedWasAgreed'
  BY <1>4, <1>5, AcceptedKept DEF IInv
<1>9. Tentative'
  BY <1>2, <1>4 DEF IInv, Tentative
<1> QED
  BY <1>5, <1>6, <1>7, <1>8, <1>9 DEF IInv

LEMMA TriageStep ==
  ASSUME IInv, NEW s \in Session, CommitTriage(s)
  PROVE  IInv' /\ Stays
<1> DEFINE t == task[s]
           S == Marked(t.endorse, "TENTATIVELY_ACCEPTED", t.close, "REJECTED")
<1>1. /\ t \in Task /\ t.request \in requests
      /\ \A r \in t.endorse \cup t.close : status[r] # "none"
  BY DEF IInv, Tasks, Ready, CommitTriage
<1>2. /\ t.endorse \subseteq Row /\ t.date \in Date \cup {NoDate}
      /\ Tables /\ requests \subseteq requests'
      /\ requests' = requests /\ endorsed' = endorsed \cup t.endorse
      /\ UNCHANGED <<date, created, begun, imposed>>
  BY <1>1 DEF Task, IInv, CommitTriage, End
<1>3. /\ S \in [Row -> Status]
      /\ \A o \in Row : S[o] = "none" <=> status[o] = "none"
  BY <1>1, <1>2, MarkedKeeps DEF Status, Live
<1>4. \A o \in Row :
        /\ S[o] = "ACCEPTED" => status[o] = "ACCEPTED"
        /\ S[o] = "TENTATIVELY_ACCEPTED"
             => status[o] = "TENTATIVELY_ACCEPTED" \/ o \in t.endorse
  BY DEF Marked
<1>5. \/ status' = S /\ UNCHANGED <<request, offered, by>>
      \/ \E r \in Row :
           /\ t.date # NoDate
           /\ InsertRow(r, t.request, t.date, "AWAY", "PENDING", S)
  BY DEF CommitTriage
<1> HIDE DEF t, S
<1>6. /\ RowsKept
      /\ \A o \in Row :
           /\ status'[o] = "ACCEPTED" => status[o] = "ACCEPTED"
           /\ status'[o] = "TENTATIVELY_ACCEPTED"
                => status[o] = "TENTATIVELY_ACCEPTED" \/ o \in t.endorse
  <2>1. CASE status' = S /\ UNCHANGED <<request, offered, by>>
    BY <1>2, <1>3, <1>4, <2>1 DEF Tables, RowsKept
  <2>2. ASSUME NEW r \in Row, t.date # NoDate,
               InsertRow(r, t.request, t.date, "AWAY", "PENDING", S)
        PROVE  /\ RowsKept
               /\ \A o \in Row :
                    /\ status'[o] = "ACCEPTED" => status[o] = "ACCEPTED"
                    /\ status'[o] = "TENTATIVELY_ACCEPTED"
                         => status[o] = "TENTATIVELY_ACCEPTED" \/ o \in t.endorse
    <3>1. /\ "AWAY" \in Party /\ "PENDING" \in Status \ {"none"}
          /\ t.date \in Date /\ t.request \in requests'
      BY <1>1, <1>2, <2>2 DEF Party, Status, Live
    <3> QED
      BY <1>2, <1>3, <1>4, <2>2, <3>1, Inserted
  <2> QED
    BY <1>5, <2>1, <2>2
<1>7. Stays
  BY <1>2, <1>6 DEF Stays, RowsKept
<1>8. Tables'
  BY <1>1, <1>2, <1>6 DEF Tables, RowsKept
<1>9. Tasks'
  BY <1>7, EndTasks DEF CommitTriage
<1>10. AcceptedWasAgreed'
  BY <1>6, <1>7, AcceptedKept DEF IInv
<1>11. Tentative'
  BY <1>2, <1>6 DEF IInv, Tentative
<1> QED
  BY <1>7, <1>8, <1>9, <1>10, <1>11 DEF IInv

LEMMA FinalStep ==
  ASSUME IInv, NEW s \in Session, CommitFinal(s)
  PROVE  IInv' /\ Stays
<1> DEFINE t == task[s]
           E == IF t.was = "ACCEPTED" THEN {} ELSE {t.row}
<1>1. /\ t \in Task /\ t.row \in Row /\ status[t.row] # "none"
      /\ BackedByAway(t.row)
      /\ \A r \in t.close : status[r] # "none"
  BY DEF IInv, Tasks, Ready, CommitFinal
<1>2. /\ Tables
      /\ status' = Marked(E, "ACCEPTED", t.close, "RESOLVED")
      /\ date' = IF t.seen = offered[t.row] THEN date ELSE offered[t.row]
      /\ UNCHANGED <<requests, created, begun, request, offered, by, endorsed,
                     imposed>>
  BY DEF IInv, CommitFinal, End, history
<1>3. \A r \in E \cup t.close : status[r] # "none"
  BY <1>1
<1>4. \A o \in Row :
        /\ status'[o] = "ACCEPTED" /\ status[o] # "ACCEPTED" => o = t.row
        /\ status'[o] = "TENTATIVELY_ACCEPTED" => status[o] = "TENTATIVELY_ACCEPTED"
  BY <1>2 DEF Marked
<1> HIDE DEF t, E
<1>5. /\ status' \in [Row -> Status]
      /\ \A o \in Row : status'[o] = "none" <=> status[o] = "none"
  BY <1>2, <1>3, MarkedKeeps DEF Status, Live
<1>6. Stays
  BY <1>2, <1>5 DEF Stays
<1>7. date' \in Date
  BY <1>1, <1>2 DEF Tables
<1>8. Tables'
  BY <1>2, <1>5, <1>7 DEF Tables
<1>9. Tasks'
  BY <1>6, EndTasks DEF CommitFinal
<1>10. \A r \in Row : BackedByAway(r) => BackedByAway(r)'
  BY <1>2, <1>5 DEF BackedByAway
<1>11. AcceptedWasAgreed'
  BY <1>1, <1>4, <1>6, <1>10, AcceptedKept DEF IInv
<1>12. Tentative'
  BY <1>2, <1>4 DEF IInv, Tentative
<1> QED
  BY <1>6, <1>8, <1>9, <1>11, <1>12 DEF IInv

LEMMA AdminStep ==
  ASSUME IInv, NEW s \in Session, NEW r \in Row, CommitAdmin(s, r)
  PROVE  IInv' /\ Stays
<1> DEFINE t == task[s]
           S == Marked({}, "none", t.close, "RESOLVED")
<1>1. /\ t \in Task /\ t.date \in Date /\ t.request \in 1 .. MaxRequest
      /\ \A o \in t.close : status[o] # "none"
  BY DEF IInv, Tasks, Ready, Imposing, CommitAdmin
<1>2. /\ InsertRow(r, t.request, t.date, "HOME", "ACCEPTED", S)
      /\ requests' = requests \cup {t.request}
      /\ imposed' = imposed \cup {r}
      /\ date' = IF t.seen = t.date THEN date ELSE t.date
      /\ UNCHANGED <<created, begun, endorsed>>
  BY DEF CommitAdmin, End
<1>3. /\ S \in [Row -> Status]
      /\ \A o \in Row : S[o] = "none" <=> status[o] = "none"
  BY <1>1 DEF Marked, IInv, Tables, Status
<1>4. \A o \in Row :
         /\ S[o] = "ACCEPTED" => status[o] = "ACCEPTED"
         /\ S[o] = "TENTATIVELY_ACCEPTED" => status[o] = "TENTATIVELY_ACCEPTED"
  BY DEF Marked
<1>5. /\ "HOME" \in Party /\ "ACCEPTED" \in Status \ {"none"}
      /\ Tables /\ t.request \in requests' /\ requests \subseteq requests'
  BY <1>1, <1>2 DEF Party, Status, IInv
<1> HIDE DEF t, S
<1>6. /\ RowsKept
      /\ status'[r] = "ACCEPTED"
      /\ \A o \in Row \ {r} : status'[o] = S[o]
  BY <1>1, <1>2, <1>3, <1>5, Inserted
<1>7. Stays
  BY <1>2, <1>6 DEF Stays, RowsKept
<1>8. Tables'
  <2>1. date' \in Date
    BY <1>1, <1>2, <1>5 DEF Tables
  <2> QED
    BY <1>1, <1>2, <1>5, <1>6, <2>1 DEF Tables, RowsKept
<1>9. Tasks'
  BY <1>7, EndTasks DEF CommitAdmin
<1>10. AcceptedWasAgreed'
  BY <1>2, <1>4, <1>6, <1>7, AcceptedKept DEF IInv
<1>11. Tentative'
  BY <1>2, <1>4, <1>6 DEF IInv, Tentative
<1> QED
  BY <1>7, <1>8, <1>9, <1>10, <1>11 DEF IInv

-----------------------------------------------------------------------------
LEMMA RowTypes ==
  ASSUME Tables, NEW r \in Row
  PROVE  /\ request[r] \in 0 .. MaxRequest /\ status[r] \in Status
         /\ date \in Date
<1>1. request[r] \in requests \cup {0} /\ status[r] \in Status /\ date \in Date
  BY DEF Tables
<1>2. requests \subseteq 1 .. MaxRequest
  BY DEF Tables
<1>3. request[r] = 0 \/ request[r] \in 1 .. MaxRequest
  BY <1>1, <1>2
<1>4. request[r] \in 0 .. MaxRequest
  BY <1>3, ConstantTypes
<1> QED
  BY <1>1, <1>4

LEMMA FinalTask ==
  ASSUME NEW r \in Row, NEW c \in 0 .. MaxRequest, NEW w \in Status, NEW d \in Date
  PROVE  [Idle EXCEPT !.step = "siblings", !.row = r, !.request = c, !.was = w,
                      !.seen = d] \in Task
<1> DEFINE i == Idle
<1>1. i \in Task /\ "siblings" \in Step
  BY IdleIsTask DEF Step
<1> HIDE DEF i
<1>2. [i EXCEPT !.step = "siblings", !.row = r, !.request = c, !.was = w,
                !.seen = d] \in Task
  BY <1>1 DEF Task
<1> QED
  BY <1>2 DEF i

(* The steps of an operation that only read. *)
Reads(s) ==
  \/ \E p \in Party, d \in Date : Propose(s, p, d)
  \/ ReadLatest(s) \/ ReadDates(s) \/ ReadExisting(s)
  \/ \E c \in 1 .. MaxRequest, d \in Date \cup {NoDate} : Triage(s, c, d)
  \/ \E E, R \in SUBSET Row : TriageReads(s, E, R)
  \/ \E r \in Row : Finalize(s, r)
  \/ ReadSiblings(s)
  \/ \E d \in Date : AdminChange(s, d)
  \/ FindRequest(s) \/ ReadOpen(s)
  \/ Abort(s)

LEMMA ReadsStep == ASSUME IInv, NEW s \in Session, Reads(s) PROVE IInv'
<1> DEFINE u == task[s]
<1>1. u \in Task /\ Ready(u) /\ created \in 0 .. MaxRequest
  BY DEF IInv, Tasks, Tables
<1>2. ASSUME NEW p \in Party, NEW d \in Date, Propose(s, p, d) PROVE IInv'
  <2> DEFINE t == [Idle EXCEPT !.step = "latest", !.party = p, !.date = d]
  <2>1. t \in Task /\ Ready(t)
    BY IdleIsTask, <1>2 DEF Idle, Task, Step, Ready
  <2> QED
    BY <1>2, <2>1, BeginStep DEF Propose
<1>3. CASE ReadLatest(s)
  <2>1. PICK c \in requests \cup {0} :
           Continue(s, [u EXCEPT !.step = "dates", !.request = c])
    BY <1>3 DEF ReadLatest
  <2> DEFINE t == [u EXCEPT !.step = "dates", !.request = c]
  <2>2. c \in 0 .. MaxRequest
    BY ConstantTypes DEF IInv, Tables
  <2>3. t \in Task
    BY <1>1, <2>2, Noting DEF Step
  <2>4. /\ t.step = "dates" /\ t.date = u.date
        /\ t.endorse = u.endorse /\ t.close = u.close
    BY <1>1 DEF Task
  <2>5. Ready(t)
    <3>1. u.date \in Date
      BY <1>1, <1>3 DEF Ready, ReadLatest, Proposing
    <3> HIDE DEF t, u
    <3> QED
      BY <1>1, <2>4, <3>1 DEF Ready
  <2>6. created' \in 0 .. MaxRequest
    BY <1>1, <1>3 DEF ReadLatest
  <2> QED
    BY <2>1, <2>3, <2>5, <2>6, ContinueStep
<1>4. CASE ReadDates(s)
  <2>1. CASE NewRequest(s, "existing")
    BY <1>4, <2>1, NewRequestStep DEF ReadDates
  <2>2. CASE /\ u.request # 0
             /\ Continue(s, [u EXCEPT !.step = "existing"]) /\ UNCHANGED created
    <3> DEFINE t == [u EXCEPT !.step = "existing"]
    <3>1. t \in Task
      BY <1>1, Noting DEF Step
    <3>2. /\ t.step = "existing" /\ t.date = u.date /\ t.request = u.request
          /\ t.endorse = u.endorse /\ t.close = u.close
      BY <1>1 DEF Task
    <3>3. u.date \in Date /\ u.request \in 1 .. MaxRequest
      BY <1>1, <1>4, <2>2 DEF Ready, ReadDates, Proposing, Task
    <3>4. Ready(t)
      <4> HIDE DEF t, u
      <4> QED
        BY <1>1, <3>2, <3>3 DEF Ready
    <3> QED
      BY <1>1, <2>2, <3>1, <3>4, ContinueStep
  <2> QED
    BY <1>4, <2>1, <2>2 DEF ReadDates
<1>5. CASE ReadExisting(s)
  <2> DEFINE t == [u EXCEPT !.step = "insert"]
  <2>1. t \in Task
    BY <1>1, Noting DEF Step
  <2>2. /\ t.step = "insert" /\ t.date = u.date /\ t.request = u.request
        /\ t.endorse = u.endorse /\ t.close = u.close
    BY <1>1 DEF Task
  <2>3. u.date \in Date /\ u.request \in 1 .. MaxRequest
    BY <1>1, <1>5 DEF Ready, ReadExisting, Proposing
  <2>4. Ready(t)
    <3> HIDE DEF t, u
    <3> QED
      BY <1>1, <2>2, <2>3 DEF Ready
  <2> QED
    BY <1>1, <1>5, <2>1, <2>4, ContinueStep DEF ReadExisting
<1>6. ASSUME NEW c \in 1 .. MaxRequest, NEW d \in Date \cup {NoDate}, Triage(s, c, d)
      PROVE  IInv'
  <2> DEFINE t == [Idle EXCEPT !.step = "triage", !.request = c, !.date = d]
  <2>1. c \in requests /\ Begin(s, t)
    BY <1>6 DEF Triage
  <2>2. c \in 0 .. MaxRequest
    BY <2>1, ConstantTypes
  <2>3. t \in Task
    BY IdleIsTask, <2>2 DEF Idle, Task, Step
  <2>4. Ready(t)
    BY <2>1 DEF Ready, Idle, Proposing, Imposing
  <2> QED
    BY <2>1, <2>3, <2>4, BeginStep
<1>7. ASSUME NEW E \in SUBSET Row, NEW R \in SUBSET Row, TriageReads(s, E, R)
      PROVE  IInv'
  <2> DEFINE t == [u EXCEPT !.step = "triaged", !.endorse = E, !.close = R]
  <2>1. t \in Task
    BY <1>1, Noting DEF Step
  <2>2. /\ t.step = "triaged" /\ t.request = u.request
        /\ t.endorse = E /\ t.close = R
    BY <1>1 DEF Task
  <2>3. \A r \in E \cup R : status[r] # "none"
    BY <1>7 DEF TriageReads, RowsOf, Live
  <2>4. u.request \in requests
    BY <1>1, <1>7 DEF Ready, TriageReads
  <2>5. Ready(t)
    <3> HIDE DEF t, u
    <3> QED
      BY <2>2, <2>3, <2>4 DEF Ready, Proposing, Imposing
  <2> QED
    BY <1>1, <1>7, <2>1, <2>5, ContinueStep DEF TriageReads
<1>8. ASSUME NEW r \in Row, Finalize(s, r) PROVE IInv'
  <2> DEFINE t == [Idle EXCEPT !.step = "siblings", !.row = r,
                     !.request = request[r], !.was = status[r], !.seen = date]
  <2>1. /\ status[r] # "none" /\ Begin(s, t)
        /\ status[r] = "TENTATIVELY_ACCEPTED" \/ by[r] = "AWAY"
    BY <1>8 DEF Finalize
  <2>2. /\ request[r] \in 0 .. MaxRequest /\ status[r] \in Status
        /\ date \in Date
    BY RowTypes DEF IInv
  <2>3. t \in Task
    BY <2>2, FinalTask
  <2>4. BackedByAway(r)
    BY <2>1 DEF BackedByAway, IInv, Tentative
  <2>5. Ready(t)
    BY <2>1, <2>4 DEF Ready, Idle, Proposing, Imposing
  <2> QED
    BY <2>1, <2>3, <2>5, BeginStep
<1>9. CASE ReadSiblings(s)
  <2> DEFINE C == RowsOf(u.request, Live) \ {u.row}
             t == [u EXCEPT !.step = "accept", !.close = C]
  <2>1. C \in SUBSET Row /\ \A r \in C : status[r] # "none"
    BY DEF RowsOf, Live
  <2>2. t \in Task
    BY <1>1, <2>1, Noting DEF Step
  <2>3. /\ t.step = "accept" /\ t.row = u.row
        /\ t.endorse = u.endorse /\ t.close = C
    BY <1>1 DEF Task
  <2>4. u.row \in Row /\ status[u.row] # "none" /\ BackedByAway(u.row)
    BY <1>1, <1>9 DEF Ready, ReadSiblings
  <2>5. Ready(t)
    <3> HIDE DEF t, u, C
    <3> QED
      BY <1>1, <2>1, <2>3, <2>4 DEF Ready, Proposing, Imposing
  <2> QED
    BY <1>1, <1>9, <2>2, <2>5, ContinueStep DEF ReadSiblings
<1>10. ASSUME NEW d \in Date, AdminChange(s, d) PROVE IInv'
  <2> DEFINE t == [Idle EXCEPT !.step = "find", !.date = d, !.seen = date]
  <2>1. t \in Task /\ Ready(t)
    BY IdleIsTask DEF Idle, Task, Step, Ready, IInv, Tables
  <2> QED
    BY <1>10, <2>1, BeginStep DEF AdminChange
<1>11. CASE FindRequest(s)
  <2>1. CASE NewRequest(s, "open")
    BY <1>11, <2>1, NewRequestStep DEF FindRequest
  <2>2. ASSUME NEW c \in requests, UNCHANGED created,
               Continue(s, [u EXCEPT !.step = "open", !.request = c])
        PROVE  IInv'
    <3> DEFINE t == [u EXCEPT !.step = "open", !.request = c]
    <3>1. c \in 1 .. MaxRequest /\ c \in 0 .. MaxRequest
      BY ConstantTypes DEF IInv, Tables
    <3>2. t \in Task
      BY <1>1, <3>1, Noting DEF Step
    <3>3. /\ t.step = "open" /\ t.date = u.date /\ t.request = c
          /\ t.endorse = u.endorse /\ t.close = u.close
      BY <1>1 DEF Task
    <3>4. u.date \in Date
      BY <1>1, <1>11 DEF Ready, FindRequest, Imposing
    <3>5. Ready(t)
      <4> HIDE DEF t, u
      <4> QED
        BY <1>1, <3>1, <3>3, <3>4 DEF Ready
    <3> QED
      BY <1>1, <2>2, <3>2, <3>5, ContinueStep
  <2> QED
    BY <1>11, <2>1, <2>2 DEF FindRequest
<1>12. CASE ReadOpen(s)
  <2> DEFINE C == RowsOf(u.request, Live)
             t == [u EXCEPT !.step = "impose", !.close = C]
  <2>1. C \in SUBSET Row /\ \A r \in C : status[r] # "none"
    BY DEF RowsOf, Live
  <2>2. t \in Task
    BY <1>1, <2>1, Noting DEF Step
  <2>3. /\ t.step = "impose" /\ t.date = u.date /\ t.request = u.request
        /\ t.endorse = u.endorse /\ t.close = C
    BY <1>1 DEF Task
  <2>4. u.date \in Date /\ u.request \in 1 .. MaxRequest
    BY <1>1, <1>12 DEF Ready, ReadOpen, Imposing
  <2>5. Ready(t)
    <3> HIDE DEF t, u, C
    <3> QED
      BY <1>1, <2>1, <2>3, <2>4 DEF Ready
  <2> QED
    BY <1>1, <1>12, <2>2, <2>5, ContinueStep DEF ReadOpen
<1>13. CASE Abort(s)
  <2>1. begun \in 0 .. MaxBegun
    BY DEF IInv, Tables
  <2> QED
    BY <1>1, <1>13, <2>1, IdleIsTask, IdleReady, NoWrite DEF Abort, End
<1> QED
  BY <1>2, <1>3, <1>4, <1>5, <1>6, <1>7, <1>8, <1>9, <1>10, <1>11, <1>12, <1>13
     DEF Reads

(* A step reads, commits one of the four operations, or closes the window. *)
LEMMA Steps ==
  ASSUME [Next]_vars
  PROVE  \/ \E s \in Session :
              \/ Reads(s) \/ CommitTriage(s) \/ CommitFinal(s)
              \/ \E r \in Row : CommitProposal(s, r) \/ CommitAdmin(s, r)
         \/ Close \/ UNCHANGED vars
BY DEF Next, ProposeSteps, TriageSteps, FinalizeSteps, AdminSteps, Reads

LEMMA IdleStep == IInv /\ (Close \/ UNCHANGED vars) => IInv'
<1> SUFFICES ASSUME IInv, Close \/ UNCHANGED vars PROVE IInv'
  OBVIOUS
<1>1. UNCHANGED <<date, table, created, task, history, begun>>
  BY DEF Close, vars
<1>2. Tables' /\ Tentative' /\ AcceptedWasAgreed'
  BY <1>1 DEF IInv, Tables, Tentative, AcceptedWasAgreed, BackedByAway, table,
              history
<1>3. Tasks'
  BY <1>1 DEF IInv, Tasks, Ready, BackedByAway, table, history
<1> QED
  BY <1>2, <1>3 DEF IInv

LEMMA IInvStep == IInv /\ [Next]_vars => IInv'
<1> SUFFICES ASSUME IInv, [Next]_vars PROVE IInv'
  OBVIOUS
<1>1. ASSUME NEW s \in Session, Reads(s) PROVE IInv'
  BY <1>1, ReadsStep
<1>2. ASSUME NEW s \in Session, CommitTriage(s) PROVE IInv'
  BY <1>2, TriageStep
<1>3. ASSUME NEW s \in Session, CommitFinal(s) PROVE IInv'
  BY <1>3, FinalStep
<1>4. ASSUME NEW s \in Session, NEW r \in Row, CommitProposal(s, r) PROVE IInv'
  BY <1>4, ProposalStep
<1>5. ASSUME NEW s \in Session, NEW r \in Row, CommitAdmin(s, r) PROVE IInv'
  BY <1>5, AdminStep
<1> QED
  BY <1>1, <1>2, <1>3, <1>4, <1>5, IdleStep, Steps

LEMMA FlagsStep == Flags /\ [Next]_vars => Flags'
<1> SUFFICES ASSUME Flags, [Next]_vars PROVE Flags'
  OBVIOUS
<1>1. ASSUME NEW s \in Session, NEW t, Begin(s, t) PROVE Flags'
  BY <1>1, Zenon DEF Begin, Flags
<1>2. ASSUME NEW s \in Session, NEW t, Continue(s, t) PROVE Flags'
  BY <1>2, Zenon DEF Continue, Flags
<1>3. ASSUME NEW s \in Session, End(s) PROVE Flags'
  BY <1>3, Zenon DEF End, Flags
<1>4. ASSUME NEW s \in Session, NEW st, NewRequest(s, st) PROVE Flags'
  BY <1>2, <1>4, Zenon DEF NewRequest
<1>5. ASSUME NEW s \in Session, Reads(s) PROVE Flags'
  BY <1>1, <1>2, <1>3, <1>4, <1>5, Zenon
     DEF Reads, Propose, ReadLatest, ReadDates, ReadExisting, Triage,
         TriageReads, Finalize, ReadSiblings, AdminChange, FindRequest, ReadOpen,
         Abort
<1>6. ASSUME NEW s \in Session, CommitTriage(s) \/ CommitFinal(s) PROVE Flags'
  BY <1>3, <1>6, Zenon DEF CommitTriage, CommitFinal
<1>7. ASSUME NEW s \in Session, NEW r \in Row, CommitProposal(s, r) \/ CommitAdmin(s, r)
      PROVE  Flags'
  BY <1>3, <1>7, Zenon DEF CommitProposal, CommitAdmin
<1>8. CASE Close \/ UNCHANGED vars
  BY <1>8, Zenon DEF Close, vars, Flags
<1> QED
  BY <1>5, <1>6, <1>7, <1>8, Steps

LEMMA InitFlags == Init => Flags
BY Zenon DEF Init, Flags

LEMMA TypesFollow == IInv /\ Flags => TypeOK
BY DEF IInv, Tables, Tasks, Flags, TypeOK

(* TypeOK: the tables and the tasks are well formed, every row belongs to  *)
(* a request that was committed, and has its date from the start.          *)
THEOREM TypeCorrect == Spec => []TypeOK
<1>1. Init => IInv /\ Flags
  BY InitOK, InitFlags
<1>2. IInv /\ Flags /\ [Next]_vars => (IInv /\ Flags)'
  BY IInvStep, FlagsStep
<1> QED
  BY <1>1, <1>2, TypesFollow, PTL DEF Spec

(* AcceptedWasAgreed: whatever operations overlap, the date the home team  *)
(* finalizes was proposed or endorsed by the away team.                    *)
THEOREM Agreement == Spec => []AcceptedWasAgreed
<1>1. IInv => AcceptedWasAgreed
  BY DEF IInv
<1> QED
  BY <1>1, InitOK, IInvStep, PTL DEF Spec

-----------------------------------------------------------------------------
(* Refinement of AgreedDate. *)

LEMMA BackedExists ==
  ASSUME Tables, NEW r \in Row, BackedByAway(r)
  PROVE  status[r] # "none" /\ offered[r] \in Date
BY DEF Tables, BackedByAway

(* The rows of N become backed. *)
LEMMA BackedGrows ==
  ASSUME Tables, Tables', Stays, NEW N \in SUBSET Row,
         \A r \in Row : BackedByAway(r)' <=> BackedByAway(r) \/ r \in N
  PROVE  \E D \in SUBSET Date : BackedDates' = BackedDates \cup D
<1> DEFINE D == {offered'[r] : r \in N}
<1>1. \A r \in Row : BackedByAway(r) => offered'[r] = offered[r]
  BY BackedExists DEF Stays
<1>2. \A r \in Row : BackedByAway(r)' => offered'[r] \in Date
  BY DEF Tables, BackedByAway
<1>3. D \in SUBSET Date
  BY <1>2
<1>4. BackedDates' = BackedDates \cup D
  BY <1>1 DEF BackedDates
<1> QED
  BY <1>3, <1>4

LEMMA BackedSame ==
  ASSUME Tables, Stays, \A r \in Row : BackedByAway(r)' <=> BackedByAway(r)
  PROVE  BackedDates' = BackedDates
<1>1. \A r \in Row : BackedByAway(r) => offered'[r] = offered[r]
  BY BackedExists DEF Stays
<1> QED
  BY <1>1 DEF BackedDates

LEMMA ImposedSame ==
  ASSUME Tables, Stays, imposed' = imposed
  PROVE  ImposedDates' = ImposedDates
BY DEF Tables, Stays, ImposedDates

LEMMA InitAgreed == Init => Agreed!Init
BY ConstantTypes DEF Init, Agreed!Init, BackedDates, ImposedDates, BackedByAway

LEMMA ReadsWriteNothing ==
  ASSUME NEW s \in Session, Reads(s)
  PROVE  UNCHANGED <<date, table, history>>
BY DEF Reads, Propose, ReadLatest, ReadDates, ReadExisting, Triage,
         TriageReads, Finalize, ReadSiblings, AdminChange, FindRequest, ReadOpen,
         Abort, Begin, Continue, NewRequest

LEMMA ReadsAgreed ==
  ASSUME NEW s \in Session, Reads(s)
  PROVE  UNCHANGED Agreed!vars
<1> QED
  BY ReadsWriteNothing DEF Agreed!vars, table, history, BackedDates, ImposedDates, BackedByAway

LEMMA ProposalAgreed ==
  ASSUME IInv, NEW s \in Session, NEW r \in Row, CommitProposal(s, r)
  PROVE  Agreed!Next
<1>1. IInv' /\ Stays
  BY ProposalStep
<1>2. /\ date' = date /\ imposed' = imposed /\ endorsed' = endorsed
      /\ status[r] = "none"
      /\ status' = [status EXCEPT ![r] = "PENDING"]
      /\ by' = [by EXCEPT ![r] = task[s].party]
  BY DEF CommitProposal, InsertRow, history
<1> DEFINE N == {o \in {r} : task[s].party = "AWAY"}
<1>3. ASSUME NEW o \in Row
      PROVE  BackedByAway(o)' <=> BackedByAway(o) \/ o \in N
  <2>1. o = r => ~BackedByAway(o)
    BY <1>2, BackedExists DEF IInv
  <2> QED
    BY <1>2, <2>1 DEF BackedByAway, IInv, Tables
<1>4. N \in SUBSET Row
  OBVIOUS
<1> HIDE DEF N
<1>5. \E D \in SUBSET Date : BackedDates' = BackedDates \cup D
  BY <1>1, <1>3, <1>4, BackedGrows DEF IInv
<1>6. ImposedDates' = ImposedDates
  BY <1>1, <1>2, ImposedSame DEF IInv
<1> QED
  BY <1>2, <1>5, <1>6 DEF Agreed!Next, Agreed!Back

LEMMA TriageAgreed ==
  ASSUME IInv, NEW s \in Session, CommitTriage(s)
  PROVE  Agreed!Next
<1> DEFINE t == task[s]
           S == Marked(t.endorse, "TENTATIVELY_ACCEPTED", t.close, "REJECTED")
<1>1. IInv' /\ Stays
  BY TriageStep
<1>2. /\ date' = date /\ imposed' = imposed
      /\ endorsed' = endorsed \cup t.endorse
      /\ \/ status' = S /\ by' = by
         \/ \E r \in Row : InsertRow(r, t.request, t.date, "AWAY", "PENDING", S)
  BY DEF CommitTriage
<1>3. /\ t.endorse \subseteq Row
      /\ \A r \in t.endorse \cup t.close : status[r] # "none"
  BY DEF IInv, Tasks, Task, Ready
<1>4. S \in [Row -> Status] /\ \A o \in Row : S[o] = "none" <=> status[o] = "none"
  BY <1>3, MarkedKeeps DEF IInv, Status, Live
<1> HIDE DEF t, S
<1>5. \E N \in SUBSET Row :
        \A o \in Row : BackedByAway(o)' <=> BackedByAway(o) \/ o \in N
  <2>1. CASE status' = S /\ by' = by
    <3>1. \A o \in Row :
            BackedByAway(o)' <=> BackedByAway(o) \/ o \in t.endorse
      BY <1>2, <1>4, <2>1 DEF BackedByAway
    <3> QED
      BY <1>3, <3>1
  <2>2. ASSUME NEW r \in Row,
               InsertRow(r, t.request, t.date, "AWAY", "PENDING", S)
        PROVE  \E N \in SUBSET Row :
                 \A o \in Row : BackedByAway(o)' <=> BackedByAway(o) \/ o \in N
    <3>1. /\ status' = [S EXCEPT ![r] = "PENDING"]
          /\ by' = [by EXCEPT ![r] = "AWAY"]
      BY <2>2 DEF InsertRow
    <3>2. \A o \in Row :
            BackedByAway(o)' <=> BackedByAway(o) \/ o \in t.endorse \cup {r}
      BY <1>2, <1>4, <3>1 DEF BackedByAway, IInv, Tables
    <3> QED
      BY <1>3, <3>2
  <2> QED
    BY <1>2, <2>1, <2>2
<1>6. \E D \in SUBSET Date : BackedDates' = BackedDates \cup D
  BY <1>1, <1>5, BackedGrows DEF IInv
<1>7. ImposedDates' = ImposedDates
  BY <1>1, <1>2, ImposedSame DEF IInv
<1> QED
  BY <1>2, <1>6, <1>7 DEF Agreed!Next, Agreed!Back

LEMMA FinalAgreed ==
  ASSUME IInv, NEW s \in Session, CommitFinal(s)
  PROVE  Agreed!Next \/ UNCHANGED Agreed!vars
<1> DEFINE t == task[s]
<1>1. IInv' /\ Stays
  BY FinalStep
<1>2. /\ date' \in {date, offered[t.row]}
      /\ by' = by /\ imposed' = imposed /\ endorsed' = endorsed
      /\ offered' = offered
  BY DEF CommitFinal, history
<1>3. t.row \in Row /\ BackedByAway(t.row)
  BY DEF IInv, Tasks, Ready, CommitFinal
<1>4. \A o \in Row : BackedByAway(o)' <=> BackedByAway(o)
  BY <1>1, <1>2 DEF BackedByAway, IInv, Tables
<1> HIDE DEF t
<1>5. BackedDates' = BackedDates /\ ImposedDates' = ImposedDates
  BY <1>1, <1>2, <1>4, BackedSame, ImposedSame DEF IInv
<1>6. offered[t.row] \in BackedDates /\ offered[t.row] \in Date
  BY <1>3, BackedExists DEF BackedDates, IInv
<1> QED
  BY <1>2, <1>5, <1>6 DEF Agreed!Next, Agreed!Pick, Agreed!vars

LEMMA AdminAgreed ==
  ASSUME IInv, NEW s \in Session, NEW r \in Row, CommitAdmin(s, r)
  PROVE  Agreed!Next
<1> DEFINE t == task[s]
           S == Marked({}, "none", t.close, "RESOLVED")
<1>1. IInv' /\ Stays
  BY AdminStep
<1>2. /\ date' \in {date, t.date} /\ imposed' = imposed \cup {r}
      /\ endorsed' = endorsed /\ status[r] = "none"
      /\ status' = [S EXCEPT ![r] = "ACCEPTED"]
      /\ by' = [by EXCEPT ![r] = "HOME"]
      /\ offered' = [offered EXCEPT ![r] = t.date]
  BY DEF CommitAdmin, InsertRow
<1>3. /\ t.date \in Date
      /\ \A o \in t.close : status[o] # "none"
  BY DEF IInv, Tasks, Ready, Imposing, CommitAdmin
<1>4. S \in [Row -> Status] /\ \A o \in Row : S[o] = "none" <=> status[o] = "none"
  BY <1>3 DEF Marked, IInv, Tables, Status
<1> HIDE DEF t, S
<1>5. ASSUME NEW o \in Row PROVE BackedByAway(o)' <=> BackedByAway(o)
  <2>1. CASE o = r
    <3>1. ~BackedByAway(o)
      BY <1>2, <2>1, BackedExists DEF IInv
    <3> QED
      BY <1>2, <2>1, <3>1 DEF BackedByAway, IInv, Tables
  <2>2. CASE o # r
    BY <1>2, <1>4, <2>2 DEF BackedByAway, IInv, Tables
  <2> QED
    BY <2>1, <2>2
<1>6. BackedDates' = BackedDates
  BY <1>1, <1>5, BackedSame DEF IInv
<1>7. ImposedDates' = ImposedDates \cup {t.date}
  <2>1. offered'[r] = t.date
    BY <1>2 DEF IInv, Tables
  <2>2. \A o \in imposed : offered'[o] = offered[o]
    BY <1>1 DEF IInv, Tables, Stays
  <2> QED
    BY <1>2, <2>1, <2>2 DEF ImposedDates
<1> QED
  BY <1>2, <1>3, <1>6, <1>7 DEF Agreed!Next, Agreed!Impose

(* ImplementsAgreement: every step is a step of AgreedDate or none of its  *)
(* variables change; the encounter moves only to a date that the away team *)
(* backed and the home team picks, or that an administrator imposes.       *)
THEOREM Refinement == Spec => ImplementsAgreement
<1>1. ASSUME IInv, [Next]_vars PROVE [Agreed!Next]_(Agreed!vars)
  <2>1. ASSUME NEW s \in Session, Reads(s) PROVE UNCHANGED Agreed!vars
    BY <2>1, ReadsAgreed
  <2>2. ASSUME NEW s \in Session, CommitTriage(s) PROVE Agreed!Next
    BY <1>1, <2>2, TriageAgreed
  <2>3. ASSUME NEW s \in Session, CommitFinal(s)
        PROVE  Agreed!Next \/ UNCHANGED Agreed!vars
    BY <1>1, <2>3, FinalAgreed
  <2>4. ASSUME NEW s \in Session, NEW r \in Row, CommitProposal(s, r)
        PROVE  Agreed!Next
    BY <1>1, <2>4, ProposalAgreed
  <2>5. ASSUME NEW s \in Session, NEW r \in Row, CommitAdmin(s, r)
        PROVE  Agreed!Next
    BY <1>1, <2>5, AdminAgreed
  <2>6. CASE Close \/ UNCHANGED vars
    BY <2>6 DEF Close, vars, table, history, Agreed!vars, BackedDates,
                ImposedDates, BackedByAway
  <2> QED
    BY <1>1, <2>1, <2>2, <2>3, <2>4, <2>5, <2>6, Steps
<1> QED
  BY <1>1, InitOK, InitAgreed, IInvStep, PTL DEF Spec, ImplementsAgreement, Agreed!Spec

-----------------------------------------------------------------------------
(* While no two operations have overlapped, one at most is under way, and  *)
(* the row a finalization has read still stands when it is accepted.       *)
Alone == \A s, o \in Session : task[s] # Idle /\ task[o] # Idle => s = o

Standing(t) ==
  t.step \in {"siblings", "accept"} =>
    by[t.row] = "AWAY" \/ status[t.row] = "TENTATIVELY_ACCEPTED"

Unraced == ~raced => Alone /\ \A s \in Session : Standing(task[s])

(* An operation that is alone does something, and goes on or ends. *)
LEMMA AloneGoesOn ==
  ASSUME IInv, Unraced, NEW s \in Session, task[s].step # "idle",
         \A o \in Session \ {s} : task'[o] = task[o],
         raced' = raced, Standing(task[s])'
  PROVE  Unraced'
<1> SUFFICES ASSUME ~raced PROVE Alone' /\ \A o \in Session : Standing(task[o])'
  BY DEF Unraced
<1>1. \A o \in Session \ {s} : task[o] = Idle
  BY IdleIsTask DEF Unraced, Alone
<1>2. \A o \in Session \ {s} : task'[o] = Idle
  BY <1>1
<1>3. Alone'
  BY <1>2 DEF Alone
<1>4. ASSUME NEW o \in Session PROVE Standing(task[o])'
  <2>1. CASE o = s
    BY <1>2, <2>1 DEF Standing
  <2>2. CASE o # s
    BY <1>2, <2>2, IdleIsTask DEF Standing
  <2> QED
    BY <2>1, <2>2
<1> QED
  BY <1>3, <1>4

(* An operation begins: alone, or raced is set. *)
LEMMA AloneBegins ==
  ASSUME IInv, Unraced, Flags, NEW s \in Session, NEW t, Begin(s, t), Standing(t)
  PROVE  Unraced'
<1>1. /\ task' = [task EXCEPT ![s] = t] /\ task[s] = Idle
      /\ UNCHANGED <<by, status>>
      /\ ~raced' => ~raced /\ \A o \in Session \ {s} : task[o] = Idle
  BY Zenon DEF Begin, table
<1>2. task'[s] = t /\ \A o \in Session \ {s} : task'[o] = task[o]
  BY <1>1 DEF IInv, Tasks
<1>3. Standing(t)'
  BY <1>1 DEF Standing
<1>4. \A o \in Session \ {s} : task[o] = Idle => Standing(task[o])'
  BY <1>2, IdleIsTask DEF Standing
<1> QED
  BY <1>1, <1>2, <1>3, <1>4 DEF Unraced, Alone, Standing

(* An operation ends, and its session is idle again. *)
LEMMA AloneEnds ==
  ASSUME IInv, Unraced, NEW s \in Session, task[s].step # "idle", End(s)
  PROVE  Unraced'
<1>1. /\ task'[s] = Idle /\ raced' = raced
      /\ \A o \in Session \ {s} : task'[o] = task[o]
  BY DEF End, IInv, Tasks
<1>2. Standing(task[s])'
  BY <1>1, IdleIsTask DEF Standing
<1> QED
  BY <1>1, <1>2, AloneGoesOn

(* An operation that reads another thing than the row it will accept. *)
LEMMA AloneReads ==
  ASSUME IInv, Unraced, NEW s \in Session, task[s].step # "idle",
         NEW t, t.step \notin {"siblings", "accept"}, Continue(s, t)
  PROVE  Unraced'
<1>1. /\ task'[s] = t /\ raced' = raced
      /\ \A o \in Session \ {s} : task'[o] = task[o]
  BY DEF Continue, IInv, Tasks
<1>2. Standing(task[s])'
  BY <1>1 DEF Standing
<1> QED
  BY <1>1, <1>2, AloneGoesOn

LEMMA UnracedStep == IInv /\ Flags /\ Unraced /\ [Next]_vars => Unraced'
<1> SUFFICES ASSUME IInv, Flags, Unraced, [Next]_vars PROVE Unraced'
  OBVIOUS
<1>1. ASSUME NEW s \in Session, Reads(s) PROVE Unraced'
  <2>1. task[s] \in Task
    BY DEF IInv, Tasks
  <2>2. ASSUME NEW p \in Party, NEW d \in Date, Propose(s, p, d) PROVE Unraced'
    <3>1. Standing([Idle EXCEPT !.step = "latest", !.party = p, !.date = d])
      BY DEF Standing, Idle
    <3> QED
      BY <2>2, <3>1, AloneBegins DEF Propose
  <2>3. CASE ReadLatest(s)
    <3>1. PICK c \in requests \cup {0} :
            Continue(s, [task[s] EXCEPT !.step = "dates", !.request = c])
      BY <2>3, Zenon DEF ReadLatest
    <3>2. [task[s] EXCEPT !.step = "dates", !.request = c].step = "dates"
      BY <2>1 DEF Task
    <3> QED
      BY <2>3, <3>1, <3>2, AloneReads DEF ReadLatest
  <2>4. ASSUME NEW st \in {"existing", "open"}, task[s].step # "idle", NewRequest(s, st)
        PROVE  Unraced'
    <3>1. [task[s] EXCEPT !.step = st, !.request = created + 1].step = st
      BY <2>1 DEF Task
    <3> QED
      BY <2>4, <3>1, AloneReads DEF NewRequest
  <2>5. CASE ReadDates(s)
    <3>1. [task[s] EXCEPT !.step = "existing"].step = "existing"
      BY <2>1 DEF Task
    <3> QED
      BY <2>4, <2>5, <3>1, AloneReads DEF ReadDates
  <2>6. CASE ReadExisting(s)
    <3>1. [task[s] EXCEPT !.step = "insert"].step = "insert"
      BY <2>1 DEF Task
    <3> QED
      BY <2>6, <3>1, AloneReads DEF ReadExisting
  <2>7. ASSUME NEW c \in 1 .. MaxRequest, NEW d \in Date \cup {NoDate}, Triage(s, c, d)
        PROVE  Unraced'
    <3>1. Standing([Idle EXCEPT !.step = "triage", !.request = c, !.date = d])
      BY DEF Standing, Idle
    <3> QED
      BY <2>7, <3>1, AloneBegins DEF Triage
  <2>8. ASSUME NEW E \in SUBSET Row, NEW R \in SUBSET Row, TriageReads(s, E, R)
        PROVE  Unraced'
    <3>1. [task[s] EXCEPT !.step = "triaged", !.endorse = E, !.close = R].step = "triaged"
      BY <2>1 DEF Task
    <3> QED
      BY <2>8, <3>1, AloneReads DEF TriageReads
  <2>9. ASSUME NEW r \in Row, Finalize(s, r) PROVE Unraced'
    <3>1. Standing([Idle EXCEPT !.step = "siblings", !.row = r,
                      !.request = request[r], !.was = status[r], !.seen = date])
      BY <2>9 DEF Standing, Idle, Finalize
    <3> QED
      BY <2>9, <3>1, AloneBegins DEF Finalize
  <2>10. CASE ReadSiblings(s)
    <3>1. /\ task' = [task EXCEPT ![s] = [task[s] EXCEPT !.step = "accept",
                       !.close = RowsOf(task[s].request, Live) \ {task[s].row}]]
          /\ raced' = raced /\ task[s].step = "siblings" /\ UNCHANGED <<by, status>>
      BY <2>10 DEF ReadSiblings, Continue, table
    <3>2. task'[s].row = task[s].row /\ \A o \in Session \ {s} : task'[o] = task[o]
      BY <2>1, <3>1 DEF IInv, Tasks, Task
    <3>3. CASE raced
      BY <3>1, <3>3 DEF Unraced
    <3>4. CASE ~raced
      <4>1. Standing(task[s])'
        BY <3>1, <3>2, <3>4 DEF Unraced, Standing
      <4> QED
        BY <3>1, <3>2, <4>1, AloneGoesOn
    <3> QED
      BY <3>3, <3>4
  <2>11. ASSUME NEW d \in Date, AdminChange(s, d) PROVE Unraced'
    <3>1. Standing([Idle EXCEPT !.step = "find", !.date = d, !.seen = date])
      BY DEF Standing, Idle
    <3> QED
      BY <2>11, <3>1, AloneBegins DEF AdminChange
  <2>12. CASE FindRequest(s)
    <3>1. CASE requests = {}
      <4>1. NewRequest(s, "open") /\ task[s].step # "idle"
        BY <2>12, <3>1 DEF FindRequest
      <4> QED
        BY <2>4, <4>1
    <3>2. CASE requests # {}
      <4>1. PICK c \in requests :
              Continue(s, [task[s] EXCEPT !.step = "open", !.request = c])
        BY <2>12, <3>2, Zenon DEF FindRequest
      <4>2. [task[s] EXCEPT !.step = "open", !.request = c].step = "open"
        BY <2>1 DEF Task
      <4>3. task[s].step # "idle"
        BY <2>12 DEF FindRequest
      <4> QED
        BY <4>1, <4>2, <4>3, AloneReads
    <3> QED
      BY <3>1, <3>2
  <2>13. CASE ReadOpen(s)
    <3>1. [task[s] EXCEPT !.step = "impose", !.close = RowsOf(task[s].request, Live)].step = "impose"
      BY <2>1 DEF Task
    <3> QED
      BY <2>13, <3>1, AloneReads DEF ReadOpen
  <2>14. CASE Abort(s)
    <3>1. CASE task[s].step = "idle"
      <4>1. raced' = raced /\ task' = [task EXCEPT ![s] = Idle] /\ UNCHANGED <<by, status>>
        BY <2>14 DEF Abort, End, table
      <4>2. task'[s] = Idle /\ \A o \in Session \ {s} : task'[o] = task[o]
        BY <4>1 DEF IInv, Tasks
      <4> QED
        BY <4>1, <4>2, IdleIsTask DEF Unraced, Alone, Standing
    <3>2. CASE task[s].step # "idle"
      BY <2>14, <3>2, AloneEnds DEF Abort
    <3> QED
      BY <3>1, <3>2
  <2> QED
    BY <1>1, <2>2, <2>3, <2>5, <2>6, <2>7, <2>8, <2>9, <2>10, <2>11, <2>12, <2>13, <2>14
       DEF Reads
<1>2. ASSUME NEW s \in Session, CommitTriage(s) \/ CommitFinal(s) PROVE Unraced'
  <2>1. task[s].step # "idle" /\ End(s)
    BY <1>2 DEF CommitTriage, CommitFinal
  <2> QED
    BY <2>1, AloneEnds
<1>3. ASSUME NEW s \in Session, NEW r \in Row, CommitProposal(s, r) \/ CommitAdmin(s, r)
      PROVE  Unraced'
  <2>1. task[s].step # "idle" /\ End(s)
    BY <1>3 DEF CommitProposal, CommitAdmin
  <2> QED
    BY <2>1, AloneEnds
<1>4. CASE Close \/ UNCHANGED vars
  BY <1>4 DEF Close, vars, table, Unraced, Alone, Standing
<1> QED
  BY <1>1, <1>2, <1>3, <1>4, Steps

(* A step that accepts a row of an unraced negotiation. *)
LEMMA AcceptedStands ==
  ASSUME IInv, Unraced, [Next]_vars, NEW r \in Row, ~raced',
         status[r] # "ACCEPTED", status'[r] = "ACCEPTED"
  PROVE  \/ by'[r] = "AWAY" \/ r \in imposed'
         \/ status[r] = "TENTATIVELY_ACCEPTED"
<1>1. ASSUME NEW s \in Session, Reads(s) PROVE FALSE
  <2>1. UNCHANGED <<date, table, history>>
    BY <1>1, ReadsWriteNothing
  <2> QED
    BY <2>1 DEF table
<1>2. ASSUME NEW s \in Session, CommitTriage(s) PROVE FALSE
  <2> DEFINE t == task[s]
             S == Marked(t.endorse, "TENTATIVELY_ACCEPTED", t.close, "REJECTED")
  <2>1. S[r] # "ACCEPTED"
    BY DEF Marked
  <2>2. \/ status' = S
        \/ \E o \in Row : status' = [S EXCEPT ![o] = "PENDING"]
    BY <1>2 DEF CommitTriage, InsertRow
  <2>3. DOMAIN S = Row
    BY DEF Marked
  <2> HIDE DEF S
  <2> QED
    BY <2>1, <2>2, <2>3
<1>3. ASSUME NEW s \in Session, CommitFinal(s)
      PROVE  by'[r] = "AWAY" \/ status[r] = "TENTATIVELY_ACCEPTED"
  <2>1. /\ status' = Marked(IF task[s].was = "ACCEPTED" THEN {} ELSE {task[s].row},
                            "ACCEPTED", task[s].close, "RESOLVED")
        /\ task[s].step = "accept" /\ by' = by /\ raced' = raced
    BY <1>3 DEF CommitFinal, End
  <2>2. r = task[s].row
    BY <2>1 DEF Marked
  <2> QED
    BY <2>1, <2>2 DEF Unraced, Standing
<1>4. ASSUME NEW s \in Session, NEW o \in Row, CommitProposal(s, o) PROVE FALSE
  <2>1. status' = [status EXCEPT ![o] = "PENDING"]
    BY <1>4 DEF CommitProposal, InsertRow
  <2> QED
    BY <2>1 DEF IInv, Tables
<1>5. ASSUME NEW s \in Session, NEW o \in Row, CommitAdmin(s, o) PROVE r \in imposed'
  <2> DEFINE S == Marked({}, "none", task[s].close, "RESOLVED")
  <2>1. S[r] # "ACCEPTED" /\ DOMAIN S = Row
    BY DEF Marked
  <2>2. status' = [S EXCEPT ![o] = "ACCEPTED"] /\ imposed' = imposed \cup {o}
    BY <1>5 DEF CommitAdmin, InsertRow
  <2> HIDE DEF S
  <2> QED
    BY <2>1, <2>2
<1>6. CASE Close \/ UNCHANGED vars
  BY <1>6 DEF Close, vars, table
<1> QED
  BY <1>1, <1>2, <1>3, <1>4, <1>5, <1>6, Steps

(* EndorsementStands: as long as no two operations overlapped, a date of   *)
(* the home team that is finalized is endorsed at that moment.             *)
THEOREM EndorsementStandsAlways == Spec => EndorsementStands
<1>1. Init => IInv /\ Flags /\ Unraced
  <2>1. Init => Unraced
    BY IdleIsTask DEF Init, Unraced, Alone, Standing
  <2> QED
    BY <2>1, InitOK, InitFlags
<1>2. IInv /\ Flags /\ Unraced /\ [Next]_vars => (IInv /\ Flags /\ Unraced)'
  BY IInvStep, FlagsStep, UnracedStep
<1>3. IInv /\ Unraced /\ [Next]_vars =>
        [\A r \in Row : ~raced' /\ status[r] # "ACCEPTED" /\ status'[r] = "ACCEPTED"
           => \/ by'[r] = "AWAY" \/ r \in imposed'
              \/ status[r] = "TENTATIVELY_ACCEPTED"]_vars
  BY AcceptedStands
<1> QED
  BY <1>1, <1>2, <1>3, PTL DEF Spec, EndorsementStands

-----------------------------------------------------------------------------
(* The date after it was agreed, on its way to toernooi.nl and back        *)
(* (DateSync): at rest, unless excused, Badman and toernooi.nl agree on    *)
(* the date of the last change, for any number of dates, jobs, event       *)
(* syncs, changes and faults.                                              *)

CONSTANTS Job, Sync, MaxChange, MaxDateFault

VARIABLES synced, site, cached, seasonBegun, listed, from, phase, held, at, seen, got,
          changes, faults, wanted, missed, excused

Dates == INSTANCE DateSync WITH MaxFault <- MaxDateFault, begun <- seasonBegun

(* What DateSync assumes of its bounds. *)
Bounded == MaxChange \in Nat /\ MaxDateFault \in Nat

(* What may still be written is the wanted date, or does no harm. *)
NothingOld ==
  /\ date = wanted
  /\ \A j \in Job : phase[j] # "refused"
  /\ \A j \in Job : phase[j] = "loaded" => held[j] = wanted
  /\ \A s \in Sync : at[s] = "read" => got[s] \in {NoDate, seen[s], wanted}

(* A job will bring the wanted date to toernooi.nl. *)
Pending == \E j \in Job : phase[j] \in {"owed", "waiting", "loaded"}

(* A job did, and marks the encounter or has marked it. *)
Delivered ==
  /\ site = wanted
  /\ synced \/ \E j \in Job : phase[j] = "sent"

DateInv ==
  /\ Dates!TypeOK
  /\ ~excused => NothingOld /\ (changes > 0 => Pending \/ Delivered)

----------------------------------------------------------------------------
LEMMA DateInitInv ==
  ASSUME Bounded
  PROVE  Dates!Init => DateInv
<1> SUFFICES ASSUME Dates!Init PROVE DateInv
  OBVIOUS
<1>1. Dates!TypeOK
  <2>1. /\ phase \in [Job -> {"none", "owed", "waiting"} \cup Dates!Sending]
        /\ held \in [Job -> Dates!MaybeDate]
        /\ at \in [Sync -> {"idle", "loaded", "read"}]
        /\ seen \in [Sync -> Dates!MaybeDate] /\ got \in [Sync -> Dates!MaybeDate]
    BY DEF Dates!Init, Dates!MaybeDate
  <2>2. \A j \in Job : phase[j] \in Dates!Sending <=> held[j] # NoDate
    BY DEF Dates!Init, Dates!Sending
  <2>3. /\ synced \in BOOLEAN /\ excused \in BOOLEAN /\ seasonBegun \in BOOLEAN
        /\ listed \in BOOLEAN /\ missed \in BOOLEAN
        /\ from \in [Session -> Dates!MaybeDate]
    BY DEF Dates!Init, Dates!MaybeDate
  <2>4. /\ date \in Date /\ site \in Dates!MaybeDate /\ cached \in Dates!MaybeDate
        /\ wanted \in Date
        /\ changes \in 0 .. MaxChange /\ faults \in 0 .. MaxDateFault
    BY ConstantTypes DEF Bounded, Dates!Init, Dates!MaybeDate
  <2> QED
    BY <2>1, <2>2, <2>3, <2>4 DEF Dates!TypeOK
<1>2. NothingOld /\ ~(changes > 0)
  BY DEF Dates!Init, NothingOld
<1> QED
  BY <1>1, <1>2 DEF DateInv

(* Every action keeps the state well typed. *)
LEMMA DateTypeStep ==
  ASSUME Bounded
  PROVE  Dates!TypeOK /\ [Dates!Next]_(Dates!vars) => Dates!TypeOK'
<1> SUFFICES ASSUME Dates!TypeOK, [Dates!Next]_(Dates!vars) PROVE Dates!TypeOK'
  OBVIOUS
<1> USE ConstantTypes DEF Bounded, Dates!TypeOK, Dates!MaybeDate, Dates!Sending,
     Dates!db, Dates!web, Dates!jobs, Dates!syncs, Dates!count, Dates!list
<1>1. ASSUME NEW c \in Session, NEW d \in Date, Dates!Impose(c, d) PROVE Dates!TypeOK'
  <2>1. date' \in Date /\ changes' \in 0 .. MaxChange /\ from' \in [Session -> Dates!MaybeDate]
    BY <1>1 DEF Dates!Impose, Dates!Commit, Dates!Once
  <2>2. excused' \in BOOLEAN
    BY <1>1 DEF Dates!Impose, Dates!Overtakes
  <2> QED
    BY <1>1, <2>1, <2>2 DEF Dates!Impose, Dates!Commit
<1>2. ASSUME NEW c \in Session, NEW d \in Date, NEW j \in Job, Dates!Accept(c, d, j)
      PROVE  Dates!TypeOK'
  <2>1. date' \in Date /\ changes' \in 0 .. MaxChange /\ from' \in [Session -> Dates!MaybeDate]
    BY <1>2 DEF Dates!Accept, Dates!Commit, Dates!Once
  <2>2. excused' \in BOOLEAN
    BY <1>2 DEF Dates!Accept, Dates!Overtakes, Dates!Quiet, Dates!NoJob
  <2> QED
    BY <1>2, <2>1, <2>2 DEF Dates!Accept, Dates!Commit
<1>3. ASSUME NEW d \in Dates!MaybeDate, Dates!Reschedule(d) PROVE Dates!TypeOK'
  <2>1. changes' \in 0 .. MaxChange
    BY <1>3 DEF Dates!Reschedule, Dates!Once
  <2>2. site' = d /\ listed' = TRUE /\ missed' = FALSE /\ excused' = TRUE
    BY <1>3 DEF Dates!Reschedule, Dates!SiteHas
  <2>3. UNCHANGED <<date, synced, cached, seasonBegun, from, phase, held, at, seen, got,
                    faults, wanted>>
    BY <1>3, Zenon DEF Dates!Reschedule
  <2> QED
    BY <2>1, <2>2, <2>3
<1>19. ASSUME NEW c \in Session, Dates!LoadForChange(c) \/ Dates!Refuse(c)
       PROVE  Dates!TypeOK'
  BY <1>19 DEF Dates!LoadForChange, Dates!Refuse
<1>20. ASSUME NEW s \in Sync, Dates!SyncFails(s) PROVE Dates!TypeOK'
  BY <1>20 DEF Dates!SyncFails, Dates!Fault
<1>21. CASE Dates!PassBy
  BY <1>21 DEF Dates!PassBy
<1>4. ASSUME NEW j \in Job, Dates!PushAgain(j) PROVE Dates!TypeOK'
  BY <1>4 DEF Dates!PushAgain, Dates!Once, Dates!Quiet, Dates!NoJob
<1>5. ASSUME NEW j \in Job, Dates!Queue(j) PROVE Dates!TypeOK'
  BY <1>5 DEF Dates!Queue
<1>6. ASSUME NEW j \in Job, Dates!Load(j) PROVE Dates!TypeOK'
  BY <1>6 DEF Dates!Load
<1>7. ASSUME NEW j \in Job, Dates!Send(j) PROVE Dates!TypeOK'
  BY <1>7 DEF Dates!Send, Dates!SiteHas
<1>8. ASSUME NEW j \in Job, Dates!Mark(j) PROVE Dates!TypeOK'
  BY <1>8 DEF Dates!Mark, Dates!Leave
<1>9. ASSUME NEW j \in Job, Dates!QueueFails(j) PROVE Dates!TypeOK'
  BY <1>9 DEF Dates!QueueFails, Dates!Fault, Dates!Carried
<1>10. ASSUME NEW j \in Job, Dates!SendFails(j) PROVE Dates!TypeOK'
  <2>1. faults' \in 0 .. MaxDateFault /\ excused' = TRUE
    BY <1>10 DEF Dates!SendFails, Dates!Fault
  <2>2. phase' = [phase EXCEPT ![j] = "refused"] /\ phase[j] = "loaded"
    BY <1>10 DEF Dates!SendFails
  <2>3. /\ site' \in Dates!MaybeDate /\ listed' \in BOOLEAN /\ missed' \in BOOLEAN
    BY <1>10 DEF Dates!SendFails, Dates!SiteHas
  <2>4. UNCHANGED <<date, synced, cached, seasonBegun, from, held, at, seen, got,
                    changes, wanted>>
    BY <1>10, Zenon DEF Dates!SendFails
  <2> QED
    BY <2>1, <2>2, <2>3, <2>4
<1>11. ASSUME NEW j \in Job, Dates!MarkFails(j) PROVE Dates!TypeOK'
  BY <1>11 DEF Dates!MarkFails, Dates!Fault, Dates!Leave
<1>12. ASSUME NEW s \in Sync, Dates!LoadEncounters(s) PROVE Dates!TypeOK'
  BY <1>12 DEF Dates!LoadEncounters
<1>13. ASSUME NEW s \in Sync, Dates!ReadDraw(s) PROVE Dates!TypeOK'
  BY <1>13 DEF Dates!ReadDraw
<1>14. ASSUME NEW s \in Sync, Dates!SaveDate(s) PROVE Dates!TypeOK'
  BY <1>14 DEF Dates!SaveDate, Dates!Finish
<1>15. CASE Dates!Begin
  BY <1>15 DEF Dates!Begin
<1>16. CASE Dates!Expire
  BY <1>16 DEF Dates!Expire
<1>17. CASE Dates!Crash
  BY <1>17 DEF Dates!Crash, Dates!Fault
<1>18. CASE UNCHANGED Dates!vars
  BY <1>18 DEF Dates!vars
<1> QED
  BY <1>1, <1>2, <1>3, <1>4, <1>5, <1>6, <1>7, <1>8, <1>9, <1>10, <1>11, <1>12,
     <1>13, <1>14, <1>15, <1>16, <1>17, <1>18, <1>19, <1>20, <1>21
     DEF Dates!Next, Dates!JobStep, Dates!JobFault, Dates!SyncStep, Dates!ChangeStep

(* Unless excused, nothing old is on its way, and the date of the last     *)
(* change is delivered or pending.                                         *)
LEMMA DateInvStep ==
  ASSUME Bounded
  PROVE  DateInv /\ [Dates!Next]_(Dates!vars) => DateInv'
<1> SUFFICES ASSUME DateInv, [Dates!Next]_(Dates!vars), ~excused'
             PROVE  NothingOld' /\ (changes' > 0 => Pending' \/ Delivered')
  BY DateTypeStep DEF DateInv
<1> USE DEF Dates!TypeOK, Dates!MaybeDate, Dates!Sending, Dates!db, Dates!web,
     Dates!jobs, Dates!syncs, Dates!count, Dates!list
<1>0. /\ Dates!TypeOK /\ Dates!TypeOK'
      /\ ~excused => NothingOld /\ (changes > 0 => Pending \/ Delivered)
  BY DateTypeStep DEF DateInv
<1> DEFINE Goal == NothingOld' /\ (changes' > 0 => Pending' \/ Delivered')
<1>1. ASSUME NEW c \in Session, NEW d \in Date, Dates!Impose(c, d) PROVE Goal
  <2>1. /\ ~excused /\ ~Dates!Overtakes(d)
        /\ \E j \in Job : phase[j] \in {"owed", "waiting"}
        /\ date' = d /\ wanted' = d
    BY <1>1 DEF Dates!Impose, Dates!Commit
  <2>4. UNCHANGED <<phase, held, at, seen, got>>
    BY <1>1 DEF Dates!Impose, Dates!Commit
  <2>2. NothingOld'
    BY <1>0, <2>1, <2>4 DEF NothingOld, Dates!Overtakes
  <2>3. Pending'
    BY <2>1, <2>4 DEF Pending
  <2> QED
    BY <2>2, <2>3
<1>2. ASSUME NEW c \in Session, NEW d \in Date, NEW j \in Job, Dates!Accept(c, d, j)
      PROVE  Goal
  <2>3. /\ date' = d /\ wanted' = d /\ UNCHANGED <<held, at, seen, got>>
        /\ phase[j] = "none" /\ phase' = [phase EXCEPT ![j] = "owed"]
    BY <1>2 DEF Dates!Accept, Dates!Commit
  <2>1. NothingOld'
    <3>1. CASE Dates!Quiet
      BY <1>0, <2>3, <3>1 DEF NothingOld, Dates!Quiet, Dates!NoJob
    <3>2. CASE ~Dates!Quiet
      <4>1. ~excused /\ ~Dates!Overtakes(d)
        BY <1>2, <3>2 DEF Dates!Accept
      <4> QED
        BY <1>0, <2>3, <4>1 DEF NothingOld, Dates!Overtakes
    <3> QED
      BY <3>1, <3>2
  <2>2. Pending'
    BY <1>0, <2>3 DEF Pending
  <2> QED
    BY <2>1, <2>2
<1>3. ASSUME NEW d \in Dates!MaybeDate, Dates!Reschedule(d) PROVE Goal
  BY <1>3 DEF Dates!Reschedule
<1>4. ASSUME NEW j \in Job, Dates!PushAgain(j) PROVE Goal
  <2>1. NothingOld'
    <3>1. CASE Dates!Quiet /\ date = wanted
      BY <1>0, <1>4, <3>1 DEF Dates!PushAgain, NothingOld, Dates!Quiet, Dates!NoJob
    <3>2. CASE ~excused
      BY <1>0, <1>4, <3>2 DEF Dates!PushAgain, NothingOld
    <3> QED
      BY <1>4, <3>1, <3>2 DEF Dates!PushAgain
  <2>2. Pending'
    BY <1>0, <1>4 DEF Dates!PushAgain, Pending
  <2> QED
    BY <2>1, <2>2
<1>5. ASSUME NEW j \in Job, Dates!Queue(j) PROVE Goal
  <2>1. NothingOld'
    BY <1>0, <1>5 DEF Dates!Queue, NothingOld
  <2>2. Pending'
    BY <1>0, <1>5 DEF Dates!Queue, Pending
  <2> QED
    BY <2>1, <2>2
<1>6. ASSUME NEW j \in Job, Dates!Load(j) PROVE Goal
  <2>1. NothingOld'
    BY <1>0, <1>6 DEF Dates!Load, NothingOld
  <2>2. Pending'
    BY <1>0, <1>6 DEF Dates!Load, Pending
  <2> QED
    BY <2>1, <2>2
<1>7. ASSUME NEW j \in Job, Dates!Send(j) PROVE Goal
  <2>1. NothingOld'
    BY <1>0, <1>7 DEF Dates!Send, NothingOld
  <2>2. Delivered'
    <3>1. site' = wanted'
      BY <1>0, <1>7 DEF Dates!Send, Dates!SiteHas, NothingOld
    <3>2. phase'[j] = "sent"
      BY <1>0, <1>7 DEF Dates!Send
    <3> QED
      BY <3>1, <3>2 DEF Delivered
  <2> QED
    BY <2>1, <2>2
<1>8. ASSUME NEW j \in Job, Dates!Mark(j) PROVE Goal
  <2>1. NothingOld /\ (changes > 0 => Pending \/ Delivered)
    BY <1>0, <1>8 DEF Dates!Mark
  <2>2. NothingOld'
    BY <1>0, <1>8, <2>1 DEF Dates!Mark, Dates!Leave, NothingOld
  <2>3. Pending => Pending'
    BY <1>0, <1>8 DEF Dates!Mark, Dates!Leave, Pending
  <2>4. Delivered => Delivered'
    <3>1. phase[j] = "sent" /\ synced'
      BY <1>0, <1>8, <2>1 DEF Dates!Mark, Dates!Leave, NothingOld
    <3> QED
      BY <1>8, <3>1 DEF Dates!Mark, Delivered
  <2>5. changes' = changes
    BY <1>8 DEF Dates!Mark
  <2> QED
    BY <2>1, <2>2, <2>3, <2>4, <2>5
<1>9. ASSUME NEW j \in Job, Dates!QueueFails(j) PROVE Goal
  <2>1. ~excused /\ Dates!Carried(j)
    BY <1>9 DEF Dates!QueueFails
  <2>2. NothingOld'
    BY <1>0, <1>9, <2>1 DEF Dates!QueueFails, NothingOld
  <2>3. Pending'
    BY <1>0, <1>9, <2>1 DEF Dates!QueueFails, Dates!Carried, Pending
  <2> QED
    BY <2>2, <2>3
<1>10. ASSUME NEW j \in Job, Dates!SendFails(j) PROVE Goal
  BY <1>10 DEF Dates!SendFails
<1>11. ASSUME NEW j \in Job, Dates!MarkFails(j) PROVE Goal
  BY <1>11 DEF Dates!MarkFails
<1>12. ASSUME NEW s \in Sync, Dates!LoadEncounters(s) PROVE Goal
  <2>1. UNCHANGED <<date, synced, site, phase, held, got, changes, wanted, excused>>
    BY <1>12 DEF Dates!LoadEncounters
  <2>2. NothingOld'
    BY <1>0, <1>12, <2>1 DEF Dates!LoadEncounters, NothingOld
  <2> QED
    BY <1>0, <2>1, <2>2 DEF Pending, Delivered
<1>13. ASSUME NEW s \in Sync, Dates!ReadDraw(s) PROVE Goal
  <2>1. /\ UNCHANGED <<date, synced, site, phase, held, seen, changes, wanted>>
        /\ at' = [at EXCEPT ![s] = "read"] /\ ~excused
        /\ got' = [got EXCEPT ![s] = cached'] /\ cached' \in {NoDate, seen[s], wanted}
    BY <1>13 DEF Dates!ReadDraw
  <2>2. NothingOld'
    BY <1>0, <2>1 DEF NothingOld
  <2> QED
    BY <1>0, <2>1, <2>2 DEF Pending, Delivered
<1>14. ASSUME NEW s \in Sync, Dates!SaveDate(s) PROVE Goal
  <2>1. /\ UNCHANGED <<synced, site, phase, held, changes, wanted, excused>>
        /\ at[s] = "read" /\ at' = [at EXCEPT ![s] = "idle"]
    BY <1>14 DEF Dates!SaveDate, Dates!Finish
  <2>2. date' = wanted
    BY <1>0, <1>14, <2>1 DEF Dates!SaveDate, NothingOld
  <2>3. \A t \in Sync : at'[t] = "read" =>
          got'[t] = got[t] /\ seen'[t] = seen[t] /\ at[t] = "read"
    BY <1>0, <1>14, <2>1 DEF Dates!SaveDate, Dates!Finish
  <2>4. NothingOld'
    BY <1>0, <2>1, <2>2, <2>3 DEF NothingOld
  <2> QED
    BY <1>0, <2>1, <2>4 DEF Pending, Delivered
<1>19. ASSUME NEW c \in Session, Dates!LoadForChange(c) \/ Dates!Refuse(c) PROVE Goal
  BY <1>0, <1>19 DEF Dates!LoadForChange, Dates!Refuse, NothingOld, Pending, Delivered
<1>20. ASSUME NEW s \in Sync, Dates!SyncFails(s) PROVE Goal
  <2>1. /\ UNCHANGED <<date, synced, site, phase, held, changes, wanted, excused>>
        /\ \A t \in Sync : at'[t] = "read" =>
             got'[t] = got[t] /\ seen'[t] = seen[t] /\ at[t] = "read"
    BY <1>0, <1>20 DEF Dates!SyncFails
  <2>2. NothingOld'
    BY <1>0, <2>1 DEF NothingOld
  <2> QED
    BY <1>0, <2>1, <2>2 DEF Pending, Delivered
<1>21. CASE Dates!PassBy
  BY <1>0, <1>21 DEF Dates!PassBy, NothingOld, Pending, Delivered
<1>15. CASE Dates!Begin
  BY <1>0, <1>15 DEF Dates!Begin, NothingOld, Pending, Delivered
<1>16. CASE Dates!Expire
  BY <1>0, <1>16 DEF Dates!Expire, NothingOld, Pending, Delivered
<1>17. CASE Dates!Crash
  <2>1. /\ UNCHANGED <<date, synced, site, changes, wanted, excused>>
        /\ \A j \in Job :
             phase'[j] = IF phase[j] \in Dates!Sending THEN "waiting" ELSE phase[j]
        /\ \A s \in Sync : at'[s] = "idle"
    BY <1>0, <1>17 DEF Dates!Crash, Dates!Fault
  <2>2. NothingOld'
    BY <1>0, <2>1 DEF NothingOld
  <2>3. Pending \/ (Delivered /\ ~synced) => Pending'
    BY <1>0, <2>1 DEF Pending, Delivered
  <2>4. Delivered /\ synced => Delivered'
    BY <2>1 DEF Delivered
  <2> QED
    BY <1>0, <2>1, <2>2, <2>3, <2>4
<1>18. CASE UNCHANGED Dates!vars
  BY <1>0, <1>18 DEF Dates!vars, NothingOld, Pending, Delivered
<1> QED
  BY <1>1, <1>2, <1>3, <1>4, <1>5, <1>6, <1>7, <1>8, <1>9, <1>10, <1>11, <1>12,
     <1>13, <1>14, <1>15, <1>16, <1>17, <1>18, <1>19, <1>20, <1>21
     DEF Dates!Next, Dates!JobStep, Dates!JobFault, Dates!SyncStep, Dates!ChangeStep

----------------------------------------------------------------------------
(* The state of the encounter is always well typed; a job holds a date     *)
(* exactly while it sends one.                                             *)
THEOREM DateTypeCorrect ==
  ASSUME Bounded
  PROVE  Dates!Spec => []Dates!TypeOK
<1>1. Dates!Init => Dates!TypeOK
  BY DateInitInv DEF DateInv
<1> QED
  BY <1>1, DateTypeStep, PTL DEF Dates!Spec

(* Once the queue is empty and no event sync runs, Badman and toernooi.nl  *)
(* have the date of the last change and it is marked as sent, for any      *)
(* number of concurrent ChangeDate jobs and event syncs - with the excuses *)
(* of Agreed, which the interleavings of change-date.ts and the event sync *)
(* need.                                                                   *)
THEOREM AgreedAlways ==
  ASSUME Bounded
  PROVE  Dates!Spec => []Dates!Agreed
<1>1. DateInv => Dates!Agreed
  <2> SUFFICES ASSUME DateInv, Dates!Quiet, ~excused
               PROVE  date = wanted /\ (changes > 0 => site = wanted /\ synced)
    BY DEF Dates!Agreed
  <2>1. NothingOld /\ (changes > 0 => Pending \/ Delivered)
    BY DEF DateInv
  <2>2. ~Pending
    BY DEF Dates!Quiet, Dates!NoJob, Pending
  <2>3. Delivered => site = wanted /\ synced
    BY DEF Dates!Quiet, Dates!NoJob, Delivered
  <2> QED
    BY <2>1, <2>2, <2>3 DEF NothingOld
<1> QED
  BY <1>1, DateInitInv, DateInvStep, PTL DEF Dates!Spec
=============================================================================
