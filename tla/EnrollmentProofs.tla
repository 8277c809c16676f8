-------------------------- MODULE EnrollmentProofs --------------------------
(***************************************************************************)
(* Proofs about Enrollment, for any club, any lists of teams and any       *)
(* number of sessions: a submission that commits has sent an entry of each *)
(* of its teams, and a finalization that is logged has sent something new. *)
(*                                                                         *)
(* A session sees rows that are committed or its own, and such a row stays *)
(* what it is while the session runs - but for two things others may do to *)
(* it: stamp it, which the row lock prevents, and detach it from its team, *)
(* which only happens to a team of which two mutations made the entry      *)
(* (CrossedFor).  The first invariant of each session (CallInv) says what  *)
(* the session may rely on at each of its statements.                      *)
(***************************************************************************)
EXTENDS Enrollment, FiniteSetTheorems, WellFoundedInduction, TLAPS

Mine(c, e) == entry[e].by \in {Db, c}

(* Two of the entries a session sees were made for the team. *)
CrossedFor(c, t) ==
  \E e, f \in Entry : e # f /\ Mine(c, e) /\ Mine(c, f)
                      /\ entry[e].first = t /\ entry[f].first = t

(* An entry is attached to the team it was made for. *)
RowOk ==
  \A e \in Entry :
    /\ entry[e].by # None => entry[e].first \in Team
    /\ entry[e].team # None => entry[e].first = entry[e].team

(* The statements come in the order of their mutation. *)
Ordered(c) ==
  LET k == call[c] IN
  /\ k.at = "upsert" => k.links # <<>> /\ k.entered = 0 /\ k.kind \in {"submit", "create"}
  /\ k.at \in {"enter", "set", "attach"} =>
       k.entered < Len(k.teams) /\ k.kind \in {"submit", "enroll"}
  /\ k.at = "read" => k.kind \in {"submit", "finish"}
  /\ k.kind = "submit" /\ k.at \in {"read", "lock", "commit"} => k.entered = Len(k.teams)
  /\ k.entered <= Len(k.teams)
  /\ k.at \notin {"lock", "commit"} => k.pick = {}
  /\ k.fresh => k.at = "commit"
  /\ ~Running(c) => k.drop = {} /\ k.teams = <<>>
  /\ \A i \in 1 .. Len(k.teams) : team[k.teams[i]].by \in {Db, c}

(* The entry being made, and what it takes the place of. *)
Making(c) ==
  LET k == call[c] IN
  /\ IF k.at \in {"set", "attach"}
     THEN /\ k.made \in Entry
          /\ entry[k.made].by = c /\ entry[k.made].team = None
          /\ entry[k.made].first = Current(c)
     ELSE k.made = None
  /\ k.at = "attach" /\ k.old # None =>
       k.old # k.made /\ Mine(c, k.old) /\ entry[k.old].first = Current(c)
  /\ \A e \in k.drop :
       /\ Mine(c, e) /\ e # k.made
       /\ \E f \in Entry : f # e /\ entry[f].by = c /\ entry[f].first = entry[e].first

(* The teams entered so far have an entry. *)
HasEntry(c, t) ==
  \/ \E e \in Entry : Mine(c, e) /\ e \notin call[c].drop /\ entry[e].team = t
  \/ CrossedFor(c, t)

Served(c) == \A i \in 1 .. call[c].entered : HasEntry(c, call[c].teams[i])

(* What was read with the teams: the entries without sendOn are known, and *)
(* each entry is still that of its team.                                   *)
Picked(c) ==
  LET k == call[c] IN
  /\ k.unsent \subseteq k.pick
  /\ \A e \in k.pick :
       /\ Mine(c, e) /\ e \notin k.drop
       /\ e \notin k.unsent => entry[e].sent
       /\ entry[e].team # None \/ CrossedFor(c, entry[e].first)
  /\ k.kind = "submit" /\ k.at \in {"lock", "commit"} =>
       \A i \in 1 .. Len(k.teams) :
         (\E e \in k.pick : entry[e].team = k.teams[i]) \/ CrossedFor(c, k.teams[i])

(* What the locks on the entries decided stays true. *)
Verdict(c) ==
  LET k == call[c] IN
  /\ k.fresh =>
       \/ k.pick = {}
       \/ \E t \in Team : CrossedFor(c, t)
       \/ \E e \in k.unsent : ~entry[e].sent /\ elock[e] = c
  /\ k.at = "commit" /\ ~k.fresh =>
       \A e \in k.pick : entry[e].team # None => entry[e].sent

CallInv(c) == Ordered(c) /\ Making(c) /\ Served(c) /\ Picked(c) /\ Verdict(c)

(* Each mutation logs once at most: the bound on mutations bounds the log. *)
Active == {c \in Call : Running(c)}
Counted == IsFiniteSet(Active) /\ Cardinality(Active) + logged <= calls

IInv == TypeOK /\ RowOk /\ Counted /\ \A c \in Call : CallInv(c)

-----------------------------------------------------------------------------
(* The types. *)

CallRecord ==
  [kind : Kinds, at : Phases, links : Seq(Link \cup {None}), teams : Seq(Team),
   entered : Nat, made : Entry \cup {None}, old : Entry \cup {None},
   drop : SUBSET Entry, pick : SUBSET Entry, unsent : SUBSET Entry, fresh : BOOLEAN]

(* A set of natural numbers that is not empty has a least one. *)
LEMMA Least ==
  ASSUME NEW T, T \subseteq Nat, T # {}
  PROVE  \E x \in T : \A y \in T : x <= y
<1> DEFINE Less == {ss \in Nat \X Nat : ss[1] < ss[2]}
<1>1. Less = OpToRel(<, Nat)
  BY DEF OpToRel
<1>2. IsWellFoundedOn(Less, Nat)
  BY <1>1, NatLessThanWellFounded
<1>3. PICK x \in T : \A y \in T : ~ (<<y, x>> \in Less)
  BY <1>2, WFMin
<1>4. ASSUME NEW y \in T PROVE x <= y
  <2>1. <<y, x>> \notin Less /\ x \in Nat /\ y \in Nat
    BY <1>3
  <2>2. ~(y < x)
    BY <2>1
  <2> QED
    BY <2>1, <2>2
<1> QED
  BY <1>4

LEMMA FirstIsThere ==
  ASSUME NEW S, S \subseteq Nat, S # {}
  PROVE  First(S) \in S
BY Least DEF First

LEMMA FreeTeam ==
  ASSUME TypeOK, Free(team) # {}
  PROVE  First(Free(team)) \in Team /\ team[First(Free(team))].by = None
<1>1. Free(team) \subseteq Team /\ Free(team) \subseteq Nat
  BY EnrollmentConstants DEF TypeOK, Free
<1>2. First(Free(team)) \in Free(team)
  BY <1>1, FirstIsThere
<1> QED
  BY <1>1, <1>2 DEF Free

LEMMA FreeEntry ==
  ASSUME TypeOK, Free(entry) # {}
  PROVE  First(Free(entry)) \in Entry /\ entry[First(Free(entry))].by = None
<1>1. Free(entry) \subseteq Entry /\ Free(entry) \subseteq Nat
  BY EnrollmentConstants DEF TypeOK, Free
<1>2. First(Free(entry)) \in Free(entry)
  BY <1>1, FirstIsThere
<1> QED
  BY <1>1, <1>2 DEF Free

LEMMA IdleType == Idle \in CallRecord
<1>1. <<>> \in Seq(Link \cup {None}) /\ <<>> \in Seq(Team)
  OBVIOUS
<1> QED
  BY <1>1 DEF Idle, CallRecord, Kinds, Phases

LEMMA CallIs ==
  ASSUME NEW c \in Call, NEW k \in CallRecord, call \in [Call -> CallRecord],
         call' = [call EXCEPT ![c] = k]
  PROVE  /\ call' \in [Call -> CallRecord]
         /\ call'[c] = k
         /\ \A d \in Call \ {c} : call'[d] = call[d]
OBVIOUS

LEMMA EnteredType ==
  ASSUME NEW k \in CallRecord, NEW a \in Phases, NEW D \in SUBSET Entry
  PROVE  /\ [k EXCEPT !.entered = @ + 1, !.at = a] \in CallRecord
         /\ [k EXCEPT !.entered = @ + 1, !.at = a, !.made = None, !.old = None,
                      !.drop = D] \in CallRecord
<1>1. PICK n \in Nat : n = k.entered + 1
  BY DEF CallRecord
<1>2. [k EXCEPT !.entered = n, !.at = a] \in CallRecord
  BY DEF CallRecord
<1>3. [k EXCEPT !.entered = n, !.at = a, !.made = None, !.old = None, !.drop = D]
         \in CallRecord
  BY DEF CallRecord
<1> QED
  BY <1>1, <1>2, <1>3

LEMMA CurrentType ==
  ASSUME TypeOK, NEW c \in Call, Ordered(c), call[c].at \in {"enter", "set", "attach"}
  PROVE  Current(c) \in Team /\ call[c].entered + 1 \in 1 .. Len(call[c].teams)
<1>1. call[c].teams \in Seq(Team) /\ call[c].entered \in Nat
  BY DEF TypeOK
<1>2. call[c].entered < Len(call[c].teams) /\ Len(call[c].teams) \in Nat
  BY <1>1 DEF Ordered
<1>3. call[c].entered + 1 \in 1 .. Len(call[c].teams)
  BY <1>1, <1>2
<1> QED
  BY <1>1, <1>3 DEF Current

(* What each action makes of the call. *)
Moves(c) == call' \in [Call -> CallRecord] /\ \A d \in Call \ {c} : call'[d] = call[d]

LEMMA CallsAre ==
  ASSUME TypeOK
  PROVE  /\ call \in [Call -> CallRecord]
         /\ \A c \in Call :
              /\ call[c].links \in Seq(Link \cup {None}) /\ call[c].teams \in Seq(Team)
              /\ call[c].entered \in Nat /\ call[c].kind \in Kinds /\ call[c].at \in Phases
              /\ call[c].made \in Entry \cup {None} /\ call[c].old \in Entry \cup {None}
              /\ call[c].drop \subseteq Entry /\ call[c].pick \subseteq Entry
              /\ call[c].unsent \subseteq Entry /\ call[c].fresh \in BOOLEAN
<1>1. call \in [Call -> CallRecord]
  BY DEF TypeOK, CallRecord
<1> QED
  BY <1>1 DEF CallRecord

LEMMA StartIs ==
  ASSUME NEW c \in Call, NEW kind \in Kinds, NEW at \in Phases,
         NEW links \in Seq(Link \cup {None}), NEW teams \in Seq(Team), TypeOK,
         Start(c, kind, at, links, teams)
  PROVE  /\ Moves(c)
         /\ call'[c].kind = kind /\ call'[c].at = at /\ call'[c].links = links
         /\ call'[c].teams = teams /\ call'[c].entered = 0
         /\ call'[c].made = None /\ call'[c].old = None /\ call'[c].drop = {}
         /\ call'[c].pick = {} /\ call'[c].unsent = {} /\ call'[c].fresh = FALSE
         /\ ~Running(c) /\ calls < MaxCalls /\ calls' = calls + 1
         /\ UNCHANGED <<team, entry, lock, elock, logged>>
<1> DEFINE k == [Idle EXCEPT !.kind = kind, !.at = at, !.links = links, !.teams = teams]
<1>1. k \in CallRecord
  BY IdleType DEF CallRecord
<1>2. /\ k.kind = kind /\ k.at = at /\ k.links = links /\ k.teams = teams /\ k.entered = 0
      /\ k.made = None /\ k.old = None /\ k.drop = {}
      /\ k.pick = {} /\ k.unsent = {} /\ k.fresh = FALSE
  BY DEF Idle
<1>3. call' = [call EXCEPT ![c] = k] /\ call \in [Call -> CallRecord]
  BY CallsAre DEF Start
<1> HIDE DEF k
<1>4. Moves(c) /\ call'[c] = k
  BY <1>1, <1>3, CallIs DEF Moves
<1> QED
  BY <1>2, <1>4 DEF Start, rows, locks

LEMMA BeginIs ==
  ASSUME TypeOK, NEW c \in Call, Begin(c)
  PROVE  \E kind \in Kinds, at \in {"upsert", "read", "enter"},
           links \in Seq(Link \cup {None}), teams \in Seq(Team) :
           /\ Start(c, kind, at, links, teams) /\ at \in Phases
           /\ at = "upsert" => links # <<>> /\ kind \in {"submit", "create"} /\ teams = <<>>
           /\ at = "read" => kind = "finish" /\ teams = <<>>
           /\ at = "enter" => kind = "enroll" /\ Len(teams) = 1 /\ team[teams[1]].by = Db
<1>0. <<>> \in Seq(Team) /\ <<>> \in Seq(Link \cup {None})
  OBVIOUS
<1>1. CASE SubmitEnrollment(c)
  <2>1. PICK links \in Inputs : Start(c, "submit", "upsert", links, <<>>)
    BY <1>1 DEF SubmitEnrollment
  <2>2. links \in Seq(Link \cup {None}) /\ links # <<>>
    BY EnrollmentConstants
  <2> QED
    BY <1>0, <2>1, <2>2 DEF Kinds, Phases
<1>2. CASE FinishEventEntry(c)
  BY <1>0, <1>2 DEF FinishEventEntry, Kinds, Phases
<1>3. CASE CreateEnrollment(c)
  <2>1. PICK t \in Team : team[t].by = Db /\ Start(c, "enroll", "enter", <<>>, <<t>>)
    BY <1>3 DEF CreateEnrollment
  <2>2. <<t>> \in Seq(Team) /\ Len(<<t>>) = 1 /\ <<t>>[1] = t
    OBVIOUS
  <2> QED
    BY <1>0, <2>1, <2>2 DEF Kinds, Phases
<1>4. CASE CreateTeams(c)
  <2>1. PICK links \in Inputs : Start(c, "create", "upsert", links, <<>>)
    BY <1>4 DEF CreateTeams
  <2>2. links \in Seq(Link \cup {None}) /\ links # <<>>
    BY EnrollmentConstants
  <2> QED
    BY <1>0, <2>1, <2>2 DEF Kinds, Phases
<1> QED
  BY <1>1, <1>2, <1>3, <1>4 DEF Begin

LEMMA WroteTeamIs ==
  ASSUME TypeOK, NEW c \in Call, NEW t \in Team, WroteTeam(c, t), call[c].links # <<>>
  PROVE  /\ Moves(c)
         /\ call'[c].at = AfterTeams(call[c].kind, Tail(call[c].links))
         /\ call'[c].links = Tail(call[c].links)
         /\ call'[c].teams = Append(call[c].teams, t)
         /\ call'[c].kind = call[c].kind /\ call'[c].entered = call[c].entered
         /\ call'[c].made = call[c].made /\ call'[c].old = call[c].old
         /\ call'[c].drop = call[c].drop /\ call'[c].pick = call[c].pick
         /\ call'[c].unsent = call[c].unsent /\ call'[c].fresh = call[c].fresh
<1>1. call \in [Call -> CallRecord] /\ call[c] \in CallRecord
  BY CallsAre
<1>0. call[c].links \in Seq(Link \cup {None}) /\ call[c].teams \in Seq(Team)
  BY CallsAre
<1>2. PICK ls \in Seq(Link \cup {None}) : ls = Tail(call[c].links)
  <2>1. Tail(call[c].links) \in Seq(Link \cup {None})
    BY <1>0
  <2> QED
    BY <2>1
<1>3. PICK ts \in Seq(Team) : ts = Append(call[c].teams, t)
  <2>1. Append(call[c].teams, t) \in Seq(Team)
    BY <1>0
  <2> QED
    BY <2>1
<1>4. PICK a \in Phases : a = AfterTeams(call[c].kind, Tail(call[c].links))
  BY DEF AfterTeams, Phases
<1> DEFINE k == [call[c] EXCEPT !.links = ls, !.teams = ts, !.at = a]
<1>5. call' = [call EXCEPT ![c] = k]
  BY <1>1, <1>2, <1>3, <1>4 DEF WroteTeam
<1>6. k \in CallRecord
  BY <1>1 DEF CallRecord
<1>7. /\ k.at = a /\ k.links = ls /\ k.teams = ts
      /\ k.kind = call[c].kind /\ k.entered = call[c].entered /\ k.made = call[c].made
      /\ k.old = call[c].old /\ k.drop = call[c].drop /\ k.pick = call[c].pick
      /\ k.unsent = call[c].unsent /\ k.fresh = call[c].fresh
  BY <1>1 DEF CallRecord
<1> HIDE DEF k
<1>8. Moves(c) /\ call'[c] = k
  BY <1>1, <1>5, <1>6, CallIs DEF Moves
<1> QED
  BY <1>2, <1>3, <1>4, <1>7, <1>8

LEMMA KeepEntryIs ==
  ASSUME TypeOK, NEW c \in Call, KeepEntry(c)
  PROVE  /\ Moves(c)
         /\ call'[c].at = Entered(c) /\ call'[c].entered = call[c].entered + 1
         /\ call'[c].links = call[c].links /\ call'[c].teams = call[c].teams
         /\ call'[c].kind = call[c].kind
         /\ call'[c].made = call[c].made /\ call'[c].old = call[c].old
         /\ call'[c].drop = call[c].drop /\ call'[c].pick = call[c].pick
         /\ call'[c].unsent = call[c].unsent /\ call'[c].fresh = call[c].fresh
<1>1. call \in [Call -> CallRecord] /\ call[c] \in CallRecord
  BY CallsAre
<1>2. PICK n \in Nat : n = call[c].entered + 1
  BY CallsAre
<1>3. PICK a \in Phases : a = Entered(c)
  BY DEF Entered, Phases
<1> DEFINE k == [call[c] EXCEPT !.entered = n, !.at = a]
<1>5. call' = [call EXCEPT ![c] = k]
  BY <1>1, <1>2, <1>3 DEF KeepEntry
<1>6. k \in CallRecord
  BY <1>1 DEF CallRecord
<1>7. /\ k.at = a /\ k.entered = n /\ k.links = call[c].links /\ k.teams = call[c].teams
      /\ k.kind = call[c].kind /\ k.made = call[c].made
      /\ k.old = call[c].old /\ k.drop = call[c].drop /\ k.pick = call[c].pick
      /\ k.unsent = call[c].unsent /\ k.fresh = call[c].fresh
  BY <1>1 DEF CallRecord
<1> HIDE DEF k
<1>8. Moves(c) /\ call'[c] = k
  BY <1>1, <1>5, <1>6, CallIs DEF Moves
<1> QED
  BY <1>2, <1>3, <1>7, <1>8

LEMMA MakeEntryIs ==
  ASSUME TypeOK, NEW c \in Call, MakeEntry(c)
  PROVE  /\ Moves(c)
         /\ call'[c].at = "set" /\ call'[c].made = First(Free(entry))
         /\ call'[c].links = call[c].links /\ call'[c].teams = call[c].teams
         /\ call'[c].kind = call[c].kind /\ call'[c].entered = call[c].entered
         /\ call'[c].old = call[c].old
         /\ call'[c].drop = call[c].drop /\ call'[c].pick = call[c].pick
         /\ call'[c].unsent = call[c].unsent /\ call'[c].fresh = call[c].fresh
<1>1. call \in [Call -> CallRecord] /\ call[c] \in CallRecord
  BY CallsAre
<1>2. PICK m \in Entry : m = First(Free(entry))
  BY FreeEntry DEF MakeEntry
<1> DEFINE k == [call[c] EXCEPT !.at = "set", !.made = m]
<1>5. call' = [call EXCEPT ![c] = k]
  BY <1>1, <1>2 DEF MakeEntry
<1>6. k \in CallRecord
  BY <1>1 DEF CallRecord, Phases
<1>7. /\ k.at = "set" /\ k.made = m /\ k.links = call[c].links /\ k.teams = call[c].teams
      /\ k.kind = call[c].kind /\ k.entered = call[c].entered
      /\ k.old = call[c].old /\ k.drop = call[c].drop /\ k.pick = call[c].pick
      /\ k.unsent = call[c].unsent /\ k.fresh = call[c].fresh
  BY <1>1 DEF CallRecord
<1> HIDE DEF k
<1>8. Moves(c) /\ call'[c] = k
  BY <1>1, <1>5, <1>6, CallIs DEF Moves
<1> QED
  BY <1>2, <1>7, <1>8

LEMMA ReadOldIs ==
  ASSUME TypeOK, NEW c \in Call, ReadOld(c)
  PROVE  /\ Moves(c)
         /\ call'[c].at = "attach"
         /\ \/ call'[c].old = None /\ EntriesOf(c, {Current(c)}) = {}
            \/ call'[c].old \in EntriesOf(c, {Current(c)})
         /\ call'[c].links = call[c].links /\ call'[c].teams = call[c].teams
         /\ call'[c].kind = call[c].kind /\ call'[c].entered = call[c].entered
         /\ call'[c].made = call[c].made
         /\ call'[c].drop = call[c].drop /\ call'[c].pick = call[c].pick
         /\ call'[c].unsent = call[c].unsent /\ call'[c].fresh = call[c].fresh
<1>1. call \in [Call -> CallRecord] /\ call[c] \in CallRecord
  BY CallsAre
<1>2. PICK o : /\ call' = [call EXCEPT ![c].at = "attach", ![c].old = o]
               /\ \/ o = None /\ EntriesOf(c, {Current(c)}) = {}
                  \/ o \in EntriesOf(c, {Current(c)})
  BY DEF ReadOld
<1>3. o \in Entry \cup {None}
  BY <1>2 DEF EntriesOf, EntriesSeen
<1> DEFINE k == [call[c] EXCEPT !.at = "attach", !.old = o]
<1>5. call' = [call EXCEPT ![c] = k]
  BY <1>1, <1>2
<1>6. k \in CallRecord
  BY <1>1, <1>3 DEF CallRecord, Phases
<1>7. /\ k.at = "attach" /\ k.old = o /\ k.links = call[c].links /\ k.teams = call[c].teams
      /\ k.kind = call[c].kind /\ k.entered = call[c].entered
      /\ k.made = call[c].made /\ k.drop = call[c].drop /\ k.pick = call[c].pick
      /\ k.unsent = call[c].unsent /\ k.fresh = call[c].fresh
  BY <1>1 DEF CallRecord
<1> HIDE DEF k
<1>8. Moves(c) /\ call'[c] = k
  BY <1>1, <1>5, <1>6, CallIs DEF Moves
<1> QED
  BY <1>2, <1>7, <1>8

LEMMA AttachEntryIs ==
  ASSUME TypeOK, NEW c \in Call, AttachEntry(c)
  PROVE  /\ Moves(c)
         /\ call'[c].at = Entered(c) /\ call'[c].entered = call[c].entered + 1
         /\ call'[c].made = None /\ call'[c].old = None
         /\ call'[c].drop = IF call[c].old = None THEN call[c].drop
                            ELSE call[c].drop \cup {call[c].old}
         /\ call'[c].links = call[c].links /\ call'[c].teams = call[c].teams
         /\ call'[c].kind = call[c].kind /\ call'[c].pick = call[c].pick
         /\ call'[c].unsent = call[c].unsent /\ call'[c].fresh = call[c].fresh
<1>1. call \in [Call -> CallRecord] /\ call[c] \in CallRecord
  BY CallsAre
<1>2. PICK n \in Nat : n = call[c].entered + 1
  BY CallsAre
<1>3. PICK a \in Phases : a = Entered(c)
  BY DEF Entered, Phases
<1>4. PICK D \in SUBSET Entry :
        D = IF call[c].old = None THEN call[c].drop ELSE call[c].drop \cup {call[c].old}
  BY CallsAre
<1> DEFINE k == [call[c] EXCEPT !.entered = n, !.at = a, !.made = None, !.old = None,
                                !.drop = D]
<1>5. call' = [call EXCEPT ![c] = k]
  BY <1>1, <1>2, <1>3, <1>4 DEF AttachEntry
<1>6. k \in CallRecord
  BY <1>1 DEF CallRecord
<1>7. /\ k.at = a /\ k.entered = n /\ k.made = None /\ k.old = None /\ k.drop = D
      /\ k.links = call[c].links /\ k.teams = call[c].teams /\ k.kind = call[c].kind
      /\ k.pick = call[c].pick /\ k.unsent = call[c].unsent /\ k.fresh = call[c].fresh
  BY <1>1 DEF CallRecord
<1> HIDE DEF k
<1>8. Moves(c) /\ call'[c] = k
  BY <1>1, <1>5, <1>6, CallIs DEF Moves
<1> QED
  BY <1>2, <1>3, <1>4, <1>7, <1>8

LEMMA ReadTeamsIs ==
  ASSUME TypeOK, NEW c \in Call, ReadTeams(c)
  PROVE  /\ Moves(c)
         /\ call'[c].at = "lock" /\ call'[c].pick \subseteq EntriesOf(c, TeamsSeen(c))
         /\ call'[c].unsent = {e \in call'[c].pick : ~entry[e].sent}
         /\ \A t \in TeamsSeen(c) : EntriesOf(c, {t}) # {} =>
              \E e \in call'[c].pick : entry[e].team = t
         /\ call'[c].links = call[c].links /\ call'[c].teams = call[c].teams
         /\ call'[c].kind = call[c].kind /\ call'[c].entered = call[c].entered
         /\ call'[c].made = call[c].made /\ call'[c].old = call[c].old
         /\ call'[c].drop = call[c].drop /\ call'[c].fresh = call[c].fresh
<1>1. call \in [Call -> CallRecord] /\ call[c] \in CallRecord
  BY CallsAre
<1>2. PICK p \in SUBSET EntriesOf(c, TeamsSeen(c)) :
        /\ \A t \in TeamsSeen(c) : EntriesOf(c, {t}) # {} => \E e \in p : entry[e].team = t
        /\ call' = [call EXCEPT ![c].at = "lock", ![c].pick = p,
                                ![c].unsent = {e \in p : ~entry[e].sent}]
  BY DEF ReadTeams
<1>3. p \in SUBSET Entry
  BY <1>2 DEF EntriesOf, EntriesSeen
<1>4. PICK u \in SUBSET Entry : u = {e \in p : ~entry[e].sent}
  BY <1>3
<1> DEFINE k == [call[c] EXCEPT !.at = "lock", !.pick = p, !.unsent = u]
<1>5. call' = [call EXCEPT ![c] = k]
  BY <1>1, <1>2, <1>4
<1>6. k \in CallRecord
  BY <1>1, <1>3 DEF CallRecord, Phases
<1>7. /\ k.at = "lock" /\ k.pick = p /\ k.unsent = u
      /\ k.links = call[c].links /\ k.teams = call[c].teams
      /\ k.kind = call[c].kind /\ k.entered = call[c].entered
      /\ k.made = call[c].made /\ k.old = call[c].old
      /\ k.drop = call[c].drop /\ k.fresh = call[c].fresh
  BY <1>1 DEF CallRecord
<1> HIDE DEF k
<1>8. Moves(c) /\ call'[c] = k
  BY <1>1, <1>5, <1>6, CallIs DEF Moves
<1> QED
  BY <1>2, <1>4, <1>7, <1>8

LockedBy(c) == EntriesOf(c, {entry[e].team : e \in call[c].pick})

LEMMA LockEntriesIs ==
  ASSUME TypeOK, NEW c \in Call, LockEntries(c)
  PROVE  /\ Moves(c)
         /\ call'[c].at = "commit"
         /\ call'[c].fresh <=> LockedBy(c) = {} \/ \E e \in LockedBy(c) : ~entry[e].sent
         /\ call'[c].links = call[c].links /\ call'[c].teams = call[c].teams
         /\ call'[c].kind = call[c].kind /\ call'[c].entered = call[c].entered
         /\ call'[c].made = call[c].made /\ call'[c].old = call[c].old
         /\ call'[c].drop = call[c].drop /\ call'[c].pick = call[c].pick
         /\ call'[c].unsent = call[c].unsent
<1>1. call \in [Call -> CallRecord] /\ call[c] \in CallRecord
  BY CallsAre
<1> DEFINE b == LockedBy(c) = {} \/ \E e \in LockedBy(c) : ~entry[e].sent
<1>2. b \in BOOLEAN
  OBVIOUS
<1>3. call' = [call EXCEPT ![c].at = "commit", ![c].fresh = b]
  BY Zenon DEF LockEntries, LockedBy
<1> HIDE DEF b
<1> DEFINE k == [call[c] EXCEPT !.at = "commit", !.fresh = b]
<1>5. call' = [call EXCEPT ![c] = k]
  BY <1>1, <1>3
<1>6. k \in CallRecord
  BY <1>1, <1>2 DEF CallRecord, Phases
<1>7. /\ k.at = "commit" /\ k.fresh = b /\ k.links = call[c].links /\ k.teams = call[c].teams
      /\ k.kind = call[c].kind /\ k.entered = call[c].entered
      /\ k.made = call[c].made /\ k.old = call[c].old
      /\ k.drop = call[c].drop /\ k.pick = call[c].pick /\ k.unsent = call[c].unsent
  BY <1>1 DEF CallRecord
<1> HIDE DEF k
<1>8. Moves(c) /\ call'[c] = k
  BY <1>1, <1>5, <1>6, CallIs DEF Moves
<1>9. call'[c].fresh = b
  BY <1>7, <1>8
<1> USE DEF b
<1>10. call'[c].fresh <=> LockedBy(c) = {} \/ \E e \in LockedBy(c) : ~entry[e].sent
  BY <1>9, Zenon
<1> HIDE DEF b
<1> QED
  BY <1>7, <1>8, <1>10

LEMMA EndIs ==
  ASSUME TypeOK, NEW c \in Call, Commit(c) \/ Rollback(c)
  PROVE  /\ Moves(c)
         /\ call'[c].at = IF Commit(c) THEN "done" ELSE "idle"
         /\ call'[c].kind = "finish" /\ call'[c].links = <<>> /\ call'[c].teams = <<>>
         /\ call'[c].entered = 0 /\ call'[c].made = None /\ call'[c].old = None
         /\ call'[c].drop = {} /\ call'[c].pick = {} /\ call'[c].unsent = {}
         /\ call'[c].fresh = FALSE
<1>1. call \in [Call -> CallRecord] /\ Idle \in CallRecord
  BY CallsAre, IdleType
<1>2. CASE Commit(c)
  <2> DEFINE k == [Idle EXCEPT !.at = "done"]
  <2>1. call' = [call EXCEPT ![c] = k]
    BY <1>2 DEF Commit
  <2>2. k \in CallRecord
    BY <1>1 DEF CallRecord, Phases
  <2>3. /\ k.at = "done" /\ k.kind = "finish" /\ k.links = <<>> /\ k.teams = <<>>
        /\ k.entered = 0 /\ k.made = None /\ k.old = None /\ k.drop = {} /\ k.pick = {}
        /\ k.unsent = {} /\ k.fresh = FALSE
    BY DEF Idle
  <2> HIDE DEF k
  <2>4. Moves(c) /\ call'[c] = k
    BY <1>1, <2>1, <2>2, CallIs DEF Moves
  <2> QED
    BY <1>2, <2>3, <2>4
<1>3. CASE Rollback(c)
  <2>1. call' = [call EXCEPT ![c] = Idle]
    BY <1>3 DEF Rollback, Undo
  <2>2. Moves(c) /\ call'[c] = Idle
    BY <1>1, <2>1, CallIs DEF Moves
  <2>3. /\ Idle.at = "idle" /\ Idle.kind = "finish" /\ Idle.links = <<>> /\ Idle.teams = <<>>
        /\ Idle.entered = 0 /\ Idle.made = None /\ Idle.old = None /\ Idle.drop = {}
        /\ Idle.pick = {} /\ Idle.unsent = {} /\ Idle.fresh = FALSE
    BY DEF Idle
  <2>4. ~Commit(c)
    <3>1. Commit(c) => call'[c].at = "done"
      <4>1. Commit(c) => call'[c] = [Idle EXCEPT !.at = "done"]
        BY <1>1 DEF Commit
      <4> QED
        BY <4>1 DEF Idle
    <3> QED
      BY <2>2, <2>3, <3>1
  <2> QED
    BY <2>2, <2>3, <2>4
<1> QED
  BY <1>2, <1>3

LEMMA BeginLeaves ==
  ASSUME TypeOK, NEW c \in Call, Begin(c)
  PROVE  /\ Moves(c) /\ ~Running(c) /\ call'[c].at \in {"upsert", "read", "enter"}
         /\ calls < MaxCalls /\ calls' = calls + 1
         /\ UNCHANGED <<team, entry, lock, elock, logged>>
<1>1. PICK kind \in Kinds, at \in {"upsert", "read", "enter"},
           links \in Seq(Link \cup {None}), teams \in Seq(Team) :
           Start(c, kind, at, links, teams) /\ at \in Phases
  BY BeginIs
<1> QED
  BY <1>1, StartIs, Zenon

(* A step of a session changes its own call only. *)
LEMMA CallStep ==
  ASSUME IInv, NEW c \in Call, Begin(c) \/ Statement(c) \/ Rollback(c)
  PROVE  /\ Moves(c)
         /\ Statement(c) /\ ~Commit(c) =>
              call'[c].at \in {"upsert", "enter", "set", "attach", "read", "lock", "commit"}
<1>1. TypeOK /\ (call[c].at = "upsert" => call[c].links # <<>>)
  BY DEF IInv, CallInv, Ordered
<1>2. Entered(c) \in {"enter", "read", "commit"}
  BY DEF Entered
<1>3. ASSUME NEW t \in Team, WroteTeam(c, t), call[c].at = "upsert"
      PROVE  Moves(c) /\ call'[c].at \in {"upsert", "enter", "commit"}
  BY <1>1, <1>3, WroteTeamIs DEF AfterTeams
<1>4. Begin(c) => Moves(c)
  BY <1>1, BeginLeaves
<1>5. FindTeam(c) => Moves(c) /\ call'[c].at \in {"upsert", "enter", "commit"}
  BY <1>3 DEF FindTeam, Found, TeamsSeen
<1>6. NewTeam(c) => Moves(c) /\ call'[c].at \in {"upsert", "enter", "commit"}
  BY <1>1, <1>3, FreeTeam DEF NewTeam
<1>7. KeepEntry(c) \/ AttachEntry(c) => Moves(c) /\ call'[c].at \in {"enter", "read", "commit"}
  BY <1>1, <1>2, KeepEntryIs, AttachEntryIs
<1>8. MakeEntry(c) => Moves(c) /\ call'[c].at = "set"
  BY <1>1, MakeEntryIs
<1>9. ReadOld(c) => Moves(c) /\ call'[c].at = "attach"
  BY <1>1, ReadOldIs
<1>10. ReadTeams(c) => Moves(c) /\ call'[c].at = "lock"
  BY <1>1, ReadTeamsIs
<1>11. LockEntries(c) => Moves(c) /\ call'[c].at = "commit"
  BY <1>1, LockEntriesIs
<1>12. Commit(c) \/ Rollback(c) => Moves(c)
  BY <1>1, EndIs
<1> QED
  BY <1>4, <1>5, <1>6, <1>7, <1>8, <1>9, <1>10, <1>11, <1>12 DEF Statement

(* The rows of teams and entries. *)
TeamRecord == [link : Link \cup {None}, by : Call \cup {Db, None}]
EntryRecord ==
  [team : Team \cup {None}, first : Team \cup {None}, sent : BOOLEAN,
   by : Call \cup {Db, None}]

LEMMA RowTypes ==
  ASSUME IInv, NEW c \in Call, Begin(c) \/ Statement(c) \/ Rollback(c)
  PROVE  team' \in [Team -> TeamRecord] /\ entry' \in [Entry -> EntryRecord]
<1>1. team \in [Team -> TeamRecord] /\ entry \in [Entry -> EntryRecord]
  BY DEF IInv, TypeOK, TeamRecord, EntryRecord
<1>2. call[c] \in CallRecord /\ Ordered(c)
  BY DEF IInv, TypeOK, CallInv, CallRecord
<1>3. NoTeam \in TeamRecord /\ NoEntry \in EntryRecord
  BY DEF NoTeam, NoEntry, TeamRecord, EntryRecord
<1>4. CASE UNCHANGED rows
  BY <1>1, <1>4 DEF rows
<1>5. CASE NewTeam(c)
  <2>1. First(Free(team)) \in Team
    BY <1>5, FreeTeam DEF NewTeam, IInv
  <2>2. Head(call[c].links) \in Link \cup {None}
    BY <1>2, <1>5 DEF NewTeam, Ordered, CallRecord
  <2>3. team' \in [Team -> TeamRecord]
    BY <1>1, <1>5, <2>1, <2>2 DEF NewTeam, TeamRecord
  <2>4. [EntryOf(First(Free(team)), FALSE) EXCEPT !.by = c] \in EntryRecord
    BY <2>1 DEF EntryOf, EntryRecord
  <2>5. entry' \in [Entry -> EntryRecord]
    <3>1. CASE UNCHANGED entry
      BY <1>1, <3>1
    <3>2. CASE entry' = [entry EXCEPT ![First(Free(entry))] =
                           [EntryOf(First(Free(team)), FALSE) EXCEPT !.by = c]]
      BY <1>1, <2>4, <3>2
    <3> QED
      BY <1>5, <3>1, <3>2 DEF NewTeam
  <2> QED
    BY <2>3, <2>5
<1>6. CASE MakeEntry(c)
  <2>1. [NoEntry EXCEPT !.first = Current(c), !.by = c] \in EntryRecord
    BY <1>2, <1>3, <1>6, CurrentType DEF MakeEntry, EntryRecord, IInv
  <2> QED
    BY <1>1, <1>6, <2>1 DEF MakeEntry
<1>7. CASE AttachEntry(c)
  <2>1. Current(c) \in Team
    BY <1>2, <1>7, CurrentType DEF AttachEntry, IInv
  <2> QED
    BY <1>1, <1>7, <2>1 DEF AttachEntry, EntryRecord
<1>8. CASE Commit(c)
  <2>1. team' \in [Team -> TeamRecord]
    BY <1>1, <1>8 DEF Commit, TeamRecord
  <2>2. ASSUME NEW e \in Entry
        PROVE  entry'[e] \in EntryRecord
    <3> DEFINE stamped == IF call[c].fresh THEN call[c].unsent ELSE {}
    <3>1. entry[e] \in EntryRecord
      BY <1>1
    <3>2. entry'[e] = [team  |-> IF e \in call[c].drop THEN None ELSE entry[e].team,
                       first |-> entry[e].first,
                       sent  |-> entry[e].sent \/ e \in stamped,
                       by    |-> IF entry[e].by = c THEN Db ELSE entry[e].by]
      BY <1>8 DEF Commit
    <3>3. (entry[e].sent \/ e \in stamped) \in BOOLEAN
      OBVIOUS
    <3> HIDE DEF stamped
    <3> QED
      BY <3>1, <3>2, <3>3 DEF EntryRecord
  <2>3. entry' = [e \in Entry |-> entry'[e]]
    BY <1>8, Zenon DEF Commit
  <2> QED
    BY <2>1, <2>2, <2>3
<1>9. CASE Rollback(c)
  BY <1>1, <1>3, <1>9 DEF Rollback, Undo
<1>10. CASE Begin(c)
  BY <1>4, <1>10, BeginLeaves DEF rows, IInv
<1>11. CASE FindTeam(c) \/ KeepEntry(c) \/ ReadOld(c) \/ ReadTeams(c) \/ LockEntries(c)
  BY <1>4, <1>11 DEF FindTeam, KeepEntry, ReadOld, ReadTeams, LockEntries
<1> QED
  BY <1>5, <1>6, <1>7, <1>8, <1>9, <1>10, <1>11 DEF Statement

(* A row lock belongs to a session that runs. *)
LEMMA LockTypes ==
  ASSUME IInv, NEW c \in Call, Begin(c) \/ Statement(c) \/ Rollback(c)
  PROVE  /\ lock' \in [Team -> Call \cup {None}]
         /\ elock' \in [Entry -> Call \cup {None}]
         /\ \A t \in Team : lock'[t] # None => Running(lock[t])'
         /\ \A e \in Entry : elock'[e] # None => Running(elock[e])'
<1>1. /\ lock \in [Team -> Call \cup {None}]
      /\ elock \in [Entry -> Call \cup {None}]
      /\ \A t \in Team : lock[t] # None => Running(lock[t])
      /\ \A e \in Entry : elock[e] # None => Running(elock[e])
  BY DEF IInv, TypeOK
<1>2. \A d \in Call \ {c} : Running(d)' <=> Running(d)
  BY CallStep DEF Running, Moves
<1>3. CASE Begin(c)
  <2>1. ~Running(c) /\ UNCHANGED <<lock, elock>>
    BY <1>3, BeginLeaves DEF IInv
  <2> QED
    BY <1>1, <1>2, <2>1
<1>4. CASE Commit(c) \/ Rollback(c)
  <2>1. Unlocked(c)
    BY <1>4 DEF Commit, Rollback
  <2>2. None \notin Call
    BY EnrollmentConstants
  <2> QED
    BY <1>1, <1>2, <2>1, <2>2 DEF Unlocked
<1>5. CASE Statement(c) /\ ~Commit(c)
  <2>1. Running(c)'
    BY <1>5, CallStep DEF Running
  <2>2. /\ lock' \in [Team -> Call \cup {None}]
        /\ \A t \in Team : lock'[t] \in {lock[t], c}
    <3>1. CASE FindTeam(c)
      BY <1>1, <3>1 DEF FindTeam
    <3>2. CASE UNCHANGED lock
      BY <1>1, <3>2
    <3> QED
      BY <1>5, <3>1, <3>2 DEF Statement, NewTeam, KeepEntry, MakeEntry, ReadOld, AttachEntry,
         ReadTeams, LockEntries, locks
  <2>3. /\ elock' \in [Entry -> Call \cup {None}]
        /\ \A e \in Entry : elock'[e] \in {elock[e], c}
    <3>1. CASE LockEntries(c)
      BY <1>1, <3>1 DEF LockEntries
    <3>2. CASE KeepEntry(c)
      BY <1>1, <3>2 DEF KeepEntry
    <3>3. CASE AttachEntry(c)
      BY <1>1, <3>3 DEF AttachEntry
    <3>4. CASE UNCHANGED elock
      BY <1>1, <3>4
    <3> QED
      BY <1>5, <3>1, <3>2, <3>3, <3>4 DEF Statement, NewTeam, FindTeam, MakeEntry, ReadOld,
         ReadTeams, locks
  <2> QED
    BY <1>1, <1>2, <2>1, <2>2, <2>3
<1> QED
  BY <1>3, <1>4, <1>5

LEMMA CountStep ==
  ASSUME IInv, NEW c \in Call, Begin(c) \/ Statement(c) \/ Rollback(c)
  PROVE  /\ Counted'
         /\ calls' \in 0 .. MaxCalls /\ logged' \in 0 .. MaxCalls
<1>1. calls \in 0 .. MaxCalls /\ logged \in 0 .. MaxCalls /\ MaxCalls \in Nat
  BY EnrollmentConstants DEF IInv, TypeOK
<1>2. TypeOK /\ IsFiniteSet(Active) /\ Cardinality(Active) + logged <= calls
  BY DEF IInv, Counted
<1>3. Cardinality(Active) \in Nat
  BY <1>2, FS_CardinalityType
<1>4. \A d \in Call \ {c} : d \in Active' <=> d \in Active
  BY CallStep DEF Running, Moves, Active
<1>5. Active \subseteq Call /\ Active' \subseteq Call
  BY DEF Active
<1>6. CASE Begin(c)
  <2>1. c \notin Active /\ c \in Active'
    BY <1>2, <1>6, BeginLeaves DEF Active, Running
  <2>2. Active' = Active \cup {c}
    BY <1>4, <1>5, <2>1
  <2>3. IsFiniteSet(Active') /\ Cardinality(Active') = Cardinality(Active) + 1
    BY <1>2, <2>1, <2>2, FS_AddElement
  <2>4. calls < MaxCalls /\ calls' = calls + 1 /\ logged' = logged
    BY <1>2, <1>6, BeginLeaves
  <2> QED
    BY <1>1, <1>2, <1>3, <2>3, <2>4 DEF Counted
<1>7. CASE Commit(c) \/ Rollback(c)
  <2>1. c \in Active
    BY <1>7 DEF Active, Running, Commit, Rollback
  <2>2. c \notin Active'
    BY <1>2, <1>7, EndIs DEF Active, Running
  <2>3. Active' = Active \ {c}
    BY <1>4, <1>5, <2>2
  <2>4. IsFiniteSet(Active') /\ Cardinality(Active') = Cardinality(Active) - 1
    BY <1>2, <2>1, <2>3, FS_RemoveElement
  <2>5. calls' = calls /\ (logged' = logged \/ logged' = logged + 1)
    BY <1>7 DEF Commit, Rollback, Undo
  <2>6. Cardinality(Active') \in Nat
    BY <2>4, FS_CardinalityType
  <2> QED
    BY <1>1, <1>2, <1>3, <2>4, <2>5, <2>6 DEF Counted
<1>8. CASE Statement(c) /\ ~Commit(c)
  <2>1. c \in Active
    BY <1>8 DEF Statement, FindTeam, NewTeam, KeepEntry, MakeEntry, ReadOld, AttachEntry,
       ReadTeams, LockEntries, Active, Running
  <2>2. c \in Active'
    BY <1>8, CallStep DEF Active, Running
  <2>3. Active' = Active
    BY <1>4, <1>5, <2>1, <2>2
  <2>4. calls' = calls /\ logged' = logged
    BY <1>8 DEF Statement, FindTeam, NewTeam, KeepEntry, MakeEntry, ReadOld, AttachEntry,
       ReadTeams, LockEntries
  <2> QED
    BY <1>1, <1>2, <2>3, <2>4 DEF Counted
<1> QED
  BY <1>6, <1>7, <1>8

LEMMA TypeStep ==
  ASSUME IInv, NEW c \in Call, Begin(c) \/ Statement(c) \/ Rollback(c)
  PROVE  TypeOK'
<1>1. call' \in [Call -> CallRecord]
  BY CallStep DEF Moves
<1>2. call' \in [Call -> [kind : Kinds, at : Phases, links : Seq(Link \cup {None}),
                          teams : Seq(Team), entered : Nat,
                          made : Entry \cup {None}, old : Entry \cup {None},
                          drop : SUBSET Entry, pick : SUBSET Entry,
                          unsent : SUBSET Entry, fresh : BOOLEAN]]
  BY <1>1, Zenon DEF CallRecord
<1>3. /\ team' \in [Team -> [link : Link \cup {None}, by : Call \cup {Db, None}]]
      /\ entry' \in [Entry -> [team : Team \cup {None}, first : Team \cup {None},
                               sent : BOOLEAN, by : Call \cup {Db, None}]]
  BY RowTypes, Zenon DEF TeamRecord, EntryRecord
<1> QED
  BY <1>2, <1>3, LockTypes, CountStep, Zenon DEF TypeOK

-----------------------------------------------------------------------------
(* What a step does to a row. *)

LEMMA TeamStep ==
  ASSUME IInv, NEW c \in Call, Begin(c) \/ Statement(c) \/ Rollback(c), NEW t \in Team
  PROVE  \/ team'[t] = team[t] /\ ~Commit(c)
         \/ team[t].by = None /\ team'[t].by = c
         \/ Commit(c) /\ team'[t].by = (IF team[t].by = c THEN Db ELSE team[t].by)
         \/ Rollback(c) /\ team[t].by = c
<1>1. team \in [Team -> TeamRecord] /\ TypeOK
  BY DEF IInv, TypeOK, TeamRecord
<1>2. CASE NewTeam(c)
  <2>1. First(Free(team)) \in Team /\ team[First(Free(team))].by = None
    BY <1>1, <1>2, FreeTeam DEF NewTeam
  <2>2. team' = [team EXCEPT ![First(Free(team))] = [link |-> Head(call[c].links), by |-> c]]
    BY <1>2 DEF NewTeam
  <2>3. ~Commit(c)
    BY <1>2 DEF NewTeam, Commit
  <2> QED
    BY <1>1, <2>1, <2>2, <2>3
<1>3. CASE Commit(c)
  <2>1. team'[t] = IF team[t].by = c THEN [team[t] EXCEPT !.by = Db] ELSE team[t]
    BY <1>3 DEF Commit
  <2> QED
    BY <1>1, <1>3, <2>1 DEF TeamRecord
<1>4. CASE Rollback(c)
  <2>1. team'[t] = IF team[t].by = c THEN NoTeam ELSE team[t]
    BY <1>4 DEF Rollback, Undo
  <2> QED
    BY <1>3, <1>4, <2>1
<1>5. CASE UNCHANGED team /\ ~Commit(c)
  BY <1>5
<1>6. Begin(c) => UNCHANGED team
  BY <1>1, BeginLeaves
<1> QED
  BY <1>2, <1>3, <1>4, <1>5, <1>6 DEF Statement, FindTeam, KeepEntry, MakeEntry, ReadOld,
     AttachEntry, ReadTeams, LockEntries, rows

(* A row that is new, one that is attached to its team, and the end of the *)
(* transaction: nothing else happens to an entry.                          *)
NewRow(c, e) ==
  /\ entry[e].by = None /\ entry'[e].by = c /\ entry'[e].first \in Team
  /\ entry'[e].team \in {None, entry'[e].first} /\ ~entry'[e].sent
Attached(c, e) ==
  /\ AttachEntry(c) /\ e = call[c].made
  /\ entry[e].by = c /\ entry'[e].by = c /\ entry[e].team = None
  /\ entry'[e].first = entry[e].first /\ entry'[e].team = entry[e].first
  /\ entry'[e].team = Current(c) /\ entry'[e].sent = entry[e].sent
Stamped(c) == IF call[c].fresh THEN call[c].unsent ELSE {}
Committed(c, e) ==
  /\ Commit(c)
  /\ entry'[e].team = IF e \in call[c].drop THEN None ELSE entry[e].team
  /\ entry'[e].first = entry[e].first
  /\ entry'[e].sent <=> entry[e].sent \/ e \in Stamped(c)
  /\ entry'[e].by = IF entry[e].by = c THEN Db ELSE entry[e].by

LEMMA CommitRow ==
  ASSUME NEW c \in Call, Commit(c), NEW e \in Entry
  PROVE  Committed(c, e)
<1> DEFINE sent == entry[e].sent \/ e \in Stamped(c)
<1>1. entry'[e] = [team  |-> IF e \in call[c].drop THEN None ELSE entry[e].team,
                   first |-> entry[e].first,
                   sent  |-> sent,
                   by    |-> IF entry[e].by = c THEN Db ELSE entry[e].by]
  BY DEF Commit, Stamped
<1>2. sent \in BOOLEAN
  OBVIOUS
<1> HIDE DEF sent
<1>3. /\ entry'[e].team = IF e \in call[c].drop THEN None ELSE entry[e].team
      /\ entry'[e].first = entry[e].first
      /\ entry'[e].sent = sent
      /\ entry'[e].by = IF entry[e].by = c THEN Db ELSE entry[e].by
  BY <1>1
<1>4. entry'[e].sent <=> sent
  BY <1>2, <1>3
<1> USE DEF sent
<1>5. entry'[e].sent <=> entry[e].sent \/ e \in Stamped(c)
  BY <1>4, Zenon
<1> HIDE DEF sent
<1> QED
  BY <1>3, <1>5 DEF Committed

LEMMA EntryStep ==
  ASSUME IInv, NEW c \in Call, Begin(c) \/ Statement(c) \/ Rollback(c), NEW e \in Entry
  PROVE  \/ entry'[e] = entry[e] /\ ~Commit(c)
         \/ NewRow(c, e) /\ ~Commit(c) /\ ~Rollback(c)
         \/ Attached(c, e)
         \/ Committed(c, e)
         \/ Rollback(c) /\ entry[e].by = c
<1>1. entry \in [Entry -> EntryRecord] /\ TypeOK /\ entry[e] \in EntryRecord
  BY DEF IInv, TypeOK, EntryRecord
<1>2. Ordered(c) /\ Making(c)
  BY DEF IInv, CallInv
<1>3. CASE NewTeam(c)
  <2>1. First(Free(team)) \in Team
    BY <1>1, <1>3, FreeTeam DEF NewTeam
  <2>2. ~Commit(c)
    BY <1>3 DEF NewTeam, Commit
  <2>3. ~Rollback(c)
    <3>1. call'[c].at # "idle"
      BY <1>3, <2>2, CallStep DEF Statement
    <3> QED
      BY <1>1, <2>2, <3>1, EndIs
  <2>4. CASE UNCHANGED entry
    BY <2>2, <2>4
  <2>5. CASE /\ Free(entry) # {}
             /\ entry' = [entry EXCEPT ![First(Free(entry))] =
                            [EntryOf(First(Free(team)), FALSE) EXCEPT !.by = c]]
    <3>1. First(Free(entry)) \in Entry /\ entry[First(Free(entry))].by = None
      BY <1>1, <2>5, FreeEntry
    <3>2. CASE e = First(Free(entry))
      <4>1. entry'[e] = [EntryOf(First(Free(team)), FALSE) EXCEPT !.by = c]
        BY <1>1, <2>5, <3>2
      <4>2. /\ entry'[e].by = c /\ entry'[e].first = First(Free(team))
            /\ entry'[e].team = First(Free(team)) /\ ~entry'[e].sent
        BY <4>1 DEF EntryOf
      <4> QED
        BY <2>1, <2>2, <2>3, <3>1, <3>2, <4>2 DEF NewRow
    <3>3. CASE e # First(Free(entry))
      BY <1>1, <2>2, <2>5, <3>3
    <3> QED
      BY <3>2, <3>3
  <2> QED
    BY <1>3, <2>4, <2>5 DEF NewTeam
<1>4. CASE MakeEntry(c)
  <2>1. Current(c) \in Team
    BY <1>1, <1>2, <1>4, CurrentType DEF MakeEntry
  <2>2. ~Commit(c)
    BY <1>4 DEF MakeEntry, Commit
  <2>3. ~Rollback(c)
    BY <1>1, <1>4, <2>2, EndIs, MakeEntryIs
  <2>4. First(Free(entry)) \in Entry /\ entry[First(Free(entry))].by = None
    BY <1>1, <1>4, FreeEntry DEF MakeEntry
  <2>5. entry' = [entry EXCEPT ![First(Free(entry))] =
                    [NoEntry EXCEPT !.first = Current(c), !.by = c]]
    BY <1>4 DEF MakeEntry
  <2>6. CASE e = First(Free(entry))
    <3>1. entry'[e] = [NoEntry EXCEPT !.first = Current(c), !.by = c]
      BY <1>1, <2>5, <2>6
    <3>2. /\ entry'[e].by = c /\ entry'[e].first = Current(c)
          /\ entry'[e].team = None /\ ~entry'[e].sent
      BY <3>1 DEF NoEntry
    <3> QED
      BY <2>1, <2>2, <2>3, <2>4, <2>6, <3>2 DEF NewRow
  <2>7. CASE e # First(Free(entry))
    BY <1>1, <2>2, <2>5, <2>7
  <2> QED
    BY <2>6, <2>7
<1>5. CASE AttachEntry(c)
  <2>1. ~Commit(c)
    BY <1>5 DEF AttachEntry, Commit
  <2>2. entry' = [entry EXCEPT ![call[c].made].team = Current(c)]
    BY <1>5 DEF AttachEntry
  <2>3. CASE e = call[c].made
    <3>1. entry[e].by = c /\ entry[e].team = None /\ entry[e].first = Current(c)
      BY <1>2, <1>5, <2>3 DEF Making, AttachEntry
    <3>2. entry'[e] = [entry[e] EXCEPT !.team = Current(c)]
      BY <1>1, <2>2, <2>3
    <3> QED
      BY <1>1, <1>5, <2>3, <3>1, <3>2 DEF Attached, EntryRecord
  <2>4. CASE e # call[c].made
    BY <1>1, <2>1, <2>2, <2>4
  <2> QED
    BY <2>3, <2>4
<1>6. CASE Commit(c)
  BY <1>6, CommitRow
<1>7. CASE Rollback(c) /\ ~Commit(c)
  <2>1. entry'[e] = IF entry[e].by = c THEN NoEntry ELSE entry[e]
    BY <1>7 DEF Rollback, Undo
  <2> QED
    BY <1>7, <2>1
<1>8. CASE UNCHANGED entry /\ ~Commit(c)
  BY <1>8
<1>9. Begin(c) => UNCHANGED entry
  BY <1>1, BeginLeaves
<1> QED
  BY <1>3, <1>4, <1>5, <1>6, <1>7, <1>8, <1>9 DEF Statement, FindTeam, KeepEntry, ReadOld,
     ReadTeams, LockEntries, rows

LEMMA RowStep ==
  ASSUME IInv, NEW c \in Call, Begin(c) \/ Statement(c) \/ Rollback(c)
  PROVE  RowOk'
<1> SUFFICES ASSUME NEW e \in Entry
             PROVE  /\ entry'[e].by # None => entry'[e].first \in Team
                    /\ entry'[e].team # None => entry'[e].first = entry'[e].team
  BY DEF RowOk
<1>1. /\ entry[e].by # None => entry[e].first \in Team
      /\ entry[e].team # None => entry[e].first = entry[e].team
  BY DEF IInv, RowOk
<1>2. None \notin Call
  BY EnrollmentConstants
<1>3. CASE entry'[e] = entry[e]
  BY <1>1, <1>3
<1>4. CASE NewRow(c, e)
  BY <1>4 DEF NewRow
<1>5. CASE Attached(c, e)
  BY <1>1, <1>2, <1>5 DEF Attached
<1>6. CASE Committed(c, e)
  BY <1>1, <1>2, <1>6 DEF Committed
<1>7. CASE Rollback(c) /\ entry[e].by = c
  <2>1. entry'[e] = NoEntry
    BY <1>7 DEF Rollback, Undo
  <2> QED
    BY <2>1 DEF NoEntry
<1> QED
  BY <1>3, <1>4, <1>5, <1>6, <1>7, EntryStep

-----------------------------------------------------------------------------
(* What another session's step leaves to a session. *)

(* CrossedFor after the step. *)
CrossedNext(d, t) ==
  \E e, f \in Entry : e # f /\ entry'[e].by \in {Db, d} /\ entry'[f].by \in {Db, d}
                      /\ entry'[e].first = t /\ entry'[f].first = t

Steady(d) ==
  /\ call'[d] = call[d]
  /\ \A t \in Team : team[t].by \in {Db, d} => team'[t].by \in {Db, d}
  /\ \A e \in Entry : Mine(d, e) =>
       /\ entry'[e].by \in {Db, d} /\ entry'[e].first = entry[e].first
       /\ entry[e].sent => entry'[e].sent
       /\ elock[e] = d => elock'[e] = d /\ (entry'[e].sent => entry[e].sent)
       /\ \/ entry'[e].team = entry[e].team
          \/ entry'[e].team = None /\ CrossedNext(d, entry[e].first)
       /\ entry[e].by = d => entry'[e] = entry[e]

LEMMA OthersSteady ==
  ASSUME IInv, NEW c \in Call, Begin(c) \/ Statement(c) \/ Rollback(c),
         NEW d \in Call \ {c}
  PROVE  Steady(d)
<1>1. call'[d] = call[d]
  BY CallStep DEF Moves
<1>2. None \notin Call /\ Db \notin Call \cup {None} /\ c # d
  BY EnrollmentConstants
<1>3. \A t \in Team : team[t].by \in {Db, d} => team'[t].by \in {Db, d}
  BY <1>2, TeamStep
<1>4. ASSUME NEW e \in Entry, Mine(d, e)
      PROVE  /\ entry'[e].by \in {Db, d} /\ entry'[e].first = entry[e].first
             /\ entry[e].sent => entry'[e].sent
             /\ elock[e] = d => elock'[e] = d /\ (entry'[e].sent => entry[e].sent)
             /\ \/ entry'[e].team = entry[e].team
                \/ entry'[e].team = None /\ CrossedNext(d, entry[e].first)
             /\ entry[e].by = d => entry'[e] = entry[e]
  <2>1. entry[e].by \in {Db, d}
    BY <1>4 DEF Mine
  <2>2. elock[e] = d => elock'[e] = d
    <3>1. elock \in [Entry -> Call \cup {None}] /\ TypeOK
      BY DEF IInv, TypeOK
    <3>2. CASE LockEntries(c)
      BY <1>2, <3>1, <3>2 DEF LockEntries, Writable
    <3>3. CASE KeepEntry(c)
      BY <1>2, <3>1, <3>3 DEF KeepEntry, Writable
    <3>4. CASE AttachEntry(c)
      BY <1>2, <3>1, <3>4 DEF AttachEntry, Writable
    <3>5. CASE Commit(c) \/ Rollback(c)
      BY <1>2, <3>1, <3>5 DEF Commit, Rollback, Unlocked
    <3>6. CASE UNCHANGED elock
      BY <3>6
    <3>7. Begin(c) => UNCHANGED elock
      BY <3>1, BeginLeaves
    <3> QED
      BY <3>2, <3>3, <3>4, <3>5, <3>6, <3>7 DEF Statement, FindTeam, NewTeam, MakeEntry,
         ReadOld, ReadTeams, locks
  <2>3. CASE entry'[e] = entry[e]
    BY <2>1, <2>2, <2>3
  <2>4. ~NewRow(c, e)
    BY <1>2, <2>1 DEF NewRow
  <2>5. ~Attached(c, e)
    BY <1>2, <2>1 DEF Attached
  <2>6. CASE Committed(c, e)
    <3>1. Commit(c) /\ Making(c) /\ Picked(c)
      BY <2>6 DEF Committed, IInv, CallInv
    <3>2. entry'[e].by = entry[e].by /\ entry'[e].first = entry[e].first
          /\ (entry[e].sent => entry'[e].sent)
      BY <1>2, <2>1, <2>6 DEF Committed
    <3>3. elock[e] = d => e \notin Stamped(c)
      BY <1>2, <3>1 DEF Commit, Stamped, Writable
    <3>4. e \in Stamped(c) => entry[e].by # d
      BY <1>2, <3>1 DEF Stamped, Picked, Mine
    <3>5. e \in call[c].drop =>
             entry[e].by # d /\ CrossedNext(d, entry[e].first)
      <4> SUFFICES ASSUME e \in call[c].drop
                   PROVE  entry[e].by # d /\ CrossedNext(d, entry[e].first)
        OBVIOUS
      <4>1. entry[e].by \in {Db, c}
        BY <3>1 DEF Making, Mine
      <4>2. PICK f \in Entry : f # e /\ entry[f].by = c /\ entry[f].first = entry[e].first
        BY <3>1 DEF Making
      <4>3. Committed(c, f)
        BY <3>1, CommitRow
      <4>4. entry'[f].by = Db /\ entry'[f].first = entry[e].first
        BY <4>2, <4>3 DEF Committed
      <4>5. entry[e].by # d
        BY <1>2, <4>1
      <4>6. entry'[e].by = Db
        BY <2>1, <3>2, <4>5
      <4> QED
        BY <3>2, <4>2, <4>4, <4>5, <4>6 DEF CrossedNext
    <3>6. entry[e].by = d => entry'[e] = entry[e]
      <4>1. entry[e] \in EntryRecord /\ entry'[e] \in EntryRecord
        BY RowTypes DEF IInv, TypeOK, EntryRecord
      <4>2. entry[e].by = d => /\ entry'[e].team = entry[e].team
                               /\ entry'[e].first = entry[e].first
                               /\ (entry'[e].sent <=> entry[e].sent)
                               /\ entry'[e].by = entry[e].by
        BY <2>6, <3>2, <3>4, <3>5 DEF Committed
      <4> QED
        BY <4>1, <4>2 DEF EntryRecord
    <3> QED
      BY <2>1, <2>2, <2>6, <3>2, <3>3, <3>5, <3>6 DEF Committed
  <2>7. ~(Rollback(c) /\ entry[e].by = c)
    BY <1>2, <2>1
  <2> QED
    BY <2>3, <2>4, <2>5, <2>6, <2>7, EntryStep
<1> QED
  BY <1>1, <1>3, <1>4 DEF Steady

LEMMA SteadyKeeps ==
  ASSUME IInv, NEW d \in Call, Steady(d)
  PROVE  CallInv(d)'
<1>1. call'[d] = call[d] /\ CallInv(d) /\ TypeOK /\ RowOk
  BY DEF Steady, IInv
<1>2. \A t \in Team : team[t].by \in {Db, d} => team'[t].by \in {Db, d}
  BY DEF Steady
<1>3. \A e \in Entry : Mine(d, e) =>
         /\ Mine(d, e)' /\ entry'[e].first = entry[e].first
         /\ entry[e].sent => entry'[e].sent
         /\ elock[e] = d => elock'[e] = d /\ (entry'[e].sent => entry[e].sent)
         /\ \/ entry'[e].team = entry[e].team
            \/ entry'[e].team = None /\ CrossedNext(d, entry[e].first)
         /\ entry[e].by = d => entry'[e] = entry[e]
  BY DEF Steady, Mine
<1>4. ASSUME NEW t, CrossedFor(d, t) PROVE CrossedNext(d, t)
  <2>1. PICK e \in Entry, f \in Entry :
          e # f /\ Mine(d, e) /\ Mine(d, f) /\ entry[e].first = t /\ entry[f].first = t
    BY <1>4 DEF CrossedFor
  <2> QED
    BY <1>3, <2>1 DEF CrossedFor, CrossedNext, Mine
<1>5. /\ call[d].teams \in Seq(Team) /\ call[d].entered \in Nat
      /\ call[d].made \in Entry \cup {None} /\ call[d].old \in Entry \cup {None}
      /\ call[d].drop \subseteq Entry /\ call[d].pick \subseteq Entry
      /\ call[d].unsent \subseteq Entry
  BY <1>1, CallsAre
<1>6. \A i \in 1 .. Len(call[d].teams) : call[d].teams[i] \in Team
  BY <1>5
<1>7. None \notin Call /\ None \notin Team /\ None # Db
  BY EnrollmentConstants
<1>8. Ordered(d)'
  <2>1. Ordered(d)
    BY <1>1 DEF CallInv
  <2>2. \A i \in 1 .. Len(call[d].teams) : team'[call[d].teams[i]].by \in {Db, d}
    BY <1>2, <1>6, <2>1 DEF Ordered
  <2> QED
    BY <1>1, <2>1, <2>2 DEF Ordered, Running
<1>9. Making(d)'
  <2>1. Making(d) /\ Current(d)' = Current(d)
    BY <1>1 DEF CallInv, Current
  <2>2. IF call[d].at \in {"set", "attach"}
        THEN /\ call[d].made \in Entry
             /\ entry'[call[d].made].by = d /\ entry'[call[d].made].team = None
             /\ entry'[call[d].made].first = Current(d)
        ELSE call[d].made = None
    BY <1>3, <2>1 DEF Making, Mine
  <2>3. call[d].at = "attach" /\ call[d].old # None =>
          /\ call[d].old # call[d].made /\ Mine(d, call[d].old)'
          /\ entry'[call[d].old].first = Current(d)
    <3> SUFFICES ASSUME call[d].at = "attach", call[d].old # None
                 PROVE  /\ call[d].old # call[d].made /\ Mine(d, call[d].old)'
                        /\ entry'[call[d].old].first = Current(d)
      OBVIOUS
    <3>1. /\ call[d].old # call[d].made /\ Mine(d, call[d].old)
          /\ entry[call[d].old].first = Current(d) /\ call[d].old \in Entry
      BY <1>5, <2>1 DEF Making
    <3>2. PICK o \in Entry : o = call[d].old
      BY <3>1
    <3>3. Mine(d, o) /\ entry[o].first = Current(d)
      BY <3>1, <3>2
    <3>4. entry'[o].by \in {Db, d} /\ entry'[o].first = Current(d)
      BY <1>3, <3>3 DEF Mine
    <3> QED
      BY <1>1, <3>1, <3>2, <3>4 DEF Mine
  <2>4. ASSUME NEW e \in call[d].drop
        PROVE  /\ Mine(d, e)' /\ e # call[d].made
               /\ \E f \in Entry : f # e /\ entry'[f].by = d /\ entry'[f].first = entry'[e].first
    <3>1. e \in Entry /\ Mine(d, e) /\ e # call[d].made
      BY <1>5, <2>1 DEF Making
    <3>2. PICK f \in Entry : f # e /\ entry[f].by = d /\ entry[f].first = entry[e].first
      BY <2>1 DEF Making
    <3>3. entry'[f] = entry[f] /\ entry'[e].first = entry[e].first /\ Mine(d, e)'
      BY <1>3, <3>1, <3>2 DEF Mine
    <3> QED
      BY <3>1, <3>2, <3>3
  <2> QED
    BY <1>1, <2>1, <2>2, <2>3, <2>4 DEF Making
<1>10. Served(d)'
  <2> SUFFICES ASSUME NEW i \in 1 .. call[d].entered
               PROVE  HasEntry(d, call[d].teams[i])'
    BY <1>1 DEF Served
  <2>1. HasEntry(d, call[d].teams[i]) /\ call[d].entered <= Len(call[d].teams)
    BY <1>1 DEF CallInv, Served, Ordered
  <2>2. call[d].teams[i] \in Team
    BY <1>5, <1>6, <2>1
  <2>3. CASE CrossedFor(d, call[d].teams[i])
    BY <1>1, <1>4, <2>3 DEF HasEntry, CrossedFor, CrossedNext, Mine
  <2>4. ASSUME NEW e \in Entry, Mine(d, e), e \notin call[d].drop,
               entry[e].team = call[d].teams[i]
        PROVE  HasEntry(d, call[d].teams[i])'
    <3>1. entry[e].first = call[d].teams[i]
      BY <1>1, <1>7, <2>2, <2>4 DEF RowOk
    <3> QED
      BY <1>1, <1>3, <2>4, <3>1 DEF HasEntry, CrossedFor, CrossedNext, Mine
  <2> QED
    BY <2>1, <2>3, <2>4 DEF HasEntry
<1>11. Picked(d)'
  <2>1. Picked(d)
    BY <1>1 DEF CallInv
  <2>2. ASSUME NEW e \in call[d].pick
        PROVE  /\ Mine(d, e)' /\ e \notin call[d].drop
               /\ e \notin call[d].unsent => entry'[e].sent
               /\ entry'[e].team # None \/ CrossedNext(d, entry[e].first)
               /\ entry'[e].first = entry[e].first
    BY <1>3, <1>4, <1>5, <2>1 DEF Picked
  <2>3. ASSUME call[d].kind = "submit", call[d].at \in {"lock", "commit"},
               NEW i \in 1 .. Len(call[d].teams)
        PROVE  \/ \E e \in call[d].pick : entry'[e].team = call[d].teams[i]
               \/ CrossedNext(d, call[d].teams[i])
    <3>1. CASE CrossedFor(d, call[d].teams[i])
      BY <1>4, <3>1
    <3>2. ASSUME NEW e \in call[d].pick, entry[e].team = call[d].teams[i]
          PROVE  entry'[e].team = call[d].teams[i] \/ CrossedNext(d, call[d].teams[i])
      <4>1. entry[e].first = call[d].teams[i] /\ e \in Entry /\ Mine(d, e)
        BY <1>1, <1>5, <1>6, <1>7, <2>1, <3>2 DEF RowOk, Picked
      <4> QED
        BY <1>3, <3>2, <4>1
    <3> QED
      BY <2>1, <2>3, <3>1, <3>2 DEF Picked
  <2> QED
    BY <1>1, <2>1, <2>2, <2>3 DEF Picked, CrossedFor, CrossedNext, Mine
<1>12. Verdict(d)'
  <2>1. Verdict(d) /\ Picked(d)
    BY <1>1 DEF CallInv
  <2>2. call[d].fresh =>
          \/ call[d].pick = {}
          \/ \E t \in Team : CrossedNext(d, t)
          \/ \E e \in call[d].unsent : ~entry'[e].sent /\ elock'[e] = d
    BY <1>3, <1>4, <1>5, <2>1 DEF Verdict, Picked
  <2>3. call[d].at = "commit" /\ ~call[d].fresh =>
          \A e \in call[d].pick : entry'[e].team # None => entry'[e].sent
    BY <1>3, <1>5, <2>1 DEF Verdict, Picked
  <2> QED
    BY <1>1, <2>2, <2>3 DEF Verdict, CrossedFor, CrossedNext, Mine
<1> QED
  BY <1>8, <1>9, <1>10, <1>11, <1>12 DEF CallInv

-----------------------------------------------------------------------------
(* What a session's own steps make of what it relies on. *)

(* Before its end a session changes no row it sees, but for attaching the  *)
(* entry it made.                                                          *)
LEMMA OwnRows ==
  ASSUME IInv, NEW c \in Call, Begin(c) \/ Statement(c), ~Commit(c)
  PROVE  /\ \A t \in Team : team[t].by \in {Db, c} => team'[t].by \in {Db, c}
         /\ \A e \in Entry : Mine(c, e) =>
              /\ Mine(c, e)' /\ entry'[e].by = entry[e].by
              /\ entry'[e].first = entry[e].first
              /\ entry'[e].sent <=> entry[e].sent
              /\ entry'[e].team = entry[e].team \/ (AttachEntry(c) /\ e = call[c].made)
<1>1. None \notin Call /\ Db # None /\ TypeOK
  BY EnrollmentConstants DEF IInv
<1>2. ~Rollback(c)
  <2>1. CASE Begin(c)
    BY <1>1, <2>1, BeginLeaves DEF Rollback
  <2>2. CASE Statement(c)
    <3>1. call'[c].at # "idle"
      BY <2>2, CallStep
    <3> QED
      BY <1>1, <3>1, EndIs
  <2> QED
    BY <2>1, <2>2
<1>3. \A t \in Team : team[t].by \in {Db, c} => team'[t].by \in {Db, c}
  BY <1>1, <1>2, TeamStep
<1>4. ASSUME NEW e \in Entry, Mine(c, e)
      PROVE  /\ Mine(c, e)' /\ entry'[e].by = entry[e].by
             /\ entry'[e].first = entry[e].first
             /\ entry'[e].sent <=> entry[e].sent
             /\ entry'[e].team = entry[e].team \/ (AttachEntry(c) /\ e = call[c].made)
  <2>1. CASE entry'[e] = entry[e]
    <3>1. entry'[e].sent <=> entry[e].sent
      BY <2>1, Zenon
    <3>2. /\ Mine(c, e)' /\ entry'[e].by = entry[e].by
          /\ entry'[e].first = entry[e].first /\ entry'[e].team = entry[e].team
      BY <1>4, <2>1 DEF Mine
    <3> QED
      BY <3>1, <3>2
  <2>2. CASE Attached(c, e)
    BY <2>2 DEF Attached, Mine
  <2>3. ~NewRow(c, e) /\ ~Committed(c, e)
    BY <1>1, <1>4 DEF NewRow, Mine, Committed
  <2> QED
    BY <1>2, <2>1, <2>2, <2>3, EntryStep
<1> QED
  BY <1>3, <1>4

LEMMA OwnCrossed ==
  ASSUME IInv, NEW c \in Call, Begin(c) \/ Statement(c), ~Commit(c), NEW t,
         CrossedFor(c, t)
  PROVE  CrossedNext(c, t)
<1>1. PICK e \in Entry, f \in Entry :
        e # f /\ Mine(c, e) /\ Mine(c, f) /\ entry[e].first = t /\ entry[f].first = t
  BY DEF CrossedFor
<1> QED
  BY <1>1, OwnRows DEF CrossedNext, Mine

(* An entry taken from its team has a successor. *)
LEMMA OwnDrop ==
  ASSUME IInv, NEW c \in Call, Begin(c) \/ Statement(c), ~Commit(c)
  PROVE  \A e \in call[c].drop :
           /\ e \in Entry /\ Mine(c, e) /\ Mine(c, e)' /\ e # call[c].made
           /\ \E f \in Entry : f # e /\ entry'[f].by = c /\ entry'[f].first = entry'[e].first
<1> SUFFICES ASSUME NEW e \in call[c].drop
             PROVE  /\ e \in Entry /\ Mine(c, e) /\ Mine(c, e)' /\ e # call[c].made
                    /\ \E f \in Entry : f # e /\ entry'[f].by = c
                                        /\ entry'[f].first = entry'[e].first
  OBVIOUS
<1>1. Making(c) /\ call[c].drop \subseteq Entry
  BY CallsAre DEF IInv, CallInv
<1>2. e \in Entry /\ Mine(c, e) /\ e # call[c].made
  BY <1>1 DEF Making
<1>3. PICK f \in Entry : f # e /\ entry[f].by = c /\ entry[f].first = entry[e].first
  BY <1>1 DEF Making
<1>4. Mine(c, f)
  BY <1>3 DEF Mine
<1> QED
  BY <1>2, <1>3, <1>4, OwnRows

LEMMA BeginOwn ==
  ASSUME IInv, NEW c \in Call, Begin(c)
  PROVE  CallInv(c)'
<1>1. PICK kind \in Kinds, at \in {"upsert", "read", "enter"},
           links \in Seq(Link \cup {None}), teams \in Seq(Team) :
           /\ Start(c, kind, at, links, teams) /\ at \in Phases
           /\ at = "upsert" => links # <<>> /\ kind \in {"submit", "create"} /\ teams = <<>>
           /\ at = "read" => kind = "finish" /\ teams = <<>>
           /\ at = "enter" => kind = "enroll" /\ Len(teams) = 1 /\ team[teams[1]].by = Db
  BY BeginIs DEF IInv
<1>2. /\ call'[c].kind = kind /\ call'[c].at = at /\ call'[c].links = links
      /\ call'[c].teams = teams /\ call'[c].entered = 0
      /\ call'[c].made = None /\ call'[c].old = None /\ call'[c].drop = {}
      /\ call'[c].pick = {} /\ call'[c].unsent = {} /\ call'[c].fresh = FALSE
      /\ UNCHANGED <<team, entry, lock, elock, logged>>
  BY <1>1, StartIs DEF IInv
<1>3. Len(teams) \in Nat /\ (teams = <<>> => Len(teams) = 0)
  OBVIOUS
<1>4. \A i \in 1 .. Len(teams) : team[teams[i]].by \in {Db, c}
  BY <1>1, <1>3
<1>5. Ordered(c)'
  BY <1>1, <1>2, <1>3, <1>4 DEF Ordered, Running
<1>6. Making(c)'
  BY <1>1, <1>2 DEF Making
<1>7. Served(c)'
  BY <1>2 DEF Served
<1>8. Picked(c)'
  BY <1>1, <1>2 DEF Picked
<1>9. Verdict(c)'
  BY <1>1, <1>2 DEF Verdict
<1> QED
  BY <1>5, <1>6, <1>7, <1>8, <1>9 DEF CallInv

LEMMA TeamOwn ==
  ASSUME IInv, NEW c \in Call, FindTeam(c) \/ NewTeam(c)
  PROVE  CallInv(c)'
<1>1. Statement(c) /\ ~Commit(c) /\ call[c].at = "upsert"
  BY DEF Statement, FindTeam, NewTeam, Commit
<1>2. TypeOK /\ CallInv(c)
  BY DEF IInv
<1>3. /\ call[c].links # <<>> /\ call[c].entered = 0 /\ call[c].kind \in {"submit", "create"}
      /\ call[c].pick = {} /\ call[c].made = None /\ call[c].fresh = FALSE
      /\ call[c].unsent = {}
      /\ \A i \in 1 .. Len(call[c].teams) : team[call[c].teams[i]].by \in {Db, c}
  BY <1>1, <1>2, CallsAre DEF CallInv, Ordered, Making, Picked
<1>4. PICK t \in Team : WroteTeam(c, t) /\ team'[t].by \in {Db, c}
  <2>1. CASE FindTeam(c)
    BY <2>1 DEF FindTeam, Found, TeamsSeen, Sees, rows
  <2>2. CASE NewTeam(c)
    <3>1. First(Free(team)) \in Team /\ team \in [Team -> TeamRecord]
      BY <1>2, <2>2, FreeTeam DEF NewTeam, TypeOK, TeamRecord
    <3>2. /\ WroteTeam(c, First(Free(team)))
          /\ team' = [team EXCEPT ![First(Free(team))] =
                        [link |-> Head(call[c].links), by |-> c]]
      BY <2>2 DEF NewTeam
    <3>3. team'[First(Free(team))].by = c
      BY <3>1, <3>2
    <3> QED
      BY <3>1, <3>2, <3>3
  <2> QED
    BY <2>1, <2>2
<1>5. /\ call'[c].at = AfterTeams(call[c].kind, Tail(call[c].links))
      /\ call'[c].links = Tail(call[c].links)
      /\ call'[c].teams = Append(call[c].teams, t)
      /\ call'[c].kind = call[c].kind /\ call'[c].entered = call[c].entered
      /\ call'[c].made = call[c].made /\ call'[c].old = call[c].old
      /\ call'[c].drop = call[c].drop /\ call'[c].pick = call[c].pick
      /\ call'[c].unsent = call[c].unsent /\ call'[c].fresh = call[c].fresh
  BY <1>2, <1>3, <1>4, WroteTeamIs
<1>6. /\ call'[c].at \in {"upsert", "enter", "commit"}
      /\ call'[c].at = "upsert" => call'[c].links # <<>>
      /\ call'[c].at = "enter" => call[c].kind = "submit"
      /\ call'[c].at = "commit" => call[c].kind # "submit"
  BY <1>5 DEF AfterTeams
<1>7. call[c].teams \in Seq(Team) /\ Len(call[c].teams) \in Nat
  BY <1>2, CallsAre
<1>8. Len(call'[c].teams) = Len(call[c].teams) + 1
  BY <1>5, <1>7
<1>9. \A i \in 1 .. Len(call'[c].teams) : team'[call'[c].teams[i]].by \in {Db, c}
  <2> SUFFICES ASSUME NEW i \in 1 .. Len(call'[c].teams)
               PROVE  team'[call'[c].teams[i]].by \in {Db, c}
    OBVIOUS
  <2>1. CASE i = Len(call[c].teams) + 1
    BY <1>4, <1>5, <1>7, <2>1
  <2>2. CASE i \in 1 .. Len(call[c].teams)
    <3>1. call'[c].teams[i] = call[c].teams[i] /\ call[c].teams[i] \in Team
      BY <1>5, <1>7, <2>2
    <3> QED
      BY <1>1, <1>3, <2>2, <3>1, OwnRows
  <2> QED
    BY <1>7, <1>8, <2>1, <2>2
<1>10. Ordered(c)'
  BY <1>3, <1>5, <1>6, <1>7, <1>8, <1>9 DEF Ordered, Running
<1>11. Making(c)'
  <2>1. \A e \in call[c].drop : e # None
    BY <1>1, OwnDrop, EnrollmentConstants
  <2> QED
    BY <1>1, <1>3, <1>5, <1>6, <2>1, OwnDrop DEF Making
<1>12. Served(c)'
  BY <1>3, <1>5 DEF Served
<1>13. Picked(c)'
  BY <1>3, <1>5, <1>6 DEF Picked
<1>14. Verdict(c)'
  BY <1>3, <1>5 DEF Verdict
<1> QED
  BY <1>10, <1>11, <1>12, <1>13, <1>14 DEF CallInv

(* A team that has an entry keeps one. *)
LEMMA OwnServed ==
  ASSUME IInv, NEW c \in Call, Begin(c) \/ Statement(c), ~Commit(c),
         NEW t \in Team, HasEntry(c, t), call'[c].drop = call[c].drop, ~AttachEntry(c)
  PROVE  HasEntry(c, t)'
<1>1. CASE CrossedFor(c, t)
  <2>1. CrossedNext(c, t)
    BY <1>1, OwnCrossed
  <2> QED
    BY <2>1 DEF HasEntry, CrossedFor, CrossedNext, Mine
<1>2. ASSUME NEW e \in Entry, Mine(c, e), e \notin call[c].drop, entry[e].team = t
      PROVE  HasEntry(c, t)'
  <2>1. Mine(c, e)' /\ entry'[e].team = t
    BY <1>2, OwnRows
  <2> QED
    BY <1>2, <2>1 DEF HasEntry
<1> QED
  BY <1>1, <1>2 DEF HasEntry

LEMMA KeepOwn ==
  ASSUME IInv, NEW c \in Call, KeepEntry(c)
  PROVE  CallInv(c)'
<1>1. Statement(c) /\ ~Commit(c) /\ ~AttachEntry(c) /\ call[c].at = "enter"
  BY DEF Statement, KeepEntry, Commit, AttachEntry
<1>2. TypeOK /\ CallInv(c) /\ Ordered(c)
  BY DEF IInv, CallInv
<1>3. /\ call[c].entered < Len(call[c].teams) /\ call[c].kind \in {"submit", "enroll"}
      /\ call[c].pick = {} /\ call[c].made = None /\ call[c].fresh = FALSE
      /\ call[c].unsent = {}
      /\ \A i \in 1 .. Len(call[c].teams) : team[call[c].teams[i]].by \in {Db, c}
  BY <1>1, <1>2, CallsAre DEF CallInv, Ordered, Making, Picked
<1>4. /\ call'[c].at = Entered(c) /\ call'[c].entered = call[c].entered + 1
      /\ call'[c].links = call[c].links /\ call'[c].teams = call[c].teams
      /\ call'[c].kind = call[c].kind
      /\ call'[c].made = call[c].made /\ call'[c].old = call[c].old
      /\ call'[c].drop = call[c].drop /\ call'[c].pick = call[c].pick
      /\ call'[c].unsent = call[c].unsent /\ call'[c].fresh = call[c].fresh
      /\ UNCHANGED <<team, entry>>
  BY <1>2, KeepEntryIs DEF KeepEntry, rows
<1>5. /\ call[c].entered \in Nat /\ Len(call[c].teams) \in Nat
      /\ \A i \in 1 .. Len(call[c].teams) : call[c].teams[i] \in Team
  BY <1>2, CallsAre
<1>6. /\ call'[c].at \in {"enter", "read", "commit"}
      /\ call'[c].at = "enter" =>
           call[c].kind = "submit" /\ call[c].entered + 1 < Len(call[c].teams)
      /\ call'[c].at = "read" =>
           call[c].kind = "submit" /\ call[c].entered + 1 = Len(call[c].teams)
      /\ call'[c].at = "commit" => call[c].kind = "enroll"
  BY <1>3, <1>4, <1>5 DEF Entered
<1>7. Ordered(c)'
  BY <1>3, <1>4, <1>5, <1>6 DEF Ordered, Running
<1>8. Making(c)'
  <2>1. \A e \in call[c].drop : e # None
    BY <1>1, OwnDrop, EnrollmentConstants
  <2> QED
    BY <1>1, <1>3, <1>4, <1>6, <2>1, OwnDrop DEF Making
<1>9. Served(c)'
  <2> SUFFICES ASSUME NEW i \in 1 .. call[c].entered + 1
               PROVE  HasEntry(c, call[c].teams[i])'
    BY <1>4 DEF Served
  <2>1. PICK t \in Team : t = call[c].teams[i] /\ t = call'[c].teams[i]
    BY <1>3, <1>4, <1>5
  <2>2. HasEntry(c, t)
    <3>1. CASE i = call[c].entered + 1
      <4>1. PICK e \in EntriesOf(c, {t}) : TRUE
        BY <2>1, <3>1 DEF KeepEntry, Current
      <4> QED
        BY <4>1 DEF EntriesOf, EntriesSeen, Sees, HasEntry, Mine
    <3>2. CASE i \in 1 .. call[c].entered
      BY <1>2, <2>1, <3>2 DEF CallInv, Served
    <3> QED
      BY <1>5, <3>1, <3>2
  <2>3. HasEntry(c, t)'
    BY <1>1, <1>4, <2>2, OwnServed
  <2> QED
    BY <2>1, <2>3
<1>10. Picked(c)'
  BY <1>3, <1>4, <1>6 DEF Picked
<1>11. Verdict(c)'
  BY <1>3, <1>4 DEF Verdict
<1> QED
  BY <1>7, <1>8, <1>9, <1>10, <1>11 DEF CallInv

LEMMA MakeOwn ==
  ASSUME IInv, NEW c \in Call, MakeEntry(c)
  PROVE  CallInv(c)'
<1>1. Statement(c) /\ ~Commit(c) /\ ~AttachEntry(c) /\ call[c].at = "enter"
  BY DEF Statement, MakeEntry, Commit, AttachEntry
<1>2. TypeOK /\ CallInv(c) /\ Ordered(c)
  BY DEF IInv, CallInv
<1>3. /\ call[c].entered < Len(call[c].teams) /\ call[c].kind \in {"submit", "enroll"}
      /\ call[c].pick = {} /\ call[c].made = None /\ call[c].fresh = FALSE
      /\ call[c].unsent = {}
      /\ \A i \in 1 .. Len(call[c].teams) : team[call[c].teams[i]].by \in {Db, c}
  BY <1>1, <1>2, CallsAre DEF CallInv, Ordered, Making, Picked
<1>4. /\ call'[c].at = "set" /\ call'[c].made = First(Free(entry))
      /\ call'[c].links = call[c].links /\ call'[c].teams = call[c].teams
      /\ call'[c].kind = call[c].kind /\ call'[c].entered = call[c].entered
      /\ call'[c].old = call[c].old
      /\ call'[c].drop = call[c].drop /\ call'[c].pick = call[c].pick
      /\ call'[c].unsent = call[c].unsent /\ call'[c].fresh = call[c].fresh
      /\ UNCHANGED team
  BY <1>2, MakeEntryIs DEF MakeEntry
<1>5. /\ call[c].entered \in Nat /\ Len(call[c].teams) \in Nat
      /\ \A i \in 1 .. Len(call[c].teams) : call[c].teams[i] \in Team
  BY <1>2, CallsAre
<1>6. PICK m \in Entry : m = First(Free(entry)) /\ entry[m].by = None
  BY <1>2, FreeEntry DEF MakeEntry
<1>7. /\ entry'[m].by = c /\ entry'[m].team = None /\ entry'[m].first = Current(c)
      /\ Current(c)' = Current(c)
  <2>1. entry' = [entry EXCEPT ![m] = [NoEntry EXCEPT !.first = Current(c), !.by = c]]
    BY <1>6 DEF MakeEntry
  <2>2. entry'[m] = [NoEntry EXCEPT !.first = Current(c), !.by = c]
    BY <1>2, <2>1 DEF TypeOK
  <2> QED
    BY <1>4, <2>2 DEF NoEntry, Current
<1>8. Ordered(c)'
  BY <1>3, <1>4, <1>5 DEF Ordered, Running
<1>9. Making(c)'
  <2>1. \A e \in call[c].drop : e # m
    <3>1. None \notin {Db, c}
      BY EnrollmentConstants
    <3> QED
      BY <1>1, <1>6, <3>1, OwnDrop DEF Mine
  <2>2. \A e \in call'[c].drop :
          /\ Mine(c, e)' /\ e # call'[c].made
          /\ \E f \in Entry : f # e /\ entry'[f].by = c /\ entry'[f].first = entry'[e].first
    BY <1>1, <1>4, <1>6, <2>1, OwnDrop
  <2>3. /\ call'[c].at = "set" /\ call'[c].made = m
        /\ entry'[call'[c].made].first = Current(c)'
    BY <1>4, <1>6, <1>7
  <2> QED
    BY <1>6, <1>7, <2>2, <2>3 DEF Making
<1>10. Served(c)'
  <2> SUFFICES ASSUME NEW i \in 1 .. call[c].entered
               PROVE  HasEntry(c, call[c].teams[i])'
    BY <1>4 DEF Served
  <2>1. PICK t \in Team : t = call[c].teams[i] /\ t = call'[c].teams[i]
    BY <1>3, <1>4, <1>5
  <2>2. HasEntry(c, t)
    BY <1>2, <2>1 DEF CallInv, Served
  <2>3. HasEntry(c, t)'
    BY <1>1, <1>4, <2>2, OwnServed
  <2> QED
    BY <2>1, <2>3
<1>11. Picked(c)'
  BY <1>3, <1>4 DEF Picked
<1>12. Verdict(c)'
  BY <1>3, <1>4 DEF Verdict
<1> QED
  BY <1>8, <1>9, <1>10, <1>11, <1>12 DEF CallInv

LEMMA ReadOldOwn ==
  ASSUME IInv, NEW c \in Call, ReadOld(c)
  PROVE  CallInv(c)'
<1>1. Statement(c) /\ ~Commit(c) /\ ~AttachEntry(c) /\ call[c].at = "set"
  BY DEF Statement, ReadOld, Commit, AttachEntry
<1>2. TypeOK /\ RowOk /\ CallInv(c) /\ Ordered(c) /\ Making(c)
  BY DEF IInv, CallInv
<1>3. /\ call[c].entered < Len(call[c].teams) /\ call[c].kind \in {"submit", "enroll"}
      /\ call[c].pick = {} /\ call[c].fresh = FALSE
      /\ call[c].unsent = {} /\ call[c].made \in Entry
      /\ entry[call[c].made].by = c /\ entry[call[c].made].team = None
      /\ entry[call[c].made].first = Current(c)
      /\ \A i \in 1 .. Len(call[c].teams) : team[call[c].teams[i]].by \in {Db, c}
  BY <1>1, <1>2, CallsAre DEF CallInv, Ordered, Making, Picked
<1>4. /\ call'[c].at = "attach"
      /\ \/ call'[c].old = None /\ EntriesOf(c, {Current(c)}) = {}
         \/ call'[c].old \in EntriesOf(c, {Current(c)})
      /\ call'[c].links = call[c].links /\ call'[c].teams = call[c].teams
      /\ call'[c].kind = call[c].kind /\ call'[c].entered = call[c].entered
      /\ call'[c].made = call[c].made
      /\ call'[c].drop = call[c].drop /\ call'[c].pick = call[c].pick
      /\ call'[c].unsent = call[c].unsent /\ call'[c].fresh = call[c].fresh
      /\ UNCHANGED <<team, entry>>
  BY <1>2, ReadOldIs DEF ReadOld, rows
<1>5. /\ call[c].entered \in Nat /\ Len(call[c].teams) \in Nat
      /\ \A i \in 1 .. Len(call[c].teams) : call[c].teams[i] \in Team
  BY <1>2, CallsAre
<1>6. Current(c)' = Current(c) /\ Current(c) \in Team
  BY <1>1, <1>2, <1>4, CurrentType DEF Current
<1>7. call'[c].old # None =>
        /\ call'[c].old \in Entry /\ call'[c].old # call[c].made
        /\ Mine(c, call'[c].old) /\ entry[call'[c].old].first = Current(c)
  <2> SUFFICES ASSUME NEW o \in EntriesOf(c, {Current(c)})
               PROVE  o \in Entry /\ o # call[c].made /\ Mine(c, o)
                      /\ entry[o].first = Current(c)
    BY <1>4
  <2>1. o \in Entry /\ entry[o].team = Current(c) /\ Sees(c, entry[o]) /\ entry[o].team # None
    BY DEF EntriesOf, EntriesSeen
  <2> QED
    BY <1>2, <1>3, <2>1 DEF Sees, Mine, RowOk
<1>8. Ordered(c)'
  BY <1>3, <1>4, <1>5 DEF Ordered, Running
<1>9. Making(c)'
  BY <1>1, <1>3, <1>4, <1>6, <1>7, OwnDrop DEF Making, Mine
<1>10. Served(c)'
  <2> SUFFICES ASSUME NEW i \in 1 .. call[c].entered
               PROVE  HasEntry(c, call[c].teams[i])'
    BY <1>4 DEF Served
  <2>1. PICK t \in Team : t = call[c].teams[i] /\ t = call'[c].teams[i]
    BY <1>3, <1>4, <1>5
  <2>2. HasEntry(c, t)
    BY <1>2, <2>1 DEF CallInv, Served
  <2>3. HasEntry(c, t)'
    BY <1>1, <1>4, <2>2, OwnServed
  <2> QED
    BY <2>1, <2>3
<1>11. Picked(c)'
  BY <1>3, <1>4 DEF Picked
<1>12. Verdict(c)'
  BY <1>3, <1>4 DEF Verdict
<1> QED
  BY <1>8, <1>9, <1>10, <1>11, <1>12 DEF CallInv

LEMMA AttachOwn ==
  ASSUME IInv, NEW c \in Call, AttachEntry(c)
  PROVE  CallInv(c)'
<1>1. Statement(c) /\ ~Commit(c) /\ call[c].at = "attach"
  BY DEF Statement, AttachEntry, Commit
<1>2. TypeOK /\ RowOk /\ CallInv(c) /\ Ordered(c) /\ Making(c)
  BY DEF IInv, CallInv
<1>3. /\ call[c].entered < Len(call[c].teams) /\ call[c].kind \in {"submit", "enroll"}
      /\ call[c].pick = {} /\ call[c].fresh = FALSE
      /\ call[c].unsent = {}
      /\ \A i \in 1 .. Len(call[c].teams) : team[call[c].teams[i]].by \in {Db, c}
  BY <1>1, <1>2, CallsAre DEF CallInv, Ordered, Picked
<1>4. /\ call'[c].at = Entered(c) /\ call'[c].entered = call[c].entered + 1
      /\ call'[c].made = None /\ call'[c].old = None
      /\ call'[c].drop = IF call[c].old = None THEN call[c].drop
                         ELSE call[c].drop \cup {call[c].old}
      /\ call'[c].links = call[c].links /\ call'[c].teams = call[c].teams
      /\ call'[c].kind = call[c].kind /\ call'[c].pick = call[c].pick
      /\ call'[c].unsent = call[c].unsent /\ call'[c].fresh = call[c].fresh
      /\ UNCHANGED team
  BY <1>2, AttachEntryIs DEF AttachEntry
<1>5. /\ call[c].entered \in Nat /\ Len(call[c].teams) \in Nat
      /\ \A i \in 1 .. Len(call[c].teams) : call[c].teams[i] \in Team
  BY <1>2, CallsAre
<1>6. /\ call'[c].at \in {"enter", "read", "commit"}
      /\ call'[c].at = "enter" =>
           call[c].kind = "submit" /\ call[c].entered + 1 < Len(call[c].teams)
      /\ call'[c].at = "read" =>
           call[c].kind = "submit" /\ call[c].entered + 1 = Len(call[c].teams)
      /\ call'[c].at = "commit" => call[c].kind = "enroll"
  BY <1>3, <1>4, <1>5 DEF Entered
<1>7. PICK u \in Team : u = Current(c)
  BY <1>1, <1>2, CurrentType
<1>8. PICK m \in Entry : /\ m = call[c].made /\ entry[m].by = c /\ entry[m].team = None
                         /\ entry[m].first = u
  BY <1>1, <1>2, <1>7 DEF Making
<1>9. entry'[m].by = c /\ entry'[m].first = u /\ entry'[m].team = u
  <2>1. entry' = [entry EXCEPT ![m].team = u]
    BY <1>7, <1>8 DEF AttachEntry
  <2>2. entry[m] \in EntryRecord /\ entry'[m] = [entry[m] EXCEPT !.team = u]
    BY <1>2, <2>1 DEF TypeOK, EntryRecord
  <2> QED
    BY <1>8, <2>2 DEF EntryRecord
<1>10. call[c].old # None =>
         /\ call[c].old \in Entry /\ call[c].old # m
         /\ Mine(c, call[c].old) /\ entry[call[c].old].first = u
  <2> SUFFICES ASSUME call[c].old # None
               PROVE  /\ call[c].old \in Entry /\ call[c].old # m
                      /\ Mine(c, call[c].old) /\ entry[call[c].old].first = u
    OBVIOUS
  <2>1. call[c].old \in Entry
    BY <1>2, CallsAre
  <2> QED
    BY <1>1, <1>2, <1>7, <1>8, <2>1 DEF Making
<1>11. m \notin call'[c].drop
  BY <1>1, <1>4, <1>8, <1>10, OwnDrop
<1>12. Ordered(c)'
  BY <1>3, <1>4, <1>5, <1>6 DEF Ordered, Running
<1>13. Making(c)'
  <2>1. ASSUME NEW e \in call'[c].drop
        PROVE  /\ Mine(c, e)' /\ e # None
               /\ \E f \in Entry : f # e /\ entry'[f].by = c
                                   /\ entry'[f].first = entry'[e].first
    <3>1. CASE e \in call[c].drop
      BY <1>1, <3>1, OwnDrop, EnrollmentConstants
    <3>2. CASE e = call[c].old /\ call[c].old # None
      <4>1. e \in Entry /\ e # m /\ Mine(c, e) /\ entry[e].first = u
        BY <1>10, <3>2
      <4>2. Mine(c, e)' /\ entry'[e].first = u
        BY <1>1, <4>1, OwnRows
      <4> QED
        BY <1>9, <3>2, <4>1, <4>2
    <3> QED
      BY <1>4, <2>1, <3>1, <3>2
  <2> QED
    BY <1>4, <1>6, <2>1 DEF Making
<1>14. Served(c)'
  <2> SUFFICES ASSUME NEW i \in 1 .. call[c].entered + 1
               PROVE  HasEntry(c, call[c].teams[i])'
    BY <1>4 DEF Served
  <2>1. PICK t \in Team : t = call[c].teams[i] /\ t = call'[c].teams[i]
    BY <1>3, <1>4, <1>5
  <2>2. CASE i = call[c].entered + 1
    <3>1. t = u
      BY <1>7, <2>1, <2>2 DEF Current
    <3>2. HasEntry(c, t)'
      BY <1>9, <1>11, <3>1 DEF HasEntry, Mine
    <3> QED
      BY <2>1, <3>2
  <2>3. CASE i \in 1 .. call[c].entered
    <3>1. HasEntry(c, t)
      BY <1>2, <2>1, <2>3 DEF CallInv, Served
    <3>2. CASE CrossedFor(c, t)
      <4>1. CrossedNext(c, t)
        BY <1>1, <3>2, OwnCrossed
      <4> QED
        BY <2>1, <4>1 DEF HasEntry, CrossedFor, CrossedNext, Mine
    <3>3. ASSUME NEW e \in Entry, Mine(c, e), e \notin call[c].drop, entry[e].team = t
          PROVE  HasEntry(c, call[c].teams[i])'
      <4>1. Mine(c, e)' /\ entry'[e].first = t /\ e # m /\ entry'[e].team = t
        <5>1. entry[e].first = t /\ e # m
          BY <1>2, <1>8, <3>3, EnrollmentConstants DEF RowOk
        <5> QED
          BY <1>1, <1>8, <3>3, <5>1, OwnRows
      <4>2. CASE e = call[c].old /\ call[c].old # None
        <5>1. t = u
          BY <1>1, <1>10, <3>3, <4>1, <4>2, OwnRows
        <5>2. CrossedNext(c, t)
          BY <1>9, <4>1, <5>1 DEF CrossedNext, Mine
        <5> QED
          BY <2>1, <5>2 DEF HasEntry, CrossedFor, CrossedNext, Mine
      <4>3. CASE e \notin call'[c].drop
        <5>1. HasEntry(c, t)'
          BY <4>1, <4>3 DEF HasEntry
        <5> QED
          BY <2>1, <5>1
      <4> QED
        BY <1>4, <3>3, <4>2, <4>3
    <3> QED
      BY <3>1, <3>2, <3>3 DEF HasEntry
  <2> QED
    BY <1>5, <2>2, <2>3
<1>15. Picked(c)'
  BY <1>3, <1>4, <1>6 DEF Picked
<1>16. Verdict(c)'
  BY <1>3, <1>4 DEF Verdict
<1> QED
  BY <1>12, <1>13, <1>14, <1>15, <1>16 DEF CallInv

LEMMA ReadTeamsOwn ==
  ASSUME IInv, NEW c \in Call, ReadTeams(c)
  PROVE  CallInv(c)'
<1>1. Statement(c) /\ ~Commit(c) /\ ~AttachEntry(c) /\ call[c].at = "read"
  BY DEF Statement, ReadTeams, Commit, AttachEntry
<1>2. TypeOK /\ RowOk /\ CallInv(c) /\ Ordered(c) /\ Making(c)
  BY DEF IInv, CallInv
<1>3. /\ call[c].entered <= Len(call[c].teams) /\ call[c].kind \in {"submit", "finish"}
      /\ call[c].kind = "submit" => call[c].entered = Len(call[c].teams)
      /\ call[c].fresh = FALSE /\ call[c].made = None
      /\ \A i \in 1 .. Len(call[c].teams) : team[call[c].teams[i]].by \in {Db, c}
  BY <1>1, <1>2, CallsAre DEF CallInv, Ordered, Making
<1>4. /\ call'[c].at = "lock" /\ call'[c].pick \subseteq EntriesOf(c, TeamsSeen(c))
      /\ call'[c].unsent = {e \in call'[c].pick : ~entry[e].sent}
      /\ \A t \in TeamsSeen(c) : EntriesOf(c, {t}) # {} =>
           \E e \in call'[c].pick : entry[e].team = t
      /\ call'[c].links = call[c].links /\ call'[c].teams = call[c].teams
      /\ call'[c].kind = call[c].kind /\ call'[c].entered = call[c].entered
      /\ call'[c].made = call[c].made /\ call'[c].old = call[c].old
      /\ call'[c].drop = call[c].drop /\ call'[c].fresh = call[c].fresh
      /\ UNCHANGED <<team, entry>>
  BY <1>2, ReadTeamsIs DEF ReadTeams, rows
<1>5. /\ call[c].entered \in Nat /\ Len(call[c].teams) \in Nat
      /\ \A i \in 1 .. Len(call[c].teams) : call[c].teams[i] \in Team
  BY <1>2, CallsAre
<1>6. Ordered(c)'
  BY <1>3, <1>4, <1>5 DEF Ordered, Running
<1>7. Making(c)'
  <2>1. \A e \in call[c].drop : e # None
    BY <1>1, OwnDrop, EnrollmentConstants
  <2> QED
    BY <1>1, <1>3, <1>4, <2>1, OwnDrop DEF Making
<1>8. \A i \in 1 .. call[c].entered : HasEntry(c, call[c].teams[i])
  BY <1>2 DEF CallInv, Served
<1>9. Served(c)'
  <2> SUFFICES ASSUME NEW i \in 1 .. call[c].entered
               PROVE  HasEntry(c, call[c].teams[i])'
    BY <1>4 DEF Served
  <2>1. PICK t \in Team : t = call[c].teams[i] /\ t = call'[c].teams[i]
    BY <1>3, <1>4, <1>5
  <2>2. HasEntry(c, t)'
    BY <1>1, <1>4, <1>8, <2>1, OwnServed
  <2> QED
    BY <2>1, <2>2
<1>10. Picked(c)'
  <2>1. ASSUME NEW e \in call'[c].pick
        PROVE  /\ Mine(c, e) /\ e \notin call[c].drop /\ entry[e].team # None
               /\ e \notin call'[c].unsent => entry[e].sent
    BY <1>4 DEF EntriesOf, EntriesSeen, Sees, Mine
  <2>2. ASSUME call[c].kind = "submit", NEW i \in 1 .. Len(call[c].teams)
        PROVE  \/ \E e \in call'[c].pick : entry[e].team = call[c].teams[i]
               \/ CrossedFor(c, call[c].teams[i])
    <3>1. PICK t \in Team : t = call[c].teams[i] /\ HasEntry(c, t) /\ team[t].by \in {Db, c}
      BY <1>3, <1>5, <1>8, <2>2
    <3>2. t \in TeamsSeen(c)
      BY <3>1 DEF TeamsSeen, Sees
    <3>3. CASE CrossedFor(c, t)
      BY <3>1, <3>3
    <3>4. ASSUME NEW e \in Entry, Mine(c, e), e \notin call[c].drop, entry[e].team = t
          PROVE  \E f \in call'[c].pick : entry[f].team = t
      <4>1. e \in EntriesOf(c, {t})
        BY <3>4, EnrollmentConstants DEF EntriesOf, EntriesSeen, Sees, Mine
      <4> QED
        BY <1>4, <3>2, <4>1
    <3> QED
      BY <3>1, <3>3, <3>4 DEF HasEntry
  <2> QED
    BY <1>4, <2>1, <2>2 DEF Picked, CrossedFor, Mine
<1>11. Verdict(c)'
  BY <1>3, <1>4 DEF Verdict
<1> QED
  BY <1>6, <1>7, <1>9, <1>10, <1>11 DEF CallInv

LEMMA LockOwn ==
  ASSUME IInv, NEW c \in Call, LockEntries(c)
  PROVE  CallInv(c)'
<1>1. Statement(c) /\ ~Commit(c) /\ ~AttachEntry(c) /\ call[c].at = "lock"
  BY DEF Statement, LockEntries, Commit, AttachEntry
<1>2. TypeOK /\ RowOk /\ CallInv(c) /\ Ordered(c) /\ Making(c) /\ Picked(c)
  BY DEF IInv, CallInv
<1>3. /\ call[c].entered <= Len(call[c].teams)
      /\ call[c].kind = "submit" => call[c].entered = Len(call[c].teams)
      /\ call[c].made = None
      /\ \A i \in 1 .. Len(call[c].teams) : team[call[c].teams[i]].by \in {Db, c}
  BY <1>1, <1>2, CallsAre DEF CallInv, Ordered, Making
<1>4. /\ call'[c].at = "commit"
      /\ call'[c].fresh <=> LockedBy(c) = {} \/ \E e \in LockedBy(c) : ~entry[e].sent
      /\ call'[c].links = call[c].links /\ call'[c].teams = call[c].teams
      /\ call'[c].kind = call[c].kind /\ call'[c].entered = call[c].entered
      /\ call'[c].made = call[c].made /\ call'[c].old = call[c].old
      /\ call'[c].drop = call[c].drop /\ call'[c].pick = call[c].pick
      /\ call'[c].unsent = call[c].unsent
      /\ UNCHANGED <<team, entry>>
  BY <1>2, LockEntriesIs DEF LockEntries, rows
<1>5. /\ call[c].entered \in Nat /\ Len(call[c].teams) \in Nat /\ call[c].pick \subseteq Entry
      /\ \A i \in 1 .. Len(call[c].teams) : call[c].teams[i] \in Team
  BY <1>2, CallsAre
<1>6. Ordered(c)'
  BY <1>3, <1>4, <1>5 DEF Ordered, Running
<1>7. Making(c)'
  <2>1. \A e \in call[c].drop : e # None
    BY <1>1, OwnDrop, EnrollmentConstants
  <2> QED
    BY <1>1, <1>3, <1>4, <2>1, OwnDrop DEF Making
<1>8. Served(c)'
  <2> SUFFICES ASSUME NEW i \in 1 .. call[c].entered
               PROVE  HasEntry(c, call[c].teams[i])'
    BY <1>4 DEF Served
  <2>1. PICK t \in Team : t = call[c].teams[i] /\ t = call'[c].teams[i]
    BY <1>3, <1>4, <1>5
  <2>2. HasEntry(c, t)
    BY <1>2, <2>1 DEF CallInv, Served
  <2>3. HasEntry(c, t)'
    BY <1>1, <1>4, <2>2, OwnServed
  <2> QED
    BY <2>1, <2>3
<1>9. Picked(c)'
  BY <1>1, <1>2, <1>4 DEF Picked, CrossedFor, Mine
<1>10. ASSUME NEW e \in call[c].pick, entry[e].team # None
       PROVE  e \in LockedBy(c)
  BY <1>2, <1>5, <1>10 DEF LockedBy, EntriesOf, EntriesSeen, Sees, Picked, Mine
<1>11. ASSUME call'[c].fresh, call[c].pick # {}, \A t \in Team : ~CrossedFor(c, t)
       PROVE  \E e \in call[c].unsent : ~entry[e].sent /\ elock'[e] = c
  <2>1. \A e \in call[c].pick : entry[e].first \in Team /\ entry[e].team # None
    <3> SUFFICES ASSUME NEW e \in call[c].pick
                 PROVE  entry[e].first \in Team /\ entry[e].team # None
      OBVIOUS
    <3>1. e \in Entry /\ Mine(c, e)
      BY <1>2, <1>5 DEF Picked
    <3>2. entry[e].first \in Team
      BY <1>2, <3>1, EnrollmentConstants DEF RowOk, Mine
    <3> QED
      BY <1>2, <1>11, <3>2 DEF Picked
  <2>2. PICK e \in LockedBy(c) : ~entry[e].sent
    BY <1>4, <1>10, <1>11, <2>1
  <2>3. PICK p \in call[c].pick : entry[e].team = entry[p].team
    BY DEF LockedBy, EntriesOf
  <2>4. e \in Entry /\ Mine(c, e) /\ entry[e].team # None
    BY DEF LockedBy, EntriesOf, EntriesSeen, Sees, Mine
  <2>5. e = p
    <3>1. p \in Entry /\ Mine(c, p) /\ entry[p].first = entry[p].team
          /\ entry[e].first = entry[p].team /\ entry[p].first \in Team
      BY <1>2, <1>5, <2>1, <2>3, <2>4 DEF Picked, RowOk
    <3> QED
      BY <1>11, <2>4, <3>1 DEF CrossedFor
  <2>6. e \in call[c].unsent
    BY <1>2, <2>2, <2>5 DEF Picked
  <2>7. elock'[e] = c
    BY <2>4 DEF LockEntries, LockedBy
  <2> QED
    BY <2>2, <2>6, <2>7
<1>12. Verdict(c)'
  <2>1. call'[c].fresh =>
          \/ call'[c].pick = {}
          \/ \E t \in Team : CrossedFor(c, t)
          \/ \E e \in call'[c].unsent : ~entry'[e].sent /\ elock'[e] = c
    BY <1>4, <1>11
  <2>2. ~call'[c].fresh =>
          \A e \in call'[c].pick : entry'[e].team # None => entry'[e].sent
    BY <1>4, <1>10
  <2>3. \A t \in Team : CrossedFor(c, t) <=> CrossedFor(c, t)'
    BY <1>4 DEF CrossedFor, Mine
  <2> QED
    BY <2>1, <2>2, <2>3 DEF Verdict
<1> QED
  BY <1>6, <1>7, <1>8, <1>9, <1>12 DEF CallInv

LEMMA EndOwn ==
  ASSUME IInv, NEW c \in Call, Commit(c) \/ Rollback(c)
  PROVE  CallInv(c)'
<1>1. /\ call'[c].at \in {"idle", "done"}
      /\ call'[c].kind = "finish" /\ call'[c].links = <<>> /\ call'[c].teams = <<>>
      /\ call'[c].entered = 0 /\ call'[c].made = None /\ call'[c].old = None
      /\ call'[c].drop = {} /\ call'[c].pick = {} /\ call'[c].unsent = {}
      /\ call'[c].fresh = FALSE
  BY EndIs DEF IInv
<1>2. Ordered(c)'
  BY <1>1 DEF Ordered, Running
<1>3. Making(c)'
  BY <1>1 DEF Making
<1>4. Served(c)'
  BY <1>1 DEF Served
<1>5. Picked(c)'
  BY <1>1 DEF Picked
<1>6. Verdict(c)'
  BY <1>1 DEF Verdict
<1> QED
  BY <1>2, <1>3, <1>4, <1>5, <1>6 DEF CallInv

-----------------------------------------------------------------------------
(* The invariant. *)

LEMMA OwnStep ==
  ASSUME IInv, NEW c \in Call, Begin(c) \/ Statement(c) \/ Rollback(c)
  PROVE  CallInv(c)'
BY BeginOwn, TeamOwn, KeepOwn, MakeOwn, ReadOldOwn, AttachOwn, ReadTeamsOwn, LockOwn, EndOwn
   DEF Statement

LEMMA StartInv == Init => IInv
<1> SUFFICES ASSUME Init PROVE IInv
  OBVIOUS
<1>1. None \notin Link \cup Team \cup Entry \cup Call /\ Db \notin Call \cup {None}
      /\ MaxCalls \in Nat
  BY EnrollmentConstants
<1>2. /\ call = [c \in Call |-> Idle] /\ logged = 0 /\ calls = 0
      /\ lock = [t \in Team |-> None] /\ elock = [e \in Entry |-> None]
  BY DEF Init
<1>3. team \in [Team -> TeamRecord]
  <2>1. {NoTeam} \cup [link : Link, by : {Db}] \subseteq TeamRecord
    BY DEF NoTeam, TeamRecord
  <2> QED
    BY <2>1 DEF Init
<1>4. /\ entry \in [Entry -> EntryRecord]
      /\ \A e \in Entry : /\ entry[e].by # None => entry[e].first \in Team
                          /\ entry[e].team # None => entry[e].first = entry[e].team
  <2>1. ASSUME NEW t \in Team, NEW s \in BOOLEAN
        PROVE  /\ EntryOf(t, s) \in EntryRecord
               /\ EntryOf(t, s).first = t /\ EntryOf(t, s).team = t
    BY DEF EntryOf, EntryRecord
  <2>2. NoEntry \in EntryRecord /\ NoEntry.by = None /\ NoEntry.team = None
    BY DEF NoEntry, EntryRecord
  <2>3. ASSUME NEW e \in Entry
        PROVE  /\ entry[e] \in EntryRecord
               /\ entry[e].by # None => entry[e].first \in Team
               /\ entry[e].team # None => entry[e].first = entry[e].team
    <3>1. entry[e] = NoEntry \/ \E t \in Team, s \in BOOLEAN : entry[e] = EntryOf(t, s)
      BY DEF Init
    <3> QED
      BY <2>1, <2>2, <3>1
  <2>4. entry = [e \in Entry |-> entry[e]]
    BY DEF Init
  <2> QED
    BY <2>3, <2>4
<1>5. call \in [Call -> CallRecord]
  BY <1>2, IdleType
<1>6. \A c \in Call : /\ call[c].at = "idle" /\ call[c].kind = "finish" /\ call[c].links = <<>>
                      /\ call[c].teams = <<>> /\ call[c].entered = 0 /\ call[c].made = None
                      /\ call[c].old = None /\ call[c].drop = {} /\ call[c].pick = {}
                      /\ call[c].unsent = {} /\ call[c].fresh = FALSE
  BY <1>2 DEF Idle
<1>7. TypeOK
  <2>1. /\ lock \in [Team -> Call \cup {None}] /\ elock \in [Entry -> Call \cup {None}]
        /\ \A t \in Team : lock[t] = None
        /\ \A e \in Entry : elock[e] = None
        /\ logged \in 0 .. MaxCalls /\ calls \in 0 .. MaxCalls
    BY <1>1, <1>2
  <2>2. call \in [Call -> [kind : Kinds, at : Phases, links : Seq(Link \cup {None}),
                           teams : Seq(Team), entered : Nat,
                           made : Entry \cup {None}, old : Entry \cup {None},
                           drop : SUBSET Entry, pick : SUBSET Entry,
                           unsent : SUBSET Entry, fresh : BOOLEAN]]
    BY <1>5, Zenon DEF CallRecord
  <2>3. /\ team \in [Team -> [link : Link \cup {None}, by : Call \cup {Db, None}]]
        /\ entry \in [Entry -> [team : Team \cup {None}, first : Team \cup {None},
                                sent : BOOLEAN, by : Call \cup {Db, None}]]
    BY <1>3, <1>4, Zenon DEF TeamRecord, EntryRecord
  <2> QED
    BY <2>1, <2>2, <2>3, Zenon DEF TypeOK
<1>8. RowOk
  BY <1>4 DEF RowOk
<1>9. Counted
  <2>1. Active = {}
    BY <1>6 DEF Active, Running
  <2> QED
    BY <1>2, <2>1, FS_EmptySet DEF Counted
<1>10. ASSUME NEW c \in Call PROVE CallInv(c)
  <2>1. Ordered(c)
    BY <1>6 DEF Ordered, Running
  <2>2. Making(c) /\ Served(c)
    BY <1>6 DEF Making, Served
  <2>3. Picked(c) /\ Verdict(c)
    BY <1>6 DEF Picked, Verdict
  <2> QED
    BY <2>1, <2>2, <2>3 DEF CallInv
<1> QED
  BY <1>7, <1>8, <1>9, <1>10 DEF IInv

LEMMA InvStep == IInv /\ [Next]_vars => IInv'
<1> SUFFICES ASSUME IInv, [Next]_vars PROVE IInv'
  OBVIOUS
<1>1. ASSUME NEW c \in Call, Begin(c) \/ Statement(c) \/ Rollback(c)
      PROVE  IInv'
  <2>1. \A d \in Call \ {c} : CallInv(d)'
    BY <1>1, OthersSteady, SteadyKeeps
  <2>2. CallInv(c)'
    BY <1>1, OwnStep
  <2>3. TypeOK' /\ RowOk' /\ Counted'
    BY <1>1, TypeStep, RowStep, CountStep
  <2> QED
    BY <2>1, <2>2, <2>3 DEF IInv
<1>2. ASSUME UNCHANGED vars
      PROVE  IInv'
  <2>1. UNCHANGED <<team, entry, lock, elock, call, logged, calls>>
    BY <1>2 DEF vars, rows, locks
  <2>2. TypeOK'
    BY <2>1, Zenon DEF IInv, TypeOK, Running
  <2>3. RowOk' /\ Counted'
    BY <2>1 DEF IInv, RowOk, Counted, Active, Running
  <2>4. ASSUME NEW d \in Call PROVE Steady(d)
    BY <2>1 DEF Steady, Mine
  <2>5. \A d \in Call : CallInv(d)'
    BY <2>4, SteadyKeeps
  <2> QED
    BY <2>2, <2>3, <2>5 DEF IInv
<1> QED
  BY <1>1, <1>2 DEF Next

(* Rows, locks and calls are well typed; a row lock belongs to a session   *)
(* that runs, and there are not more Logging rows than mutations.          *)
THEOREM TypeCorrect == Spec => []TypeOK
<1>1. IInv => TypeOK
  BY DEF IInv
<1> QED
  BY <1>1, StartInv, InvStep, PTL DEF Spec

-----------------------------------------------------------------------------
(* The two promises of the finalization. *)

(* The only step that ends a mutation well is its commit. *)
LEMMA DoneByCommit ==
  ASSUME IInv, Next, NEW c \in Call, call[c].at = "commit", call'[c].at = "done"
  PROVE  Commit(c)
<1>1. PICK d \in Call : Begin(d) \/ Statement(d) \/ Rollback(d)
  BY DEF Next
<1>2. d = c
  <2>1. d # c => call'[c] = call[c]
    BY <1>1, CallStep DEF Moves
  <2> QED
    BY <2>1
<1>3. ~Begin(c)
  BY BeginLeaves DEF IInv
<1>4. Statement(c) \/ Rollback(c)
  BY <1>1, <1>2, <1>3
<1>5. Statement(c) => Commit(c)
  BY CallStep
<1>6. Rollback(c) => Commit(c)
  BY EndIs DEF IInv
<1> QED
  BY <1>4, <1>5, <1>6

(* A finalization that is logged, and mailed, sent an entry nobody had     *)
(* sent (enrollment-finalize.service.ts), whatever other sessions did      *)
(* between its reading of the teams and its lock on their entries.         *)
THEOREM LoggedIsNews == Spec => LogHasNews
<1>1. ASSUME IInv, Next, NEW c \in Call, logged' # logged,
             call[c].at = "commit", call'[c].at = "done"
      PROVE  \/ \E e \in SentRows' : e \notin SentRows
             \/ call[c].pick = {}
             \/ \E t \in Team : Crossed(t)
  <2>1. Commit(c)
    BY <1>1, DoneByCommit
  <2>2. call[c].fresh /\ Verdict(c) /\ Picked(c) /\ call[c].unsent \subseteq Entry
    BY <1>1, <2>1, CallsAre DEF Commit, IInv, CallInv
  <2>3. ASSUME NEW t \in Team, CrossedFor(c, t) PROVE Crossed(t)
    BY <2>3 DEF CrossedFor, Crossed
  <2>4. ASSUME NEW e \in call[c].unsent, ~entry[e].sent
        PROVE  e \in SentRows' /\ e \notin SentRows
    <3>1. e \in Entry /\ Mine(c, e) /\ e \in Stamped(c)
      BY <2>2 DEF Picked, Stamped
    <3>2. entry'[e].sent /\ entry'[e].by = Db
      BY <2>1, <3>1, CommitRow DEF Committed, Mine
    <3> QED
      BY <2>4, <3>1, <3>2 DEF SentRows
  <2> QED
    BY <2>2, <2>3, <2>4 DEF Verdict
<1>2. IInv /\ [Next]_vars =>
        [\A c \in Call :
           logged' # logged /\ call[c].at = "commit" /\ call'[c].at = "done" =>
             \/ \E e \in SentRows' : e \notin SentRows
             \/ call[c].pick = {}
             \/ \E t \in Team : Crossed(t)]_vars
  BY <1>1
<1> QED
  BY <1>2, StartInv, InvStep, PTL DEF Spec, LogHasNews

(* A submission that commits leaves every team of its input with an entry  *)
(* that is sent, although it stamps what it had read before it held the    *)
(* locks on the entries.                                                   *)
THEOREM SubmissionIsSent == Spec => SubmittedIsSent
<1>1. ASSUME IInv, Next, NEW c \in Call, call[c].at = "commit", call[c].kind = "submit",
             call'[c].at = "done", NEW i \in 1 .. Len(call[c].teams)
      PROVE  \/ \E e \in SentRows' : entry'[e].team = call[c].teams[i]
             \/ Crossed(call[c].teams[i])
  <2>1. Commit(c)
    BY <1>1, DoneByCommit
  <2>2. /\ Verdict(c) /\ Picked(c) /\ call[c].pick \subseteq Entry
        /\ call[c].teams \in Seq(Team)
    BY <1>1, CallsAre DEF IInv, CallInv
  <2>3. PICK t \in Team : t = call[c].teams[i]
    BY <2>2
  <2>4. CASE CrossedFor(c, t)
    BY <2>3, <2>4 DEF CrossedFor, Crossed
  <2>5. ASSUME NEW e \in call[c].pick, entry[e].team = t
        PROVE  e \in SentRows' /\ entry'[e].team = t
    <3>1. e \in Entry /\ Mine(c, e) /\ e \notin call[c].drop /\ t # None
      BY <2>2, EnrollmentConstants DEF Picked
    <3>2. entry'[e].team = t /\ entry'[e].by = Db
      BY <2>1, <2>5, <3>1, CommitRow DEF Committed, Mine
    <3>3. entry[e].sent \/ e \in Stamped(c)
      BY <1>1, <2>2, <2>5, <3>1 DEF Picked, Verdict, Stamped
    <3>4. entry'[e].sent
      BY <2>1, <3>1, <3>3, CommitRow DEF Committed
    <3> QED
      BY <3>1, <3>2, <3>4 DEF SentRows
  <2>6. (\E e \in call[c].pick : entry[e].team = t) \/ CrossedFor(c, t)
    BY <1>1, <2>2, <2>3 DEF Picked
  <2> QED
    BY <2>3, <2>4, <2>5, <2>6
<1>2. IInv /\ [Next]_vars =>
        [\A c \in Call :
           call[c].at = "commit" /\ call[c].kind = "submit" /\ call'[c].at = "done" =>
             \A i \in 1 .. Len(call[c].teams) :
               \/ \E e \in SentRows' : entry'[e].team = call[c].teams[i]
               \/ Crossed(call[c].teams[i])]_vars
  BY <1>1
<1> QED
  BY <1>2, StartInv, InvStep, PTL DEF Spec, SubmittedIsSent

(* An entry that was sent stays sent and stays with its team               *)
(* (createEntry of enrollment-entry.service.ts and setEntry of the team):  *)
(* no session takes away the entry another one made, unless both made one  *)
(* for the same team.                                                      *)
THEOREM SentForGood == Spec => SentStays
<1>1. ASSUME IInv, Next, NEW e \in SentRows
      PROVE  e \in SentRows' /\ (entry'[e].team = entry[e].team \/ Crossed(entry[e].first))
  <2>1. PICK c \in Call : Begin(c) \/ Statement(c) \/ Rollback(c)
    BY <1>1 DEF Next
  <2>2. e \in Entry /\ entry[e].by = Db /\ entry[e].sent
    BY DEF SentRows
  <2>3. Db \notin Call \cup {None}
    BY EnrollmentConstants
  <2>4. ~NewRow(c, e) /\ ~Attached(c, e) /\ ~(Rollback(c) /\ entry[e].by = c)
    BY <2>2, <2>3 DEF NewRow, Attached
  <2>5. CASE entry'[e] = entry[e]
    BY <2>2, <2>5 DEF SentRows
  <2>6. CASE Committed(c, e)
    <3>1. entry'[e].by = Db /\ entry'[e].sent
      BY <2>2, <2>3, <2>6 DEF Committed
    <3>2. ASSUME e \in call[c].drop PROVE Crossed(entry[e].first)
      <4>1. PICK f \in Entry : f # e /\ entry[f].by = c /\ entry[f].first = entry[e].first
        BY <1>1, <3>2 DEF IInv, CallInv, Making
      <4> QED
        BY <2>2, <4>1 DEF Crossed
    <3> QED
      BY <2>2, <2>6, <3>1, <3>2 DEF Committed, SentRows
  <2> QED
    BY <1>1, <2>1, <2>2, <2>4, <2>5, <2>6, EntryStep
<1>2. IInv /\ [Next]_vars =>
        [\A e \in SentRows :
           /\ e \in SentRows'
           /\ entry'[e].team = entry[e].team \/ Crossed(entry[e].first)]_vars
  BY <1>1
<1> QED
  BY <1>2, StartInv, InvStep, PTL DEF Spec, SentStays

-----------------------------------------------------------------------------
(* What ends leaves nothing half done. *)

(* A row that is not committed belongs to a session that runs, and the     *)
(* team of an entry is committed, or not yet, with it.                     *)
NothingLeft ==
  /\ \A t \in Team : team[t].by \in Call => Running(team[t].by)
  /\ \A e \in Entry : entry[e].by \in Call => Running(entry[e].by)
  /\ \A e \in Entry : entry[e].by # None => team[entry[e].first].by \in {Db, entry[e].by}

LEMMA NewRowTeam ==
  ASSUME IInv, NEW c \in Call, Begin(c) \/ Statement(c) \/ Rollback(c),
         NEW e \in Entry, NewRow(c, e)
  PROVE  team'[entry'[e].first].by \in {Db, c}
<1>1. /\ team \in [Team -> TeamRecord] /\ entry \in [Entry -> EntryRecord]
      /\ TypeOK /\ Ordered(c) /\ None \notin Call
  BY EnrollmentConstants DEF IInv, TypeOK, CallInv, TeamRecord, EntryRecord
<1>2. entry'[e] # entry[e] /\ ~Commit(c) /\ ~Rollback(c)
  <2>1. ~Committed(c, e) /\ entry[e].by # c
    BY <1>1 DEF NewRow, Committed
  <2>2. ~Attached(c, e)
    BY <2>1 DEF Attached
  <2>3. (NewRow(c, e) /\ ~Commit(c) /\ ~Rollback(c)) \/ entry'[e] = entry[e]
    BY <2>1, <2>2, EntryStep
  <2>4. entry'[e] # entry[e]
    BY <1>1 DEF NewRow
  <2> QED
    BY <2>3, <2>4
<1>3. CASE NewTeam(c)
  <2> DEFINE t == First(Free(team))
             f == First(Free(entry))
  <2>1. t \in Team
    BY <1>1, <1>3, FreeTeam DEF NewTeam
  <2>2. entry' = [entry EXCEPT ![f] = [EntryOf(t, FALSE) EXCEPT !.by = c]]
    BY <1>2, <1>3 DEF NewTeam
  <2>3. team' = [team EXCEPT ![t] = [link |-> Head(call[c].links), by |-> c]]
    BY <1>3 DEF NewTeam
  <2> HIDE DEF t, f
  <2>4. entry'[e] = [EntryOf(t, FALSE) EXCEPT !.by = c]
    BY <1>1, <1>2, <2>2
  <2>5. entry'[e].first = t
    BY <2>4 DEF EntryOf
  <2>6. team'[t].by = c
    BY <1>1, <2>1, <2>3
  <2> QED
    BY <2>5, <2>6
<1>4. CASE MakeEntry(c)
  <2> DEFINE f == First(Free(entry))
  <2>1. entry' = [entry EXCEPT ![f] = [NoEntry EXCEPT !.first = Current(c), !.by = c]]
    BY <1>4 DEF MakeEntry
  <2> HIDE DEF f
  <2>2. entry'[e] = [NoEntry EXCEPT !.first = Current(c), !.by = c]
    BY <1>1, <1>2, <2>1
  <2>3. entry'[e].first = Current(c)
    BY <2>2 DEF NoEntry
  <2>4. call[c].entered + 1 \in 1 .. Len(call[c].teams)
    BY <1>1, <1>4, CurrentType DEF MakeEntry
  <2>5. team[Current(c)].by \in {Db, c}
    BY <1>1, <2>4 DEF Ordered, Current
  <2>6. UNCHANGED team
    BY <1>4 DEF MakeEntry
  <2> QED
    BY <2>3, <2>5, <2>6
<1>5. ~AttachEntry(c)
  <2>1. ASSUME AttachEntry(c) PROVE entry'[e].by = entry[e].by
    <3>1. entry' = [entry EXCEPT ![call[c].made].team = Current(c)]
      BY <2>1 DEF AttachEntry
    <3> QED
      BY <1>1, <3>1 DEF EntryRecord
  <2> QED
    BY <1>1, <2>1 DEF NewRow
<1>6. Begin(c) => UNCHANGED entry
  BY <1>1, BeginLeaves
<1> QED
  BY <1>2, <1>3, <1>4, <1>5, <1>6 DEF Statement, FindTeam, KeepEntry, ReadOld, ReadTeams,
     LockEntries, rows

(* To whom the rows belong after a step. *)
LEMMA TeamBy ==
  ASSUME IInv, NEW c \in Call, Begin(c) \/ Statement(c) \/ Rollback(c), NEW t \in Team
  PROVE  \/ team'[t].by = team[t].by /\ (team[t].by = c => ~Commit(c) /\ ~Rollback(c))
         \/ team[t].by = None /\ team'[t].by = c /\ ~Commit(c) /\ ~Rollback(c)
         \/ team[t].by = c /\ Commit(c) /\ team'[t].by = Db
         \/ team[t].by = c /\ Rollback(c) /\ ~Commit(c) /\ team'[t].by = None
<1>1. /\ TypeOK /\ None \notin Call /\ team \in [Team -> TeamRecord]
  BY EnrollmentConstants DEF IInv, TypeOK, TeamRecord
<1>2. CASE Rollback(c) /\ ~Commit(c)
  <2>1. team'[t] = IF team[t].by = c THEN NoTeam ELSE team[t]
    BY <1>2 DEF Rollback, Undo
  <2>2. NoTeam.by = None
    BY DEF NoTeam
  <2> QED
    BY <1>2, <2>1, <2>2
<1>3. CASE Commit(c)
  <2>1. team'[t] = IF team[t].by = c THEN [team[t] EXCEPT !.by = Db] ELSE team[t]
    BY <1>3 DEF Commit
  <2>2. team[t] \in TeamRecord
    BY <1>1
  <2> QED
    BY <1>3, <2>1, <2>2 DEF TeamRecord
<1>4. CASE ~Commit(c) /\ ~Rollback(c)
  BY <1>4, TeamStep
<1> QED
  BY <1>2, <1>3, <1>4

LEMMA EntryBy ==
  ASSUME IInv, NEW c \in Call, Begin(c) \/ Statement(c) \/ Rollback(c), NEW e \in Entry
  PROVE  \/ /\ entry'[e].by = entry[e].by /\ entry'[e].first = entry[e].first
            /\ entry[e].by = c => ~Commit(c) /\ ~Rollback(c)
         \/ NewRow(c, e) /\ ~Commit(c) /\ ~Rollback(c)
         \/ /\ entry[e].by = c /\ Commit(c)
            /\ entry'[e].by = Db /\ entry'[e].first = entry[e].first
         \/ entry[e].by = c /\ Rollback(c) /\ entry'[e].by = None
<1>1. CASE Rollback(c)
  <2>1. entry'[e] = IF entry[e].by = c THEN NoEntry ELSE entry[e]
    BY <1>1 DEF Rollback, Undo
  <2>2. NoEntry.by = None
    BY DEF NoEntry
  <2> QED
    BY <1>1, <2>1, <2>2
<1>2. CASE Commit(c)
  <2>1. Committed(c, e)
    BY <1>2, CommitRow
  <2> QED
    BY <1>2, <2>1 DEF Committed
<1>3. CASE ~Commit(c) /\ ~Rollback(c)
  BY <1>3, EntryStep DEF Attached, Committed
<1> QED
  BY <1>1, <1>2, <1>3

LEMMA LeftStep ==
  ASSUME IInv, NothingLeft, NEW c \in Call, Begin(c) \/ Statement(c) \/ Rollback(c)
  PROVE  NothingLeft'
<1>1. /\ TypeOK /\ RowOk /\ None \notin Call /\ Db \notin Call /\ Db # None
  BY EnrollmentConstants DEF IInv
<1> DEFINE RunsNext(d) == call'[d].at \notin {"idle", "done"}
<1>2. /\ \A d \in Call \ {c} : Running(d) => RunsNext(d)
      /\ ~Commit(c) /\ ~Rollback(c) => RunsNext(c)
  <2>1. Moves(c)
    BY CallStep
  <2>2. Begin(c) => RunsNext(c)
    BY <1>1, BeginLeaves
  <2>3. Statement(c) /\ ~Commit(c) => RunsNext(c)
    BY CallStep
  <2> QED
    BY <2>1, <2>2, <2>3 DEF Moves, Running
<1> HIDE DEF RunsNext
<1>3. ASSUME NEW t \in Team, team'[t].by \in Call PROVE RunsNext(team'[t].by)
  <2>1. \/ team'[t].by = team[t].by /\ (team[t].by = c => ~Commit(c) /\ ~Rollback(c))
        \/ team'[t].by = c /\ ~Commit(c) /\ ~Rollback(c)
    BY <1>1, <1>3, TeamBy
  <2>2. CASE team'[t].by = c
    BY <1>2, <2>1, <2>2
  <2>3. CASE team'[t].by # c
    <3>1. PICK d \in Call \ {c} : team'[t].by = d /\ team[t].by = d
      BY <1>3, <2>1, <2>3
    <3>2. RunsNext(d)
      BY <1>2, <3>1 DEF NothingLeft
    <3> QED
      BY <3>1, <3>2
  <2> QED
    BY <2>2, <2>3
<1>4. ASSUME NEW e \in Entry, entry'[e].by \in Call PROVE RunsNext(entry'[e].by)
  <2>1. \/ entry'[e].by = entry[e].by /\ (entry[e].by = c => ~Commit(c) /\ ~Rollback(c))
        \/ entry'[e].by = c /\ ~Commit(c) /\ ~Rollback(c)
    BY <1>1, <1>4, EntryBy DEF NewRow
  <2>2. CASE entry'[e].by = c
    BY <1>2, <2>1, <2>2
  <2>3. CASE entry'[e].by # c
    <3>1. PICK d \in Call \ {c} : entry'[e].by = d /\ entry[e].by = d
      BY <1>4, <2>1, <2>3
    <3>2. RunsNext(d)
      BY <1>2, <3>1 DEF NothingLeft
    <3> QED
      BY <3>1, <3>2
  <2> QED
    BY <2>2, <2>3
<1>5. ASSUME NEW e \in Entry, entry'[e].by # None
      PROVE  team'[entry'[e].first].by \in {Db, entry'[e].by}
  <2>1. CASE NewRow(c, e)
    BY <2>1, NewRowTeam DEF NewRow
  <2>2. CASE entry'[e].first = entry[e].first /\ entry[e].by # None
    <3>1. PICK t \in Team : t = entry[e].first
      BY <1>1, <2>2 DEF RowOk
    <3>2. team[t].by \in {Db, entry[e].by}
      BY <2>2, <3>1 DEF NothingLeft
    <3>3. \/ /\ entry'[e].by = entry[e].by
             /\ entry[e].by = c => ~Commit(c) /\ ~Rollback(c)
          \/ entry[e].by = c /\ Commit(c) /\ entry'[e].by = Db
          \/ NewRow(c, e)
      BY <1>5, EntryBy
    <3>4. \/ team'[t].by = team[t].by /\ (team[t].by = c => ~Commit(c) /\ ~Rollback(c))
          \/ team[t].by = None
          \/ team[t].by = c /\ Commit(c) /\ team'[t].by = Db
          \/ team[t].by = c /\ Rollback(c) /\ ~Commit(c)
      BY TeamBy
    <3>5. ~NewRow(c, e) /\ team[t].by # None /\ c # Db
      BY <1>1, <2>2, <3>2 DEF NewRow
    <3>6. ASSUME entry[e].by = c, Commit(c), entry'[e].by = Db
          PROVE  team'[t].by \in {Db, entry'[e].by}
      BY <3>2, <3>4, <3>5, <3>6
    <3>7. ASSUME entry'[e].by = entry[e].by, entry[e].by = c => ~Commit(c) /\ ~Rollback(c)
          PROVE  team'[t].by \in {Db, entry'[e].by}
      BY <3>2, <3>4, <3>5, <3>7
    <3>8. team'[t].by \in {Db, entry'[e].by}
      BY <3>3, <3>5, <3>6, <3>7
    <3> QED
      BY <2>2, <3>1, <3>8
  <2> QED
    BY <1>1, <1>5, <2>1, <2>2, EntryBy
<1>6. /\ \A t \in Team : team'[t].by \in Call => RunsNext(team'[t].by)
      /\ \A e \in Entry : entry'[e].by \in Call => RunsNext(entry'[e].by)
      /\ \A e \in Entry : entry'[e].by # None => team'[entry'[e].first].by \in {Db, entry'[e].by}
  BY <1>3, <1>4, <1>5
<1> QED
  BY <1>6 DEF NothingLeft, Running, RunsNext

(* Whatever statement a mutation fails at, and when the API dies: no row   *)
(* of it is left without a session that will commit or undo it, and no     *)
(* entry without its team.  (The transactions of team.resolver.ts,         *)
(* enrollment.resolver.ts, entry.resolver.ts and                           *)
(* submit-enrollment.resolver.ts.)                                         *)
THEOREM NothingIsLeft == Spec => []NothingLeft
<1>1. Init => NothingLeft
  <2> SUFFICES ASSUME Init PROVE NothingLeft
    OBVIOUS
  <2>1. Db \notin Call /\ None \notin Call /\ Db # None
    BY EnrollmentConstants
  <2>2. ASSUME NEW t \in Team PROVE team[t].by \notin Call
    <3>1. team[t] = NoTeam \/ team[t] \in [link : Link, by : {Db}]
      BY DEF Init
    <3>2. team[t].by \in {None, Db}
      BY <3>1 DEF NoTeam
    <3> QED
      BY <2>1, <3>2
  <2>3. ASSUME NEW e \in Entry
        PROVE  /\ entry[e].by \notin Call
               /\ entry[e].by # None => team[entry[e].first].by = Db
    <3>1. entry[e] = NoEntry \/ \E t \in Team, s \in BOOLEAN : entry[e] = EntryOf(t, s)
      BY DEF Init
    <3>2. entry[e].by = Db => entry[e].team = e /\ team[e].by = Db
      BY DEF Init
    <3>3. \/ entry[e].by = None
          \/ entry[e].by = Db /\ entry[e].first = entry[e].team
      <4>1. NoEntry.by = None
        BY DEF NoEntry
      <4>2. \A t \in Team, s \in BOOLEAN :
              EntryOf(t, s).by = Db /\ EntryOf(t, s).first = EntryOf(t, s).team
        BY DEF EntryOf
      <4> QED
        BY <3>1, <4>1, <4>2
    <3> QED
      BY <2>1, <3>2, <3>3
  <2> QED
    BY <2>2, <2>3 DEF NothingLeft
<1>2. IInv /\ NothingLeft /\ [Next]_vars => NothingLeft'
  <2>1. UNCHANGED vars /\ NothingLeft => NothingLeft'
    BY DEF vars, rows, NothingLeft, Running
  <2> QED
    BY <2>1, LeftStep DEF Next
<1> QED
  BY <1>1, <1>2, StartInv, InvStep, PTL DEF Spec
=============================================================================
