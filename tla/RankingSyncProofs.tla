------------------------- MODULE RankingSyncProofs -------------------------
(***************************************************************************)
(* Proofs about RankingSync, for any number of jobs, players, days and     *)
(* faults: while runs do not overlap, RankingLastPlace keeps up and the    *)
(* sync leaves no hole unless a publication left the window; and the       *)
(* watermark only names accounted publications, overlap or not.            *)
(***************************************************************************)
EXTENDS RankingSync, TLAPS

(* Two runs between their first and last step are an overlap. *)
OneOpen ==
  ~overlap => \A r, s \in Run : phase[r] \in Open /\ phase[s] \in Open => r = s

(* What the hook read is still so when it writes. *)
ReadIsCurrent ==
  ~overlap => \A r \in Run : phase[r] = "writing" => readLast[r] = last

(* The lists of a run, and what it did with them in its outer transaction. *)
FetchedInv ==
  \A r \in Run :
    /\ phase[r] \notin {"remove", "points", "writing"} =>
         outerMark[r] = 0 /\ outerGone[r] = {}
    /\ fetched[r].visible \cap fetched[r].hidden = {}
    /\ outerMark[r] # 0 => outerMark[r] \in fetched[r].visible
    /\ outerGone[r] \subseteq fetched[r].hidden

(* Every start of a window is at least a week ago. *)
WindowInv ==
  /\ stepStart = 0 \/ stepStart + Window <= now
  /\ \A r \in Run : jobStart[r] = NoStart \/ jobStart[r] + Window <= now

(* The history variable outage tells the truth. *)
NotLeft == ~outage => ~Left(site, now, places)

(* What a run fetched is stored or still to be written: before it chooses, *)
(* everything outside its window is stored.                                *)
PendingInv ==
  (~overlap /\ ~outage) => \A r \in Run : \A d \in fetched[r].visible :
    /\ phase[r] \in {"save", "remove"} /\ d <= stepStart => Rows({d}) \subseteq places
    /\ phase[r] \in {"points", "writing"} => d \in todo[r] \/ Rows({d}) \subseteq places

VisibleInv ==
  ~overlap => \A r \in Run : phase[r] = "remove" => stepVisible = fetched[r].visible

IInv ==
  /\ TypeOK /\ OneOpen /\ ReadIsCurrent /\ LastPlaceKeepsUp
  /\ FetchedInv /\ WindowInv /\ NotLeft /\ PendingInv /\ VisibleInv /\ NoHole

(* The constants, as the provers need them. *)
LEMMA Constants ==
  /\ MaxDate \in Nat /\ Window \in Nat /\ Attempts \in Nat /\ MaxFault \in Nat
  /\ 1 \in Date /\ Date \subseteq Nat /\ Listed \in [Date -> SUBSET Player]
  BY RankingConstants DEF Date

(* The two blocks that end a run write typed values. *)
LEMMA ResetTypes ==
  ASSUME TypeOK, NEW r \in Run, Reset(r)
  PROVE  /\ fetched' \in [Run -> [visible : SUBSET Date, hidden : SUBSET Date]]
         /\ outerMark' \in [Run -> 0 .. MaxDate]
         /\ outerGone' \in [Run -> SUBSET Date] /\ todo' \in [Run -> SUBSET Date]
         /\ readLast' \in [Run -> [Player -> 0 .. MaxDate]]
         /\ loaded' \in [Run -> 0 .. MaxDate] /\ system' \in [Run -> SUBSET Run]
  <1>1. fetched' \in [Run -> [visible : SUBSET Date, hidden : SUBSET Date]]
    BY DEF TypeOK, Reset, NoList
  <1>2. readLast' \in [Run -> [Player -> 0 .. MaxDate]]
    BY Constants DEF TypeOK, Reset
  <1> QED
    BY <1>1, <1>2, Constants DEF TypeOK, Reset

LEMMA RemoveTypes ==
  ASSUME TypeOK, NEW r \in Run, Remove(r)
  PROVE  /\ phase' \in [Run -> Phase] /\ jobStart' \in [Run -> 0 .. NoStart]
         /\ failed' \in [Run -> 0 .. Attempts]
  BY Constants DEF TypeOK, Remove, Phase, NoStart

(* Every action keeps the state well typed. *)
LEMMA TypeStep == TypeOK /\ [Next]_vars => TypeOK'
<1> SUFFICES ASSUME TypeOK, [Next]_vars PROVE TypeOK'
  OBVIOUS
<1> USE Constants DEF TypeOK, Date, Shown, Phase, Active, Open, NoStart
<1>1. CASE Tick
  BY <1>1 DEF Tick, db, row, job, run, steps
<1>2. ASSUME NEW d \in Date, NEW shown \in Shown, Publish(d, shown) PROVE TypeOK'
  BY <1>2 DEF Publish, db, row, job, run, steps
<1>3. ASSUME NEW r \in Run, CronAdd(r) PROVE TypeOK'
  BY <1>3 DEF CronAdd, world, db, row, job, run, steps, ghost
<1>4. ASSUME NEW r \in Run, NEW d \in 0 .. MaxDate, Backfill(r, d) PROVE TypeOK'
  <2>1. d \in 0 .. NoStart
    OBVIOUS
  <2>2. jobStart' \in [Run -> 0 .. NoStart] /\ phase' \in [Run -> Phase]
    BY <1>4, <2>1 DEF Backfill
  <2>3. UNCHANGED <<world, db, row, failed, run, steps, faults, ghost>>
    BY <1>4 DEF Backfill
  <2> QED
    BY <2>2, <2>3 DEF world, db, row, run, steps, ghost
<1>5. ASSUME NEW r \in Run, Start(r) PROVE TypeOK'
  BY <1>5 DEF Start, world, db, row, job, run, steps, ghost
<1>6. ASSUME NEW r \in Run, Decline(r) PROVE TypeOK'
  BY <1>6 DEF Decline, Remove, world, db, row, run, steps, ghost
<1>7. ASSUME NEW r \in Run, Count(r) PROVE TypeOK'
  BY <1>7 DEF Count, world, db, job, run, steps, ghost
<1>8. ASSUME NEW r \in Run, Promote(r) PROVE TypeOK'
  BY <1>8 DEF Promote, world, db, row, job, run, steps, ghost
<1>9. ASSUME NEW r \in Run, GetRankings(r) PROVE TypeOK'
  <2>1. WindowStart(r) \in 0 .. MaxDate
    <3>1. CASE jobStart[r] # NoStart
      BY <3>1 DEF WindowStart
    <3>2. CASE jobStart[r] = NoStart
      BY <3>2 DEF WindowStart
    <3> QED
      BY <3>1, <3>2
  <2> QED
    BY <1>9, <2>1 DEF GetRankings, world, db, row, job
<1>10. ASSUME NEW r \in Run, FetchPublications(r) PROVE TypeOK'
  BY <1>10 DEF FetchPublications, On, world, db, row, job, steps, ghost
<1>11. ASSUME NEW r \in Run, SavePublications(r) PROVE TypeOK'
  BY <1>11 DEF SavePublications, world, db, row, job, ghost
<1>12. ASSUME NEW r \in Run, RemoveInvisible(r) PROVE TypeOK'
  <2>1. {d \in stepVisible : d > stepStart} \in SUBSET Date
    OBVIOUS
  <2>2. fetched[r].hidden \cap Stored \in SUBSET Date
    OBVIOUS
  <2> QED
    BY <1>12, <2>1, <2>2 DEF RemoveInvisible, world, db, row, job, steps, ghost
<1>13. ASSUME NEW r \in Run, OpenPublication(r) PROVE TypeOK'
  BY <1>13 DEF OpenPublication, world, db, row, job, steps, ghost
<1>14. ASSUME NEW r \in Run, CommitPublication(r) PROVE TypeOK'
  <2>1. PICK d \in todo[r] : CommitPublication(r)!(d)
    BY <1>14 DEF CommitPublication
  <2>2. d \in Date /\ Rows({d}) \in SUBSET (Date \X Player)
    BY DEF Rows
  <2>3. \A p \in Player : NewLast(r, d, p) \in 0 .. MaxDate
    BY <2>2 DEF NewLast
  <2>4. places' \in SUBSET (Date \X Player) /\ last' \in [Player -> 0 .. MaxDate]
    BY <2>1, <2>2, <2>3
  <2>5. /\ todo' \in [Run -> SUBSET Date] /\ phase' \in [Run -> Phase]
        /\ readLast' \in [Run -> [Player -> 0 .. MaxDate]]
    BY <2>1, <2>2
  <2> QED
    BY <2>1, <2>4, <2>5 DEF world, row, job, steps, ghost
<1>15. ASSUME NEW r \in Run, Commit(r) PROVE TypeOK'
  <2>1. outage' \in BOOLEAN
    BY <1>15, Zenon DEF Commit
  <2>2. /\ watermark' \in 0 .. MaxDate /\ places' \in SUBSET (Date \X Player)
        /\ accounted' \in SUBSET Date /\ amount' \in {0, 1}
    BY <1>15 DEF Commit
  <2>3. Reset(r) /\ Remove(r) /\ UNCHANGED <<world, last, booted, steps, faults, overlap>>
    BY <1>15 DEF Commit
  <2> QED
    BY <2>1, <2>2, <2>3, ResetTypes, RemoveTypes DEF world, steps
<1>16. ASSUME NEW r \in Run, NEW saved \in BOOLEAN, Fail(r, saved) PROVE TypeOK'
  <2>1. /\ phase' \in [Run -> Phase] /\ jobStart' \in [Run -> 0 .. NoStart]
        /\ failed' \in [Run -> 0 .. Attempts]
    <3>1. CASE failed[r] + 1 < Attempts
      <4>1. /\ phase' = [phase EXCEPT ![r] = "delayed"]
            /\ failed' = [failed EXCEPT ![r] = @ + 1] /\ jobStart' = jobStart
        BY <1>16, <3>1 DEF Fail, EndFailed
      <4>2. failed[r] + 1 \in 0 .. Attempts
        BY <3>1
      <4> QED
        BY <4>1, <4>2
    <3>2. CASE ~(failed[r] + 1 < Attempts)
      <4>1. Remove(r)
        BY <1>16, <3>2 DEF Fail, EndFailed
      <4> QED
        BY <4>1, RemoveTypes
    <3> QED
      BY <3>1, <3>2
  <2>2. Reset(r) /\ UNCHANGED <<world, db, booted, steps, ghost>>
    BY <1>16 DEF Fail
  <2>3. faults' \in 0 .. MaxFault /\ amount' \in {0, 1}
    BY <1>16 DEF Fail
  <2> QED
    BY <2>1, <2>2, <2>3, ResetTypes DEF world, db, steps, ghost
<1>17. CASE Crash
  <2>1. phase' \in [Run -> Phase]
    BY <1>17 DEF Crash
  <2>2. fetched' \in [Run -> [visible : SUBSET Date, hidden : SUBSET Date]]
    BY <1>17 DEF Crash, NoList
  <2>3. /\ readLast' \in [Run -> [Player -> 0 .. MaxDate]]
        /\ loaded' \in [Run -> 0 .. MaxDate] /\ system' \in [Run -> SUBSET Run]
        /\ outerMark' \in [Run -> 0 .. MaxDate]
        /\ outerGone' \in [Run -> SUBSET Date] /\ todo' \in [Run -> SUBSET Date]
    BY <1>17 DEF Crash
  <2>4. /\ stepStart' = 0 /\ stepSystem' = {} /\ stepVisible' = {}
        /\ faults' \in 0 .. MaxFault /\ booted' = FALSE
    BY <1>17 DEF Crash
  <2>5. UNCHANGED <<now, site, watermark, places, last, amount, jobStart, failed,
                    accounted, outage, overlap>>
    BY <1>17 DEF Crash, world, db, job, ghost
  <2>6. booted' \in BOOLEAN /\ outage' \in BOOLEAN /\ overlap' \in BOOLEAN
    BY <2>4, <2>5, Zenon
  <2> QED
    BY <2>1, <2>2, <2>3, <2>4, <2>5, <2>6
<1>18. CASE Boot
  BY <1>18 DEF Boot, world, db, job, run, steps, ghost
<1>19. CASE UNCHANGED vars
  BY <1>19 DEF vars, world, db, row, job, run, steps, ghost
<1> QED
  BY <1>1, <1>2, <1>3, <1>4, <1>5, <1>6, <1>7, <1>8, <1>9, <1>10, <1>11, <1>12,
     <1>13, <1>14, <1>15, <1>16, <1>17, <1>18, <1>19 DEF Next, RunStep

(* The initial state is well typed. *)
LEMMA InitTypes == Init => TypeOK
<1> SUFFICES ASSUME Init PROVE TypeOK
  OBVIOUS
<1>1. /\ now \in Date /\ site \in [Date -> Shown] /\ watermark \in 0 .. MaxDate
      /\ places \in SUBSET (Date \X Player) /\ last \in [Player -> 0 .. MaxDate]
  BY Constants DEF Init, Shown
<1>2. /\ amount \in {0, 1} /\ booted \in BOOLEAN /\ phase \in [Run -> Phase]
      /\ jobStart \in [Run -> 0 .. NoStart] /\ failed \in [Run -> 0 .. Attempts]
  BY Constants DEF Init, Phase, NoStart
<1>3. /\ fetched \in [Run -> [visible : SUBSET Date, hidden : SUBSET Date]]
      /\ readLast \in [Run -> [Player -> 0 .. MaxDate]]
  BY Constants DEF Init, NoList
<1>4. /\ outerMark \in [Run -> 0 .. MaxDate] /\ outerGone \in [Run -> SUBSET Date]
      /\ todo \in [Run -> SUBSET Date] /\ loaded \in [Run -> 0 .. MaxDate]
      /\ system \in [Run -> SUBSET Run]
  BY Constants DEF Init
<1>5. /\ stepStart \in 0 .. MaxDate /\ stepSystem \in SUBSET Run
      /\ stepVisible \in SUBSET Date /\ faults \in 0 .. MaxFault
      /\ accounted \in SUBSET Date
  BY Constants DEF Init
<1>6. outage \in BOOLEAN /\ overlap \in BOOLEAN
  BY Zenon DEF Init
<1> QED
  BY <1>1, <1>2, <1>3, <1>4, <1>5, <1>6 DEF TypeOK

(* The state is well typed in every behaviour. *)
THEOREM TypeCorrect == Spec => []TypeOK
<1> QED
  BY InitTypes, TypeStep, PTL DEF Spec

(* A second run that opens while one is open sets overlap. *)
LEMMA OneOpenStep == TypeOK /\ OneOpen /\ [Next]_vars => OneOpen'
<1> SUFFICES ASSUME TypeOK, OneOpen, [Next]_vars PROVE OneOpen'
  OBVIOUS
<1> USE Constants DEF OneOpen, TypeOK, Open
<1>1. CASE Tick
  BY <1>1 DEF Tick, world, db, row, job, run, steps, ghost
<1>2. ASSUME NEW d \in Date, NEW shown \in Shown, Publish(d, shown) PROVE OneOpen'
  BY <1>2 DEF Publish, world, db, row, job, run, steps, ghost
<1>3. ASSUME NEW r \in Run, CronAdd(r) PROVE OneOpen'
  BY <1>3 DEF CronAdd, world, db, row, job, run, steps, ghost
<1>4. ASSUME NEW r \in Run, NEW d \in 0 .. MaxDate, Backfill(r, d) PROVE OneOpen'
  BY <1>4 DEF Backfill, world, db, row, job, run, steps, ghost
<1>5. ASSUME NEW r \in Run, Start(r) PROVE OneOpen'
  BY <1>5 DEF Start, world, db, row, job, run, steps, ghost
<1>6. ASSUME NEW r \in Run, Decline(r) PROVE OneOpen'
  BY <1>6 DEF Decline, Remove, world, db, row, job, run, steps, ghost
<1>7. ASSUME NEW r \in Run, Count(r) PROVE OneOpen'
  BY <1>7 DEF Count, world, db, row, job, run, steps, ghost
<1>8. ASSUME NEW r \in Run, Promote(r) PROVE OneOpen'
  BY <1>8 DEF Promote, world, db, row, job, run, steps, ghost
<1>9. ASSUME NEW r \in Run, GetRankings(r) PROVE OneOpen'
  BY <1>9 DEF GetRankings, world, db, row, job, run, steps, ghost
<1>10. ASSUME NEW r \in Run, FetchPublications(r) PROVE OneOpen'
  BY <1>10 DEF FetchPublications, world, db, row, job, run, steps, ghost
<1>11. ASSUME NEW r \in Run, SavePublications(r) PROVE OneOpen'
  BY <1>11 DEF SavePublications, world, db, row, job, run, steps, ghost
<1>12. ASSUME NEW r \in Run, RemoveInvisible(r) PROVE OneOpen'
  BY <1>12 DEF RemoveInvisible, world, db, row, job, run, steps, ghost
<1>13. ASSUME NEW r \in Run, OpenPublication(r) PROVE OneOpen'
  BY <1>13 DEF OpenPublication, world, db, row, job, run, steps, ghost
<1>14. ASSUME NEW r \in Run, CommitPublication(r) PROVE OneOpen'
  BY <1>14 DEF CommitPublication, world, db, row, job, run, steps, ghost
<1>15. ASSUME NEW r \in Run, Commit(r) PROVE OneOpen'
  BY <1>15 DEF Commit, Remove, Reset, world, db, row, job, run, steps, ghost
<1>16. ASSUME NEW r \in Run, NEW saved \in BOOLEAN, Fail(r, saved) PROVE OneOpen'
  BY <1>16 DEF Fail, EndFailed, Remove, Reset, world, db, row, job, run, steps, ghost
<1>17. CASE Crash
  BY <1>17 DEF Crash, world, db, row, job, run, steps, ghost
<1>18. CASE Boot
  BY <1>18 DEF Boot, world, db, row, job, run, steps, ghost
<1>19. CASE UNCHANGED vars
  BY <1>19 DEF vars, world, db, row, job, run, steps, ghost
<1> QED
  BY <1>1, <1>2, <1>3, <1>4, <1>5, <1>6, <1>7, <1>8, <1>9, <1>10, <1>11, <1>12, <1>13, <1>14, <1>15, <1>16, <1>17, <1>18, <1>19 DEF Next, RunStep

(* The lists stay disjoint; the outer transaction works on them. *)
LEMMA FetchedStep == TypeOK /\ FetchedInv /\ [Next]_vars => FetchedInv'
<1> SUFFICES ASSUME TypeOK, FetchedInv, [Next]_vars PROVE FetchedInv'
  OBVIOUS
<1> USE Constants DEF FetchedInv, TypeOK, NoList
<1>1. CASE Tick
  BY <1>1 DEF Tick, world, db, row, job, run, steps, ghost
<1>2. ASSUME NEW d \in Date, NEW shown \in Shown, Publish(d, shown) PROVE FetchedInv'
  BY <1>2 DEF Publish, world, db, row, job, run, steps, ghost
<1>3. ASSUME NEW r \in Run, CronAdd(r) PROVE FetchedInv'
  BY <1>3 DEF CronAdd, world, db, row, job, run, steps, ghost
<1>4. ASSUME NEW r \in Run, NEW d \in 0 .. MaxDate, Backfill(r, d) PROVE FetchedInv'
  BY <1>4 DEF Backfill, world, db, row, job, run, steps, ghost
<1>5. ASSUME NEW r \in Run, Start(r) PROVE FetchedInv'
  BY <1>5 DEF Start, world, db, row, job, run, steps, ghost
<1>6. ASSUME NEW r \in Run, Decline(r) PROVE FetchedInv'
  BY <1>6 DEF Decline, Remove, world, db, row, job, run, steps, ghost
<1>7. ASSUME NEW r \in Run, Count(r) PROVE FetchedInv'
  BY <1>7 DEF Count, world, db, row, job, run, steps, ghost
<1>8. ASSUME NEW r \in Run, Promote(r) PROVE FetchedInv'
  BY <1>8 DEF Promote, world, db, row, job, run, steps, ghost
<1>9. ASSUME NEW r \in Run, GetRankings(r) PROVE FetchedInv'
  BY <1>9 DEF GetRankings, world, db, row, job, run, steps, ghost
<1>10. ASSUME NEW r \in Run, FetchPublications(r) PROVE FetchedInv'
  <2>1. /\ fetched' = [fetched EXCEPT ![r] =
             [visible |-> On("visible"), hidden |-> On("hidden")]]
        /\ outerMark' = outerMark /\ outerGone' = outerGone /\ phase[r] = "categories"
        /\ phase' = [phase EXCEPT ![r] = "save"]
    BY <1>10 DEF FetchPublications
  <2>2. On("visible") \cap On("hidden") = {}
    BY DEF On
  <2>3. outerMark[r] = 0 /\ outerGone[r] = {}
    BY <2>1
  <2> QED
    BY <2>1, <2>2, <2>3
<1>11. ASSUME NEW r \in Run, SavePublications(r) PROVE FetchedInv'
  <2>1. PICK mark \in 0 .. MaxDate : SavePublications(r)!(mark)
    BY <1>11 DEF SavePublications
  <2>2. /\ fetched' = fetched /\ outerGone' = outerGone
        /\ phase' = [phase EXCEPT ![r] = "remove"]
        /\ mark # 0 => mark \in fetched[r].visible
        /\ \E m \in {mark, 0} : outerMark' = [outerMark EXCEPT ![r] = m]
    BY <2>1 DEF IsLastOf
  <2> QED
    BY <2>2
<1>12. ASSUME NEW r \in Run, RemoveInvisible(r) PROVE FetchedInv'
  BY <1>12 DEF RemoveInvisible, world, db, row, job, run, steps, ghost
<1>13. ASSUME NEW r \in Run, OpenPublication(r) PROVE FetchedInv'
  BY <1>13 DEF OpenPublication, world, db, row, job, run, steps, ghost
<1>14. ASSUME NEW r \in Run, CommitPublication(r) PROVE FetchedInv'
  BY <1>14 DEF CommitPublication, world, db, row, job, run, steps, ghost
<1>15. ASSUME NEW r \in Run, Commit(r) PROVE FetchedInv'
  BY <1>15 DEF Commit, Remove, Reset, world, db, row, job, run, steps, ghost
<1>16. ASSUME NEW r \in Run, NEW saved \in BOOLEAN, Fail(r, saved) PROVE FetchedInv'
  BY <1>16 DEF Fail, EndFailed, Remove, Reset, world, db, row, job, run, steps, ghost
<1>17. CASE Crash
  BY <1>17 DEF Crash, world, db, row, job, run, steps, ghost
<1>18. CASE Boot
  BY <1>18 DEF Boot, world, db, row, job, run, steps, ghost
<1>19. CASE UNCHANGED vars
  BY <1>19 DEF vars, world, db, row, job, run, steps, ghost
<1> QED
  BY <1>1, <1>2, <1>3, <1>4, <1>5, <1>6, <1>7, <1>8, <1>9, <1>10, <1>11, <1>12, <1>13, <1>14, <1>15, <1>16, <1>17, <1>18, <1>19 DEF Next, RunStep

(* A window never starts less than a week ago. *)
LEMMA WindowStep == TypeOK /\ WindowInv /\ [Next]_vars => WindowInv'
<1> SUFFICES ASSUME TypeOK, WindowInv, [Next]_vars PROVE WindowInv'
  OBVIOUS
<1> USE Constants DEF WindowInv, TypeOK, NoStart, Date
<1>1. CASE Tick
  BY <1>1 DEF Tick, world, db, row, job, run, steps, ghost
<1>2. ASSUME NEW d \in Date, NEW shown \in Shown, Publish(d, shown) PROVE WindowInv'
  BY <1>2 DEF Publish, world, db, row, job, run, steps, ghost
<1>3. ASSUME NEW r \in Run, CronAdd(r) PROVE WindowInv'
  BY <1>3 DEF CronAdd, world, db, row, job, run, steps, ghost
<1>4. ASSUME NEW r \in Run, NEW d \in 0 .. MaxDate, Backfill(r, d) PROVE WindowInv'
  BY <1>4 DEF Backfill, world, db, row, job, run, steps, ghost
<1>5. ASSUME NEW r \in Run, Start(r) PROVE WindowInv'
  BY <1>5 DEF Start, world, db, row, job, run, steps, ghost
<1>6. ASSUME NEW r \in Run, Decline(r) PROVE WindowInv'
  BY <1>6 DEF Decline, Remove, world, db, row, job, run, steps, ghost
<1>7. ASSUME NEW r \in Run, Count(r) PROVE WindowInv'
  BY <1>7 DEF Count, world, db, row, job, run, steps, ghost
<1>8. ASSUME NEW r \in Run, Promote(r) PROVE WindowInv'
  BY <1>8 DEF Promote, world, db, row, job, run, steps, ghost
<1>9. ASSUME NEW r \in Run, GetRankings(r) PROVE WindowInv'
  <2>1. stepStart' = WindowStart(r) /\ now' = now /\ jobStart' = jobStart
    BY <1>9 DEF GetRankings, world, job
  <2>2. WindowStart(r) = 0 \/ WindowStart(r) + Window <= now
    <3>1. CASE jobStart[r] # NoStart
      BY <3>1 DEF WindowStart
    <3>2. CASE jobStart[r] = NoStart
      BY <3>2 DEF WindowStart
    <3> QED
      BY <3>1, <3>2
  <2> QED
    BY <2>1, <2>2
<1>10. ASSUME NEW r \in Run, FetchPublications(r) PROVE WindowInv'
  BY <1>10 DEF FetchPublications, world, db, row, job, run, steps, ghost
<1>11. ASSUME NEW r \in Run, SavePublications(r) PROVE WindowInv'
  BY <1>11 DEF SavePublications, world, db, row, job, run, steps, ghost
<1>12. ASSUME NEW r \in Run, RemoveInvisible(r) PROVE WindowInv'
  BY <1>12 DEF RemoveInvisible, world, db, row, job, run, steps, ghost
<1>13. ASSUME NEW r \in Run, OpenPublication(r) PROVE WindowInv'
  BY <1>13 DEF OpenPublication, world, db, row, job, run, steps, ghost
<1>14. ASSUME NEW r \in Run, CommitPublication(r) PROVE WindowInv'
  BY <1>14 DEF CommitPublication, world, db, row, job, run, steps, ghost
<1>15. ASSUME NEW r \in Run, Commit(r) PROVE WindowInv'
  BY <1>15 DEF Commit, Remove, Reset, world, db, row, job, run, steps, ghost
<1>16. ASSUME NEW r \in Run, NEW saved \in BOOLEAN, Fail(r, saved) PROVE WindowInv'
  BY <1>16 DEF Fail, EndFailed, Remove, Reset, world, db, row, job, run, steps, ghost
<1>17. CASE Crash
  BY <1>17 DEF Crash, world, db, row, job, run, steps, ghost
<1>18. CASE Boot
  BY <1>18 DEF Boot, world, db, row, job, run, steps, ghost
<1>19. CASE UNCHANGED vars
  BY <1>19 DEF vars, world, db, row, job, run, steps, ghost
<1> QED
  BY <1>1, <1>2, <1>3, <1>4, <1>5, <1>6, <1>7, <1>8, <1>9, <1>10, <1>11, <1>12, <1>13, <1>14, <1>15, <1>16, <1>17, <1>18, <1>19 DEF Next, RunStep

(* The history variable outage is raised whenever a publication leaves the  *)
(* window unwritten, or is found unwritten outside it.                      *)
LEMMA NotLeftStep == TypeOK /\ NotLeft /\ [Next]_vars => NotLeft'
<1> SUFFICES ASSUME TypeOK, NotLeft, [Next]_vars PROVE NotLeft'
  OBVIOUS
<1> USE Constants DEF NotLeft, TypeOK
<1>1. CASE Tick
  <2>1. /\ outage' = (outage \/ Left(site, now + 1, places))
        /\ now' = now + 1 /\ site' = site /\ places' = places
    BY <1>1 DEF Tick, db
  <2> QED
    BY <2>1, Zenon
<1>2. ASSUME NEW d \in Date, NEW shown \in Shown, Publish(d, shown) PROVE NotLeft'
  <2>1. outage' = (outage \/ Left(site', now, places)) /\ now' = now /\ places' = places
    BY <1>2 DEF Publish, db
  <2> QED
    BY <2>1, Zenon
<1>3. ASSUME NEW r \in Run, CronAdd(r) PROVE NotLeft'
  BY <1>3 DEF CronAdd, world, db, row, job, run, steps, ghost
<1>4. ASSUME NEW r \in Run, NEW d \in 0 .. MaxDate, Backfill(r, d) PROVE NotLeft'
  BY <1>4 DEF Backfill, world, db, row, job, run, steps, ghost
<1>5. ASSUME NEW r \in Run, Start(r) PROVE NotLeft'
  BY <1>5 DEF Start, world, db, row, job, run, steps, ghost
<1>6. ASSUME NEW r \in Run, Decline(r) PROVE NotLeft'
  BY <1>6 DEF Decline, Remove, world, db, row, job, run, steps, ghost
<1>7. ASSUME NEW r \in Run, Count(r) PROVE NotLeft'
  BY <1>7 DEF Count, world, db, row, job, run, steps, ghost
<1>8. ASSUME NEW r \in Run, Promote(r) PROVE NotLeft'
  BY <1>8 DEF Promote, world, db, row, job, run, steps, ghost
<1>9. ASSUME NEW r \in Run, GetRankings(r) PROVE NotLeft'
  BY <1>9 DEF GetRankings, world, db, row, job, run, steps, ghost
<1>10. ASSUME NEW r \in Run, FetchPublications(r) PROVE NotLeft'
  BY <1>10 DEF FetchPublications, world, db, row, job, run, steps, ghost
<1>11. ASSUME NEW r \in Run, SavePublications(r) PROVE NotLeft'
  BY <1>11 DEF SavePublications, world, db, row, job, run, steps, ghost
<1>12. ASSUME NEW r \in Run, RemoveInvisible(r) PROVE NotLeft'
  BY <1>12 DEF RemoveInvisible, world, db, row, job, run, steps, ghost
<1>13. ASSUME NEW r \in Run, OpenPublication(r) PROVE NotLeft'
  BY <1>13 DEF OpenPublication, world, db, row, job, run, steps, ghost
<1>14. ASSUME NEW r \in Run, CommitPublication(r) PROVE NotLeft'
  <2>1. PICK d \in todo[r] : CommitPublication(r)!(d)
    BY <1>14 DEF CommitPublication
  <2>2. d \in Date
    OBVIOUS
  <2>3. places \subseteq places' /\ now' = now /\ site' = site /\ outage' = outage
    BY <2>1 DEF world, ghost
  <2> QED
    BY <2>3 DEF Left
<1>15. ASSUME NEW r \in Run, Commit(r) PROVE NotLeft'
  <2>1. /\ outage' = (outage \/ Left(site, now, places'))
        /\ now' = now /\ site' = site
    BY <1>15 DEF Commit, world
  <2> QED
    BY <2>1, Zenon
<1>16. ASSUME NEW r \in Run, NEW saved \in BOOLEAN, Fail(r, saved) PROVE NotLeft'
  BY <1>16 DEF Fail, EndFailed, Remove, Reset, world, db, row, job, run, steps, ghost
<1>17. CASE Crash
  BY <1>17 DEF Crash, world, db, row, job, run, steps, ghost
<1>18. CASE Boot
  BY <1>18 DEF Boot, world, db, row, job, run, steps, ghost
<1>19. CASE UNCHANGED vars
  BY <1>19 DEF vars, world, db, row, job, run, steps, ghost
<1> QED
  BY <1>1, <1>2, <1>3, <1>4, <1>5, <1>6, <1>7, <1>8, <1>9, <1>10, <1>11, <1>12, <1>13, <1>14, <1>15, <1>16, <1>17, <1>18, <1>19 DEF Next, RunStep

(* Only one run writes: its hook compares with the current row. *)
LEMMA KeepsUpStep == TypeOK /\ OneOpen /\ ReadIsCurrent /\ LastPlaceKeepsUp /\ [Next]_vars => (ReadIsCurrent /\ LastPlaceKeepsUp)'
<1> SUFFICES ASSUME TypeOK, OneOpen, ReadIsCurrent, LastPlaceKeepsUp, [Next]_vars PROVE (ReadIsCurrent /\ LastPlaceKeepsUp)'
  OBVIOUS
<1> USE Constants DEF ReadIsCurrent, LastPlaceKeepsUp, OneOpen, TypeOK, Open, KeepsUp
<1>1. CASE Tick
  BY <1>1 DEF Tick, world, db, row, job, run, steps, ghost
<1>2. ASSUME NEW d \in Date, NEW shown \in Shown, Publish(d, shown) PROVE (ReadIsCurrent /\ LastPlaceKeepsUp)'
  BY <1>2 DEF Publish, world, db, row, job, run, steps, ghost
<1>3. ASSUME NEW r \in Run, CronAdd(r) PROVE (ReadIsCurrent /\ LastPlaceKeepsUp)'
  BY <1>3 DEF CronAdd, world, db, row, job, run, steps, ghost
<1>4. ASSUME NEW r \in Run, NEW d \in 0 .. MaxDate, Backfill(r, d) PROVE (ReadIsCurrent /\ LastPlaceKeepsUp)'
  BY <1>4 DEF Backfill, world, db, row, job, run, steps, ghost
<1>5. ASSUME NEW r \in Run, Start(r) PROVE (ReadIsCurrent /\ LastPlaceKeepsUp)'
  BY <1>5 DEF Start, world, db, row, job, run, steps, ghost
<1>6. ASSUME NEW r \in Run, Decline(r) PROVE (ReadIsCurrent /\ LastPlaceKeepsUp)'
  BY <1>6 DEF Decline, Remove, world, db, row, job, run, steps, ghost
<1>7. ASSUME NEW r \in Run, Count(r) PROVE (ReadIsCurrent /\ LastPlaceKeepsUp)'
  BY <1>7 DEF Count, world, db, row, job, run, steps, ghost
<1>8. ASSUME NEW r \in Run, Promote(r) PROVE (ReadIsCurrent /\ LastPlaceKeepsUp)'
  BY <1>8 DEF Promote, world, db, row, job, run, steps, ghost
<1>9. ASSUME NEW r \in Run, GetRankings(r) PROVE (ReadIsCurrent /\ LastPlaceKeepsUp)'
  BY <1>9 DEF GetRankings, world, db, row, job, run, steps, ghost
<1>10. ASSUME NEW r \in Run, FetchPublications(r) PROVE (ReadIsCurrent /\ LastPlaceKeepsUp)'
  BY <1>10 DEF FetchPublications, world, db, row, job, run, steps, ghost
<1>11. ASSUME NEW r \in Run, SavePublications(r) PROVE (ReadIsCurrent /\ LastPlaceKeepsUp)'
  BY <1>11 DEF SavePublications, world, db, row, job, run, steps, ghost
<1>12. ASSUME NEW r \in Run, RemoveInvisible(r) PROVE (ReadIsCurrent /\ LastPlaceKeepsUp)'
  BY <1>12 DEF RemoveInvisible, world, db, row, job, run, steps, ghost
<1>13. ASSUME NEW r \in Run, OpenPublication(r) PROVE (ReadIsCurrent /\ LastPlaceKeepsUp)'
  BY <1>13 DEF OpenPublication, world, db, row, job, run, steps, ghost
<1>14. ASSUME NEW r \in Run, CommitPublication(r) PROVE (ReadIsCurrent /\ LastPlaceKeepsUp)'
  <2>1. PICK d \in todo[r] : CommitPublication(r)!(d)
    BY <1>14 DEF CommitPublication
  <2>2. d \in Date
    OBVIOUS
  <2>3. /\ places' = places \cup Rows({d}) /\ last' = [p \in Player |-> NewLast(r, d, p)]
        /\ phase' = [phase EXCEPT ![r] = "points"] /\ overlap' = overlap
        /\ readLast' = [readLast EXCEPT ![r] = [p \in Player |-> 0]] /\ phase[r] = "writing"
    BY <2>1 DEF ghost
  <2>4. CASE ~overlap
    <3>1. readLast[r] = last
      BY <2>3, <2>4
    <3>2. \A p \in Player : last'[p] >= last[p] /\ (p \in Listed[d] => last'[p] >= d)
      BY <2>2, <2>3, <3>1 DEF NewLast, Date
    <3>3. ASSUME NEW dp \in places' PROVE last'[dp[2]] >= dp[1]
      <4>1. CASE dp \in places
        <5>1. dp[2] \in Player /\ dp[1] \in Date /\ last[dp[2]] >= dp[1]
          BY <2>4, <4>1
        <5>2. last[dp[2]] \in Nat /\ last'[dp[2]] \in Nat
          BY <2>2, <2>3, <5>1 DEF NewLast, Date
        <5>3. dp[1] \in Nat /\ last'[dp[2]] >= last[dp[2]]
          BY <3>2, <5>1
        <5> QED
          BY <5>1, <5>2, <5>3
      <4>2. CASE dp \in Rows({d})
        BY <3>2, <4>2 DEF Rows
      <4> QED
        BY <2>3, <4>1, <4>2
    <3>4. \A s \in Run : phase'[s] # "writing"
      BY <2>3, <2>4
    <3> QED
      BY <3>3, <3>4
  <2> QED
    BY <2>3, <2>4
<1>15. ASSUME NEW r \in Run, Commit(r) PROVE (ReadIsCurrent /\ LastPlaceKeepsUp)'
  BY <1>15 DEF Commit, Remove, Reset, world, db, row, job, run, steps, ghost
<1>16. ASSUME NEW r \in Run, NEW saved \in BOOLEAN, Fail(r, saved) PROVE (ReadIsCurrent /\ LastPlaceKeepsUp)'
  BY <1>16 DEF Fail, EndFailed, Remove, Reset, world, db, row, job, run, steps, ghost
<1>17. CASE Crash
  <2>1. UNCHANGED <<places, last, overlap>>
    BY <1>17 DEF Crash, db, ghost
  <2>2. \A s \in Run : phase'[s] # "writing"
    BY <1>17 DEF Crash, Active
  <2> QED
    BY <2>1, <2>2
<1>18. CASE Boot
  BY <1>18 DEF Boot, world, db, row, job, run, steps, ghost
<1>19. CASE UNCHANGED vars
  BY <1>19 DEF vars, world, db, row, job, run, steps, ghost
<1> QED
  BY <1>1, <1>2, <1>3, <1>4, <1>5, <1>6, <1>7, <1>8, <1>9, <1>10, <1>11, <1>12, <1>13, <1>14, <1>15, <1>16, <1>17, <1>18, <1>19 DEF Next, RunStep

(* What a run fetched stays stored or pending until it commits. *)
LEMMA PendingStep == IInv /\ [Next]_vars => (VisibleInv /\ PendingInv /\ NoHole)'
<1> SUFFICES ASSUME IInv, [Next]_vars PROVE (VisibleInv /\ PendingInv /\ NoHole)'
  OBVIOUS
<1> USE Constants DEF IInv, VisibleInv, PendingInv, NoHole, OneOpen, TypeOK, Open, NoList
<1>1. CASE Tick
  <2>1. /\ ~outage' => ~outage
        /\ UNCHANGED <<places, phase, fetched, todo, stepStart, stepVisible, accounted, overlap>>
    BY <1>1 DEF Tick, db, run, steps
  <2> QED
    BY <2>1
<1>2. ASSUME NEW d \in Date, NEW shown \in Shown, Publish(d, shown) PROVE (VisibleInv /\ PendingInv /\ NoHole)'
  <2>1. /\ ~outage' => ~outage
        /\ UNCHANGED <<places, phase, fetched, todo, stepStart, stepVisible, accounted, overlap>>
    BY <1>2 DEF Publish, db, run, steps
  <2> QED
    BY <2>1
<1>3. ASSUME NEW r \in Run, CronAdd(r) PROVE (VisibleInv /\ PendingInv /\ NoHole)'
  BY <1>3 DEF CronAdd, world, db, row, job, run, steps, ghost
<1>4. ASSUME NEW r \in Run, NEW d \in 0 .. MaxDate, Backfill(r, d) PROVE (VisibleInv /\ PendingInv /\ NoHole)'
  BY <1>4 DEF Backfill, world, db, row, job, run, steps, ghost
<1>5. ASSUME NEW r \in Run, Start(r) PROVE (VisibleInv /\ PendingInv /\ NoHole)'
  BY <1>5 DEF Start, world, db, row, job, run, steps, ghost
<1>6. ASSUME NEW r \in Run, Decline(r) PROVE (VisibleInv /\ PendingInv /\ NoHole)'
  BY <1>6 DEF Decline, Remove, world, db, row, job, run, steps, ghost
<1>7. ASSUME NEW r \in Run, Count(r) PROVE (VisibleInv /\ PendingInv /\ NoHole)'
  BY <1>7 DEF Count, world, db, row, job, run, steps, ghost
<1>8. ASSUME NEW r \in Run, Promote(r) PROVE (VisibleInv /\ PendingInv /\ NoHole)'
  BY <1>8 DEF Promote, world, db, row, job, run, steps, ghost
<1>9. ASSUME NEW r \in Run, GetRankings(r) PROVE (VisibleInv /\ PendingInv /\ NoHole)'
  <2>1. /\ phase' = [phase EXCEPT ![r] = "categories"] /\ phase[r] = "begin"
        /\ overlap' = (overlap \/ \E s \in Run : phase[s] \in Open)
        /\ UNCHANGED <<places, fetched, todo, stepVisible, accounted, outage>>
    BY <1>9 DEF GetRankings, db
  <2>2. ~overlap' => ~overlap /\ \A s \in Run : phase'[s] \in Open => s = r
    BY <2>1
  <2> QED
    BY <2>1, <2>2
<1>10. ASSUME NEW r \in Run, FetchPublications(r) PROVE (VisibleInv /\ PendingInv /\ NoHole)'
  <2>1. /\ phase' = [phase EXCEPT ![r] = "save"] /\ phase[r] = "categories"
        /\ fetched' = [fetched EXCEPT ![r] =
             [visible |-> On("visible"), hidden |-> On("hidden")]]
        /\ UNCHANGED <<places, todo, stepStart, stepVisible, accounted, outage, overlap>>
    BY <1>10 DEF FetchPublications, db, steps, ghost
  <2>2. ASSUME ~outage, NEW d \in On("visible"), d <= stepStart
        PROVE Rows({d}) \subseteq places
    <3>1. d \in Date /\ site[d] = "visible" /\ d + Window <= now
      BY <2>2 DEF On, WindowInv, Date
    <3> QED
      BY <2>2, <3>1 DEF NotLeft, Left
  <2> QED
    BY <2>1, <2>2
<1>11. ASSUME NEW r \in Run, SavePublications(r) PROVE (VisibleInv /\ PendingInv /\ NoHole)'
  <2>1. /\ phase' = [phase EXCEPT ![r] = "remove"] /\ phase[r] = "save"
        /\ stepVisible' = fetched[r].visible
        /\ UNCHANGED <<places, fetched, todo, stepStart, accounted, outage, overlap>>
    BY <1>11 DEF SavePublications, db, ghost
  <2> QED
    BY <2>1
<1>12. ASSUME NEW r \in Run, RemoveInvisible(r) PROVE (VisibleInv /\ PendingInv /\ NoHole)'
  <2>1. /\ phase' = [phase EXCEPT ![r] = "points"] /\ phase[r] = "remove"
        /\ todo' = [todo EXCEPT ![r] = {d \in stepVisible : d > stepStart}]
        /\ UNCHANGED <<places, fetched, stepStart, stepVisible, accounted, outage, overlap>>
    BY <1>12 DEF RemoveInvisible, db, steps, ghost
  <2>2. ASSUME ~overlap, ~outage, NEW d \in fetched[r].visible
        PROVE d \in todo'[r] \/ Rows({d}) \subseteq places
    <3>1. d \in Date /\ d \in stepVisible
      BY <2>1, <2>2
    <3>2. d > stepStart \/ d <= stepStart
      BY <3>1 DEF Date
    <3> QED
      BY <2>1, <2>2, <3>1, <3>2
  <2> QED
    BY <2>1, <2>2
<1>13. ASSUME NEW r \in Run, OpenPublication(r) PROVE (VisibleInv /\ PendingInv /\ NoHole)'
  BY <1>13 DEF OpenPublication, world, db, row, job, run, steps, ghost
<1>14. ASSUME NEW r \in Run, CommitPublication(r) PROVE (VisibleInv /\ PendingInv /\ NoHole)'
  <2>1. PICK d \in todo[r] : CommitPublication(r)!(d)
    BY <1>14 DEF CommitPublication
  <2>2. /\ phase' = [phase EXCEPT ![r] = "points"] /\ phase[r] = "writing"
    BY <2>1
  <2>3. todo' = [todo EXCEPT ![r] = todo[r] \ {d}] /\ places' = places \cup Rows({d})
    BY <2>1
  <2>4. UNCHANGED <<fetched, stepStart, stepVisible, accounted, outage, overlap>>
    BY <2>1 DEF steps, ghost
  <2>5. VisibleInv' /\ NoHole'
    BY <2>2, <2>3, <2>4
  <2>6. ASSUME ~overlap, ~outage, NEW s \in Run, NEW e \in fetched[s].visible
        PROVE  /\ phase'[s] \in {"save", "remove"} /\ e <= stepStart => Rows({e}) \subseteq places'
               /\ phase'[s] \in {"points", "writing"} => e \in todo'[s] \/ Rows({e}) \subseteq places'
    <3>1. CASE s = r
      <4>1. e \in todo[r] \/ Rows({e}) \subseteq places
        BY <2>2, <2>6, <3>1
      <4> QED
        BY <2>2, <2>3, <3>1, <4>1
    <3>2. CASE s # r
      BY <2>2, <2>3, <2>6, <3>2
    <3> QED
      BY <3>1, <3>2
  <2> QED
    BY <2>4, <2>5, <2>6
<1>15. ASSUME NEW r \in Run, Commit(r) PROVE (VisibleInv /\ PendingInv /\ NoHole)'
  <2>1. /\ phase' = [phase EXCEPT ![r] = "none"] /\ phase[r] = "points" /\ todo[r] = {}
        /\ fetched' = [fetched EXCEPT ![r] = NoList] /\ todo' = [todo EXCEPT ![r] = {}]
        /\ UNCHANGED <<stepStart, stepVisible, overlap>>
        /\ places' = {dp \in places : dp[1] \notin outerGone[r]}
        /\ accounted' = (accounted \cup fetched[r].visible) \ fetched[r].hidden
    BY <1>15 DEF Commit, Remove, Reset, steps
  <2>2. ~outage' => ~outage
    BY <1>15, Zenon DEF Commit
  <2>3. ~overlap' => \A s \in Run : phase'[s] \notin Open
    BY <2>1 DEF OneOpen
  <2>4. ASSUME ~overlap', ~outage', NEW dp \in Rows(accounted') PROVE dp \in places'
    <3>1. /\ dp \in Date \X Player /\ dp[2] \in Listed[dp[1]] /\ dp[1] \in Date
          /\ dp[1] \in accounted \cup fetched[r].visible /\ dp[1] \notin fetched[r].hidden
      BY <2>1, <2>4 DEF Rows
    <3>2. dp \in Rows({dp[1]})
      BY <3>1 DEF Rows
    <3>3. CASE dp[1] \in accounted
      <4>1. dp \in Rows(accounted)
        BY <3>1, <3>3 DEF Rows
      <4>2. dp \in places
        BY <2>1, <2>2, <2>4, <4>1
      <4> QED
        BY <2>1, <3>1, <4>2 DEF FetchedInv
    <3>4. CASE dp[1] \in fetched[r].visible
      <4>1. dp \in places
        BY <2>1, <2>2, <2>4, <3>2, <3>4
      <4> QED
        BY <2>1, <3>1, <4>1 DEF FetchedInv
    <3> QED
      BY <3>1, <3>3, <3>4
  <2> QED
    BY <2>1, <2>3, <2>4
<1>16. ASSUME NEW r \in Run, NEW saved \in BOOLEAN, Fail(r, saved) PROVE (VisibleInv /\ PendingInv /\ NoHole)'
  BY <1>16 DEF Fail, EndFailed, Remove, Reset, world, db, row, job, run, steps, ghost
<1>17. CASE Crash
  <2>1. /\ UNCHANGED <<places, accounted, outage, overlap>>
        /\ \A s \in Run : phase'[s] \notin Open
    BY <1>17 DEF Crash, db, ghost, Active
  <2> QED
    BY <2>1
<1>18. CASE Boot
  BY <1>18 DEF Boot, world, db, row, job, run, steps, ghost
<1>19. CASE UNCHANGED vars
  BY <1>19 DEF vars, world, db, row, job, run, steps, ghost
<1> QED
  BY <1>1, <1>2, <1>3, <1>4, <1>5, <1>6, <1>7, <1>8, <1>9, <1>10, <1>11, <1>12, <1>13, <1>14, <1>15, <1>16, <1>17, <1>18, <1>19 DEF Next, RunStep

(* The inductive invariant holds in every behaviour. *)
LEMMA Invariance == Spec => []IInv
<1>1. Init => IInv
  <2> SUFFICES ASSUME Init PROVE IInv
    OBVIOUS
  <2>1. TypeOK
    BY InitTypes
  <2>2. NotLeft /\ NoHole
    BY DEF Init, NotLeft, Left, NoHole, Rows
  <2>3. WindowInv /\ FetchedInv
    BY DEF Init, WindowInv, FetchedInv, NoList
  <2>4. OneOpen /\ ReadIsCurrent /\ LastPlaceKeepsUp /\ PendingInv /\ VisibleInv
    BY DEF Init, OneOpen, Open, ReadIsCurrent, LastPlaceKeepsUp, KeepsUp, PendingInv,
           VisibleInv
  <2> QED
    BY <2>1, <2>2, <2>3, <2>4 DEF IInv
<1>2. IInv /\ [Next]_vars => IInv'
  BY TypeStep, OneOpenStep, FetchedStep, WindowStep, NotLeftStep, KeepsUpStep, PendingStep
     DEF IInv
<1> QED
  BY <1>1, <1>2, PTL DEF Spec

(* RankingLastPlace keeps up as long as no two runs overlapped: whatever    *)
(* order backfills, retries and scheduled runs write the publications in,   *)
(* the hook never leaves a player behind his newest place.                  *)
THEOREM LastPlaceKeepsUpAlways == Spec => []LastPlaceKeepsUp
<1>1. IInv => LastPlaceKeepsUp
  BY DEF IInv
<1> QED
  BY <1>1, Invariance, PTL

(* The sync heals itself: without overlap and without a publication that    *)
(* left the default window unwritten, every publication a committed run saw *)
(* visible is stored, whatever failed, crashed and was retried before.      *)
THEOREM NoHoleAlways == Spec => []NoHole
<1>1. IInv => NoHole
  BY DEF IInv
<1> QED
  BY <1>1, Invariance, PTL

(* The watermark only moves to a publication a committed run accounted for. *)
THEOREM MarkIsAccountedAlways == Spec => MarkIsAccounted
<1>1. IInv /\ [Next]_vars => (watermark' # watermark => watermark' \in accounted')
  <2> SUFFICES ASSUME IInv, [Next]_vars, watermark' # watermark
               PROVE watermark' \in accounted'
    OBVIOUS
  <2>1. PICK r \in Run : Commit(r)
    BY DEF Next, RunStep, vars, world, db, row, job, run, steps, ghost, Tick, Publish,
       CronAdd, Backfill, Start, Decline, Count, Promote, GetRankings,
       FetchPublications, SavePublications, RemoveInvisible, OpenPublication,
       CommitPublication, Fail, Crash, Boot
  <2>2. /\ watermark' = outerMark[r] /\ outerMark[r] # 0
        /\ accounted' = (accounted \cup fetched[r].visible) \ fetched[r].hidden
    BY <2>1 DEF Commit
  <2> QED
    BY <2>2 DEF IInv, FetchedInv
<1>2. IInv /\ [Next]_vars => [watermark' # watermark => watermark' \in accounted']_vars
  BY <1>1
<1> QED
  BY <1>2, Invariance, PTL DEF Spec, MarkIsAccounted
=============================================================================
