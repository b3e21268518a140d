--------------------------- MODULE BackupsProofs ---------------------------
(***************************************************************************)
(* Theorems about Backups, for any number of backups, requests, slots and  *)
(* crashes, and any retention.                                             *)
(*                                                                         *)
(* None of the properties is inductive.  That an archive has a row rests   *)
(* on a row in flight being out of the reach of deletions, and on a prune  *)
(* and a request having dealt with the archive by the time they drop the   *)
(* row; BackupsInv says that.                                              *)
(***************************************************************************)
EXTENDS Backups, FiniteSetTheorems, WellFoundedInduction, TLAPS

\* The row of a backup follows the place of its runBackup.
RowFollowsJob ==
    \A b \in Ids :
        /\ job[b] # "none" => row[b] # "none"
        /\ job[b] = "begin" => row[b] = "pending"
        /\ job[b] \in {"archive", "finish"} => row[b] = "running"
        /\ job[b] \in {"prune", "pruneFile", "pruneRow", "resume"} =>
             row[b] \notin Unsettled \/ late[b]

DoneIsFinished == \A b \in Ids : row[b] = "done" => b \in finished

\* A request deletes a backup that is settled, and has dealt with the archive first.
Deleting ==
    \A h \in Handlers :
        /\ req[h] \in {"file", "row"} =>
             arg[h] \in Ids /\ row[arg[h]] \in {"done", "failed", "deleted"}
        /\ req[h] = "row" => zip[arg[h]] # "present"

\* So does a prune, which works from the newest down.
Pruning ==
    \A b \in Ids :
        /\ \A s \in stale[b] : row[s] \in {"done", "deleted"}
        /\ job[b] \in {"pruneFile", "pruneRow"} => stale[b] # {}
        /\ job[b] = "pruneRow" =>
             \A s \in stale[b] : (\A t \in stale[b] : t <= s) => zip[s] # "present"

\* The slot the ticker is at has been marked and not yet fired.
MarkedFirst == tick = "create" => fired < marked

BackupsInv ==
    /\ TypeOK
    /\ RowFollowsJob /\ DoneIsFinished /\ InFlightIsWorkedOn
    /\ Deleting /\ Pruning /\ ArchiveHasRow
    /\ PruneSparesNewest
    /\ MarkedFirst /\ FiredOnce
    /\ RestoreAllOrNothing
    /\ (saving \/ up) /\ SavingComesBack

-----------------------------------------------------------------------------
\* A nonempty set of backups has a newest.
LEMMA NewestExists ==
    ASSUME NEW S \in SUBSET Ids, S # {}
    PROVE  \E m \in S : \A t \in S : t <= m
<1> DEFINE T == {MaxBackups - s : s \in S}
           R == {ss \in Nat \X Nat : ss[1] < ss[2]}
<1>1. T \subseteq Nat /\ T # {}
  <2>1. T \subseteq Nat  BY BackupsAssumption DEF Ids
  <2>2. T # {}  OBVIOUS
  <2> QED  BY <2>1, <2>2
<1>2. \E x \in T : \A y \in T : <<y, x>> \notin R
  <2>1. IsWellFoundedOn(R, Nat)
    BY NatLessThanWellFounded DEF OpToRel
  <2> HIDE DEF T, R
  <2> QED  BY <1>1, <2>1, WFMin
<1>3. PICK x \in T : \A y \in T : <<y, x>> \notin R
  BY <1>2
<1>4. PICK m \in S : x = MaxBackups - m
  BY <1>3
<1>5. ASSUME NEW t \in S  PROVE t <= m
  <2>1. MaxBackups - t \in T  OBVIOUS
  <2>2. ~ (MaxBackups - t < MaxBackups - m)  BY <1>1, <1>3, <1>4, <2>1
  <2> QED  BY <2>2, BackupsAssumption DEF Ids
<1> QED  BY <1>5

\* NextStale is the newest of the list.
LEMMA NextStaleIsNewest ==
    ASSUME TypeOK, NEW b \in Ids, stale[b] # {}
    PROVE  /\ NextStale(b) \in stale[b]
           /\ NextStale(b) \in Ids
           /\ \A t \in stale[b] : t <= NextStale(b)
<1>1. stale[b] \in SUBSET Ids  BY DEF TypeOK
<1>2. \E m \in stale[b] : \A t \in stale[b] : t <= m  BY <1>1, NewestExists
<1> QED  BY <1>1, <1>2 DEF NextStale

\* Only the newest of the list is as new as NextStale.
LEMMA NextStaleIsOnly ==
    ASSUME TypeOK, NEW b \in Ids, stale[b] # {},
           NEW s \in stale[b], \A t \in stale[b] : t <= s
    PROVE  s = NextStale(b)
<1>1. stale[b] \in SUBSET Ids  BY DEF TypeOK
<1> QED  BY <1>1, NextStaleIsNewest DEF Ids

\* More backups are done later than fewer.
LEMMA MoreAreLater ==
    ASSUME NEW A \in SUBSET Ids, NEW B \in SUBSET Ids, A \subseteq B, NEW s
    PROVE  /\ Cardinality({c \in A : c > s}) \in Nat
           /\ Cardinality({c \in B : c > s}) \in Nat
           /\ Cardinality({c \in A : c > s}) <= Cardinality({c \in B : c > s})
<1>1. IsFiniteSet(Ids)  BY BackupsAssumption, FS_Interval DEF Ids
<1>2. IsFiniteSet({c \in B : c > s})  BY <1>1, FS_Subset
<1>3. IsFiniteSet({c \in A : c > s})  BY <1>1, FS_Subset
<1>4. {c \in A : c > s} \subseteq {c \in B : c > s}  OBVIOUS
<1> QED  BY <1>2, <1>3, <1>4, FS_Subset, FS_CardinalityType

\* A fresh list holds backups that are done and were followed by Keep others.
LEMMA StaleIsBeyond ==
    /\ Stale \subseteq {b \in Ids : row[b] = "done"}
    /\ \A s \in Stale : Cardinality({c \in {b \in Ids : row[b] = "done"} : c > s}) >= Keep
BY DEF Stale, Beyond

\* A step that puts nothing on a list and unfinishes nothing keeps retention.
LEMMA SparesStill ==
    ASSUME TypeOK, TypeOK', PruneSparesNewest,
           \A b \in Ids : stale'[b] \subseteq stale[b],
           finished \subseteq finished'
    PROVE  PruneSparesNewest'
<1> SUFFICES ASSUME NEW b \in Ids, NEW s \in stale'[b]
             PROVE  Cardinality({c \in finished' : c > s}) >= Keep
  BY DEF PruneSparesNewest
<1>1. Cardinality({c \in finished : c > s}) >= Keep  BY DEF PruneSparesNewest
<1>2. finished \in SUBSET Ids /\ finished' \in SUBSET Ids  BY DEF TypeOK
<1>3. /\ Cardinality({c \in finished : c > s}) \in Nat
      /\ Cardinality({c \in finished' : c > s}) \in Nat
      /\ Cardinality({c \in finished : c > s}) <= Cardinality({c \in finished' : c > s})
  BY <1>2, MoreAreLater
<1> QED  BY <1>1, <1>3, BackupsAssumption

\* Nothing is done, in flight, listed or claimed at first.
LEMMA InitiallyInv == Init => BackupsInv
<1> SUFFICES ASSUME Init PROVE BackupsInv
  OBVIOUS
<1> USE BackupsAssumption DEF Init, Unsettled
<1>1. TypeOK
  <2>1. stale \in [Ids -> SUBSET Ids]  OBVIOUS
  <2>2. /\ row \in [Ids -> Unsettled \cup {"none", "done", "failed", "deleted"}]
        /\ zip \in [Ids -> {"absent", "present", "stuck"}]
        /\ job \in [Ids -> Jobs] /\ late \in [Ids -> BOOLEAN]
    BY DEF Jobs
  <2>3. /\ req \in [Handlers -> {"idle", "create", "file", "row"}]
        /\ arg \in [Handlers -> Ids \cup {0}]
    OBVIOUS
  <2>4. slots \in 0..MaxSlots /\ marked \in 0..slots /\ boots \in 0..MaxBoots  OBVIOUS
  <2> QED  BY <2>1, <2>2, <2>3, <2>4 DEF TypeOK
<1>2. RowFollowsJob /\ DoneIsFinished /\ InFlightIsWorkedOn
  BY DEF RowFollowsJob, DoneIsFinished, InFlightIsWorkedOn
<1>3. Deleting /\ Pruning /\ ArchiveHasRow /\ PruneSparesNewest
  BY DEF Deleting, Pruning, ArchiveHasRow, PruneSparesNewest
<1>4. MarkedFirst /\ FiredOnce /\ RestoreAllOrNothing /\ SavingComesBack /\ saving
  BY DEF MarkedFirst, FiredOnce, RestoreAllOrNothing, SavingComesBack
<1> QED  BY <1>1, <1>2, <1>3, <1>4 DEF BackupsInv

\* Every step of a task, a request, the ticker, a chain and a crash keeps BackupsInv.
LEMMA InductiveInv == BackupsInv /\ [Next]_vars => BackupsInv'
<1> SUFFICES ASSUME BackupsInv, [Next]_vars PROVE BackupsInv'
  OBVIOUS
<1> USE BackupsAssumption DEF BackupsInv, recordVars, jobVars, reqVars, tickVars, restoreVars,
        serverVars, Unsettled
<1>1. ASSUME NEW b \in Ids, BeginLate(b)
      PROVE  BackupsInv'
  <2>1. TypeOK'  BY <1>1 DEF TypeOK, Jobs, BeginLate, Goes
  <2>2. RowFollowsJob'  BY <1>1 DEF RowFollowsJob, BeginLate, Goes
  <2>3. InFlightIsWorkedOn'  BY <1>1 DEF InFlightIsWorkedOn, BeginLate, Goes
  <2>4. Pruning'  BY <1>1 DEF Pruning, BeginLate, Goes
  <2>5. ((saving \/ up) /\ SavingComesBack)'  BY <1>1 DEF SavingComesBack, BeginLate, Goes
  <2>6. (DoneIsFinished /\ Deleting /\ ArchiveHasRow /\ PruneSparesNewest /\ MarkedFirst
         /\ FiredOnce /\ RestoreAllOrNothing)'
      BY <1>1 DEF DoneIsFinished, Deleting, ArchiveHasRow, PruneSparesNewest, MarkedFirst,
         FiredOnce, RestoreAllOrNothing, BeginLate, Goes
  <2> QED  BY <2>1, <2>2, <2>3, <2>4, <2>5, <2>6
<1>2. ASSUME NEW b \in Ids, Begin(b)
      PROVE  BackupsInv'
  <2>1. TypeOK'  BY <1>2 DEF TypeOK, Jobs, Begin, Goes, SetState
  <2>2. RowFollowsJob'  BY <1>2 DEF RowFollowsJob, TypeOK, Begin, Goes, SetState
  <2>3. DoneIsFinished'  BY <1>2 DEF DoneIsFinished, Begin, SetState
  <2>4. InFlightIsWorkedOn'  BY <1>2 DEF InFlightIsWorkedOn, Begin, Goes, SetState
  <2>5. Deleting'  BY <1>2 DEF Deleting, RowFollowsJob, Begin, Goes, SetState
  <2>6. Pruning'  BY <1>2 DEF Pruning, RowFollowsJob, Begin, Goes, SetState
  <2>7. ArchiveHasRow'  BY <1>2 DEF ArchiveHasRow, Begin, SetState
  <2>8. ((saving \/ up) /\ SavingComesBack)'
      BY <1>2 DEF SavingComesBack, TypeOK, Begin, Goes
  <2>9. (PruneSparesNewest /\ MarkedFirst /\ FiredOnce /\ RestoreAllOrNothing)'
      BY <1>2 DEF PruneSparesNewest, MarkedFirst, FiredOnce, RestoreAllOrNothing, Begin,
         Goes, SetState
  <2> QED  BY <2>1, <2>2, <2>3, <2>4, <2>5, <2>6, <2>7, <2>8, <2>9
<1>3. ASSUME NEW b \in Ids, ArchiveDone(b)
      PROVE  BackupsInv'
  <2>1. TypeOK'  BY <1>3 DEF TypeOK, Jobs, ArchiveDone, Goes
  <2>2. RowFollowsJob'  BY <1>3 DEF RowFollowsJob, ArchiveDone, Goes
  <2>3. InFlightIsWorkedOn'  BY <1>3 DEF InFlightIsWorkedOn, ArchiveDone, Goes
  <2>4. Deleting'  BY <1>3 DEF Deleting, RowFollowsJob, ArchiveDone, Goes
  <2>5. Pruning'  BY <1>3 DEF Pruning, RowFollowsJob, ArchiveDone, Goes
  <2>6. ArchiveHasRow'  BY <1>3 DEF ArchiveHasRow, RowFollowsJob, ArchiveDone, Goes
  <2>7. ((saving \/ up) /\ SavingComesBack)'  BY <1>3 DEF SavingComesBack, ArchiveDone, Goes
  <2>8. (DoneIsFinished /\ PruneSparesNewest /\ MarkedFirst /\ FiredOnce /\
         RestoreAllOrNothing)'
      BY <1>3 DEF DoneIsFinished, PruneSparesNewest, MarkedFirst, FiredOnce,
         RestoreAllOrNothing, ArchiveDone, Goes
  <2> QED  BY <2>1, <2>2, <2>3, <2>4, <2>5, <2>6, <2>7, <2>8
<1>4. ASSUME NEW b \in Ids, ArchiveFails(b)
      PROVE  BackupsInv'
  <2>1. TypeOK'  BY <1>4 DEF TypeOK, Jobs, ArchiveFails, Goes, SetState
  <2>2. RowFollowsJob'  BY <1>4 DEF RowFollowsJob, TypeOK, ArchiveFails, Goes, SetState
  <2>3. DoneIsFinished'  BY <1>4 DEF DoneIsFinished, ArchiveFails, SetState
  <2>4. InFlightIsWorkedOn'  BY <1>4 DEF InFlightIsWorkedOn, ArchiveFails, Goes, SetState
  <2>5. Deleting'  BY <1>4 DEF Deleting, ArchiveFails, SetState
  <2>6. Pruning'  BY <1>4 DEF Pruning, RowFollowsJob, ArchiveFails, Goes, SetState
  <2>7. ArchiveHasRow'  BY <1>4 DEF ArchiveHasRow, ArchiveFails, SetState
  <2>8. ((saving \/ up) /\ SavingComesBack)'
      BY <1>4 DEF SavingComesBack, ArchiveFails, Goes
  <2>9. (PruneSparesNewest /\ MarkedFirst /\ FiredOnce /\ RestoreAllOrNothing)'
      BY <1>4 DEF PruneSparesNewest, MarkedFirst, FiredOnce, RestoreAllOrNothing,
         ArchiveFails, Goes, SetState
  <2> QED  BY <2>1, <2>2, <2>3, <2>4, <2>5, <2>6, <2>7, <2>8, <2>9
<1>5. ASSUME NEW b \in Ids, Finish(b)
      PROVE  BackupsInv'
  <2>1. TypeOK'  BY <1>5 DEF TypeOK, Jobs, Finish, Goes, SetState
  <2>2. RowFollowsJob'  BY <1>5 DEF RowFollowsJob, TypeOK, Finish, Goes, SetState
  <2>3. DoneIsFinished'  BY <1>5 DEF DoneIsFinished, Finish, SetState
  <2>4. InFlightIsWorkedOn'  BY <1>5 DEF InFlightIsWorkedOn, Finish, Goes, SetState
  <2>5. Deleting'  BY <1>5 DEF Deleting, Finish, SetState
  <2>6. Pruning'  BY <1>5 DEF Pruning, Finish, Goes, SetState
  <2>7. ArchiveHasRow'  BY <1>5 DEF ArchiveHasRow, Finish, SetState
  <2>8. PruneSparesNewest'  BY <1>5, <2>1, SparesStill DEF Finish
  <2>9. ((saving \/ up) /\ SavingComesBack)'  BY <1>5 DEF SavingComesBack, Finish, Goes
  <2>10. (MarkedFirst /\ FiredOnce /\ RestoreAllOrNothing)'
      BY <1>5 DEF MarkedFirst, FiredOnce, RestoreAllOrNothing, Finish, Goes, SetState
  <2> QED  BY <2>1, <2>2, <2>3, <2>4, <2>5, <2>6, <2>7, <2>8, <2>9, <2>10
<1>6. ASSUME NEW b \in Ids, PruneList(b)
      PROVE  BackupsInv'
  <2>1. TypeOK'  BY <1>6, StaleIsBeyond DEF TypeOK, Jobs, PruneList, Goes, Prunes
  <2>2. RowFollowsJob'  BY <1>6 DEF RowFollowsJob, PruneList, Goes, Prunes
  <2>3. InFlightIsWorkedOn'  BY <1>6 DEF InFlightIsWorkedOn, PruneList, Goes, Prunes
  <2>4. Pruning'  BY <1>6, StaleIsBeyond DEF Pruning, TypeOK, PruneList, Goes, Prunes
  <2>5. PruneSparesNewest'
    <3> SUFFICES ASSUME NEW d \in Ids, NEW s \in stale'[d]
                 PROVE  Cardinality({c \in finished' : c > s}) >= Keep
      BY DEF PruneSparesNewest
    <3>1. finished' = finished  BY <1>6 DEF PruneList
    <3>2. CASE s \in stale[d]  BY <3>1, <3>2 DEF PruneSparesNewest
    <3>3. CASE s \in Stale
      <4> DEFINE rows == {e \in Ids : row[e] = "done"}
      <4>1. rows \subseteq finished /\ finished \subseteq Ids
        BY DEF DoneIsFinished, TypeOK
      <4>2. Cardinality({c \in rows : c > s}) >= Keep  BY <3>3, StaleIsBeyond
      <4> HIDE DEF rows
      <4>3. /\ Cardinality({c \in rows : c > s}) \in Nat
            /\ Cardinality({c \in finished : c > s}) \in Nat
            /\ Cardinality({c \in rows : c > s}) <= Cardinality({c \in finished : c > s})
        BY <4>1, MoreAreLater
      <4> QED  BY <3>1, <4>2, <4>3
    <3>4. s \in stale[d] \/ s \in Stale  BY <1>6 DEF PruneList, Prunes, TypeOK
    <3> QED  BY <3>2, <3>3, <3>4
  <2>6. ((saving \/ up) /\ SavingComesBack)'
      BY <1>6 DEF SavingComesBack, PruneList, Goes, Prunes
  <2>7. (DoneIsFinished /\ Deleting /\ ArchiveHasRow /\ MarkedFirst /\ FiredOnce /\
         RestoreAllOrNothing)'
      BY <1>6 DEF DoneIsFinished, Deleting, ArchiveHasRow, MarkedFirst, FiredOnce,
         RestoreAllOrNothing, PruneList, Goes, Prunes
  <2> QED  BY <2>1, <2>2, <2>3, <2>4, <2>5, <2>6, <2>7
<1>7. ASSUME NEW b \in Ids, PruneFile(b)
      PROVE  BackupsInv'
  <2>1. TypeOK'  BY <1>7 DEF TypeOK, Jobs, PruneFile, Goes
  <2>2. RowFollowsJob'  BY <1>7 DEF RowFollowsJob, PruneFile, Goes
  <2>3. InFlightIsWorkedOn'  BY <1>7 DEF InFlightIsWorkedOn, PruneFile, Goes
  <2>4. Deleting'  BY <1>7 DEF Deleting, PruneFile
  <2>5. Pruning'
      BY <1>7, NextStaleIsNewest, NextStaleIsOnly DEF Pruning, TypeOK, PruneFile, Goes
  <2>6. ArchiveHasRow'  BY <1>7 DEF ArchiveHasRow, PruneFile
  <2>7. ((saving \/ up) /\ SavingComesBack)'  BY <1>7 DEF SavingComesBack, PruneFile, Goes
  <2>8. (DoneIsFinished /\ PruneSparesNewest /\ MarkedFirst /\ FiredOnce /\
         RestoreAllOrNothing)'
      BY <1>7 DEF DoneIsFinished, PruneSparesNewest, MarkedFirst, FiredOnce,
         RestoreAllOrNothing, PruneFile, Goes
  <2> QED  BY <2>1, <2>2, <2>3, <2>4, <2>5, <2>6, <2>7, <2>8
<1>8. ASSUME NEW b \in Ids, PruneFileFails(b)
      PROVE  BackupsInv'
  <2>1. TypeOK'  BY <1>8 DEF TypeOK, Jobs, PruneFileFails, Goes, Prunes
  <2>2. RowFollowsJob'  BY <1>8 DEF RowFollowsJob, PruneFileFails, Goes, Prunes
  <2>3. InFlightIsWorkedOn'  BY <1>8 DEF InFlightIsWorkedOn, PruneFileFails, Goes, Prunes
  <2>4. Pruning'  BY <1>8 DEF Pruning, TypeOK, PruneFileFails, Goes, Prunes
  <2>5. PruneSparesNewest'  BY <1>8, <2>1, SparesStill DEF PruneFileFails, Prunes
  <2>6. ((saving \/ up) /\ SavingComesBack)'
      BY <1>8 DEF SavingComesBack, PruneFileFails, Goes, Prunes
  <2>7. (DoneIsFinished /\ Deleting /\ ArchiveHasRow /\ MarkedFirst /\ FiredOnce /\
         RestoreAllOrNothing)'
      BY <1>8 DEF DoneIsFinished, Deleting, ArchiveHasRow, MarkedFirst, FiredOnce,
         RestoreAllOrNothing, PruneFileFails, Goes, Prunes
  <2> QED  BY <2>1, <2>2, <2>3, <2>4, <2>5, <2>6, <2>7
<1>9. ASSUME NEW b \in Ids, PruneRow(b)
      PROVE  BackupsInv'
  <2>1. TypeOK'  BY <1>9 DEF TypeOK, Jobs, PruneRow, Goes, Prunes
  <2>2. RowFollowsJob'
      BY <1>9, NextStaleIsNewest DEF RowFollowsJob, Pruning, PruneRow, Goes, Prunes
  <2>3. DoneIsFinished'  BY <1>9 DEF DoneIsFinished, PruneRow
  <2>4. InFlightIsWorkedOn'  BY <1>9 DEF InFlightIsWorkedOn, PruneRow, Goes, Prunes
  <2>5. Deleting'  BY <1>9 DEF Deleting, PruneRow
  <2>6. Pruning'  BY <1>9, NextStaleIsNewest DEF Pruning, TypeOK, PruneRow, Goes, Prunes
  <2>7. ArchiveHasRow'
      BY <1>9, NextStaleIsNewest DEF ArchiveHasRow, Pruning, PruneRow, Goes, Prunes
  <2>8. PruneSparesNewest'  BY <1>9, <2>1, SparesStill DEF PruneRow, Prunes
  <2>9. ((saving \/ up) /\ SavingComesBack)'
      BY <1>9 DEF SavingComesBack, PruneRow, Goes, Prunes
  <2>10. (MarkedFirst /\ FiredOnce /\ RestoreAllOrNothing)'
      BY <1>9 DEF MarkedFirst, FiredOnce, RestoreAllOrNothing, PruneRow, Goes, Prunes
  <2> QED  BY <2>1, <2>2, <2>3, <2>4, <2>5, <2>6, <2>7, <2>8, <2>9, <2>10
<1>10. ASSUME NEW b \in Ids, ResumeSaving(b)
      PROVE  BackupsInv'
  <2>1. TypeOK'  BY <1>10 DEF TypeOK, Jobs, ResumeSaving, Goes
  <2>2. RowFollowsJob'  BY <1>10 DEF RowFollowsJob, ResumeSaving, Goes
  <2>3. InFlightIsWorkedOn'
      BY <1>10 DEF InFlightIsWorkedOn, RowFollowsJob, ResumeSaving, Goes
  <2>4. Pruning'  BY <1>10 DEF Pruning, ResumeSaving, Goes
  <2>5. ((saving \/ up) /\ SavingComesBack)'  BY <1>10 DEF SavingComesBack, ResumeSaving
  <2>6. (DoneIsFinished /\ Deleting /\ ArchiveHasRow /\ PruneSparesNewest /\ MarkedFirst
         /\ FiredOnce /\ RestoreAllOrNothing)'
      BY <1>10 DEF DoneIsFinished, Deleting, ArchiveHasRow, PruneSparesNewest, MarkedFirst,
         FiredOnce, RestoreAllOrNothing, ResumeSaving, Goes
  <2> QED  BY <2>1, <2>2, <2>3, <2>4, <2>5, <2>6
<1>11. ASSUME NEW b \in Ids, Deadline(b)
      PROVE  BackupsInv'
  <2>1. TypeOK'  BY <1>11 DEF TypeOK, Deadline
  <2>2. RowFollowsJob'  BY <1>11 DEF RowFollowsJob, Deadline
  <2>3. InFlightIsWorkedOn'  BY <1>11 DEF InFlightIsWorkedOn, Deadline
  <2>4. (DoneIsFinished /\ Deleting /\ Pruning /\ ArchiveHasRow /\ PruneSparesNewest /\
         MarkedFirst /\ FiredOnce /\ RestoreAllOrNothing /\ (saving \/ up) /\
         SavingComesBack)'
      BY <1>11 DEF DoneIsFinished, Deleting, Pruning, ArchiveHasRow, PruneSparesNewest,
         MarkedFirst, FiredOnce, RestoreAllOrNothing, SavingComesBack, Deadline
  <2> QED  BY <2>1, <2>2, <2>3, <2>4
<1>12. ASSUME NEW b \in Ids, RestoreCheck(b)
      PROVE  BackupsInv'
  <2>1. TypeOK'  BY <1>12 DEF TypeOK, RestoreCheck
  <2>2. RestoreAllOrNothing'  BY <1>12 DEF RestoreAllOrNothing, RestoreCheck
  <2>3. (RowFollowsJob /\ DoneIsFinished /\ InFlightIsWorkedOn /\ Deleting /\ Pruning /\
         ArchiveHasRow /\ PruneSparesNewest /\ MarkedFirst /\ FiredOnce /\ (saving \/ up) /\
         SavingComesBack)'
      BY <1>12 DEF RowFollowsJob, DoneIsFinished, InFlightIsWorkedOn, Deleting, Pruning,
         ArchiveHasRow, PruneSparesNewest, MarkedFirst, FiredOnce, SavingComesBack,
         RestoreCheck
  <2> QED  BY <2>1, <2>2, <2>3
<1>13. ASSUME NEW h \in Handlers, CreateCheck(h)
      PROVE  BackupsInv'
  <2>1. TypeOK'  BY <1>13 DEF TypeOK, CreateCheck
  <2>2. Deleting'  BY <1>13 DEF Deleting, CreateCheck
  <2>3. (RowFollowsJob /\ DoneIsFinished /\ InFlightIsWorkedOn /\ Pruning /\
         ArchiveHasRow /\ PruneSparesNewest /\ MarkedFirst /\ FiredOnce /\
         RestoreAllOrNothing /\ (saving \/ up) /\ SavingComesBack)'
      BY <1>13 DEF RowFollowsJob, DoneIsFinished, InFlightIsWorkedOn, Pruning,
         ArchiveHasRow, PruneSparesNewest, MarkedFirst, FiredOnce, RestoreAllOrNothing,
         SavingComesBack, CreateCheck
  <2> QED  BY <2>1, <2>2, <2>3
<1>14. ASSUME NEW h \in Handlers, CreateRow(h)
      PROVE  BackupsInv'
  <2>1. TypeOK'  BY <1>14 DEF TypeOK, Jobs, CreateRow, Create, Answer
  <2>2. RowFollowsJob'  BY <1>14 DEF RowFollowsJob, TypeOK, CreateRow, Create
  <2>3. DoneIsFinished'  BY <1>14 DEF DoneIsFinished, CreateRow, Create
  <2>4. InFlightIsWorkedOn'  BY <1>14 DEF InFlightIsWorkedOn, TypeOK, CreateRow, Create
  <2>5. Deleting'  BY <1>14 DEF Deleting, CreateRow, Create, Unused, Answer
  <2>6. Pruning'  BY <1>14 DEF Pruning, CreateRow, Create, Unused
  <2>7. ArchiveHasRow'  BY <1>14 DEF ArchiveHasRow, CreateRow, Create
  <2>8. ((saving \/ up) /\ SavingComesBack)'
    <3>1. PICK c \in Ids : Create(c)  BY <1>14 DEF CreateRow
    <3>2. \A d \in Ids : job[d] \notin {"none", "begin", "over"} => job'[d] = job[d]
      BY <3>1 DEF Create, Unused, RowFollowsJob, TypeOK
    <3> QED  BY <1>14, <3>2 DEF SavingComesBack, CreateRow
  <2>9. (PruneSparesNewest /\ MarkedFirst /\ FiredOnce /\ RestoreAllOrNothing)'
      BY <1>14 DEF PruneSparesNewest, MarkedFirst, FiredOnce, RestoreAllOrNothing,
         CreateRow, Create, Unused, Answer
  <2> QED  BY <2>1, <2>2, <2>3, <2>4, <2>5, <2>6, <2>7, <2>8, <2>9
<1>15. ASSUME NEW h \in Handlers, NEW b \in Ids, DeleteCheck(h, b)
      PROVE  BackupsInv'
  <2>1. TypeOK'  BY <1>15 DEF TypeOK, DeleteCheck
  <2>2. Deleting'  BY <1>15 DEF Deleting, TypeOK, DeleteCheck
  <2>3. (RowFollowsJob /\ DoneIsFinished /\ InFlightIsWorkedOn /\ Pruning /\
         ArchiveHasRow /\ PruneSparesNewest /\ MarkedFirst /\ FiredOnce /\
         RestoreAllOrNothing /\ (saving \/ up) /\ SavingComesBack)'
      BY <1>15 DEF RowFollowsJob, DoneIsFinished, InFlightIsWorkedOn, Pruning,
         ArchiveHasRow, PruneSparesNewest, MarkedFirst, FiredOnce, RestoreAllOrNothing,
         SavingComesBack, DeleteCheck
  <2> QED  BY <2>1, <2>2, <2>3
<1>16. ASSUME NEW h \in Handlers, DeleteFile(h)
      PROVE  BackupsInv'
  <2>1. TypeOK'  BY <1>16 DEF TypeOK, DeleteFile
  <2>2. Deleting'  BY <1>16 DEF Deleting, TypeOK, DeleteFile
  <2>3. Pruning'  BY <1>16 DEF Pruning, TypeOK, DeleteFile
  <2>4. ArchiveHasRow'  BY <1>16 DEF ArchiveHasRow, TypeOK, DeleteFile
  <2>5. (RowFollowsJob /\ DoneIsFinished /\ InFlightIsWorkedOn /\ PruneSparesNewest /\
         MarkedFirst /\ FiredOnce /\ RestoreAllOrNothing /\ (saving \/ up) /\
         SavingComesBack)'
      BY <1>16 DEF RowFollowsJob, DoneIsFinished, InFlightIsWorkedOn, PruneSparesNewest,
         MarkedFirst, FiredOnce, RestoreAllOrNothing, SavingComesBack, DeleteFile
  <2> QED  BY <2>1, <2>2, <2>3, <2>4, <2>5
<1>17. ASSUME NEW h \in Handlers, DeleteRow(h)
      PROVE  BackupsInv'
  <2>1. TypeOK'  BY <1>17 DEF TypeOK, DeleteRow, Answer
  <2>2. RowFollowsJob'  BY <1>17 DEF RowFollowsJob, Deleting, DeleteRow
  <2>3. DoneIsFinished'  BY <1>17 DEF DoneIsFinished, DeleteRow
  <2>4. InFlightIsWorkedOn'  BY <1>17 DEF InFlightIsWorkedOn, DeleteRow
  <2>5. Deleting'  BY <1>17 DEF Deleting, TypeOK, DeleteRow, Answer
  <2>6. Pruning'  BY <1>17 DEF Pruning, DeleteRow
  <2>7. ArchiveHasRow'  BY <1>17 DEF ArchiveHasRow, Deleting, DeleteRow
  <2>8. (PruneSparesNewest /\ MarkedFirst /\ FiredOnce /\ RestoreAllOrNothing /\ (saving
         \/ up) /\ SavingComesBack)'
      BY <1>17 DEF PruneSparesNewest, MarkedFirst, FiredOnce, RestoreAllOrNothing,
         SavingComesBack, DeleteRow, Answer
  <2> QED  BY <2>1, <2>2, <2>3, <2>4, <2>5, <2>6, <2>7, <2>8
<1>18. ASSUME NEW h \in Handlers, HangsUp(h)
      PROVE  BackupsInv'
  <2>1. TypeOK'  BY <1>18 DEF TypeOK, HangsUp, Answer
  <2>2. Deleting'  BY <1>18 DEF Deleting, TypeOK, HangsUp, Answer
  <2>3. (RowFollowsJob /\ DoneIsFinished /\ InFlightIsWorkedOn /\ Pruning /\
         ArchiveHasRow /\ PruneSparesNewest /\ MarkedFirst /\ FiredOnce /\
         RestoreAllOrNothing /\ (saving \/ up) /\ SavingComesBack)'
      BY <1>18 DEF RowFollowsJob, DoneIsFinished, InFlightIsWorkedOn, Pruning,
         ArchiveHasRow, PruneSparesNewest, MarkedFirst, FiredOnce, RestoreAllOrNothing,
         SavingComesBack, HangsUp, Answer
  <2> QED  BY <2>1, <2>2, <2>3
<1>19. ASSUME SlotPasses
      PROVE  BackupsInv'
  <2>1. TypeOK'  BY <1>19 DEF TypeOK, SlotPasses
  <2>2. (RowFollowsJob /\ DoneIsFinished /\ InFlightIsWorkedOn /\ Deleting /\ Pruning /\
         ArchiveHasRow /\ PruneSparesNewest /\ MarkedFirst /\ FiredOnce /\
         RestoreAllOrNothing /\ (saving \/ up) /\ SavingComesBack)'
      BY <1>19 DEF RowFollowsJob, DoneIsFinished, InFlightIsWorkedOn, Deleting, Pruning,
         ArchiveHasRow, PruneSparesNewest, MarkedFirst, FiredOnce, RestoreAllOrNothing,
         SavingComesBack, SlotPasses
  <2> QED  BY <2>1, <2>2
<1>20. ASSUME FireDueBackups
      PROVE  BackupsInv'
  <2>1. TypeOK'  BY <1>20 DEF TypeOK, FireDueBackups
  <2>2. MarkedFirst'  BY <1>20 DEF MarkedFirst, FiredOnce, TypeOK, FireDueBackups
  <2>3. FiredOnce'  BY <1>20 DEF FiredOnce, TypeOK, FireDueBackups
  <2>4. (RowFollowsJob /\ DoneIsFinished /\ InFlightIsWorkedOn /\ Deleting /\ Pruning /\
         ArchiveHasRow /\ PruneSparesNewest /\ RestoreAllOrNothing /\ (saving \/ up) /\
         SavingComesBack)'
      BY <1>20 DEF RowFollowsJob, DoneIsFinished, InFlightIsWorkedOn, Deleting, Pruning,
         ArchiveHasRow, PruneSparesNewest, RestoreAllOrNothing, SavingComesBack,
         FireDueBackups, RunningFor
  <2> QED  BY <2>1, <2>2, <2>3, <2>4
<1>21. ASSUME TickCreate
      PROVE  BackupsInv'
  <2>1. TypeOK'  BY <1>21 DEF TypeOK, Jobs, TickCreate, Create
  <2>2. RowFollowsJob'  BY <1>21 DEF RowFollowsJob, TypeOK, TickCreate, Create
  <2>3. DoneIsFinished'  BY <1>21 DEF DoneIsFinished, TickCreate, Create
  <2>4. InFlightIsWorkedOn'  BY <1>21 DEF InFlightIsWorkedOn, TypeOK, TickCreate, Create
  <2>5. Deleting'  BY <1>21 DEF Deleting, TickCreate, Create, Unused
  <2>6. Pruning'  BY <1>21 DEF Pruning, TickCreate, Create, Unused
  <2>7. ArchiveHasRow'  BY <1>21 DEF ArchiveHasRow, TickCreate, Create
  <2>8. MarkedFirst'  BY <1>21 DEF MarkedFirst, TickCreate
  <2>9. FiredOnce'  BY <1>21 DEF FiredOnce, MarkedFirst, TypeOK, TickCreate
  <2>10. ((saving \/ up) /\ SavingComesBack)'
    <3>1. PICK c \in Ids : Create(c)  BY <1>21 DEF TickCreate
    <3>2. \A d \in Ids : job[d] \notin {"none", "begin", "over"} => job'[d] = job[d]
      BY <3>1 DEF Create, Unused, RowFollowsJob, TypeOK
    <3> QED  BY <1>21, <3>2 DEF SavingComesBack, TickCreate
  <2>11. (PruneSparesNewest /\ RestoreAllOrNothing)'
      BY <1>21 DEF PruneSparesNewest, RestoreAllOrNothing, TickCreate, Create, Unused
  <2> QED  BY <2>1, <2>2, <2>3, <2>4, <2>5, <2>6, <2>7, <2>8, <2>9, <2>10, <2>11
<1>22. ASSUME ChainBackup
      PROVE  BackupsInv'
  <2>1. TypeOK'  BY <1>22 DEF TypeOK, Jobs, ChainBackup, Create
  <2>2. RowFollowsJob'  BY <1>22 DEF RowFollowsJob, TypeOK, ChainBackup, Create
  <2>3. DoneIsFinished'  BY <1>22 DEF DoneIsFinished, ChainBackup, Create
  <2>4. InFlightIsWorkedOn'  BY <1>22 DEF InFlightIsWorkedOn, TypeOK, ChainBackup, Create
  <2>5. Deleting'  BY <1>22 DEF Deleting, ChainBackup, Create, Unused
  <2>6. Pruning'  BY <1>22 DEF Pruning, ChainBackup, Create, Unused
  <2>7. ArchiveHasRow'  BY <1>22 DEF ArchiveHasRow, ChainBackup, Create
  <2>8. ((saving \/ up) /\ SavingComesBack)'
    <3>1. PICK c \in Ids : Create(c)  BY <1>22 DEF ChainBackup
    <3>2. \A d \in Ids : job[d] \notin {"none", "begin", "over"} => job'[d] = job[d]
      BY <3>1 DEF Create, Unused, RowFollowsJob, TypeOK
    <3> QED  BY <1>22, <3>2 DEF SavingComesBack, ChainBackup
  <2>9. (PruneSparesNewest /\ MarkedFirst /\ FiredOnce /\ RestoreAllOrNothing)'
      BY <1>22 DEF PruneSparesNewest, MarkedFirst, FiredOnce, RestoreAllOrNothing,
         ChainBackup, Create, Unused
  <2> QED  BY <2>1, <2>2, <2>3, <2>4, <2>5, <2>6, <2>7, <2>8, <2>9
<1>23. ASSUME RestoreOpen
      PROVE  BackupsInv'
  <2>1. TypeOK'  BY <1>23 DEF TypeOK, RestoreOpen
  <2>2. RestoreAllOrNothing'  BY <1>23 DEF RestoreAllOrNothing, RestoreOpen
  <2>3. (RowFollowsJob /\ DoneIsFinished /\ InFlightIsWorkedOn /\ Deleting /\ Pruning /\
         ArchiveHasRow /\ PruneSparesNewest /\ MarkedFirst /\ FiredOnce /\ (saving \/ up) /\
         SavingComesBack)'
      BY <1>23 DEF RowFollowsJob, DoneIsFinished, InFlightIsWorkedOn, Deleting, Pruning,
         ArchiveHasRow, PruneSparesNewest, MarkedFirst, FiredOnce, SavingComesBack,
         RestoreOpen
  <2> QED  BY <2>1, <2>2, <2>3
<1>24. ASSUME RestoreDone
      PROVE  BackupsInv'
  <2>1. TypeOK'  BY <1>24 DEF TypeOK, RestoreDone
  <2>2. RestoreAllOrNothing'  BY <1>24 DEF RestoreAllOrNothing, RestoreDone
  <2>3. (RowFollowsJob /\ DoneIsFinished /\ InFlightIsWorkedOn /\ Deleting /\ Pruning /\
         ArchiveHasRow /\ PruneSparesNewest /\ MarkedFirst /\ FiredOnce /\ (saving \/ up) /\
         SavingComesBack)'
      BY <1>24 DEF RowFollowsJob, DoneIsFinished, InFlightIsWorkedOn, Deleting, Pruning,
         ArchiveHasRow, PruneSparesNewest, MarkedFirst, FiredOnce, SavingComesBack,
         RestoreDone
  <2> QED  BY <2>1, <2>2, <2>3
<1>25. ASSUME RestoreFails
      PROVE  BackupsInv'
  <2>1. TypeOK'  BY <1>25 DEF TypeOK, RestoreFails
  <2>2. RestoreAllOrNothing'  BY <1>25 DEF RestoreAllOrNothing, RestoreFails
  <2>3. (RowFollowsJob /\ DoneIsFinished /\ InFlightIsWorkedOn /\ Deleting /\ Pruning /\
         ArchiveHasRow /\ PruneSparesNewest /\ MarkedFirst /\ FiredOnce /\ (saving \/ up) /\
         SavingComesBack)'
      BY <1>25 DEF RowFollowsJob, DoneIsFinished, InFlightIsWorkedOn, Deleting, Pruning,
         ArchiveHasRow, PruneSparesNewest, MarkedFirst, FiredOnce, SavingComesBack,
         RestoreFails
  <2> QED  BY <2>1, <2>2, <2>3
<1>26. ASSUME ServerStartsOrEnds
      PROVE  BackupsInv'
  <2>1. TypeOK'  BY <1>26 DEF TypeOK, ServerStartsOrEnds
  <2>2. ((saving \/ up) /\ SavingComesBack)'
      BY <1>26 DEF SavingComesBack, ServerStartsOrEnds
  <2>3. (RowFollowsJob /\ DoneIsFinished /\ InFlightIsWorkedOn /\ Deleting /\ Pruning /\
         ArchiveHasRow /\ PruneSparesNewest /\ MarkedFirst /\ FiredOnce /\
         RestoreAllOrNothing)'
      BY <1>26 DEF RowFollowsJob, DoneIsFinished, InFlightIsWorkedOn, Deleting, Pruning,
         ArchiveHasRow, PruneSparesNewest, MarkedFirst, FiredOnce, RestoreAllOrNothing,
         ServerStartsOrEnds
  <2> QED  BY <2>1, <2>2, <2>3
<1>27. ASSUME DaemonDies
      PROVE  BackupsInv'
  <2>1. TypeOK'
    <3>1. stale' \in [Ids -> SUBSET Ids]  BY <1>27 DEF DaemonDies
    <3>2. /\ job' \in [Ids -> Jobs] /\ late' \in [Ids -> BOOLEAN]
          /\ req' \in [Handlers -> {"idle", "create", "file", "row"}]
          /\ arg' \in [Handlers -> Ids \cup {0}]
      BY <1>27 DEF DaemonDies, Jobs
    <3>3. boots' \in 0..MaxBoots /\ world' \in {"whole", "partial", "cut"}
      BY <1>27 DEF TypeOK, DaemonDies
    <3> QED  BY <1>27, <3>1, <3>2, <3>3 DEF TypeOK, DaemonDies
  <2>2. RowFollowsJob'  BY <1>27 DEF RowFollowsJob, DaemonDies
  <2>3. InFlightIsWorkedOn'  BY <1>27 DEF InFlightIsWorkedOn, TypeOK, DaemonDies
  <2>4. Deleting'  BY <1>27 DEF Deleting, DaemonDies
  <2>5. Pruning'  BY <1>27 DEF Pruning, DaemonDies
  <2>6. PruneSparesNewest'  BY <1>27, <2>1, SparesStill DEF DaemonDies
  <2>7. MarkedFirst'  BY <1>27 DEF MarkedFirst, DaemonDies
  <2>8. RestoreAllOrNothing'  BY <1>27 DEF RestoreAllOrNothing, DaemonDies
  <2>9. ((saving \/ up) /\ SavingComesBack)'  BY <1>27 DEF SavingComesBack, DaemonDies
  <2>10. (DoneIsFinished /\ ArchiveHasRow /\ FiredOnce)'
      BY <1>27 DEF DoneIsFinished, ArchiveHasRow, FiredOnce, DaemonDies
  <2> QED  BY <2>1, <2>2, <2>3, <2>4, <2>5, <2>6, <2>7, <2>8, <2>9, <2>10
<1>28. CASE UNCHANGED vars
  BY <1>28 DEF vars, TypeOK, RowFollowsJob, DoneIsFinished, InFlightIsWorkedOn, Deleting,
     Pruning, ArchiveHasRow, PruneSparesNewest, MarkedFirst, FiredOnce, RestoreAllOrNothing,
     SavingComesBack
<1> QED
  BY <1>1, <1>2, <1>3, <1>4, <1>5, <1>6, <1>7, <1>8, <1>9, <1>10, <1>11, <1>12, <1>13,
     <1>14, <1>15, <1>16, <1>17, <1>18, <1>19, <1>20, <1>21, <1>22, <1>23, <1>24, <1>25,
     <1>26, <1>27, <1>28 DEF Next, RunBackup, Request, Ticker, Restore

-----------------------------------------------------------------------------
\* In every state the program can be in, whatever the rows, archives and tasks.
THEOREM BackupsInvariance == Spec => []BackupsInv
<1>1. Init => BackupsInv  BY InitiallyInv
<1>2. BackupsInv /\ [Next]_vars => BackupsInv'  BY InductiveInv
<1> QED  BY <1>1, <1>2, PTL DEF Spec

\* The variables of Backups keep their types.
THEOREM BackupsTypes == Spec => []TypeOK
<1>1. BackupsInv => TypeOK  BY DEF BackupsInv
<1> QED  BY <1>1, BackupsInvariance, PTL

\* Deletions by requests and by prunes, in whatever order and wherever the daemon dies
\* between archive and row, leave no archive that no row leads to.
THEOREM ArchivesKeepRows == Spec => []ArchiveHasRow
<1>1. BackupsInv => ArchiveHasRow  BY DEF BackupsInv
<1> QED  BY <1>1, BackupsInvariance, PTL

\* pruneBackups never lists one of the newest keep_last that were ever done.
THEOREM RetentionSpares == Spec => []PruneSparesNewest
<1>1. BackupsInv => PruneSparesNewest  BY DEF BackupsInv
<1> QED  BY <1>1, BackupsInvariance, PTL

\* The ticker takes no slot of the schedule twice, though it may die between the mark and
\* the row.
THEOREM SlotsFireOnce == Spec => []FiredOnce
<1>1. BackupsInv => FiredOnce  BY DEF BackupsInv
<1> QED  BY <1>1, BackupsInvariance, PTL

\* Only the deadline of a task or a crash leaves a row in flight to nobody.
THEOREM InFlightHasTask == Spec => []InFlightIsWorkedOn
<1>1. BackupsInv => InFlightIsWorkedOn  BY DEF BackupsInv
<1> QED  BY <1>1, BackupsInvariance, PTL

\* Whoever turned saving off is still there to turn it on.
THEOREM SavingReturns == Spec => []SavingComesBack
<1>1. BackupsInv => SavingComesBack  BY DEF BackupsInv
<1> QED  BY <1>1, BackupsInvariance, PTL

\* A world is half there only while a restore is at it, or after one was interrupted.
THEOREM RestoresAreWhole == Spec => []RestoreAllOrNothing
<1>1. BackupsInv => RestoreAllOrNothing  BY DEF BackupsInv
<1> QED  BY <1>1, BackupsInvariance, PTL
============================================================================
