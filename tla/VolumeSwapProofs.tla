--------------------------- MODULE VolumeSwapProofs ---------------------------
(* Proofs about VolumeSwap, for every set of names and every bound.        *)
EXTENDS VolumeSwap, TLAPS

(* Zenon is the default; a leaf that it cannot do names the SMT solver.    *)
USE ZenonT(30)

(* An absent journal has the journal's type.                               *)
LEMMA NoPlanType == NoPlan \in Plans /\ NoPlan.status = "none"
  BY DEF NoPlan, Plans, PlanStatus

(* The initial states satisfy the inductive invariant.                     *)
LEMMA InitSwap == Init => SwapInvariant
  <1> SUFFICES ASSUME Init PROVE SwapInvariant
    OBVIOUS
  <1>1. TypeOK
    <2>1. root \in [Names -> Entry] /\ original \in [Names -> Entry]
            /\ incoming \in [Names -> Entry]
      BY DEF Init, Entry
    <2>2. pc \in Steps /\ answer \in Answers
      BY DEF Init, Steps, Answers, SwapStatus
    <2>3. crashes \in 0..MaxCrashes /\ foreign \in 0..MaxForeign
      BY SMTT(30), BoundsAssumption DEF Init
    <2> QED
      BY <2>1, <2>2, <2>3, NoPlanType DEF Init, TypeOK
  <1>2. Control
    BY DEF Init, Control, NoPlan, CommitSteps, RollbackSteps, CleanupSteps
  <1>3. \A n \in Names : Whereabouts(n)
    BY DEF Init, Whereabouts, NoPlan
  <1>4. MarkerMeansRestored
    BY DEF Init, MarkerMeansRestored, NoPlan
  <1>5. ~committed
    BY DEF Init
  <1> QED
    BY <1>1, <1>2, <1>3, <1>4, <1>5 DEF SwapInvariant

(* Every step keeps the types.                                             *)
LEMMA TypeStep == TypeOK /\ [Next]_vars => TypeOK'
  <1> SUFFICES ASSUME TypeOK, [Next]_vars PROVE TypeOK'
    OBVIOUS
  <1> USE BoundsAssumption, NoPlanType DEF TypeOK, Entry, Steps, Answers, SwapStatus,
        CommitSteps, RollbackSteps, CleanupSteps, given, dirs, outside, Goto, Report
  <1>a. swapStatus \in Answers /\ computeStatus \in Answers
    BY DEF swapStatus, computeStatus
  <1>b. /\ plan.originals \in SUBSET Names /\ plan.incoming \in SUBSET Names
        /\ plan.status \in PlanStatus
    BY DEF Plans
  <1>1. CASE Restore
    <2>1. CASE RestoreBegin BY SMTT(30), <2>1 DEF RestoreBegin
    <2>2. CASE RestoreEntry BY SMTT(30), <2>2 DEF RestoreEntry
    <2>3. CASE RestoreEnd BY <2>3 DEF RestoreEnd
    <2> QED BY <1>1, <2>1, <2>2, <2>3 DEF Restore
  <1>2. CASE Prepare
    <2>1. CASE swapPrepare
      <3>1. plan' \in Plans BY SMTT(30), <2>1 DEF swapPrepare, Plans, PlanStatus
      <3> QED BY <2>1, <3>1 DEF swapPrepare
    <2>2. CASE PrepareAgain BY SMTT(30), <2>2, <1>a DEF PrepareAgain
    <2> QED BY <1>2, <2>1, <2>2 DEF Prepare
  <1>3. CASE CommitStart
    BY SMTT(30), <1>3 DEF CommitStart
  <1>4. CASE Commit
    <2>1. CASE CommitMkdir BY SMTT(30), <2>1 DEF CommitMkdir
    <2>2. CASE CommitMark
      <3>1. plan' \in Plans BY <2>2 DEF CommitMark, Plans, PlanStatus
      <3> QED BY SMTT(30), <2>2, <3>1 DEF CommitMark
    <2>3. CASE MoveOriginal BY SMTT(30), <2>3, <1>b DEF MoveOriginal
    <2>4. CASE OriginalsDone BY SMTT(30), <2>4 DEF OriginalsDone
    <2>5. CASE MarkIncoming
      <3>1. plan' \in Plans BY <2>5 DEF MarkIncoming, Plans, PlanStatus
      <3> QED BY SMTT(30), <2>5, <3>1 DEF MarkIncoming
    <2>6. CASE MoveIncoming BY SMTT(30), <2>6, <1>b DEF MoveIncoming
    <2>7. CASE IncomingDone BY SMTT(30), <2>7 DEF IncomingDone
    <2>8. CASE ApplyRootMeta BY SMTT(30), <2>8 DEF ApplyRootMeta
    <2>9. CASE WriteMarker
      <3>1. plan' \in Plans BY <2>9 DEF WriteMarker, Plans, PlanStatus
      <3> QED BY <2>9, <3>1 DEF WriteMarker
    <2> QED BY <1>4, <2>1, <2>2, <2>3, <2>4, <2>5, <2>6, <2>7, <2>8, <2>9 DEF Commit
  <1>5. CASE RollbackStart
    BY SMTT(30), <1>5 DEF RollbackStart
  <1>6. CASE Rollback
    <2>1. CASE ReturnIncoming BY SMTT(30), <2>1, <1>b DEF ReturnIncoming
    <2>2. CASE ReturnIncomingDone BY SMTT(30), <2>2 DEF ReturnIncomingDone
    <2>3. CASE ReturnOriginal BY SMTT(30), <2>3, <1>b DEF ReturnOriginal
    <2>4. CASE ReturnOriginalDone BY SMTT(30), <2>4 DEF ReturnOriginalDone
    <2>5. CASE RestoreRootMeta BY SMTT(30), <2>5 DEF RestoreRootMeta
    <2>6. CASE RemoveAllStep
      <3>1. incoming' \in [Names -> Entry] /\ original' \in [Names -> Entry]
        BY <2>6 DEF RemoveAllStep
      <3>2. originalDir' \in BOOLEAN /\ plan' \in Plans
        BY <2>6 DEF RemoveAllStep
      <3> QED BY SMTT(30), <2>6, <3>1, <3>2 DEF RemoveAllStep
    <2>7. CASE RemoveAllDone BY <2>7 DEF RemoveAllDone
    <2> QED BY <1>6, <2>1, <2>2, <2>3, <2>4, <2>5, <2>6, <2>7 DEF Rollback
  <1>7. CASE CleanupStart
    BY SMTT(30), <1>7 DEF CleanupStart
  <1>8. CASE Cleanup
    <2>1. CASE CleanupOriginal
      <3>1. original' \in [Names -> Entry] /\ originalDir' \in BOOLEAN
        BY <2>1 DEF CleanupOriginal
      <3> QED BY SMTT(30), <2>1, <3>1 DEF CleanupOriginal
    <2>2. CASE CleanupIncoming BY SMTT(30), <2>2 DEF CleanupIncoming
    <2>3. CASE CleanupJournal BY SMTT(30), <2>3 DEF CleanupJournal
    <2>4. CASE CleanupRmdir BY <2>4 DEF CleanupRmdir
    <2> QED BY <1>8, <2>1, <2>2, <2>3, <2>4 DEF Cleanup
  <1>9. CASE Status
    BY SMTT(30), <1>9, <1>a DEF Status
  <1>10. CASE Kill
    BY SMTT(30), <1>10, <1>b DEF Kill, RemovedUnderJournal
  <1>11. CASE ForeignWrite
    BY SMTT(30), <1>11 DEF ForeignWrite
  <1>12. CASE UNCHANGED vars
    BY SMTT(30), <1>12 DEF vars
  <1> QED
    BY <1>1, <1>2, <1>3, <1>4, <1>5, <1>6, <1>7, <1>8, <1>9, <1>10, <1>11, <1>12 DEF Next

(* Every step keeps the link between the helper's place and the journal.  *)
LEMMA ControlStep == SwapInvariant /\ [Next]_vars => Control'
  <1> SUFFICES ASSUME SwapInvariant, [Next]_vars PROVE Control'
    OBVIOUS
  <1> USE DEF Control, CommitSteps, RollbackSteps, CleanupSteps, given, dirs, outside, Goto, Report
  <1>a. TypeOK /\ Control BY DEF SwapInvariant
  <1>b. swapStatus # "rolled_back" /\ computeStatus # "rolled_back"
    BY DEF swapStatus, computeStatus
  <1>c. plan.status = "swapped" => swapStatus = "swapped"
    BY DEF swapStatus, computeStatus
  <1>1. CASE Restore
    <2>1. CASE RestoreBegin
      BY <2>1, <1>a, <1>b, <1>c, NoPlanType DEF RestoreBegin
    <2>2. CASE RestoreEntry
      BY SMTT(30), <2>2, <1>a, <1>b, <1>c, NoPlanType DEF RestoreEntry
    <2>3. CASE RestoreEnd
      BY <2>3, <1>a, <1>b, <1>c, NoPlanType DEF RestoreEnd
    <2> QED BY <1>1, <2>1, <2>2, <2>3 DEF Restore
  <1>2. CASE Prepare
    <2>1. CASE swapPrepare
      <3>1. CASE otherWork
        BY SMTT(30), <2>1, <3>1, <1>a DEF swapPrepare
      <3>2. CASE ~otherWork
        <4>1. plan'.status = "planned" /\ plan'.incoming = {n \in Names : incoming[n] # "none"}
          BY SMTT(30), <2>1, <3>2 DEF swapPrepare
        <4>2. plan'.incoming = snapshot
          BY <2>1, <4>1, <1>a DEF swapPrepare, TypeOK
        <4> QED BY <2>1, <3>2, <4>1, <4>2, <1>a DEF swapPrepare
      <3> QED BY <3>1, <3>2
    <2>2. CASE PrepareAgain
      BY <2>2, <1>a, <1>b, <1>c, NoPlanType DEF PrepareAgain
    <2> QED BY <1>2, <2>1, <2>2 DEF Prepare
  <1>3. CASE CommitStart
    BY <1>3, <1>a, <1>b, <1>c, NoPlanType DEF CommitStart
  <1>4. CASE Commit
    <2>1. CASE CommitMkdir
      BY <2>1, <1>a, <1>b, <1>c, NoPlanType DEF CommitMkdir
    <2>2. CASE CommitMark
      <3>1. /\ plan'.originals = plan.originals /\ plan'.incoming = plan.incoming
            /\ plan'.status = IF plan.status = "planned" THEN "moving_originals" ELSE plan.status
        BY SMTT(30), <2>2 DEF CommitMark, TypeOK, Plans
      <3> QED BY SMTT(30), <2>2, <3>1, <1>a, <1>b, <1>c, NoPlanType DEF CommitMark
    <2>3. CASE MoveOriginal
      BY <2>3, <1>a, <1>b, <1>c, NoPlanType DEF MoveOriginal
    <2>4. CASE OriginalsDone
      BY <2>4, <1>a, <1>b, <1>c, NoPlanType DEF OriginalsDone
    <2>5. CASE MarkIncoming
      <3>1. /\ plan'.originals = plan.originals /\ plan'.incoming = plan.incoming
            /\ plan'.status = "moving_incoming"
        BY SMTT(30), <2>5 DEF MarkIncoming, TypeOK, Plans
      <3> QED BY <2>5, <3>1, <1>a, <1>b, <1>c, NoPlanType DEF MarkIncoming
    <2>6. CASE MoveIncoming
      BY <2>6, <1>a, <1>b, <1>c, NoPlanType DEF MoveIncoming
    <2>7. CASE IncomingDone
      BY <2>7, <1>a, <1>b, <1>c, NoPlanType DEF IncomingDone
    <2>8. CASE ApplyRootMeta
      BY <2>8, <1>a, <1>b, <1>c, NoPlanType DEF ApplyRootMeta
    <2>9. CASE WriteMarker
      <3>1. /\ plan'.originals = plan.originals /\ plan'.incoming = plan.incoming
            /\ plan'.status = "swapped"
        BY SMTT(30), <2>9 DEF WriteMarker, TypeOK, Plans
      <3> QED BY <2>9, <3>1, <1>a, <1>b, <1>c, NoPlanType DEF WriteMarker
    <2> QED BY <1>4, <2>1, <2>2, <2>3, <2>4, <2>5, <2>6, <2>7, <2>8, <2>9 DEF Commit
  <1>5. CASE RollbackStart
    BY <1>5, <1>a, <1>b, <1>c, NoPlanType DEF RollbackStart
  <1>6. CASE Rollback
    <2>1. CASE ReturnIncoming
      BY <2>1, <1>a, <1>b, <1>c, NoPlanType DEF ReturnIncoming
    <2>2. CASE ReturnIncomingDone
      BY <2>2, <1>a, <1>b, <1>c, NoPlanType DEF ReturnIncomingDone
    <2>3. CASE ReturnOriginal
      BY <2>3, <1>a, <1>b, <1>c, NoPlanType DEF ReturnOriginal
    <2>4. CASE ReturnOriginalDone
      BY <2>4, <1>a, <1>b, <1>c, NoPlanType DEF ReturnOriginalDone
    <2>5. CASE RestoreRootMeta
      BY <2>5, <1>a, <1>b, <1>c, NoPlanType DEF RestoreRootMeta
    <2>6. CASE RemoveAllStep
      BY SMTT(30), <2>6, <1>a, <1>b, <1>c, NoPlanType DEF RemoveAllStep
    <2>7. CASE RemoveAllDone
      BY <2>7, <1>a, <1>b, <1>c, NoPlanType DEF RemoveAllDone
    <2> QED BY <1>6, <2>1, <2>2, <2>3, <2>4, <2>5, <2>6, <2>7 DEF Rollback
  <1>7. CASE CleanupStart
    BY <1>7, <1>a, <1>b, <1>c, NoPlanType DEF CleanupStart
  <1>8. CASE Cleanup
    <2>1. CASE CleanupOriginal
      BY <2>1, <1>a, <1>b, <1>c, NoPlanType DEF CleanupOriginal
    <2>2. CASE CleanupIncoming
      BY <2>2, <1>a, <1>b, <1>c, NoPlanType DEF CleanupIncoming
    <2>3. CASE CleanupJournal
      BY <2>3, <1>a, <1>b, <1>c, NoPlanType DEF CleanupJournal
    <2>4. CASE CleanupRmdir
      BY <2>4, <1>a, <1>b, <1>c, NoPlanType DEF CleanupRmdir
    <2> QED BY <1>8, <2>1, <2>2, <2>3, <2>4 DEF Cleanup
  <1>9. CASE Status
    BY <1>9, <1>a, <1>b, <1>c, NoPlanType DEF Status
  <1>10. CASE Kill
    BY <1>10, <1>a, <1>b, <1>c, NoPlanType DEF Kill
  <1>11. CASE ForeignWrite
    BY <1>11, <1>a, <1>b, <1>c, NoPlanType DEF ForeignWrite
  <1>12. CASE UNCHANGED vars
    BY <1>12, <1>a DEF vars
  <1> QED
    BY <1>1, <1>2, <1>3, <1>4, <1>5, <1>6, <1>7, <1>8, <1>9, <1>10, <1>11, <1>12 DEF Next
(* The history variables only grow.                                        *)
LEMMA HistoryGrows ==
  [Next]_vars => touched \subseteq touched' /\ torn \subseteq torn' /\ (committed => committed')
  <1> USE DEF given, dirs, outside
  <1>1. Restore \/ Prepare \/ CommitStart \/ RollbackStart \/ CleanupStart \/ Status
          => UNCHANGED <<touched, torn, committed>>
    BY DEF Restore, RestoreBegin, RestoreEntry, RestoreEnd, Prepare, swapPrepare, PrepareAgain,
           CommitStart, RollbackStart, CleanupStart, Status
  <1>2. Commit => UNCHANGED <<touched, torn>> /\ (committed => committed')
    BY SMTT(30) DEF Commit, CommitMkdir, CommitMark, MoveOriginal, OriginalsDone, MarkIncoming,
           MoveIncoming, IncomingDone, ApplyRootMeta, WriteMarker
  <1>3. Rollback \/ Cleanup => UNCHANGED <<touched, torn, committed>>
    BY DEF Rollback, ReturnIncoming, ReturnIncomingDone, ReturnOriginal, ReturnOriginalDone,
           RestoreRootMeta, RemoveAllStep, RemoveAllDone, Cleanup, CleanupOriginal,
           CleanupIncoming, CleanupJournal, CleanupRmdir
  <1>4. Kill \/ ForeignWrite
          => touched \subseteq touched' /\ torn \subseteq torn' /\ UNCHANGED committed
    BY DEF Kill, ForeignWrite
  <1>5. UNCHANGED vars => UNCHANGED <<touched, torn, committed>>
    BY DEF vars
  <1> QED
    BY <1>1, <1>2, <1>3, <1>4, <1>5 DEF Next

(* Every step keeps the whereabouts of an entry nobody else touched.      *)
LEMMA WhereaboutsStep == 
  ASSUME SwapInvariant, [Next]_vars, ~committed', NEW n \in Names \ (touched' \cup torn')
  PROVE  Whereabouts(n)'
  <1> USE DEF given, dirs, outside, Goto, Report
  <1>a. TypeOK /\ Control BY DEF SwapInvariant
  <1>b. n \notin touched /\ n \notin torn /\ ~committed
    BY HistoryGrows
  <1>c. Whereabouts(n)
    BY <1>b DEF SwapInvariant
  <1> USE DEF Whereabouts, Control, CommitSteps, RollbackSteps, CleanupSteps
  <1>1. CASE Restore
    <2>1. CASE RestoreBegin
      BY <2>1, <1>a, <1>b, <1>c, NoPlanType DEF RestoreBegin, TypeOK
    <2>2. CASE RestoreEntry
      BY <2>2, <1>a, <1>b, <1>c, NoPlanType DEF RestoreEntry, TypeOK
    <2>3. CASE RestoreEnd
      BY <2>3, <1>a, <1>b, <1>c, NoPlanType DEF RestoreEnd, TypeOK
    <2> QED BY <1>1, <2>1, <2>2, <2>3 DEF Restore
  <1>2. CASE Prepare
    <2>1. CASE swapPrepare
      BY SMTT(30), <2>1, <1>a, <1>b, <1>c, NoPlanType DEF swapPrepare, TypeOK
    <2>2. CASE PrepareAgain
      BY <2>2, <1>a, <1>b, <1>c, NoPlanType DEF PrepareAgain, TypeOK
    <2> QED BY <1>2, <2>1, <2>2 DEF Prepare
  <1>3. CASE CommitStart
    BY <1>3, <1>a, <1>b, <1>c, NoPlanType DEF CommitStart, TypeOK
  <1>4. CASE Commit
    <2>1. CASE CommitMkdir
      BY <2>1, <1>a, <1>b, <1>c, NoPlanType DEF CommitMkdir, TypeOK
    <2>2. CASE CommitMark
      <3>1. /\ plan'.originals = plan.originals /\ plan'.incoming = plan.incoming
            /\ plan'.status = IF plan.status = "planned" THEN "moving_originals" ELSE plan.status
        BY SMTT(30), <2>2 DEF CommitMark, TypeOK, Plans
      <3> QED BY SMTT(30), <2>2, <3>1, <1>a, <1>b, <1>c, NoPlanType DEF CommitMark, TypeOK
    <2>3. CASE MoveOriginal
      BY SMTT(30), <2>3, <1>a, <1>b, <1>c, NoPlanType DEF MoveOriginal, TypeOK
    <2>4. CASE OriginalsDone
      BY <2>4, <1>a, <1>b, <1>c, NoPlanType DEF OriginalsDone, TypeOK
    <2>5. CASE MarkIncoming
      <3>1. /\ plan'.originals = plan.originals /\ plan'.incoming = plan.incoming
            /\ plan'.status = "moving_incoming"
        BY SMTT(30), <2>5 DEF MarkIncoming, TypeOK, Plans
      <3> QED BY <2>5, <3>1, <1>a, <1>b, <1>c, NoPlanType DEF MarkIncoming, TypeOK
    <2>6. CASE MoveIncoming
      BY SMTT(30), <2>6, <1>a, <1>b, <1>c, NoPlanType DEF MoveIncoming, TypeOK
    <2>7. CASE IncomingDone
      BY <2>7, <1>a, <1>b, <1>c, NoPlanType DEF IncomingDone, TypeOK
    <2>8. CASE ApplyRootMeta
      BY <2>8, <1>a, <1>b, <1>c, NoPlanType DEF ApplyRootMeta, TypeOK
    <2>9. CASE WriteMarker
      <3>1. /\ plan'.originals = plan.originals /\ plan'.incoming = plan.incoming
            /\ plan'.status = "swapped"
        BY <2>9 DEF WriteMarker, TypeOK, Plans
      <3> QED BY <2>9, <3>1, <1>a, <1>b, <1>c, NoPlanType DEF WriteMarker, TypeOK
    <2> QED BY <1>4, <2>1, <2>2, <2>3, <2>4, <2>5, <2>6, <2>7, <2>8, <2>9 DEF Commit
  <1>5. CASE RollbackStart
    BY <1>5, <1>a, <1>b, <1>c, NoPlanType DEF RollbackStart, TypeOK
  <1>6. CASE Rollback
    <2>1. CASE ReturnIncoming
      BY SMTT(30), <2>1, <1>a, <1>b, <1>c, NoPlanType DEF ReturnIncoming, TypeOK
    <2>2. CASE ReturnIncomingDone
      BY <2>2, <1>a, <1>b, <1>c, NoPlanType DEF ReturnIncomingDone, TypeOK
    <2>3. CASE ReturnOriginal
      BY SMTT(30), <2>3, <1>a, <1>b, <1>c, NoPlanType DEF ReturnOriginal, TypeOK
    <2>4. CASE ReturnOriginalDone
      BY <2>4, <1>a, <1>b, <1>c, NoPlanType DEF ReturnOriginalDone, TypeOK
    <2>5. CASE RestoreRootMeta
      BY <2>5, <1>a, <1>b, <1>c, NoPlanType DEF RestoreRootMeta, TypeOK
    <2>6. CASE RemoveAllStep
      BY <2>6, <1>a, <1>b, <1>c, NoPlanType DEF RemoveAllStep, TypeOK
    <2>7. CASE RemoveAllDone
      BY <2>7, <1>a, <1>b, <1>c, NoPlanType DEF RemoveAllDone, TypeOK
    <2> QED BY <1>6, <2>1, <2>2, <2>3, <2>4, <2>5, <2>6, <2>7 DEF Rollback
  <1>7. CASE CleanupStart
    BY <1>7, <1>a, <1>b, <1>c, NoPlanType DEF CleanupStart, TypeOK
  <1>8. CASE Cleanup
    <2>1. CASE CleanupOriginal
      BY <2>1, <1>a, <1>b, <1>c, NoPlanType DEF CleanupOriginal, TypeOK
    <2>2. CASE CleanupIncoming
      BY <2>2, <1>a, <1>b, <1>c, NoPlanType DEF CleanupIncoming, TypeOK
    <2>3. CASE CleanupJournal
      BY <2>3, <1>a, <1>b, <1>c, NoPlanType DEF CleanupJournal, TypeOK
    <2>4. CASE CleanupRmdir
      BY <2>4, <1>a, <1>b, <1>c, NoPlanType DEF CleanupRmdir, TypeOK
    <2> QED BY <1>8, <2>1, <2>2, <2>3, <2>4 DEF Cleanup
  <1>9. CASE Status
    BY <1>9, <1>a, <1>b, <1>c, NoPlanType DEF Status, TypeOK
  <1>10. CASE Kill
    BY <1>10, <1>a, <1>b, <1>c, NoPlanType DEF Kill, TypeOK, RemovedUnderJournal
  <1>11. CASE ForeignWrite
    BY <1>11, <1>a, <1>b, <1>c, NoPlanType DEF ForeignWrite, TypeOK
  <1>12. CASE UNCHANGED vars
    BY <1>12, <1>c DEF vars
  <1> QED
    BY <1>1, <1>2, <1>3, <1>4, <1>5, <1>6, <1>7, <1>8, <1>9, <1>10, <1>11, <1>12 DEF Next

(* Once the marker is written no step of the helper changes the root or    *)
(* its metadata, and no request starts a commit or an uncommitted rollback. *)
LEMMA AfterCommit ==
  ASSUME SwapInvariant, [Next]_vars, committed
  PROVE  /\ plan'.status \in {plan.status, "none"}
         /\ rootMeta' = rootMeta \/ plan'.status = "none"
         /\ \A n \in Names \ touched' : root'[n] = root[n]
  <1> USE DEF given, dirs, outside, Goto, Report, Control, CommitSteps, RollbackSteps, CleanupSteps
  <1>a. TypeOK /\ Control BY DEF SwapInvariant
  <1>b. plan.status = "swapped" => swapStatus = "swapped"
    BY DEF swapStatus, computeStatus
  <1>1. CASE Restore
    <2>1. CASE RestoreBegin
      BY <2>1, <1>a, <1>b, NoPlanType DEF RestoreBegin
    <2>2. CASE RestoreEntry
      BY <2>2, <1>a, <1>b, NoPlanType DEF RestoreEntry
    <2>3. CASE RestoreEnd
      BY <2>3, <1>a, <1>b, NoPlanType DEF RestoreEnd
    <2> QED BY <1>1, <2>1, <2>2, <2>3 DEF Restore
  <1>2. CASE Prepare
    <2>1. CASE swapPrepare
      BY <2>1, <1>a, <1>b, NoPlanType DEF swapPrepare, TypeOK
    <2>2. CASE PrepareAgain
      BY <2>2, <1>a, <1>b, NoPlanType DEF PrepareAgain
    <2> QED BY <1>2, <2>1, <2>2 DEF Prepare
  <1>3. CASE CommitStart
    BY <1>3, <1>a, <1>b, NoPlanType DEF CommitStart
  <1>4. CASE Commit
    <2>1. CASE CommitMkdir
      BY <2>1, <1>a, <1>b, NoPlanType DEF CommitMkdir
    <2>2. CASE CommitMark
      <3>1. /\ plan'.originals = plan.originals /\ plan'.incoming = plan.incoming
            /\ plan'.status = IF plan.status = "planned" THEN "moving_originals" ELSE plan.status
        BY SMTT(30), <2>2 DEF CommitMark, TypeOK, Plans
      <3> QED BY <2>2, <3>1, <1>a, <1>b, NoPlanType DEF CommitMark
    <2>3. CASE MoveOriginal
      BY <2>3, <1>a, <1>b, NoPlanType DEF MoveOriginal
    <2>4. CASE OriginalsDone
      BY <2>4, <1>a, <1>b, NoPlanType DEF OriginalsDone
    <2>5. CASE MarkIncoming
      <3>1. /\ plan'.originals = plan.originals /\ plan'.incoming = plan.incoming
            /\ plan'.status = "moving_incoming"
        BY SMTT(30), <2>5 DEF MarkIncoming, TypeOK, Plans
      <3> QED BY <2>5, <3>1, <1>a, <1>b, NoPlanType DEF MarkIncoming
    <2>6. CASE MoveIncoming
      BY <2>6, <1>a, <1>b, NoPlanType DEF MoveIncoming
    <2>7. CASE IncomingDone
      BY <2>7, <1>a, <1>b, NoPlanType DEF IncomingDone
    <2>8. CASE ApplyRootMeta
      BY <2>8, <1>a, <1>b, NoPlanType DEF ApplyRootMeta
    <2>9. CASE WriteMarker
      <3>1. /\ plan'.originals = plan.originals /\ plan'.incoming = plan.incoming
            /\ plan'.status = "swapped"
        BY SMTT(30), <2>9 DEF WriteMarker, TypeOK, Plans
      <3> QED BY <2>9, <3>1, <1>a, <1>b, NoPlanType DEF WriteMarker
    <2> QED BY <1>4, <2>1, <2>2, <2>3, <2>4, <2>5, <2>6, <2>7, <2>8, <2>9 DEF Commit
  <1>5. CASE RollbackStart
    BY <1>5, <1>a, <1>b, NoPlanType DEF RollbackStart
  <1>6. CASE Rollback
    <2>1. CASE ReturnIncoming
      BY <2>1, <1>a, <1>b, NoPlanType DEF ReturnIncoming
    <2>2. CASE ReturnIncomingDone
      BY <2>2, <1>a, <1>b, NoPlanType DEF ReturnIncomingDone
    <2>3. CASE ReturnOriginal
      BY <2>3, <1>a, <1>b, NoPlanType DEF ReturnOriginal
    <2>4. CASE ReturnOriginalDone
      BY <2>4, <1>a, <1>b, NoPlanType DEF ReturnOriginalDone
    <2>5. CASE RestoreRootMeta
      BY <2>5, <1>a, <1>b, NoPlanType DEF RestoreRootMeta
    <2>6. CASE RemoveAllStep
      BY <2>6, <1>a, <1>b, NoPlanType DEF RemoveAllStep
    <2>7. CASE RemoveAllDone
      BY <2>7, <1>a, <1>b, NoPlanType DEF RemoveAllDone
    <2> QED BY <1>6, <2>1, <2>2, <2>3, <2>4, <2>5, <2>6, <2>7 DEF Rollback
  <1>7. CASE CleanupStart
    BY <1>7, <1>a, <1>b, NoPlanType DEF CleanupStart
  <1>8. CASE Cleanup
    <2>1. CASE CleanupOriginal
      BY <2>1, <1>a, <1>b, NoPlanType DEF CleanupOriginal
    <2>2. CASE CleanupIncoming
      BY <2>2, <1>a, <1>b, NoPlanType DEF CleanupIncoming
    <2>3. CASE CleanupJournal
      BY <2>3, <1>a, <1>b, NoPlanType DEF CleanupJournal
    <2>4. CASE CleanupRmdir
      BY <2>4, <1>a, <1>b, NoPlanType DEF CleanupRmdir
    <2> QED BY <1>8, <2>1, <2>2, <2>3, <2>4 DEF Cleanup
  <1>9. CASE Status
    BY <1>9, <1>a, <1>b, NoPlanType DEF Status
  <1>10. CASE Kill
    BY <1>10, <1>a, <1>b, NoPlanType DEF Kill
  <1>11. CASE ForeignWrite
    BY <1>11, <1>a, <1>b, NoPlanType DEF ForeignWrite, TypeOK
  <1>12. CASE UNCHANGED vars
    BY <1>12 DEF vars
  <1> QED
    BY <1>1, <1>2, <1>3, <1>4, <1>5, <1>6, <1>7, <1>8, <1>9, <1>10, <1>11, <1>12 DEF Next

(* The snapshot is a given of the behaviour.                               *)
LEMMA SnapshotFixed == [Next]_vars => snapshot' = snapshot
  BY DEF given, vars, Next, ApplyRootMeta, Cleanup, CleanupIncoming, CleanupJournal,
       CleanupOriginal, CleanupRmdir, CleanupStart, Commit, CommitMark, CommitMkdir,
       CommitStart, ForeignWrite, IncomingDone, Kill, MarkIncoming, MoveIncoming,
       MoveOriginal, OriginalsDone, Prepare, PrepareAgain, RemoveAllDone, RemoveAllStep,
       Restore, RestoreBegin, RestoreEnd, RestoreEntry, RestoreRootMeta, ReturnIncoming,
       ReturnIncomingDone, ReturnOriginal, ReturnOriginalDone, Rollback, RollbackStart,
       Status, WriteMarker, swapPrepare

(* Only the last step of a commit makes a swap committed.                  *)
LEMMA OnlyMarkerCommits == [Next]_vars /\ ~committed /\ committed' => WriteMarker
  BY DEF given, vars, Next, ApplyRootMeta, Cleanup, CleanupIncoming, CleanupJournal,
       CleanupOriginal, CleanupRmdir, CleanupStart, Commit, CommitMark, CommitMkdir,
       CommitStart, ForeignWrite, IncomingDone, Kill, MarkIncoming, MoveIncoming,
       MoveOriginal, OriginalsDone, Prepare, PrepareAgain, RemoveAllDone, RemoveAllStep,
       Restore, RestoreBegin, RestoreEnd, RestoreEntry, RestoreRootMeta, ReturnIncoming,
       ReturnIncomingDone, ReturnOriginal, ReturnOriginalDone, Rollback, RollbackStart,
       Status, swapPrepare

(* The marker keeps meaning a complete swap.                               *)
LEMMA MarkerStep == SwapInvariant /\ [Next]_vars => MarkerMeansRestored'
  <1> SUFFICES ASSUME SwapInvariant, [Next]_vars, plan'.status = "swapped"
               PROVE  /\ rootMeta' = "new"
                      /\ \A n \in Names \ (touched' \cup torn') :
                           root'[n] = IF n \in snapshot' THEN "new" ELSE "none"
    BY DEF MarkerMeansRestored
  <1>a. TypeOK /\ Control /\ TypeOK' /\ Control'
    BY TypeStep, ControlStep DEF SwapInvariant
  <1>b. touched \subseteq touched' /\ torn \subseteq torn'
    BY HistoryGrows
  <1>1. CASE committed
    <2>1. plan.status = "swapped" /\ rootMeta' = rootMeta
      BY <1>1, AfterCommit
    <2>2. snapshot' = snapshot
      BY SnapshotFixed
    <2> QED
      BY <1>1, <1>b, <2>1, <2>2, AfterCommit DEF SwapInvariant, MarkerMeansRestored
  <1>2. CASE ~committed
    <2>1. WriteMarker
      BY <1>2, <1>a, OnlyMarkerCommits DEF Control
    <2>2. ASSUME NEW n \in Names \ (touched' \cup torn')
          PROVE  root'[n] = IF n \in snapshot' THEN "new" ELSE "none"
      <3>1. Whereabouts(n)
        BY <1>2, <1>b DEF SwapInvariant
      <3> QED
        BY <3>1, <2>1, <1>a DEF WriteMarker, Whereabouts, Control, CommitSteps, TypeOK,
             given, dirs
    <2> QED
      BY <2>1, <2>2, <1>a DEF WriteMarker, Control
  <1> QED
    BY <1>1, <1>2

(* A committed swap keeps the snapshot at the root, journal or no journal.  *)
LEMMA CommittedStep ==
  ASSUME SwapInvariant, [Next]_vars, committed', NEW n \in Names \ (touched' \cup torn')
  PROVE  root'[n] = IF n \in snapshot' THEN "new" ELSE "none"
  <1>1. n \notin touched \cup torn /\ snapshot' = snapshot
    BY HistoryGrows, SnapshotFixed
  <1>2. CASE committed
    BY <1>1, <1>2, AfterCommit DEF SwapInvariant
  <1>3. CASE ~committed
    <2>1. WriteMarker
      BY <1>3, OnlyMarkerCommits
    <2>2. plan'.status = "swapped"
      BY <2>1 DEF WriteMarker, SwapInvariant, TypeOK, Plans
    <2> QED
      BY <2>2, MarkerStep DEF MarkerMeansRestored
  <1> QED
    BY <1>2, <1>3

(* Every step keeps the inductive invariant.                               *)
LEMMA SwapStep == SwapInvariant /\ [Next]_vars => SwapInvariant'
  <1> SUFFICES ASSUME SwapInvariant, [Next]_vars PROVE SwapInvariant'
    OBVIOUS
  <1>1. TypeOK' BY TypeStep DEF SwapInvariant
  <1>2. Control' BY ControlStep
  <1>3. ~committed' => \A n \in Names \ (touched' \cup torn') : Whereabouts(n)'
    BY WhereaboutsStep
  <1>4. MarkerMeansRestored' BY MarkerStep
  <1>5. committed' => \A n \in Names \ (touched' \cup torn') :
                        root'[n] = IF n \in snapshot' THEN "new" ELSE "none"
    BY CommittedStep
  <1> QED BY <1>1, <1>2, <1>3, <1>4, <1>5 DEF SwapInvariant

(* SwapInvariant is an invariant: in every reachable state of the helper,  *)
(* with any number of entries, kills and outside writes, the journal       *)
(* explains where each untouched entry is.                                 *)
THEOREM SwapInvariantHolds == Spec => []SwapInvariant
  BY SwapStep, InitSwap, PTL DEF Spec

(* The journal, the directories and the helper's place keep their types    *)
(* through every step of swap.go, for any number of entries.               *)
THEOREM SwapTypes == Spec => []TypeOK
  <1>1. SwapInvariant => TypeOK
    BY DEF SwapInvariant
  <1> QED
    BY <1>1, SwapInvariantHolds, PTL

(* No original entry is lost before the commit marker, whenever the helper *)
(* dies and whatever is requested next (swapCommit, swapRollback).         *)
THEOREM OriginalsAreKept == Spec => []OriginalsKept
  <1>1. SwapInvariant => OriginalsKept
    <2> SUFFICES ASSUME SwapInvariant, ~committed, NEW n \in volume \ (touched \cup torn)
                 PROVE  root[n] = "orig" \/ original[n] = "orig"
      BY DEF OriginalsKept
    <2>1. n \in Names BY DEF SwapInvariant, TypeOK
    <2>2. Whereabouts(n) BY <2>1 DEF SwapInvariant
    <2> QED BY <2>2 DEF Whereabouts
  <1> QED
    BY <1>1, SwapInvariantHolds, PTL

(* A work directory without a journal holds no original entry, so the      *)
(* unread removal in swapRollback cannot delete one.                       *)
THEOREM JournalGuards == Spec => []JournalGuardsOriginals
  <1>1. SwapInvariant => JournalGuardsOriginals
    <2> SUFFICES ASSUME SwapInvariant, ~committed, plan.status = "none",
                        NEW n \in volume \ (touched \cup torn)
                 PROVE  root[n] = "orig" /\ original[n] = "none"
      BY DEF JournalGuardsOriginals
    <2>1. n \in Names BY DEF SwapInvariant, TypeOK
    <2>2. Whereabouts(n) BY <2>1 DEF SwapInvariant
    <2> QED BY <2>2 DEF Whereabouts
  <1> QED
    BY <1>1, SwapInvariantHolds, PTL

(* The commit marker of the journal means a complete swap.                 *)
THEOREM MarkerIsProof == Spec => []MarkerMeansRestored
  <1>1. SwapInvariant => MarkerMeansRestored
    BY DEF SwapInvariant
  <1> QED
    BY <1>1, SwapInvariantHolds, PTL

(* The answer `rolled_back` means the volume is as it was.                 *)
THEOREM RollbackIsProof == Spec => []RolledBackMeansOriginal
  <1>1. SwapInvariant => RolledBackMeansOriginal
    <2> SUFFICES ASSUME SwapInvariant, ~committed, answer = "rolled_back", pc = "idle"
                 PROVE  /\ ~workDir /\ rootMeta = "orig"
                        /\ \A n \in Names \ (touched \cup torn) :
                              root[n] = IF n \in volume THEN "orig" ELSE "none"
      BY DEF RolledBackMeansOriginal
    <2>1. plan.status = "none" /\ ~workDir /\ rootMeta = "orig"
      BY DEF SwapInvariant, Control
    <2> QED
      BY <2>1 DEF SwapInvariant, Whereabouts
  <1> QED
    BY <1>1, SwapInvariantHolds, PTL

(* Every interruption leaves a status a later request can resume from.     *)
THEOREM InterruptionsResume == Spec => []Resumable
  <1>1. SwapInvariant => Resumable
    <2> SUFFICES ASSUME SwapInvariant, pc = "idle", plan.status # "none",
                        touched = {}, torn = {}, plan.status # "swapped"
                 PROVE  ~Unexplained
      BY DEF Resumable, swapStatus, computeStatus
    <2>1. \A n \in Names : Whereabouts(n)
      BY DEF SwapInvariant, Control, TypeOK, Plans, PlanStatus
    <2>2. plan.originals \subseteq Names /\ plan.incoming \subseteq Names /\ ~otherWork
      BY DEF SwapInvariant, Control, TypeOK, Plans
    <2> QED
      BY <2>1, <2>2 DEF Unexplained, Whereabouts
  <1> QED
    BY <1>1, SwapInvariantHolds, PTL

(* No step after the commit marker moves an entry of the volume root.      *)
THEOREM CommitStaysFinal == Spec => CommitIsFinal
  <1>1. SwapInvariant /\ [Next]_vars
          => [committed => \A n \in Names \ touched' : root'[n] = root[n]]_vars
    BY AfterCommit
  <1> QED
    BY <1>1, SwapInvariantHolds, PTL DEF Spec, CommitIsFinal
=============================================================================
