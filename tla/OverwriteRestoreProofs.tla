------------------------- MODULE OverwriteRestoreProofs -------------------------
(***************************************************************************)
(* Proofs about OverwriteRestore, for any number of containers and of      *)
(* resolve requests, with starts past Sencho and helpers that Docker does  *)
(* not remove: the types, the turns the threads take, the fence over every *)
(* pinned container and the safety copy before the first change.  Each     *)
(* layer of the inductive invariant has one lemma for the step, with one   *)
(* case per action, and the lemmas on how a thread moves it rests on.      *)
(***************************************************************************)
EXTENDS OverwriteRestore, TLAPS

(* Zenon is the default; a leaf that it cannot do names the SMT solver.    *)
USE ZenonT(30)
USE DEF row, fence, docker, volume, process, helpers, release, history, containers

(* The helper moves a work directory only between its states, and answers  *)
(* with one of its results.                                                *)
LEMMA ContractTypes ==
    /\ \A w \in Works : \A command \in Commands :
          Reach(command, w) \subseteq Works /\ Answers(command, w) \subseteq Results
    /\ Reports \subseteq Results
  BY SMTT(30) DEF Works, Commands, Reach, Answers, StatusOf, Reports, Results

(* The names of the rows' states and of the places of the threads.         *)
LEMMA RowNames ==
    /\ Phases = {"recorded", "staging", "staged_verified", "fenced", "protecting",
                 "materializing", "swapping", "swapped", "committed", "rolled_back",
                 "completion_unknown"}
    /\ Settled \subseteq Phases
  BY DEF Phases, PRE_FENCE_PHASES, FENCED_PHASES, Settled

(* The threads, and every place at which one of them can stand.            *)
LEMMA PlaceNames ==
    /\ "run" \in Threads /\ "boot" \in Threads
    /\ Resolvers \subseteq Threads /\ Reconcilers \subseteq Threads
    /\ {"off", "admit", "stage", "create", "copy", "unstage", "remove", "recheck", "drain",
        "observe", "fence", "protect", "begin", "capture", "materialize", "materialized",
        "prepared", "recheck_swap", "commit", "committed", "confirm", "confirm_reported",
        "recommitted", "confirm_last", "cleaned", "commit_settle", "rollback",
        "rollback_done", "rollback_staging", "rollback_settle", "return", "release",
        "reconcile", "read", "undone", "decide", "finish", "forward", "forwarded",
        "settle_committed", "settle_rolled_back", "settle_forward", "clear", "helpers",
        "failed", "fences", "settle", "done", "answer", "accept_released",
        "accept_status", "accept_cleaned"} \subseteq Places
  BY SMTT(30) DEF Places, RunPlaces, BootPlaces, ResolvePlaces, ReconcilePlaces,
    BeforeCopy,
    BeforeFence, RunCalls, RunSettles, ReconcileCalls, ReconcileSettles, AcceptCalls,
    Threads, Reconcilers

(* The steps of Docker, of an operator's shell and of the lifecycle        *)
(* requests beside the restore.                                            *)
Outsiders ==
    \/ \E c \in Containers :
          \/ startUnderFence(c) \/ StartAnswered(c) \/ PolicyStart(c) \/ OutsideStart(c)
          \/ ContainerStops(c) \/ LifecycleStart(c)
    \/ tryAcquire \/ LifecycleEnd

(* They start and stop containers and take or free the stack lock, and     *)
(* touch nothing of the intent, the fence, the volume or the threads.      *)
LEMMA OutsidersMove ==
    ASSUME Outsiders
    PROVE  UNCHANGED containers /\ UNCHANGED up
  BY DEF Outsiders, startUnderFence, StartAnswered, PolicyStart, OutsideStart,
    ContainerStops, LifecycleStart, tryAcquire, LifecycleEnd

(* Containers start, or some stop and nobody notices.                      *)
LEMMA OutsidersStart ==
    ASSUME Outsiders
    PROVE  /\ \/ \E S \in SUBSET Containers : Started(S)
              \/ running' \subseteq running /\ UNCHANGED history
           /\ startsInFlight' \subseteq startsInFlight \cup Containers
           /\ stackOp' \in {stackOp, "free", "lifecycle"}
  <1>1. ASSUME NEW c \in Containers, StartAnswered(c)
        PROVE  /\ \E S \in SUBSET Containers : Started(S)
               /\ startsInFlight' \subseteq startsInFlight \cup Containers /\ stackOp' = stackOp
    <2>1. PICK S \in {{}, {c} \ running} : Started(S)
      BY <1>1 DEF StartAnswered
    <2>2. S \in SUBSET Containers
      BY <2>1
    <2> QED BY <1>1, <2>1, <2>2 DEF StartAnswered
  <1>2. ASSUME NEW c \in Containers, PolicyStart(c) \/ OutsideStart(c) \/ LifecycleStart(c)
        PROVE  /\ \E S \in SUBSET Containers : Started(S)
               /\ startsInFlight' \subseteq startsInFlight \cup Containers /\ stackOp' = stackOp
    <2>1. {c} \in SUBSET Containers /\ Started({c})
      BY <1>2 DEF PolicyStart, OutsideStart, LifecycleStart
    <2> QED BY <1>2, <2>1 DEF PolicyStart, OutsideStart, LifecycleStart
  <1>3. ASSUME NEW c \in Containers, startUnderFence(c) \/ ContainerStops(c)
        PROVE  /\ running' \subseteq running /\ UNCHANGED history
               /\ startsInFlight' \subseteq startsInFlight \cup Containers /\ stackOp' = stackOp
    BY <1>3 DEF startUnderFence, ContainerStops
  <1>4. CASE tryAcquire \/ LifecycleEnd
    BY <1>4 DEF tryAcquire, LifecycleEnd
  <1> QED BY <1>1, <1>2, <1>3, <1>4 DEF Outsiders

(* runSwapStep: a call names its command and forgets the last answer.      *)
LEMMA CallTypes ==
    ASSUME ThreadTypes, NEW t \in Threads, NEW command \in Commands, NEW place \in Places,
           Call(t, command, place)
    PROVE  /\ pc' \in [Threads -> Places] /\ helper' \in [Threads -> Commands \cup {"idle"}]
           /\ answer' \in [Threads -> Results]
  <1>1. "error" \in Results /\ "killed" \in Results
    BY DEF Results
  <1> QED BY <1>1 DEF ThreadTypes, Call, Goto

(* releaseFence starts with nobody visited and nothing failed.             *)
LEMMA ReleaseTypes ==
    ASSUME TypeOK, NEW t \in Threads, NEW place \in Places, releaseFence(t, place)
    PROVE  /\ pc' \in [Threads -> Places] /\ then' \in [Threads -> Places]
           /\ visited' \in [Threads -> SUBSET Containers]
           /\ failed' \in [Threads -> BOOLEAN]
  <1>1. pc' \in [Threads -> Places]
    BY PlaceNames DEF TypeOK, ThreadTypes, releaseFence, Goto
  <1>2. then' \in [Threads -> Places] /\ visited' \in [Threads -> SUBSET Containers]
    BY DEF TypeOK, RowTypes, ThreadTypes, releaseFence
  <1>3. failed' \in [Threads -> BOOLEAN]
    BY DEF TypeOK, ThreadTypes, releaseFence
  <1> QED BY <1>1, <1>2, <1>3

(* A thread that ends forgets what it read, called and visited.            *)
LEMMA ForgetTypes ==
    ASSUME ThreadTypes, NEW t \in Threads, Forget(t)
    PROVE  /\ then' \in [Threads -> Places] /\ helper' = helper
           /\ answer' \in [Threads -> Results]
           /\ intent' \in [Threads -> [phase : Phases \cup {"none"}, class : Classes]]
           /\ kept' \in [Threads -> BOOLEAN] /\ failed' \in [Threads -> BOOLEAN]
           /\ visited' \in [Threads -> SUBSET Containers]
  <1>1. then' \in [Threads -> Places] /\ visited' \in [Threads -> SUBSET Containers]
    BY SMTT(30), PlaceNames DEF ThreadTypes, Forget
  <1>2. answer' \in [Threads -> Results] /\ helper' = helper
    BY DEF ThreadTypes, Forget, Results
  <1>3. intent' \in [Threads -> [phase : Phases \cup {"none"}, class : Classes]]
    BY DEF ThreadTypes, Forget, Classes
  <1>4. kept' \in [Threads -> BOOLEAN] /\ failed' \in [Threads -> BOOLEAN]
    BY DEF ThreadTypes, Forget
  <1> QED BY <1>1, <1>2, <1>3, <1>4

(* The copy of the intent that a reconciliation reads is an intent.        *)
LEMMA SnapshotTypes ==
    ASSUME TypeOK, NEW t \in Threads, Snapshot(t)
    PROVE  intent' \in [Threads -> [phase : Phases \cup {"none"}, class : Classes]]
  BY DEF TypeOK, RowTypes, ThreadTypes, Snapshot

(* Every step of every thread keeps the types.                             *)
LEMMA RowTypesStep ==
    ASSUME TypeOK, [Next]_vars
    PROVE  RowTypes'
  <1>1. CASE prepareOverwriteAdmission
    BY <1>1 DEF prepareOverwriteAdmission, TypeOK, RowTypes
  <1>2. CASE admitOverwrite
    BY SMTT(30), <1>2, RowNames DEF admitOverwrite, TypeOK, RowTypes, OpStates
  <1>3. CASE stagePoint
    BY SMTT(30), <1>3, RowNames DEF stagePoint, advance, TypeOK, RowTypes
  <1>4. CASE createLabelledVolume
    BY SMTT(30), <1>4 DEF createLabelledVolume, settleRollback, TypeOK, RowTypes
  <1>5. CASE RestoreStaging
    BY SMTT(30), <1>5, RowNames DEF RestoreStaging, advance, TypeOK, RowTypes
  <1>6. CASE Unstage
    BY SMTT(30), <1>6, RowNames DEF Unstage, advance, update, Finish, TypeOK, RowTypes,
      Classes, OpStates
  <1>7. CASE removeStaging
    BY <1>7 DEF removeStaging, update, Finish, TypeOK, RowTypes, Classes, OpStates
  <1>8. CASE fenceWorkloads
    BY SMTT(30), <1>8, RowNames DEF fenceWorkloads, advance, settleRollback, Finish,
      TypeOK,
      RowTypes, OpStates, FenceStates
  <1>9. CASE waitForStartsInFlight
    BY SMTT(30), <1>9 DEF waitForStartsInFlight, settleRollback, TypeOK, RowTypes,
      FenceStates
  <1>10. CASE recordMembers
    BY SMTT(30), <1>10 DEF recordMembers, settleRollback, Finish, TypeOK, RowTypes,
      OpStates,
      FenceStates
  <1>11. ASSUME NEW c \in Containers, Pin(c) PROVE RowTypes'
    BY <1>11 DEF Pin, TypeOK, RowTypes
  <1>12. ASSUME NEW c \in Containers, Stop(c) PROVE RowTypes'
    BY <1>12 DEF Stop, TypeOK, RowTypes
  <1>13. CASE FenceEnd
    BY SMTT(30), <1>13, RowNames DEF FenceEnd, advance, settleRollback, TypeOK, RowTypes
  <1>14. CASE RecheckBeforePoint
    BY SMTT(30), <1>14 DEF RecheckBeforePoint, settleRollback, TypeOK, RowTypes
  <1>15. CASE BeginPoint
    BY <1>15 DEF BeginPoint, settleRollback, TypeOK, RowTypes
  <1>16. CASE takePreRestorePoint
    BY <1>16 DEF takePreRestorePoint, settleRollback, TypeOK, RowTypes
  <1>17. CASE materializePoint
    BY <1>17, RowNames DEF materializePoint, advance, TypeOK, RowTypes
  <1>18. CASE Materialized
    BY SMTT(30), <1>18 DEF Materialized, settleRollback, TypeOK, RowTypes
  <1>19. CASE Prepared
    BY <1>19, RowNames DEF Prepared, advance, settleRollback, TypeOK, RowTypes
  <1>20. CASE RecheckBeforeSwap
    BY SMTT(30), <1>20 DEF RecheckBeforeSwap, settleRollback, TypeOK, RowTypes
  <1>21. CASE Commit
    BY <1>21 DEF Commit, TypeOK, RowTypes
  <1>22. CASE swapAndCleanup
    BY SMTT(30), <1>22, RowNames DEF swapAndCleanup, advance, Finish, settleRollback,
      TypeOK,
      RowTypes, Classes, OpStates
  <1>23. CASE releaseAfterCommit
    BY <1>23 DEF releaseAfterCommit, update, Finish, TypeOK, RowTypes, Classes,
      OpStates
  <1>24. CASE CommitSettle
    BY SMTT(30), <1>24, RowNames DEF CommitSettle, advance, Finish, TypeOK, RowTypes,
      Classes,
      OpStates
  <1>25. CASE RollbackBegin
    BY <1>25 DEF RollbackBegin, TypeOK, RowTypes
  <1>26. CASE RollbackDone
    BY SMTT(30), <1>26, RowNames DEF RollbackDone, advance, Finish, TypeOK, RowTypes,
      Classes,
      OpStates
  <1>27. CASE RollbackStaging
    BY SMTT(30), <1>27 DEF RollbackStaging, TypeOK, RowTypes, OpStates
  <1>28. CASE rollbackIntent
    BY SMTT(30), <1>28, RowNames DEF rollbackIntent, update, advance, Finish, TypeOK,
      RowTypes, Classes, OpStates
  <1>29. CASE releaseStacks
    BY <1>29 DEF releaseStacks, Forget, TypeOK, RowTypes, FenceStates
  <1>30. CASE Boot
    BY SMTT(30), <1>30 DEF Boot, TypeOK, RowTypes, OpStates
  <1>31. CASE removeForeignEpochHelpers
    BY SMTT(30), <1>31 DEF removeForeignEpochHelpers, TypeOK, RowTypes
  <1>32. CASE reconcileOverwriteIntentsAtStartup
    BY <1>32 DEF reconcileOverwriteIntentsAtStartup, TypeOK, RowTypes
  <1>33. ASSUME NEW t \in Reconcilers, reconcileOverwriteIntent(t) PROVE RowTypes'
    BY <1>33 DEF reconcileOverwriteIntent, TypeOK, RowTypes
  <1>34. ASSUME NEW t \in Reconcilers, ReadUnderWorkloads(t) PROVE RowTypes'
    BY SMTT(30), <1>34, RowNames DEF ReadUnderWorkloads, markUnknown, update, advance,
      TypeOK,
      RowTypes, Classes
  <1>35. ASSUME NEW t \in Reconcilers, Undone(t) PROVE RowTypes'
    BY SMTT(30), <1>35, RowNames DEF Undone, markUnknown, update, advance, TypeOK,
      RowTypes,
      Classes
  <1>36. ASSUME NEW t \in Reconcilers, ReconcileStaging(t) PROVE RowTypes'
    BY <1>36 DEF ReconcileStaging, TypeOK, RowTypes
  <1>37. ASSUME NEW t \in Reconcilers, JournalDecides(t) PROVE RowTypes'
    BY SMTT(30), <1>37, RowNames DEF JournalDecides, markUnknown, update, advance, TypeOK,
      RowTypes, Classes
  <1>38. ASSUME NEW t \in Reconcilers, CommitFinished(t) PROVE RowTypes'
    BY SMTT(30), <1>38, RowNames DEF CommitFinished, markUnknown, update, advance, TypeOK,
      RowTypes, Classes
  <1>39. ASSUME NEW t \in Reconcilers, RollForward(t) PROVE RowTypes'
    BY SMTT(30), <1>39, RowNames DEF RollForward, advance, TypeOK, RowTypes
  <1>40. ASSUME NEW t \in Reconcilers, ForwardCleaned(t) PROVE RowTypes'
    BY <1>40 DEF ForwardCleaned, update, TypeOK, RowTypes, Classes
  <1>41. ASSUME NEW t \in Reconcilers, SettleForward(t) PROVE RowTypes'
    BY SMTT(30), <1>41, RowNames DEF SettleForward, advance, update, markUnknown, TypeOK,
      RowTypes, Classes
  <1>42. ASSUME NEW t \in Reconcilers, clearFenceOutcome(t) PROVE RowTypes'
    BY <1>42 DEF clearFenceOutcome, update, TypeOK, RowTypes, Classes
  <1>43. ASSUME NEW t \in Reconcilers, settleInterruptedOverwriteOperations(t)
         PROVE RowTypes'
    BY <1>43 DEF settleInterruptedOverwriteOperations, overwriteEndingFor, Forget,
      TypeOK, RowTypes, OpStates
  <1>44. ASSUME NEW t \in Reconcilers, NEW to \in Settled, settleProven(t, to)
         PROVE RowTypes'
    BY SMTT(30), <1>44, RowNames DEF settleProven, update, advance, TypeOK, RowTypes,
      Classes
  <1>45. ASSUME NEW t \in Threads, ReleaseEnd(t) PROVE RowTypes'
    BY <1>45 DEF ReleaseEnd, TypeOK, RowTypes, FenceStates
  <1>46. ASSUME NEW t \in Threads, NEW c \in Containers, ReleaseMember(t, c)
         PROVE RowTypes'
    BY <1>46 DEF ReleaseMember, Started, TypeOK, RowTypes
  <1>47. ASSUME NEW t \in Threads, NEW c \in Containers, ReleaseMemberFails(t, c)
         PROVE RowTypes'
    BY SMTT(30), <1>47 DEF ReleaseMemberFails, TypeOK, RowTypes
  <1>48. ASSUME NEW t \in Resolvers, Retry(t) PROVE RowTypes'
    BY <1>48 DEF Retry, TypeOK, RowTypes
  <1>49. ASSUME NEW t \in Resolvers, ReleaseFenceRequest(t) PROVE RowTypes'
    BY <1>49 DEF ReleaseFenceRequest, TypeOK, RowTypes
  <1>50. ASSUME NEW t \in Resolvers, AcceptReleased(t) PROVE RowTypes'
    BY <1>50 DEF AcceptReleased, TypeOK, RowTypes
  <1>51. ASSUME NEW t \in Resolvers, AcceptStatus(t) PROVE RowTypes'
    BY SMTT(30), <1>51, RowNames, PlaceNames DEF AcceptStatus, update, advance, TypeOK,
      RowTypes, ThreadTypes, Classes
  <1>52. ASSUME NEW t \in Resolvers, AcceptCleaned(t) PROVE RowTypes'
    BY SMTT(30), <1>52, RowNames DEF AcceptCleaned, ok, advance, update, TypeOK, RowTypes,
      Classes
  <1>53. ASSUME NEW t \in Threads, runSwapStep(t) PROVE RowTypes'
    BY <1>53, ContractTypes DEF runSwapStep, TypeOK, RowTypes, ThreadTypes
  <1>54. CASE Outsiders
    <2>1. running' \subseteq Containers /\ ranFenced' \subseteq Containers
      BY <1>54, OutsidersStart DEF Started, TypeOK, RowTypes
    <2>2. /\ startsInFlight' \subseteq Containers
          /\ stackOp' \in {"free", "lifecycle", "data_restore"}
      BY <1>54, OutsidersStart DEF TypeOK, RowTypes
    <2> QED BY <1>54, <2>1, <2>2, OutsidersMove DEF TypeOK, RowTypes
  <1>55. CASE WorkloadWrites
    BY <1>55 DEF WorkloadWrites, TypeOK, RowTypes
  <1>56. CASE Crash
    BY SMTT(30), <1>56 DEF Crash, Started, TypeOK, RowTypes, ThreadTypes, Classes,
      OpStates,
      FenceStates
  <1>57. ASSUME NEW g \in Commands, Ghost(g) PROVE RowTypes'
    BY SMTT(30), <1>57, ContractTypes DEF Ghost, TypeOK, RowTypes, ThreadTypes, Classes,
      OpStates
  <1>58. CASE UNCHANGED vars
    BY SMTT(30), <1>58 DEF vars, TypeOK, RowTypes, ThreadTypes, Classes, OpStates,
      FenceStates
  <1> QED
    BY ZenonT(60), <1>1, <1>2, <1>3, <1>4, <1>5, <1>6, <1>7, <1>8, <1>9, <1>10, <1>11,
      <1>12, <1>13, <1>14, <1>15, <1>16, <1>17, <1>18, <1>19, <1>20, <1>21, <1>22,
      <1>23, <1>24, <1>25, <1>26, <1>27, <1>28, <1>29, <1>30, <1>31, <1>32, <1>33,
      <1>34, <1>35, <1>36, <1>37, <1>38, <1>39, <1>40, <1>41, <1>42, <1>43, <1>44,
      <1>45, <1>46, <1>47, <1>48, <1>49, <1>50, <1>51, <1>52, <1>53, <1>54, <1>55,
      <1>56, <1>57, <1>58 DEF Next, Pipeline, BootSequence, Environment, Reconcile,
      Accept, Releases, Reconcilers, Threads, Outsiders

(* Every step of every thread keeps the types.                             *)
LEMMA FlagTypesStep ==
    ASSUME TypeOK, [Next]_vars
    PROVE  FlagTypes'
  <1>1. CASE prepareOverwriteAdmission
    BY <1>1, ContractTypes, PlaceNames DEF prepareOverwriteAdmission, Goto, At,
      TypeOK, FlagTypes, ThreadTypes
  <1>2. CASE admitOverwrite
    BY <1>2, ContractTypes, RowNames, PlaceNames DEF admitOverwrite, Goto, At,
      TypeOK, FlagTypes, ThreadTypes
  <1>3. CASE stagePoint
    BY <1>3 DEF stagePoint, TypeOK, FlagTypes
  <1>4. CASE createLabelledVolume
    BY <1>4 DEF createLabelledVolume, TypeOK, FlagTypes
  <1>5. CASE RestoreStaging
    BY <1>5 DEF RestoreStaging, TypeOK, FlagTypes
  <1>6. CASE Unstage
    BY <1>6, ContractTypes, RowNames, PlaceNames DEF Unstage, RemoveStagingVolume,
      stagingVolumeGone, advance, releaseHolds, update, Finish, Goto, At, TypeOK,
      FlagTypes, ThreadTypes
  <1>7. CASE removeStaging
    BY <1>7, ContractTypes, PlaceNames DEF removeStaging, RemoveStagingVolume,
      stagingVolumeGone, update, Finish, Goto, At, TypeOK, FlagTypes, ThreadTypes
  <1>8. CASE fenceWorkloads
    BY <1>8 DEF fenceWorkloads, TypeOK, FlagTypes
  <1>9. CASE waitForStartsInFlight
    BY <1>9 DEF waitForStartsInFlight, TypeOK, FlagTypes, ThreadTypes
  <1>10. CASE recordMembers
    BY <1>10 DEF recordMembers, TypeOK, FlagTypes
  <1>11. ASSUME NEW c \in Containers, Pin(c) PROVE FlagTypes'
    BY <1>11 DEF Pin, TypeOK, FlagTypes, ThreadTypes
  <1>12. ASSUME NEW c \in Containers, Stop(c) PROVE FlagTypes'
    BY <1>12 DEF Stop, TypeOK, FlagTypes
  <1>13. CASE FenceEnd
    BY <1>13, ContractTypes, RowNames, PlaceNames DEF FenceEnd, advance,
      settleRollback, Goto, At, TypeOK, FlagTypes, ThreadTypes
  <1>14. CASE RecheckBeforePoint
    BY <1>14 DEF RecheckBeforePoint, TypeOK, FlagTypes
  <1>15. CASE BeginPoint
    BY <1>15, ContractTypes, PlaceNames DEF BeginPoint, settleRollback, Goto, At,
      TypeOK, FlagTypes, ThreadTypes
  <1>16. CASE takePreRestorePoint
    BY <1>16 DEF takePreRestorePoint, TypeOK, FlagTypes
  <1>17. CASE materializePoint
    BY <1>17 DEF materializePoint, TypeOK, FlagTypes
  <1>18. CASE Materialized
    BY <1>18 DEF Materialized, TypeOK, FlagTypes, ThreadTypes
  <1>19. CASE Prepared
    BY <1>19 DEF Prepared, TypeOK, FlagTypes, ThreadTypes
  <1>20. CASE RecheckBeforeSwap
    BY <1>20, PlaceNames DEF RecheckBeforeSwap, settleRollback, Goto, At, TypeOK,
      FlagTypes
  <1>21. CASE Commit
    BY <1>21, ContractTypes, PlaceNames DEF Commit, Call, Goto, At, TypeOK,
      FlagTypes
  <1>22. CASE swapAndCleanup
    BY <1>22 DEF swapAndCleanup, TypeOK, FlagTypes
  <1>23. CASE releaseAfterCommit
    BY <1>23 DEF releaseAfterCommit, ok, TypeOK, FlagTypes
  <1>24. CASE CommitSettle
    BY <1>24 DEF CommitSettle, releaseHolds, Finish, Goto, At, TypeOK, FlagTypes
  <1>25. CASE RollbackBegin
    BY <1>25 DEF RollbackBegin, Call, Goto, At, TypeOK, FlagTypes, ThreadTypes
  <1>26. CASE RollbackDone
    BY <1>26 DEF RollbackDone, TypeOK, FlagTypes
  <1>27. CASE RollbackStaging
    BY <1>27, ContractTypes, PlaceNames DEF RollbackStaging, RemoveStagingVolume,
      stagingVolumeGone, releaseFence, Goto, At, TypeOK, FlagTypes, ThreadTypes
  <1>28. CASE rollbackIntent
    BY <1>28, ContractTypes, RowNames, PlaceNames DEF rollbackIntent, update,
      advance, Finish, Goto, At, TypeOK, FlagTypes, ThreadTypes
  <1>29. CASE releaseStacks
    BY <1>29 DEF releaseStacks, TypeOK, FlagTypes, ThreadTypes
  <1>30. CASE Boot
    BY <1>30 DEF Boot, TypeOK, FlagTypes
  <1>31. CASE removeForeignEpochHelpers
    BY <1>31 DEF removeForeignEpochHelpers, Unsettled, At, TypeOK, FlagTypes
  <1>32. CASE reconcileOverwriteIntentsAtStartup
    BY <1>32 DEF reconcileOverwriteIntentsAtStartup, At, TypeOK, FlagTypes
  <1>33. ASSUME NEW t \in Reconcilers, reconcileOverwriteIntent(t) PROVE FlagTypes'
    BY <1>33 DEF reconcileOverwriteIntent, TypeOK, FlagTypes
  <1>34. ASSUME NEW t \in Reconcilers, ReadUnderWorkloads(t) PROVE FlagTypes'
    BY <1>34 DEF ReadUnderWorkloads, TypeOK, FlagTypes
  <1>35. ASSUME NEW t \in Reconcilers, Undone(t) PROVE FlagTypes'
    BY <1>35 DEF Undone, TypeOK, FlagTypes
  <1>36. ASSUME NEW t \in Reconcilers, ReconcileStaging(t) PROVE FlagTypes'
    BY <1>36, ContractTypes, PlaceNames DEF ReconcileStaging, RemoveStagingVolume,
      stagingVolumeGone, releaseFence, Goto, At, TypeOK, FlagTypes, ThreadTypes
  <1>37. ASSUME NEW t \in Reconcilers, JournalDecides(t) PROVE FlagTypes'
    BY <1>37 DEF JournalDecides, Call, Goto, At, TypeOK, FlagTypes
  <1>38. ASSUME NEW t \in Reconcilers, CommitFinished(t) PROVE FlagTypes'
    BY <1>38 DEF CommitFinished, TypeOK, FlagTypes, ThreadTypes
  <1>39. ASSUME NEW t \in Reconcilers, RollForward(t) PROVE FlagTypes'
    BY <1>39 DEF RollForward, TypeOK, FlagTypes, ThreadTypes
  <1>40. ASSUME NEW t \in Reconcilers, ForwardCleaned(t) PROVE FlagTypes'
    BY <1>40, ContractTypes, PlaceNames DEF ForwardCleaned, ok, Goto, At, TypeOK,
      FlagTypes
  <1>41. ASSUME NEW t \in Reconcilers, SettleForward(t) PROVE FlagTypes'
    BY <1>41, PlaceNames DEF SettleForward, releaseHolds, TypeOK, FlagTypes,
      ThreadTypes
  <1>42. ASSUME NEW t \in Reconcilers, clearFenceOutcome(t) PROVE FlagTypes'
    BY <1>42, PlaceNames DEF clearFenceOutcome, TypeOK, FlagTypes, ThreadTypes
  <1>43. ASSUME NEW t \in Reconcilers, settleInterruptedOverwriteOperations(t)
         PROVE FlagTypes'
    BY <1>43 DEF settleInterruptedOverwriteOperations, TypeOK, FlagTypes
  <1>44. ASSUME NEW t \in Reconcilers, NEW to \in Settled, settleProven(t, to)
         PROVE FlagTypes'
    BY <1>44, PlaceNames DEF settleProven, releaseHolds, TypeOK, FlagTypes,
      ThreadTypes
  <1>45. ASSUME NEW t \in Threads, ReleaseEnd(t) PROVE FlagTypes'
    BY <1>45 DEF ReleaseEnd, TypeOK, FlagTypes
  <1>46. ASSUME NEW t \in Threads, NEW c \in Containers, ReleaseMember(t, c)
         PROVE FlagTypes'
    BY <1>46 DEF ReleaseMember, Started, TypeOK, FlagTypes
  <1>47. ASSUME NEW t \in Threads, NEW c \in Containers, ReleaseMemberFails(t, c)
         PROVE FlagTypes'
    BY <1>47 DEF ReleaseMemberFails, TypeOK, FlagTypes
  <1>48. ASSUME NEW t \in Resolvers, Retry(t) PROVE FlagTypes'
    BY <1>48 DEF Retry, Idle, TypeOK, FlagTypes
  <1>49. ASSUME NEW t \in Resolvers, ReleaseFenceRequest(t) PROVE FlagTypes'
    BY <1>49 DEF ReleaseFenceRequest, Ready, Idle, At, TypeOK, FlagTypes
  <1>50. ASSUME NEW t \in Resolvers, AcceptReleased(t) PROVE FlagTypes'
    BY <1>50 DEF AcceptReleased, TypeOK, FlagTypes
  <1>51. ASSUME NEW t \in Resolvers, AcceptStatus(t) PROVE FlagTypes'
    BY <1>51, ContractTypes DEF AcceptStatus, Call, Goto, At, TypeOK, FlagTypes,
      ThreadTypes
  <1>52. ASSUME NEW t \in Resolvers, AcceptCleaned(t) PROVE FlagTypes'
    BY <1>52, ContractTypes, RowNames, PlaceNames DEF AcceptCleaned, ok, advance,
      releaseHolds, update, Goto, At, TypeOK, FlagTypes, ThreadTypes
  <1>53. ASSUME NEW t \in Threads, runSwapStep(t) PROVE FlagTypes'
    BY <1>53 DEF runSwapStep, TypeOK, FlagTypes
  <1>54. ASSUME NEW c \in Containers, startUnderFence(c) PROVE FlagTypes'
    BY <1>54 DEF startUnderFence, TypeOK, FlagTypes
  <1>55. ASSUME NEW c \in Containers, StartAnswered(c) PROVE FlagTypes'
    BY <1>55 DEF StartAnswered, Started, TypeOK, FlagTypes
  <1>56. ASSUME NEW c \in Containers, PolicyStart(c) PROVE FlagTypes'
    BY <1>56 DEF PolicyStart, Started, TypeOK, FlagTypes
  <1>57. ASSUME NEW c \in Containers, OutsideStart(c) PROVE FlagTypes'
    BY <1>57 DEF OutsideStart, Started, At, TypeOK, FlagTypes
  <1>58. ASSUME NEW c \in Containers, ContainerStops(c) PROVE FlagTypes'
    BY <1>58 DEF ContainerStops, At, TypeOK, FlagTypes, ThreadTypes
  <1>59. CASE tryAcquire
    BY <1>59 DEF tryAcquire, TypeOK, FlagTypes
  <1>60. ASSUME NEW c \in Containers, LifecycleStart(c) PROVE FlagTypes'
    BY <1>60 DEF LifecycleStart, Started, TypeOK, FlagTypes
  <1>61. CASE LifecycleEnd
    BY <1>61 DEF LifecycleEnd, TypeOK, FlagTypes
  <1>62. CASE WorkloadWrites
    BY <1>62 DEF WorkloadWrites, TypeOK, FlagTypes
  <1>63. CASE Crash
    BY <1>63, ContractTypes, PlaceNames DEF Crash, Started, Goto, At, TypeOK,
      FlagTypes, ThreadTypes
  <1>64. ASSUME NEW g \in Commands, Ghost(g) PROVE FlagTypes'
    BY <1>64 DEF Ghost, TypeOK, FlagTypes, ThreadTypes
  <1>65. CASE UNCHANGED vars
    BY <1>65 DEF vars, TypeOK, FlagTypes, ThreadTypes
  <1> QED
    BY ZenonT(60), <1>1, <1>2, <1>3, <1>4, <1>5, <1>6, <1>7, <1>8, <1>9, <1>10, <1>11,
      <1>12, <1>13, <1>14, <1>15, <1>16, <1>17, <1>18, <1>19, <1>20, <1>21, <1>22,
      <1>23, <1>24, <1>25, <1>26, <1>27, <1>28, <1>29, <1>30, <1>31, <1>32, <1>33,
      <1>34, <1>35, <1>36, <1>37, <1>38, <1>39, <1>40, <1>41, <1>42, <1>43, <1>44,
      <1>45, <1>46, <1>47, <1>48, <1>49, <1>50, <1>51, <1>52, <1>53, <1>54, <1>55,
      <1>56, <1>57, <1>58, <1>59, <1>60, <1>61, <1>62, <1>63, <1>64, <1>65 DEF Next,
      Pipeline, BootSequence, Environment, Reconcile, Accept, Releases, Reconcilers,
      Threads

-----------------------------------------------------------------------------
(* Where the threads are.  A thread walks between its own places, calls a  *)
(* helper and waits for it, or releases the fence and goes on elsewhere.   *)
Control ==
    /\ pc \in [Threads -> Places] /\ then \in [Threads -> Places]
    /\ helper \in [Threads -> Commands \cup {"idle"}] /\ answer \in [Threads -> Results]
    /\ AtPlaces /\ Turns

(* The places of a thread, its calls and its returns are places.           *)
LEMMA OwnPlaces ==
    ASSUME NEW t \in Threads
    PROVE  /\ PlacesOf(t) \subseteq Places
           /\ CallsOf(t) \subseteq PlacesOf(t) \ {"release"}
           /\ ReturnsOf(t) \subseteq PlacesOf(t) \ {"release"}
           /\ "release" \in PlacesOf(t)
  <1>1. PlacesOf(t) \subseteq Places
    BY DEF PlacesOf, Places
  <1>2. CallsOf(t) \subseteq PlacesOf(t) \ {"release"}
    BY DEF CallsOf, PlacesOf, RunPlaces, BootPlaces, ResolvePlaces, ReconcilePlaces,
      RunCalls, ReconcileCalls, AcceptCalls
  <1>3. ReturnsOf(t) \subseteq PlacesOf(t) \ {"release"}
    BY DEF ReturnsOf, PlacesOf, RunPlaces, BootPlaces, ResolvePlaces, ReconcilePlaces,
      RunSettles, ReconcileSettles
  <1>4. "release" \in PlacesOf(t)
    BY DEF PlacesOf, RunPlaces, BootPlaces, ResolvePlaces, ReconcilePlaces
  <1> QED BY <1>1, <1>2, <1>3, <1>4

(* A thread that is under way keeps the turn wherever it goes.             *)
LEMMA TurnsGo ==
    ASSUME TypeOK, Turns, NEW t \in Threads, pc[t] \notin {"off", "done"}, NEW to,
           pc' = [pc EXCEPT ![t] = to], UNCHANGED up, phase # "none" => phase' # "none"
    PROVE  Turns'
  <1>1. \A u \in Threads : pc'[u] = IF u = t THEN to ELSE pc[u]
    BY DEF TypeOK, ThreadTypes
  <1>2. up
    BY DEF Turns
  <1>3. CASE t = "boot"
    <2>1. \A u \in Threads \ {"boot"} : pc[u] = "off"
      BY <1>3 DEF Turns
    <2> QED BY <1>1, <1>2, <1>3, <2>1, PlaceNames, ThreadAssumption DEF Turns
  <1>4. CASE t # "boot"
    <2>1. pc["boot"] = "done" /\ pc'["boot"] = "done"
      BY <1>1, <1>4, PlaceNames DEF Turns
    <2>2. ASSUME NEW r \in Resolvers, pc'[r] # "off"
          PROVE  pc'["run"] = "off" /\ phase' # "none"
      <3>1. CASE r = t
        BY <1>1, <3>1, PlaceNames, ThreadAssumption DEF Turns
      <3>2. CASE r # t
        <4>1. pc[r] # "off"
          BY <1>1, <2>2, <3>2, PlaceNames
        <4>2. pc["run"] = "off" /\ phase # "none"
          BY <4>1 DEF Turns
        <4> QED BY <1>1, <4>2, PlaceNames
      <3> QED BY <3>1, <3>2
    <2> QED BY <1>2, <2>1, <2>2 DEF Turns
  <1> QED BY <1>3, <1>4

(* A plain step from one place of a thread to another.                     *)
LEMMA ControlGo ==
    ASSUME TypeOK, TakeTurns, NEW t \in Threads, NEW from, At(t, from),
           from \notin {"off", "done"}, NEW to \in PlacesOf(t) \ {"release"}, Goto(t, to),
           UNCHANGED <<helper, answer, then, up>>, phase # "none" => phase' # "none"
    PROVE  Control'
  <1>1. to \in Places /\ pc' = [pc EXCEPT ![t] = to] /\ helper[t] = "idle"
    BY OwnPlaces DEF Goto, At
  <1>2. \A u \in Threads : pc'[u] = IF u = t THEN to ELSE pc[u]
    BY <1>1 DEF TypeOK, ThreadTypes
  <1>3. AtPlaces'
    BY <1>1, <1>2 DEF TakeTurns, AtPlaces
  <1>4. Turns'
    BY <1>1, TurnsGo DEF At, TakeTurns
  <1> QED BY <1>1, <1>3, <1>4 DEF Control, TypeOK, ThreadTypes

(* A call of a helper, for which the thread waits at one of its calls.     *)
LEMMA ControlCall ==
    ASSUME TypeOK, TakeTurns, NEW t \in Threads, NEW from, At(t, from),
           from \notin {"off", "done"}, NEW to \in CallsOf(t), NEW command \in Commands,
           command = CommandAt(to), Call(t, command, to),
           UNCHANGED <<then, up>>, phase # "none" => phase' # "none"
    PROVE  Control'
  <1>1. /\ to \in PlacesOf(t) \ {"release"} /\ to \in Places /\ pc' = [pc EXCEPT ![t] = to]
        /\ helper' = [helper EXCEPT ![t] = command]
    BY OwnPlaces DEF Goto, Call
  <1>2. \A u \in Threads : /\ pc'[u] = IF u = t THEN to ELSE pc[u]
                           /\ helper'[u] = IF u = t THEN command ELSE helper[u]
    BY <1>1 DEF TypeOK, ThreadTypes
  <1>3. AtPlaces'
    BY <1>1, <1>2 DEF TakeTurns, AtPlaces
  <1>4. Turns'
    BY <1>1, TurnsGo DEF At, TakeTurns
  <1>5. /\ pc' \in [Threads -> Places] /\ helper' \in [Threads -> Commands \cup {"idle"}]
        /\ answer' \in [Threads -> Results]
    BY <1>1, CallTypes DEF TypeOK
  <1> QED BY <1>3, <1>4, <1>5 DEF Control, TypeOK, ThreadTypes

(* A release of the fence, after which the thread goes on where it said.   *)
LEMMA ControlRelease ==
    ASSUME TypeOK, TakeTurns, NEW t \in Threads, NEW from, At(t, from),
           from \notin {"off", "done"}, NEW to \in ReturnsOf(t), releaseFence(t, to),
           UNCHANGED <<helper, answer, up>>, phase # "none" => phase' # "none"
    PROVE  Control'
  <1>1. to \in PlacesOf(t) \ {"release"} /\ to \in Places /\ helper[t] = "idle"
    BY OwnPlaces DEF At
  <1>2. PICK next \in {to, "release"} : pc' = [pc EXCEPT ![t] = next]
    BY DEF releaseFence, Goto
  <1>3. \A u \in Threads : /\ pc'[u] = IF u = t THEN next ELSE pc[u]
                           /\ then'[u] = IF u = t THEN to ELSE then[u]
    BY <1>2 DEF TypeOK, ThreadTypes, releaseFence
  <1>4. AtPlaces'
    BY <1>1, <1>2, <1>3, OwnPlaces DEF TakeTurns, AtPlaces
  <1>5. Turns'
    BY <1>2, TurnsGo DEF At, TakeTurns
  <1>6. pc' \in [Threads -> Places] /\ then' \in [Threads -> Places]
    BY <1>1, ReleaseTypes
  <1> QED BY <1>4, <1>5, <1>6 DEF Control, TypeOK, ThreadTypes

(* Nothing moves a thread.                                                 *)
LEMMA ControlStays ==
    ASSUME TypeOK, TakeTurns, UNCHANGED <<pc, then, helper, answer, up, phase>>
    PROVE  Control'
  BY DEF Control, TypeOK, ThreadTypes, TakeTurns, AtPlaces, Turns

(* A thread that forgets its locals ends its work.                         *)
LEMMA ControlForget ==
    ASSUME TypeOK, TakeTurns, NEW t \in Threads, NEW from, At(t, from),
           from \notin {"off", "done"}, NEW to \in PlacesOf(t) \ {"release"}, Goto(t, to),
           Forget(t), UNCHANGED <<up, phase>>
    PROVE  Control'
  <1>1. to \in Places /\ pc' = [pc EXCEPT ![t] = to] /\ helper[t] = "idle"
    BY OwnPlaces DEF Goto, At
  <1>2. /\ \A u \in Threads : pc'[u] = IF u = t THEN to ELSE pc[u]
        /\ \A u \in Threads \ {t} : then'[u] = then[u]
        /\ UNCHANGED helper
    BY <1>1 DEF TypeOK, ThreadTypes, Forget
  <1>3. AtPlaces'
    BY <1>1, <1>2 DEF TakeTurns, AtPlaces
  <1>4. Turns'
    BY <1>1, TurnsGo DEF At, TakeTurns
  <1>5. then' \in [Threads -> Places] /\ helper' = helper /\ answer' \in [Threads -> Results]
    BY ForgetTypes DEF TypeOK
  <1> QED BY <1>1, <1>3, <1>4, <1>5 DEF Control, TypeOK, ThreadTypes

(* A request or the pipeline begins: the boot sequence is done, and either *)
(* no request is open or the pipeline is not.                              *)
LEMMA TurnsStart ==
    ASSUME TypeOK, TakeTurns, NEW t \in Threads \ {"boot"}, At(t, "off"), pc["boot"] = "done",
           NEW to, pc' = [pc EXCEPT ![t] = to], UNCHANGED <<up, phase>>,
           t # "run" => pc["run"] = "off" /\ phase # "none",
           t = "run" => \A r \in Resolvers : pc[r] = "off"
    PROVE  Turns'
  <1>1. \A u \in Threads : pc'[u] = IF u = t THEN to ELSE pc[u]
    BY DEF TypeOK, ThreadTypes
  <1>2. up' /\ pc'["boot"] = "done"
    BY <1>1, PlaceNames DEF At
  <1>3. ASSUME NEW r \in Resolvers, pc'[r] # "off"
        PROVE  pc'["run"] = "off" /\ phase' # "none"
    <2>1. r \in Threads /\ r # "run" /\ "run" \in Threads
      BY PlaceNames, ThreadAssumption
    <2>2. CASE t = "run"
      BY <1>1, <1>3, <2>1, <2>2
    <2>3. CASE t # "run"
      BY <1>1, <2>1, <2>3
    <2> QED BY <2>2, <2>3
  <1> QED BY <1>2, <1>3 DEF Turns

(* It begins with a plain step,                                            *)
LEMMA ControlStart ==
    ASSUME TypeOK, TakeTurns, NEW t \in Threads \ {"boot"}, At(t, "off"), pc["boot"] = "done",
           NEW to \in PlacesOf(t) \ {"release"}, Goto(t, to),
           UNCHANGED <<helper, answer, then, up, phase>>,
           t # "run" => pc["run"] = "off" /\ phase # "none",
           t = "run" => \A r \in Resolvers : pc[r] = "off"
    PROVE  Control'
  <1>1. to \in Places /\ pc' = [pc EXCEPT ![t] = to] /\ helper[t] = "idle"
    BY OwnPlaces DEF Goto, At
  <1>2. \A u \in Threads : pc'[u] = IF u = t THEN to ELSE pc[u]
    BY <1>1 DEF TypeOK, ThreadTypes
  <1>3. AtPlaces'
    BY <1>1, <1>2 DEF TakeTurns, AtPlaces
  <1>4. Turns'
    BY <1>1, TurnsStart
  <1> QED BY <1>1, <1>3, <1>4 DEF Control, TypeOK, ThreadTypes

(* or with a release of the fence.                                         *)
LEMMA ControlRequest ==
    ASSUME TypeOK, TakeTurns, NEW t \in Resolvers, At(t, "off"), pc["boot"] = "done",
           pc["run"] = "off", phase # "none", NEW to \in ReturnsOf(t), releaseFence(t, to),
           UNCHANGED <<helper, answer, up, phase>>
    PROVE  Control'
  <1>1. /\ t \in Threads \ {"boot"} /\ t # "run"
        /\ to \in PlacesOf(t) \ {"release"} /\ to \in Places /\ helper[t] = "idle"
    BY OwnPlaces, PlaceNames, ThreadAssumption DEF At
  <1>2. PICK next \in {to, "release"} : pc' = [pc EXCEPT ![t] = next]
    BY DEF releaseFence, Goto
  <1>3. \A u \in Threads : /\ pc'[u] = IF u = t THEN next ELSE pc[u]
                           /\ then'[u] = IF u = t THEN to ELSE then[u]
    BY <1>1, <1>2 DEF TypeOK, ThreadTypes, releaseFence
  <1>4. AtPlaces'
    BY <1>1, <1>2, <1>3, OwnPlaces DEF TakeTurns, AtPlaces
  <1>5. Turns'
    BY <1>1, <1>2, TurnsStart
  <1>6. pc' \in [Threads -> Places] /\ then' \in [Threads -> Places]
    BY <1>1, ReleaseTypes
  <1> QED BY <1>4, <1>5, <1>6 DEF Control, TypeOK, ThreadTypes

(* The places of the pipeline,                                             *)
LEMMA RunNames ==
    {"off", "admit", "materialize", "recheck_swap", "commit", "rollback", "rollback_staging",
     "return", "stage", "create", "copy", "unstage", "remove", "recheck", "drain", "observe",
     "fence", "protect", "begin", "capture", "materialized", "prepared", "committed",
     "confirm", "confirm_reported", "recommitted", "confirm_last", "cleaned",
     "rollback_done", "commit_settle", "rollback_settle"} \subseteq PlacesOf("run") \ {"release"}
  BY DEF PlacesOf, RunPlaces, BeforeCopy, BeforeFence, RunCalls, RunSettles

(* of a reconciliation, of the boot sequence and of a resolve request.     *)
LEMMA ReconcileNames ==
    /\ \A t \in Reconcilers :
          {"off", "reconcile", "unstage", "forward", "read", "undone", "decide", "finish",
           "forwarded", "settle_committed", "settle_rolled_back", "settle_forward",
           "clear"} \subseteq PlacesOf(t) \ {"release"}
    /\ {"helpers", "failed", "fences", "settle", "done"} \subseteq PlacesOf("boot") \ {"release"}
    /\ \A t \in Resolvers :
          {"answer", "accept_released", "accept_status", "accept_cleaned"}
          \subseteq PlacesOf(t) \ {"release"}
    /\ \A t \in Reconcilers : t = "boot" \/ t \in Resolvers
    /\ "boot" \in Reconcilers /\ Resolvers \subseteq Reconcilers
  <1>1. /\ \A t \in Reconcilers : t = "boot" \/ t \in Resolvers
        /\ "boot" \in Reconcilers /\ Resolvers \subseteq Reconcilers
        /\ \A t \in Reconcilers : PlacesOf(t) \in {BootPlaces, ResolvePlaces}
        /\ \A t \in Resolvers : PlacesOf(t) = ResolvePlaces
        /\ PlacesOf("boot") = BootPlaces
    BY ThreadAssumption DEF Reconcilers, PlacesOf
  <1>2. \A P \in {BootPlaces, ResolvePlaces} :
          {"off", "reconcile", "unstage", "forward", "read", "undone", "decide", "finish",
           "forwarded", "settle_committed", "settle_rolled_back", "settle_forward",
           "clear"} \subseteq P \ {"release"}
    BY DEF BootPlaces, ResolvePlaces, ReconcilePlaces, ReconcileCalls, ReconcileSettles
  <1>3. {"helpers", "failed", "fences", "settle", "done"} \subseteq BootPlaces \ {"release"}
    BY DEF BootPlaces
  <1>4. {"answer", "accept_released", "accept_status", "accept_cleaned"}
           \subseteq ResolvePlaces \ {"release"}
    BY DEF ResolvePlaces, AcceptCalls
  <1> QED BY <1>1, <1>2, <1>3, <1>4

(* Every step leaves the threads at places of their own, and in turn.      *)
LEMMA ControlStep ==
    ASSUME TypeOK, TakeTurns, [Next]_vars
    PROVE  Control'
  <1>1. CASE prepareOverwriteAdmission
    <2>1. /\ At("run", "off") /\ pc["boot"] = "done" /\ phase = "none"
          /\ UNCHANGED <<helper, answer, then, up, phase>> /\ Goto("run", "admit")
      BY <1>1 DEF prepareOverwriteAdmission
    <2>2. \A r \in Resolvers : pc[r] = "off"
      BY <2>1 DEF TakeTurns, Turns
    <2> QED BY <2>1, <2>2, RunNames, PlaceNames, ControlStart
  <1>2. CASE admitOverwrite
    <2>1. At("run", "admit") /\ UNCHANGED up
      BY <1>2 DEF admitOverwrite
    <2>2. phase # "none" => phase' # "none"
      BY <1>2 DEF admitOverwrite
    <2>3. (\E next \in {"stage", "off"} : Goto("run", next))
             /\ UNCHANGED <<helper, answer, then>>
      BY <1>2 DEF admitOverwrite
    <2>4. ASSUME NEW next \in {"stage", "off"}, Goto("run", next),
                 UNCHANGED <<helper, answer, then>>
          PROVE  Control'
      <3>1. next \in PlacesOf("run") \ {"release"} /\ "run" \in Threads
        BY <2>4, RunNames, PlaceNames
      <3> QED BY <2>1, <2>2, <2>4, <3>1, ControlGo
    <2> QED BY <2>3, <2>4
  <1>3. CASE stagePoint
    <2>1. At("run", "stage") /\ UNCHANGED up
      BY <1>3 DEF stagePoint
    <2>2. phase # "none" => phase' # "none"
      BY <1>3 DEF stagePoint, advance, update
    <2>3. (\E next \in {"create"} : Goto("run", next))
             /\ UNCHANGED <<helper, answer, then>>
      BY <1>3 DEF stagePoint
    <2>4. ASSUME NEW next \in {"create"}, Goto("run", next),
                 UNCHANGED <<helper, answer, then>>
          PROVE  Control'
      <3>1. next \in PlacesOf("run") \ {"release"} /\ "run" \in Threads
        BY <2>4, RunNames, PlaceNames
      <3> QED BY <2>1, <2>2, <2>4, <3>1, ControlGo
    <2> QED BY <2>3, <2>4
  <1>4. CASE createLabelledVolume
    <2>1. At("run", "create") /\ UNCHANGED up
      BY <1>4 DEF createLabelledVolume
    <2>2. phase # "none" => phase' # "none"
      BY <1>4 DEF createLabelledVolume
    <2>3. (\E next \in {"copy", "unstage", "rollback"} : Goto("run", next))
             /\ UNCHANGED <<helper, answer, then>>
      BY <1>4 DEF createLabelledVolume, settleRollback
    <2>4. ASSUME NEW next \in {"copy", "unstage", "rollback"}, Goto("run", next),
                 UNCHANGED <<helper, answer, then>>
          PROVE  Control'
      <3>1. next \in PlacesOf("run") \ {"release"} /\ "run" \in Threads
        BY <2>4, RunNames, PlaceNames
      <3> QED BY <2>1, <2>2, <2>4, <3>1, ControlGo
    <2> QED BY <2>3, <2>4
  <1>5. CASE RestoreStaging
    <2>1. At("run", "copy") /\ UNCHANGED up
      BY <1>5 DEF RestoreStaging
    <2>2. phase # "none" => phase' # "none"
      BY <1>5 DEF RestoreStaging, advance, update
    <2>3. (\E next \in {"remove", "unstage"} : Goto("run", next))
             /\ UNCHANGED <<helper, answer, then>>
      BY <1>5 DEF RestoreStaging
    <2>4. ASSUME NEW next \in {"remove", "unstage"}, Goto("run", next),
                 UNCHANGED <<helper, answer, then>>
          PROVE  Control'
      <3>1. next \in PlacesOf("run") \ {"release"} /\ "run" \in Threads
        BY <2>4, RunNames, PlaceNames
      <3> QED BY <2>1, <2>2, <2>4, <3>1, ControlGo
    <2> QED BY <2>3, <2>4
  <1>6. CASE Unstage
    <2>1. At("run", "unstage") /\ UNCHANGED up
      BY <1>6 DEF Unstage
    <2>2. phase # "none" => phase' # "none"
      BY <1>6 DEF Unstage, advance, update
    <2>3. (\E next \in {"return"} : Goto("run", next))
             /\ UNCHANGED <<helper, answer, then>>
      BY <1>6 DEF Unstage, Finish
    <2>4. ASSUME NEW next \in {"return"}, Goto("run", next),
                 UNCHANGED <<helper, answer, then>>
          PROVE  Control'
      <3>1. next \in PlacesOf("run") \ {"release"} /\ "run" \in Threads
        BY <2>4, RunNames, PlaceNames
      <3> QED BY <2>1, <2>2, <2>4, <3>1, ControlGo
    <2> QED BY <2>3, <2>4
  <1>7. CASE removeStaging
    <2>1. At("run", "remove") /\ UNCHANGED up
      BY <1>7 DEF removeStaging
    <2>2. phase # "none" => phase' # "none"
      BY <1>7 DEF removeStaging, advance, update
    <2>3. (\E next \in {"recheck", "return"} : Goto("run", next))
             /\ UNCHANGED <<helper, answer, then>>
      BY <1>7 DEF removeStaging, Finish
    <2>4. ASSUME NEW next \in {"recheck", "return"}, Goto("run", next),
                 UNCHANGED <<helper, answer, then>>
          PROVE  Control'
      <3>1. next \in PlacesOf("run") \ {"release"} /\ "run" \in Threads
        BY <2>4, RunNames, PlaceNames
      <3> QED BY <2>1, <2>2, <2>4, <3>1, ControlGo
    <2> QED BY <2>3, <2>4
  <1>8. CASE fenceWorkloads
    <2>1. At("run", "recheck") /\ UNCHANGED up
      BY <1>8 DEF fenceWorkloads
    <2>2. phase # "none" => phase' # "none"
      BY <1>8 DEF fenceWorkloads, advance, update
    <2>3. (\E next \in {"drain", "rollback", "return"} : Goto("run", next))
             /\ UNCHANGED <<helper, answer, then>>
      BY <1>8 DEF fenceWorkloads, settleRollback, Finish
    <2>4. ASSUME NEW next \in {"drain", "rollback", "return"}, Goto("run", next),
                 UNCHANGED <<helper, answer, then>>
          PROVE  Control'
      <3>1. next \in PlacesOf("run") \ {"release"} /\ "run" \in Threads
        BY <2>4, RunNames, PlaceNames
      <3> QED BY <2>1, <2>2, <2>4, <3>1, ControlGo
    <2> QED BY <2>3, <2>4
  <1>9. CASE waitForStartsInFlight
    <2>1. At("run", "drain") /\ UNCHANGED up
      BY <1>9 DEF waitForStartsInFlight
    <2>2. phase # "none" => phase' # "none"
      BY <1>9 DEF waitForStartsInFlight
    <2>3. (\E next \in {"observe", "rollback"} : Goto("run", next))
             /\ UNCHANGED <<helper, answer, then>>
      BY <1>9 DEF waitForStartsInFlight, settleRollback
    <2>4. ASSUME NEW next \in {"observe", "rollback"}, Goto("run", next),
                 UNCHANGED <<helper, answer, then>>
          PROVE  Control'
      <3>1. next \in PlacesOf("run") \ {"release"} /\ "run" \in Threads
        BY <2>4, RunNames, PlaceNames
      <3> QED BY <2>1, <2>2, <2>4, <3>1, ControlGo
    <2> QED BY <2>3, <2>4
  <1>10. CASE recordMembers
    <2>1. At("run", "observe") /\ UNCHANGED up
      BY <1>10 DEF recordMembers
    <2>2. phase # "none" => phase' # "none"
      BY <1>10 DEF recordMembers
    <2>3. (\E next \in {"fence", "rollback", "return"} : Goto("run", next))
             /\ UNCHANGED <<helper, answer, then>>
      BY <1>10 DEF recordMembers, settleRollback, Finish
    <2>4. ASSUME NEW next \in {"fence", "rollback", "return"}, Goto("run", next),
                 UNCHANGED <<helper, answer, then>>
          PROVE  Control'
      <3>1. next \in PlacesOf("run") \ {"release"} /\ "run" \in Threads
        BY <2>4, RunNames, PlaceNames
      <3> QED BY <2>1, <2>2, <2>4, <3>1, ControlGo
    <2> QED BY <2>3, <2>4
  <1>11. ASSUME NEW c \in Containers, Pin(c) PROVE Control'
    BY <1>11, ControlStays DEF Pin
  <1>12. ASSUME NEW c \in Containers, Stop(c) PROVE Control'
    BY <1>12, ControlStays DEF Stop
  <1>13. CASE FenceEnd
    <2>1. At("run", "fence") /\ UNCHANGED up
      BY <1>13 DEF FenceEnd
    <2>2. phase # "none" => phase' # "none"
      BY <1>13 DEF FenceEnd, advance, update
    <2>3. (\E next \in {"protect", "rollback"} : Goto("run", next))
             /\ UNCHANGED <<helper, answer, then>>
      BY <1>13 DEF FenceEnd, settleRollback
    <2>4. ASSUME NEW next \in {"protect", "rollback"}, Goto("run", next),
                 UNCHANGED <<helper, answer, then>>
          PROVE  Control'
      <3>1. next \in PlacesOf("run") \ {"release"} /\ "run" \in Threads
        BY <2>4, RunNames, PlaceNames
      <3> QED BY <2>1, <2>2, <2>4, <3>1, ControlGo
    <2> QED BY <2>3, <2>4
  <1>14. CASE RecheckBeforePoint
    <2>1. At("run", "protect") /\ UNCHANGED up
      BY <1>14 DEF RecheckBeforePoint
    <2>2. phase # "none" => phase' # "none"
      BY <1>14 DEF RecheckBeforePoint
    <2>3. (\E next \in {"begin", "rollback"} : Goto("run", next))
             /\ UNCHANGED <<helper, answer, then>>
      BY <1>14 DEF RecheckBeforePoint, settleRollback
    <2>4. ASSUME NEW next \in {"begin", "rollback"}, Goto("run", next),
                 UNCHANGED <<helper, answer, then>>
          PROVE  Control'
      <3>1. next \in PlacesOf("run") \ {"release"} /\ "run" \in Threads
        BY <2>4, RunNames, PlaceNames
      <3> QED BY <2>1, <2>2, <2>4, <3>1, ControlGo
    <2> QED BY <2>3, <2>4
  <1>15. CASE BeginPoint
    <2>1. At("run", "begin") /\ UNCHANGED up
      BY <1>15 DEF BeginPoint
    <2>2. phase # "none" => phase' # "none"
      BY <1>15 DEF BeginPoint
    <2>3. (\E next \in {"capture", "rollback"} : Goto("run", next))
             /\ UNCHANGED <<helper, answer, then>>
      BY <1>15 DEF BeginPoint, settleRollback
    <2>4. ASSUME NEW next \in {"capture", "rollback"}, Goto("run", next),
                 UNCHANGED <<helper, answer, then>>
          PROVE  Control'
      <3>1. next \in PlacesOf("run") \ {"release"} /\ "run" \in Threads
        BY <2>4, RunNames, PlaceNames
      <3> QED BY <2>1, <2>2, <2>4, <3>1, ControlGo
    <2> QED BY <2>3, <2>4
  <1>16. CASE takePreRestorePoint
    <2>1. At("run", "capture") /\ UNCHANGED up
      BY <1>16 DEF takePreRestorePoint
    <2>2. phase # "none" => phase' # "none"
      BY <1>16 DEF takePreRestorePoint
    <2>3. (\E next \in {"materialize", "rollback"} : Goto("run", next))
             /\ UNCHANGED <<helper, answer, then>>
      BY <1>16 DEF takePreRestorePoint, settleRollback
    <2>4. ASSUME NEW next \in {"materialize", "rollback"}, Goto("run", next),
                 UNCHANGED <<helper, answer, then>>
          PROVE  Control'
      <3>1. next \in PlacesOf("run") \ {"release"} /\ "run" \in Threads
        BY <2>4, RunNames, PlaceNames
      <3> QED BY <2>1, <2>2, <2>4, <3>1, ControlGo
    <2> QED BY <2>3, <2>4
  <1>17. CASE materializePoint
    <2>1. At("run", "materialize") /\ UNCHANGED up
      BY <1>17 DEF materializePoint
    <2>2. phase # "none" => phase' # "none"
      BY <1>17 DEF materializePoint, advance, update
    <2>3. Call("run", "restore", "materialized") /\ UNCHANGED then
      BY <1>17 DEF materializePoint
    <2>4. CASE Call("run", "restore", "materialized") /\ UNCHANGED then
      <3>1. /\ "materialized" \in CallsOf("run") /\ "restore" \in Commands
            /\ "restore" = CommandAt("materialized") /\ "run" \in Threads
        BY PlaceNames DEF CallsOf, RunCalls, ReconcileCalls, AcceptCalls, Commands,
          CommandAt, Reconcilers
      <3> QED BY <2>1, <2>2, <2>4, <3>1, ControlCall
    <2> QED BY <2>3, <2>4
  <1>18. CASE Materialized
    <2>1. At("run", "materialized") /\ UNCHANGED up
      BY <1>18 DEF Materialized
    <2>2. phase # "none" => phase' # "none"
      BY <1>18 DEF Materialized
    <2>3. \/ Call("run", "prepare", "prepared") /\ UNCHANGED then
          \/ (\E next \in {"rollback"} : Goto("run", next))
                /\ UNCHANGED <<helper, answer, then>>
      BY <1>18 DEF Materialized, settleRollback
    <2>4. CASE Call("run", "prepare", "prepared") /\ UNCHANGED then
      <3>1. /\ "prepared" \in CallsOf("run") /\ "prepare" \in Commands
            /\ "prepare" = CommandAt("prepared") /\ "run" \in Threads
        BY PlaceNames DEF CallsOf, RunCalls, ReconcileCalls, AcceptCalls, Commands,
          CommandAt, Reconcilers
      <3> QED BY <2>1, <2>2, <2>4, <3>1, ControlCall
    <2>5. ASSUME NEW next \in {"rollback"}, Goto("run", next),
                 UNCHANGED <<helper, answer, then>>
          PROVE  Control'
      <3>1. next \in PlacesOf("run") \ {"release"} /\ "run" \in Threads
        BY <2>5, RunNames, PlaceNames
      <3> QED BY <2>1, <2>2, <2>5, <3>1, ControlGo
    <2> QED BY <2>3, <2>4, <2>5
  <1>19. CASE Prepared
    <2>1. At("run", "prepared") /\ UNCHANGED up
      BY <1>19 DEF Prepared
    <2>2. phase # "none" => phase' # "none"
      BY <1>19 DEF Prepared, advance, update
    <2>3. (\E next \in {"recheck_swap", "rollback"} : Goto("run", next))
             /\ UNCHANGED <<helper, answer, then>>
      BY <1>19 DEF Prepared, settleRollback
    <2>4. ASSUME NEW next \in {"recheck_swap", "rollback"}, Goto("run", next),
                 UNCHANGED <<helper, answer, then>>
          PROVE  Control'
      <3>1. next \in PlacesOf("run") \ {"release"} /\ "run" \in Threads
        BY <2>4, RunNames, PlaceNames
      <3> QED BY <2>1, <2>2, <2>4, <3>1, ControlGo
    <2> QED BY <2>3, <2>4
  <1>20. CASE RecheckBeforeSwap
    <2>1. At("run", "recheck_swap") /\ UNCHANGED up
      BY <1>20 DEF RecheckBeforeSwap
    <2>2. phase # "none" => phase' # "none"
      BY <1>20 DEF RecheckBeforeSwap
    <2>3. (\E next \in {"commit", "rollback"} : Goto("run", next))
             /\ UNCHANGED <<helper, answer, then>>
      BY <1>20 DEF RecheckBeforeSwap, settleRollback
    <2>4. ASSUME NEW next \in {"commit", "rollback"}, Goto("run", next),
                 UNCHANGED <<helper, answer, then>>
          PROVE  Control'
      <3>1. next \in PlacesOf("run") \ {"release"} /\ "run" \in Threads
        BY <2>4, RunNames, PlaceNames
      <3> QED BY <2>1, <2>2, <2>4, <3>1, ControlGo
    <2> QED BY <2>3, <2>4
  <1>21. CASE Commit
    <2>1. UNCHANGED up /\ \E from \in {"commit", "committed", "recommitted"} :
             At("run", from)
      BY <1>21 DEF Commit
    <2>2. phase # "none" => phase' # "none"
      BY <1>21 DEF Commit
    <2>3. \/ Call("run", "commit", "committed") /\ UNCHANGED then
          \/ Call("run", "status", "confirm_reported") /\ UNCHANGED then
          \/ Call("run", "status", "confirm") /\ UNCHANGED then
          \/ Call("run", "status", "confirm_last") /\ UNCHANGED then
      BY <1>21 DEF Commit
    <2>4. CASE Call("run", "commit", "committed") /\ UNCHANGED then
      <3>1. /\ "committed" \in CallsOf("run") /\ "commit" \in Commands
            /\ "commit" = CommandAt("committed") /\ "run" \in Threads
        BY PlaceNames DEF CallsOf, RunCalls, ReconcileCalls, AcceptCalls, Commands,
          CommandAt, Reconcilers
      <3> QED BY <2>1, <2>2, <2>4, <3>1, ControlCall
    <2>5. CASE Call("run", "status", "confirm_reported") /\ UNCHANGED then
      <3>1. /\ "confirm_reported" \in CallsOf("run") /\ "status" \in Commands
            /\ "status" = CommandAt("confirm_reported") /\ "run" \in Threads
        BY PlaceNames DEF CallsOf, RunCalls, ReconcileCalls, AcceptCalls, Commands,
          CommandAt, Reconcilers
      <3> QED BY <2>1, <2>2, <2>5, <3>1, ControlCall
    <2>6. CASE Call("run", "status", "confirm") /\ UNCHANGED then
      <3>1. /\ "confirm" \in CallsOf("run") /\ "status" \in Commands
            /\ "status" = CommandAt("confirm") /\ "run" \in Threads
        BY PlaceNames DEF CallsOf, RunCalls, ReconcileCalls, AcceptCalls, Commands,
          CommandAt, Reconcilers
      <3> QED BY <2>1, <2>2, <2>6, <3>1, ControlCall
    <2>7. CASE Call("run", "status", "confirm_last") /\ UNCHANGED then
      <3>1. /\ "confirm_last" \in CallsOf("run") /\ "status" \in Commands
            /\ "status" = CommandAt("confirm_last") /\ "run" \in Threads
        BY PlaceNames DEF CallsOf, RunCalls, ReconcileCalls, AcceptCalls, Commands,
          CommandAt, Reconcilers
      <3> QED BY <2>1, <2>2, <2>7, <3>1, ControlCall
    <2> QED BY <2>3, <2>4, <2>5, <2>6, <2>7
  <1>22. CASE swapAndCleanup
    <2>1. UNCHANGED up /\ \E from \in {"confirm", "confirm_reported", "confirm_last"} :
             At("run", from)
      BY <1>22 DEF swapAndCleanup
    <2>2. phase # "none" => phase' # "none"
      BY <1>22 DEF swapAndCleanup, advance, update
    <2>3. \/ Call("run", "cleanup", "cleaned") /\ UNCHANGED then
          \/ Call("run", "commit", "recommitted") /\ UNCHANGED then
          \/ (\E next \in {"return", "rollback"} : Goto("run", next))
                /\ UNCHANGED <<helper, answer, then>>
      BY <1>22 DEF swapAndCleanup, Finish, settleRollback
    <2>4. CASE Call("run", "cleanup", "cleaned") /\ UNCHANGED then
      <3>1. /\ "cleaned" \in CallsOf("run") /\ "cleanup" \in Commands
            /\ "cleanup" = CommandAt("cleaned") /\ "run" \in Threads
        BY PlaceNames DEF CallsOf, RunCalls, ReconcileCalls, AcceptCalls, Commands,
          CommandAt, Reconcilers
      <3> QED BY <2>1, <2>2, <2>4, <3>1, ControlCall
    <2>5. CASE Call("run", "commit", "recommitted") /\ UNCHANGED then
      <3>1. /\ "recommitted" \in CallsOf("run") /\ "commit" \in Commands
            /\ "commit" = CommandAt("recommitted") /\ "run" \in Threads
        BY PlaceNames DEF CallsOf, RunCalls, ReconcileCalls, AcceptCalls, Commands,
          CommandAt, Reconcilers
      <3> QED BY <2>1, <2>2, <2>5, <3>1, ControlCall
    <2>6. ASSUME NEW next \in {"return", "rollback"}, Goto("run", next),
                 UNCHANGED <<helper, answer, then>>
          PROVE  Control'
      <3>1. next \in PlacesOf("run") \ {"release"} /\ "run" \in Threads
        BY <2>6, RunNames, PlaceNames
      <3> QED BY <2>1, <2>2, <2>6, <3>1, ControlGo
    <2> QED BY <2>3, <2>4, <2>5, <2>6
  <1>23. CASE releaseAfterCommit
    <2>1. At("run", "cleaned") /\ UNCHANGED up
      BY <1>23 DEF releaseAfterCommit
    <2>2. phase # "none" => phase' # "none"
      BY <1>23 DEF releaseAfterCommit, advance, update
    <2>3. \/ releaseFence("run", "commit_settle") /\ UNCHANGED <<helper, answer>>
          \/ (\E next \in {"return"} : Goto("run", next))
                /\ UNCHANGED <<helper, answer, then>>
      BY <1>23 DEF releaseAfterCommit, Finish
    <2>4. CASE releaseFence("run", "commit_settle") /\ UNCHANGED <<helper, answer>>
      <3>1. "commit_settle" \in ReturnsOf("run") /\ "run" \in Threads
        BY PlaceNames DEF ReturnsOf, RunSettles, ReconcileSettles, Reconcilers
      <3> QED BY <2>1, <2>2, <2>4, <3>1, ControlRelease
    <2>5. ASSUME NEW next \in {"return"}, Goto("run", next),
                 UNCHANGED <<helper, answer, then>>
          PROVE  Control'
      <3>1. next \in PlacesOf("run") \ {"release"} /\ "run" \in Threads
        BY <2>5, RunNames, PlaceNames
      <3> QED BY <2>1, <2>2, <2>5, <3>1, ControlGo
    <2> QED BY <2>3, <2>4, <2>5
  <1>24. CASE CommitSettle
    <2>1. At("run", "commit_settle") /\ UNCHANGED up
      BY <1>24 DEF CommitSettle
    <2>2. phase # "none" => phase' # "none"
      BY <1>24 DEF CommitSettle, advance, update
    <2>3. (\E next \in {"return"} : Goto("run", next))
             /\ UNCHANGED <<helper, answer, then>>
      BY <1>24 DEF CommitSettle, Finish
    <2>4. ASSUME NEW next \in {"return"}, Goto("run", next),
                 UNCHANGED <<helper, answer, then>>
          PROVE  Control'
      <3>1. next \in PlacesOf("run") \ {"release"} /\ "run" \in Threads
        BY <2>4, RunNames, PlaceNames
      <3> QED BY <2>1, <2>2, <2>4, <3>1, ControlGo
    <2> QED BY <2>3, <2>4
  <1>25. CASE RollbackBegin
    <2>1. At("run", "rollback") /\ UNCHANGED up
      BY <1>25 DEF RollbackBegin
    <2>2. phase # "none" => phase' # "none"
      BY <1>25 DEF RollbackBegin
    <2>3. \/ Call("run", "rollback", "rollback_done") /\ UNCHANGED then
          \/ (\E next \in {"rollback_staging"} : Goto("run", next))
                /\ UNCHANGED <<helper, answer, then>>
      BY <1>25 DEF RollbackBegin
    <2>4. CASE Call("run", "rollback", "rollback_done") /\ UNCHANGED then
      <3>1. /\ "rollback_done" \in CallsOf("run") /\ "rollback" \in Commands
            /\ "rollback" = CommandAt("rollback_done") /\ "run" \in Threads
        BY PlaceNames DEF CallsOf, RunCalls, ReconcileCalls, AcceptCalls, Commands,
          CommandAt, Reconcilers
      <3> QED BY <2>1, <2>2, <2>4, <3>1, ControlCall
    <2>5. ASSUME NEW next \in {"rollback_staging"}, Goto("run", next),
                 UNCHANGED <<helper, answer, then>>
          PROVE  Control'
      <3>1. next \in PlacesOf("run") \ {"release"} /\ "run" \in Threads
        BY <2>5, RunNames, PlaceNames
      <3> QED BY <2>1, <2>2, <2>5, <3>1, ControlGo
    <2> QED BY <2>3, <2>4, <2>5
  <1>26. CASE RollbackDone
    <2>1. At("run", "rollback_done") /\ UNCHANGED up
      BY <1>26 DEF RollbackDone
    <2>2. phase # "none" => phase' # "none"
      BY <1>26 DEF RollbackDone, advance, update
    <2>3. (\E next \in {"rollback_staging", "return"} : Goto("run", next))
             /\ UNCHANGED <<helper, answer, then>>
      BY <1>26 DEF RollbackDone, Finish
    <2>4. ASSUME NEW next \in {"rollback_staging", "return"}, Goto("run", next),
                 UNCHANGED <<helper, answer, then>>
          PROVE  Control'
      <3>1. next \in PlacesOf("run") \ {"release"} /\ "run" \in Threads
        BY <2>4, RunNames, PlaceNames
      <3> QED BY <2>1, <2>2, <2>4, <3>1, ControlGo
    <2> QED BY <2>3, <2>4
  <1>27. CASE RollbackStaging
    <2>1. At("run", "rollback_staging") /\ UNCHANGED up
      BY <1>27 DEF RollbackStaging
    <2>2. phase # "none" => phase' # "none"
      BY <1>27 DEF RollbackStaging
    <2>3. releaseFence("run", "rollback_settle") /\ UNCHANGED <<helper, answer>>
      BY <1>27 DEF RollbackStaging
    <2>4. CASE releaseFence("run", "rollback_settle") /\ UNCHANGED <<helper, answer>>
      <3>1. "rollback_settle" \in ReturnsOf("run") /\ "run" \in Threads
        BY PlaceNames DEF ReturnsOf, RunSettles, ReconcileSettles, Reconcilers
      <3> QED BY <2>1, <2>2, <2>4, <3>1, ControlRelease
    <2> QED BY <2>3, <2>4
  <1>28. CASE rollbackIntent
    <2>1. At("run", "rollback_settle") /\ UNCHANGED up
      BY <1>28 DEF rollbackIntent
    <2>2. phase # "none" => phase' # "none"
      BY <1>28 DEF rollbackIntent, advance, update
    <2>3. (\E next \in {"return"} : Goto("run", next))
             /\ UNCHANGED <<helper, answer, then>>
      BY <1>28 DEF rollbackIntent, Finish
    <2>4. ASSUME NEW next \in {"return"}, Goto("run", next),
                 UNCHANGED <<helper, answer, then>>
          PROVE  Control'
      <3>1. next \in PlacesOf("run") \ {"release"} /\ "run" \in Threads
        BY <2>4, RunNames, PlaceNames
      <3> QED BY <2>1, <2>2, <2>4, <3>1, ControlGo
    <2> QED BY <2>3, <2>4
  <1>29. CASE releaseStacks
    <2>1. /\ At("run", "return") /\ Goto("run", "off") /\ Forget("run")
                /\ UNCHANGED <<up, phase>>
      BY <1>29 DEF releaseStacks
    <2>2. "off" \in PlacesOf("run") \ {"release"} /\ "run" \in Threads
      BY RunNames, PlaceNames
    <2> QED BY <2>1, <2>2, ControlForget
  <1>30. CASE Boot
    <2>1. /\ ~up /\ up' /\ phase' = phase /\ pc' = [pc EXCEPT !["boot"] = "helpers"]
          /\ UNCHANGED <<helper, answer, then>>
      BY <1>30 DEF Boot, Goto
    <2>2. \A t \in Threads :
             pc[t] = "off" /\ pc'[t] = IF t = "boot" THEN "helpers" ELSE "off"
      BY <2>1 DEF TypeOK, ThreadTypes, TakeTurns, Turns
    <2>3. Turns'
      BY <2>1, <2>2, PlaceNames, ThreadAssumption DEF Turns
    <2>4. "helpers" \in PlacesOf("boot") /\ "helpers" \in Places
      BY ReconcileNames, PlaceNames
    <2>5. \A t \in Threads : helper[t] = "idle"
      <3> SUFFICES ASSUME NEW t \in Threads, helper[t] # "idle" PROVE FALSE
        OBVIOUS
      <3>1. "off" \in CallsOf(t)
        BY <2>2 DEF TakeTurns, AtPlaces
      <3> QED BY <3>1 DEF CallsOf, RunCalls, ReconcileCalls, AcceptCalls
    <2>6. AtPlaces'
      <3> SUFFICES ASSUME NEW t \in Threads
                   PROVE  pc'[t] \in PlacesOf(t) /\ pc'[t] # "release" /\ helper'[t] = "idle"
        BY DEF AtPlaces
      <3>1. pc[t] \in PlacesOf(t)
        BY DEF TakeTurns, AtPlaces
      <3>2. pc[t] = "off" /\ helper'[t] = "idle"
        BY <2>1, <2>2, <2>5
      <3>3. CASE t = "boot"
        <4>1. pc'[t] = "helpers"
          BY <2>2, <3>3
        <4> QED BY <2>4, <3>2, <3>3, <4>1
      <3>4. CASE t # "boot"
        <4>1. pc'[t] = "off"
          BY <2>2, <3>4
        <4> QED BY <3>1, <3>2, <4>1
      <3> QED BY <3>3, <3>4
    <2>7. pc' \in [Threads -> Places]
      BY <2>1, <2>4 DEF TypeOK, ThreadTypes
    <2> QED BY <2>1, <2>3, <2>6, <2>7 DEF Control, TypeOK, ThreadTypes
  <1>31. CASE removeForeignEpochHelpers
    <2>1. At("boot", "helpers") /\ UNCHANGED up
      BY <1>31 DEF removeForeignEpochHelpers
    <2>2. phase # "none" => phase' # "none"
      BY <1>31 DEF removeForeignEpochHelpers
    <2>3. (\E next \in {"reconcile", "fences", "settle", "failed"} : Goto("boot", next))
             /\ UNCHANGED <<helper, answer, then>>
      BY <1>31 DEF removeForeignEpochHelpers
    <2>4. ASSUME NEW next \in {"reconcile", "fences", "settle", "failed"}, Goto("boot", next),
                 UNCHANGED <<helper, answer, then>>
          PROVE  Control'
      <3>1. next \in PlacesOf("boot") \ {"release"} /\ "boot" \in Threads
        BY <2>4, ReconcileNames, PlaceNames
      <3> QED BY <2>1, <2>2, <2>4, <3>1, ControlGo
    <2> QED BY <2>3, <2>4
  <1>32. CASE reconcileOverwriteIntentsAtStartup
    <2>1. At("boot", "fences") /\ UNCHANGED up
      BY <1>32 DEF reconcileOverwriteIntentsAtStartup
    <2>2. phase # "none" => phase' # "none"
      BY <1>32 DEF reconcileOverwriteIntentsAtStartup
    <2>3. \/ releaseFence("boot", "clear") /\ UNCHANGED <<helper, answer>>
          \/ (\E next \in {"settle"} : Goto("boot", next))
                /\ UNCHANGED <<helper, answer, then>>
      BY <1>32 DEF reconcileOverwriteIntentsAtStartup
    <2>4. CASE releaseFence("boot", "clear") /\ UNCHANGED <<helper, answer>>
      <3>1. "clear" \in ReturnsOf("boot") /\ "boot" \in Threads
        BY PlaceNames DEF ReturnsOf, RunSettles, ReconcileSettles, Reconcilers
      <3> QED BY <2>1, <2>2, <2>4, <3>1, ControlRelease
    <2>5. ASSUME NEW next \in {"settle"}, Goto("boot", next),
                 UNCHANGED <<helper, answer, then>>
          PROVE  Control'
      <3>1. next \in PlacesOf("boot") \ {"release"} /\ "boot" \in Threads
        BY <2>5, ReconcileNames, PlaceNames
      <3> QED BY <2>1, <2>2, <2>5, <3>1, ControlGo
    <2> QED BY <2>3, <2>4, <2>5
  <1>33. ASSUME NEW t \in Reconcilers, reconcileOverwriteIntent(t) PROVE Control'
    <2>1. At(t, "reconcile") /\ UNCHANGED up
      BY <1>33 DEF reconcileOverwriteIntent
    <2>2. phase # "none" => phase' # "none"
      BY <1>33 DEF reconcileOverwriteIntent
    <2>3. \/ (\E next \in {"unstage"} : Goto(t, next))
                /\ UNCHANGED <<helper, answer, then>>
          \/ Call(t, "status", "read") /\ UNCHANGED then
          \/ Call(t, "rollback", "undone") /\ UNCHANGED then
          \/ Call(t, "status", "decide") /\ UNCHANGED then
      BY <1>33 DEF reconcileOverwriteIntent
    <2>4. ASSUME NEW next \in {"unstage"}, Goto(t, next),
                 UNCHANGED <<helper, answer, then>>
          PROVE  Control'
      <3>1. next \in PlacesOf(t) \ {"release"} /\ t \in Threads
        BY <2>4, ReconcileNames, PlaceNames
      <3> QED BY <2>1, <2>2, <2>4, <3>1, ControlGo
    <2>5. CASE Call(t, "status", "read") /\ UNCHANGED then
      <3>1. /\ "read" \in CallsOf(t) /\ "status" \in Commands
            /\ "status" = CommandAt("read") /\ t \in Threads
        BY PlaceNames, ThreadAssumption DEF CallsOf, RunCalls, ReconcileCalls,
          AcceptCalls, Commands, CommandAt, Reconcilers
      <3> QED BY <2>1, <2>2, <2>5, <3>1, ControlCall
    <2>6. CASE Call(t, "rollback", "undone") /\ UNCHANGED then
      <3>1. /\ "undone" \in CallsOf(t) /\ "rollback" \in Commands
            /\ "rollback" = CommandAt("undone") /\ t \in Threads
        BY PlaceNames, ThreadAssumption DEF CallsOf, RunCalls, ReconcileCalls,
          AcceptCalls, Commands, CommandAt, Reconcilers
      <3> QED BY <2>1, <2>2, <2>6, <3>1, ControlCall
    <2>7. CASE Call(t, "status", "decide") /\ UNCHANGED then
      <3>1. /\ "decide" \in CallsOf(t) /\ "status" \in Commands
            /\ "status" = CommandAt("decide") /\ t \in Threads
        BY PlaceNames, ThreadAssumption DEF CallsOf, RunCalls, ReconcileCalls,
          AcceptCalls, Commands, CommandAt, Reconcilers
      <3> QED BY <2>1, <2>2, <2>7, <3>1, ControlCall
    <2> QED BY <2>3, <2>4, <2>5, <2>6, <2>7
  <1>34. ASSUME NEW t \in Reconcilers, ReadUnderWorkloads(t) PROVE Control'
    <2>1. At(t, "read") /\ UNCHANGED up
      BY <1>34 DEF ReadUnderWorkloads
    <2>2. phase # "none" => phase' # "none"
      BY <1>34 DEF ReadUnderWorkloads, markUnknown, advance, update
    <2>3. (IF t = "boot" THEN "fences" ELSE "answer")
             \in PlacesOf(t) \cap {"fences", "answer", "unstage"}
      BY ReconcileNames
    <2>4. (\E next \in {"fences", "answer", "unstage"} \cap PlacesOf(t) : Goto(t, next))
             /\ UNCHANGED <<helper, answer, then>>
      BY <1>34, <2>3, ReconcileNames DEF ReadUnderWorkloads, Reconciled
    <2>5. ASSUME NEW next \in {"fences", "answer", "unstage"} \cap PlacesOf(t), Goto(t, next),
                 UNCHANGED <<helper, answer, then>>
          PROVE  Control'
      <3>1. next \in PlacesOf(t) \ {"release"} /\ t \in Threads
        BY <2>5, ReconcileNames, PlaceNames
      <3> QED BY <2>1, <2>2, <2>5, <3>1, ControlGo
    <2> QED BY <2>4, <2>5
  <1>35. ASSUME NEW t \in Reconcilers, Undone(t) PROVE Control'
    <2>1. At(t, "undone") /\ UNCHANGED up
      BY <1>35 DEF Undone
    <2>2. phase # "none" => phase' # "none"
      BY <1>35 DEF Undone, markUnknown, advance, update
    <2>3. (IF t = "boot" THEN "fences" ELSE "answer")
             \in PlacesOf(t) \cap {"fences", "answer", "unstage"}
      BY ReconcileNames
    <2>4. \/ (\E next \in {"fences", "answer", "unstage"} \cap PlacesOf(t) :
                Goto(t, next)) /\ UNCHANGED <<helper, answer, then>>
          \/ releaseFence(t, "settle_rolled_back") /\ UNCHANGED <<helper, answer>>
      BY <1>35, <2>3, ReconcileNames DEF Undone, Reconciled
    <2>5. ASSUME NEW next \in {"fences", "answer", "unstage"} \cap PlacesOf(t), Goto(t, next),
                 UNCHANGED <<helper, answer, then>>
          PROVE  Control'
      <3>1. next \in PlacesOf(t) \ {"release"} /\ t \in Threads
        BY <2>5, ReconcileNames, PlaceNames
      <3> QED BY <2>1, <2>2, <2>5, <3>1, ControlGo
    <2>6. CASE releaseFence(t, "settle_rolled_back") /\ UNCHANGED <<helper, answer>>
      <3>1. "settle_rolled_back" \in ReturnsOf(t) /\ t \in Threads
        BY PlaceNames, ThreadAssumption DEF ReturnsOf, RunSettles, ReconcileSettles,
          Reconcilers
      <3> QED BY <2>1, <2>2, <2>6, <3>1, ControlRelease
    <2> QED BY <2>4, <2>5, <2>6
  <1>36. ASSUME NEW t \in Reconcilers, ReconcileStaging(t) PROVE Control'
    <2>1. At(t, "unstage") /\ UNCHANGED up
      BY <1>36 DEF ReconcileStaging
    <2>2. phase # "none" => phase' # "none"
      BY <1>36 DEF ReconcileStaging
    <2>3. releaseFence(t, "settle_rolled_back") /\ UNCHANGED <<helper, answer>>
      BY <1>36 DEF ReconcileStaging
    <2>4. CASE releaseFence(t, "settle_rolled_back") /\ UNCHANGED <<helper, answer>>
      <3>1. "settle_rolled_back" \in ReturnsOf(t) /\ t \in Threads
        BY PlaceNames, ThreadAssumption DEF ReturnsOf, RunSettles, ReconcileSettles,
          Reconcilers
      <3> QED BY <2>1, <2>2, <2>4, <3>1, ControlRelease
    <2> QED BY <2>3, <2>4
  <1>37. ASSUME NEW t \in Reconcilers, JournalDecides(t) PROVE Control'
    <2>1. At(t, "decide") /\ UNCHANGED up
      BY <1>37 DEF JournalDecides
    <2>2. phase # "none" => phase' # "none"
      BY <1>37 DEF JournalDecides, markUnknown, advance, update
    <2>3. (IF t = "boot" THEN "fences" ELSE "answer")
             \in PlacesOf(t) \cap {"fences", "answer", "forward"}
      BY ReconcileNames
    <2>4. \/ releaseFence(t, "settle_committed") /\ UNCHANGED <<helper, answer>>
          \/ (\E next \in {"fences", "answer", "forward"} \cap PlacesOf(t) :
                Goto(t, next)) /\ UNCHANGED <<helper, answer, then>>
          \/ Call(t, "commit", "finish") /\ UNCHANGED then
          \/ Call(t, "rollback", "undone") /\ UNCHANGED then
      BY <1>37, <2>3, ReconcileNames DEF JournalDecides, Reconciled
    <2>5. CASE releaseFence(t, "settle_committed") /\ UNCHANGED <<helper, answer>>
      <3>1. "settle_committed" \in ReturnsOf(t) /\ t \in Threads
        BY PlaceNames, ThreadAssumption DEF ReturnsOf, RunSettles, ReconcileSettles,
          Reconcilers
      <3> QED BY <2>1, <2>2, <2>5, <3>1, ControlRelease
    <2>6. ASSUME NEW next \in {"fences", "answer", "forward"} \cap PlacesOf(t), Goto(t, next),
                 UNCHANGED <<helper, answer, then>>
          PROVE  Control'
      <3>1. next \in PlacesOf(t) \ {"release"} /\ t \in Threads
        BY <2>6, ReconcileNames, PlaceNames
      <3> QED BY <2>1, <2>2, <2>6, <3>1, ControlGo
    <2>7. CASE Call(t, "commit", "finish") /\ UNCHANGED then
      <3>1. /\ "finish" \in CallsOf(t) /\ "commit" \in Commands
            /\ "commit" = CommandAt("finish") /\ t \in Threads
        BY PlaceNames, ThreadAssumption DEF CallsOf, RunCalls, ReconcileCalls,
          AcceptCalls, Commands, CommandAt, Reconcilers
      <3> QED BY <2>1, <2>2, <2>7, <3>1, ControlCall
    <2>8. CASE Call(t, "rollback", "undone") /\ UNCHANGED then
      <3>1. /\ "undone" \in CallsOf(t) /\ "rollback" \in Commands
            /\ "rollback" = CommandAt("undone") /\ t \in Threads
        BY PlaceNames, ThreadAssumption DEF CallsOf, RunCalls, ReconcileCalls,
          AcceptCalls, Commands, CommandAt, Reconcilers
      <3> QED BY <2>1, <2>2, <2>8, <3>1, ControlCall
    <2> QED BY <2>4, <2>5, <2>6, <2>7, <2>8
  <1>38. ASSUME NEW t \in Reconcilers, CommitFinished(t) PROVE Control'
    <2>1. At(t, "finish") /\ UNCHANGED up
      BY <1>38 DEF CommitFinished
    <2>2. phase # "none" => phase' # "none"
      BY <1>38 DEF CommitFinished, markUnknown, advance, update
    <2>3. (IF t = "boot" THEN "fences" ELSE "answer")
             \in PlacesOf(t) \cap {"fences", "answer", "forward"}
      BY ReconcileNames
    <2>4. (\E next \in {"fences", "answer", "forward"} \cap PlacesOf(t) : Goto(t, next))
             /\ UNCHANGED <<helper, answer, then>>
      BY <1>38, <2>3, ReconcileNames DEF CommitFinished, Reconciled
    <2>5. ASSUME NEW next \in {"fences", "answer", "forward"} \cap PlacesOf(t), Goto(t, next),
                 UNCHANGED <<helper, answer, then>>
          PROVE  Control'
      <3>1. next \in PlacesOf(t) \ {"release"} /\ t \in Threads
        BY <2>5, ReconcileNames, PlaceNames
      <3> QED BY <2>1, <2>2, <2>5, <3>1, ControlGo
    <2> QED BY <2>4, <2>5
  <1>39. ASSUME NEW t \in Reconcilers, RollForward(t) PROVE Control'
    <2>1. At(t, "forward") /\ UNCHANGED up
      BY <1>39 DEF RollForward
    <2>2. phase # "none" => phase' # "none"
      BY <1>39 DEF RollForward, advance, update
    <2>3. (IF t = "boot" THEN "fences" ELSE "answer") \in PlacesOf(t) \cap {"fences", "answer"}
      BY ReconcileNames
    <2>4. \/ (\E next \in {"fences", "answer"} \cap PlacesOf(t) : Goto(t, next))
                /\ UNCHANGED <<helper, answer, then>>
          \/ Call(t, "cleanup", "forwarded") /\ UNCHANGED then
      BY <1>39, <2>3, ReconcileNames DEF RollForward, Reconciled
    <2>5. ASSUME NEW next \in {"fences", "answer"} \cap PlacesOf(t), Goto(t, next),
                 UNCHANGED <<helper, answer, then>>
          PROVE  Control'
      <3>1. next \in PlacesOf(t) \ {"release"} /\ t \in Threads
        BY <2>5, ReconcileNames, PlaceNames
      <3> QED BY <2>1, <2>2, <2>5, <3>1, ControlGo
    <2>6. CASE Call(t, "cleanup", "forwarded") /\ UNCHANGED then
      <3>1. /\ "forwarded" \in CallsOf(t) /\ "cleanup" \in Commands
            /\ "cleanup" = CommandAt("forwarded") /\ t \in Threads
        BY PlaceNames, ThreadAssumption DEF CallsOf, RunCalls, ReconcileCalls,
          AcceptCalls, Commands, CommandAt, Reconcilers
      <3> QED BY <2>1, <2>2, <2>6, <3>1, ControlCall
    <2> QED BY <2>4, <2>5, <2>6
  <1>40. ASSUME NEW t \in Reconcilers, ForwardCleaned(t) PROVE Control'
    <2>1. At(t, "forwarded") /\ UNCHANGED up
      BY <1>40 DEF ForwardCleaned
    <2>2. phase # "none" => phase' # "none"
      BY <1>40 DEF ForwardCleaned, advance, update
    <2>3. (IF t = "boot" THEN "fences" ELSE "answer") \in PlacesOf(t) \cap {"fences", "answer"}
      BY ReconcileNames
    <2>4. \/ releaseFence(t, "settle_forward") /\ UNCHANGED <<helper, answer>>
          \/ (\E next \in {"fences", "answer"} \cap PlacesOf(t) : Goto(t, next))
                /\ UNCHANGED <<helper, answer, then>>
      BY <1>40, <2>3, ReconcileNames DEF ForwardCleaned, Reconciled
    <2>5. CASE releaseFence(t, "settle_forward") /\ UNCHANGED <<helper, answer>>
      <3>1. "settle_forward" \in ReturnsOf(t) /\ t \in Threads
        BY PlaceNames, ThreadAssumption DEF ReturnsOf, RunSettles, ReconcileSettles,
          Reconcilers
      <3> QED BY <2>1, <2>2, <2>5, <3>1, ControlRelease
    <2>6. ASSUME NEW next \in {"fences", "answer"} \cap PlacesOf(t), Goto(t, next),
                 UNCHANGED <<helper, answer, then>>
          PROVE  Control'
      <3>1. next \in PlacesOf(t) \ {"release"} /\ t \in Threads
        BY <2>6, ReconcileNames, PlaceNames
      <3> QED BY <2>1, <2>2, <2>6, <3>1, ControlGo
    <2> QED BY <2>4, <2>5, <2>6
  <1>41. ASSUME NEW t \in Reconcilers, SettleForward(t) PROVE Control'
    <2>1. At(t, "settle_forward") /\ UNCHANGED up
      BY <1>41 DEF SettleForward
    <2>2. phase # "none" => phase' # "none"
      BY <1>41 DEF SettleForward, markUnknown, advance, update
    <2>3. (IF t = "boot" THEN "fences" ELSE "answer") \in PlacesOf(t) \cap {"fences", "answer"}
      BY ReconcileNames
    <2>4. (\E next \in {"fences", "answer"} \cap PlacesOf(t) : Goto(t, next))
             /\ UNCHANGED <<helper, answer, then>>
      BY <1>41, <2>3, ReconcileNames DEF SettleForward, Reconciled
    <2>5. ASSUME NEW next \in {"fences", "answer"} \cap PlacesOf(t), Goto(t, next),
                 UNCHANGED <<helper, answer, then>>
          PROVE  Control'
      <3>1. next \in PlacesOf(t) \ {"release"} /\ t \in Threads
        BY <2>5, ReconcileNames, PlaceNames
      <3> QED BY <2>1, <2>2, <2>5, <3>1, ControlGo
    <2> QED BY <2>4, <2>5
  <1>42. ASSUME NEW t \in Reconcilers, clearFenceOutcome(t) PROVE Control'
    <2>1. At(t, "clear") /\ UNCHANGED up
      BY <1>42 DEF clearFenceOutcome
    <2>2. phase # "none" => phase' # "none"
      BY <1>42 DEF clearFenceOutcome, advance, update
    <2>3. (IF t = "boot" THEN "settle" ELSE "answer") \in PlacesOf(t) \cap {"settle", "answer"}
      BY ReconcileNames
    <2>4. (\E next \in {"settle", "answer"} \cap PlacesOf(t) : Goto(t, next))
             /\ UNCHANGED <<helper, answer, then>>
      BY <1>42, <2>3, ReconcileNames DEF clearFenceOutcome
    <2>5. ASSUME NEW next \in {"settle", "answer"} \cap PlacesOf(t), Goto(t, next),
                 UNCHANGED <<helper, answer, then>>
          PROVE  Control'
      <3>1. next \in PlacesOf(t) \ {"release"} /\ t \in Threads
        BY <2>5, ReconcileNames, PlaceNames
      <3> QED BY <2>1, <2>2, <2>5, <3>1, ControlGo
    <2> QED BY <2>4, <2>5
  <1>43. ASSUME NEW t \in Reconcilers, settleInterruptedOverwriteOperations(t)
         PROVE Control'
    <2>1. /\ \E from \in {"settle", "answer"} : At(t, from)
          /\ Goto(t, IF t = "boot" THEN "done" ELSE "off") /\ Forget(t)
                /\ UNCHANGED <<up, phase>>
      BY <1>43 DEF settleInterruptedOverwriteOperations
    <2>2. (IF t = "boot" THEN "done" ELSE "off") \in PlacesOf(t) \ {"release"} /\ t \in Threads
      BY ReconcileNames, PlaceNames
    <2> QED BY <2>1, <2>2, ControlForget
  <1>44. ASSUME NEW t \in Reconcilers, NEW to \in Settled, settleProven(t, to)
         PROVE Control'
    <2>1. UNCHANGED up /\ \E from \in {"settle_committed", "settle_rolled_back"} :
             At(t, from)
      BY <1>44 DEF settleProven, Settled
    <2>2. phase # "none" => phase' # "none"
      BY <1>44 DEF settleProven, advance, update, Settled
    <2>3. (IF t = "boot" THEN "fences" ELSE "answer") \in PlacesOf(t) \cap {"fences", "answer"}
      BY ReconcileNames
    <2>4. (\E next \in {"fences", "answer"} \cap PlacesOf(t) : Goto(t, next))
             /\ UNCHANGED <<helper, answer, then>>
      BY <1>44, <2>3, ReconcileNames DEF settleProven, Reconciled
    <2>5. ASSUME NEW next \in {"fences", "answer"} \cap PlacesOf(t), Goto(t, next),
                 UNCHANGED <<helper, answer, then>>
          PROVE  Control'
      <3>1. next \in PlacesOf(t) \ {"release"} /\ t \in Threads
        BY <2>5, ReconcileNames, PlaceNames
      <3> QED BY <2>1, <2>2, <2>5, <3>1, ControlGo
    <2> QED BY <2>4, <2>5
  <1>45. ASSUME NEW t \in Threads, ReleaseEnd(t) PROVE Control'
    <2>1. /\ At(t, "release") /\ Goto(t, then[t])
          /\ UNCHANGED <<helper, answer, then, up, phase>>
      BY <1>45 DEF ReleaseEnd
    <2>2. then[t] \in PlacesOf(t) \ {"release"}
      BY <2>1, OwnPlaces DEF At, TakeTurns, AtPlaces
    <2> QED BY <2>1, <2>2, ControlGo
  <1>46. ASSUME NEW t \in Threads, NEW c \in Containers, ReleaseMember(t, c)
         PROVE Control'
    BY <1>46, ControlStays DEF ReleaseMember
  <1>47. ASSUME NEW t \in Threads, NEW c \in Containers, ReleaseMemberFails(t, c)
         PROVE Control'
    BY <1>47, ControlStays DEF ReleaseMemberFails
  <1>48. ASSUME NEW t \in Resolvers, Retry(t) PROVE Control'
    <2>1. /\ At(t, "off") /\ pc["boot"] = "done" /\ pc["run"] = "off" /\ phase # "none"
          /\ UNCHANGED <<helper, answer, up, phase>>
      BY <1>48 DEF Retry, Ready, Idle
    <2>2. \/ releaseFence(t, "clear")
          \/ (\E next \in {"answer", "reconcile"} : Goto(t, next)) /\ UNCHANGED then
      BY <1>48 DEF Retry
    <2>3. {"answer", "reconcile", "clear"} \subseteq PlacesOf(t) \ {"release"} /\ t \in Threads
      BY ReconcileNames, PlaceNames DEF Reconcilers
    <2>4. "clear" \in ReturnsOf(t) /\ t # "run"
      BY ThreadAssumption DEF ReturnsOf, ReconcileSettles
    <2>5. CASE releaseFence(t, "clear")
      BY <2>1, <2>3, <2>4, <2>5, ControlRequest
    <2>6. ASSUME NEW next \in {"answer", "reconcile"}, Goto(t, next), UNCHANGED then
          PROVE  Control'
      <3>1. t \in Threads \ {"boot"} /\ t # "run" /\ next \in PlacesOf(t) \ {"release"}
        BY <2>3, <2>6, ThreadAssumption
      <3> QED BY <2>1, <2>6, <3>1, ControlStart
    <2> QED BY <2>2, <2>5, <2>6
  <1>49. ASSUME NEW t \in Resolvers, ReleaseFenceRequest(t) PROVE Control'
    <2>1. /\ At(t, "off") /\ pc["boot"] = "done" /\ pc["run"] = "off" /\ phase # "none"
          /\ UNCHANGED <<helper, answer, up, phase>> /\ releaseFence(t, "accept_released")
      BY <1>49 DEF ReleaseFenceRequest, Ready, Idle
    <2>2. "accept_released" \in ReturnsOf(t) /\ t \in Threads
      BY PlaceNames, ThreadAssumption DEF ReturnsOf
    <2> QED BY <2>1, <2>2, ControlRequest
  <1>50. ASSUME NEW t \in Resolvers, AcceptReleased(t) PROVE Control'
    <2>1. At(t, "accept_released") /\ UNCHANGED up
      BY <1>50 DEF AcceptReleased
    <2>2. phase # "none" => phase' # "none"
      BY <1>50 DEF AcceptReleased
    <2>3. \/ (\E next \in {"answer"} : Goto(t, next))
                /\ UNCHANGED <<helper, answer, then>>
          \/ Call(t, "status", "accept_status") /\ UNCHANGED then
      BY <1>50 DEF AcceptReleased
    <2>4. ASSUME NEW next \in {"answer"}, Goto(t, next),
                 UNCHANGED <<helper, answer, then>>
          PROVE  Control'
      <3>1. next \in PlacesOf(t) \ {"release"} /\ t \in Threads
        BY <2>4, ReconcileNames, PlaceNames
      <3> QED BY <2>1, <2>2, <2>4, <3>1, ControlGo
    <2>5. CASE Call(t, "status", "accept_status") /\ UNCHANGED then
      <3>1. /\ "accept_status" \in CallsOf(t) /\ "status" \in Commands
            /\ "status" = CommandAt("accept_status") /\ t \in Threads
        BY PlaceNames, ThreadAssumption DEF CallsOf, RunCalls, ReconcileCalls,
          AcceptCalls, Commands, CommandAt, Reconcilers
      <3> QED BY <2>1, <2>2, <2>5, <3>1, ControlCall
    <2> QED BY <2>3, <2>4, <2>5
  <1>51. ASSUME NEW t \in Resolvers, AcceptStatus(t) PROVE Control'
    <2>1. At(t, "accept_status") /\ UNCHANGED up
      BY <1>51 DEF AcceptStatus
    <2>2. phase # "none" => phase' # "none"
      BY <1>51 DEF AcceptStatus, advance, update
    <2>3. \/ (\E next \in {"answer"} : Goto(t, next))
                /\ UNCHANGED <<helper, answer, then>>
          \/ Call(t, "cleanup", "accept_cleaned") /\ UNCHANGED then
      BY <1>51 DEF AcceptStatus
    <2>4. ASSUME NEW next \in {"answer"}, Goto(t, next),
                 UNCHANGED <<helper, answer, then>>
          PROVE  Control'
      <3>1. next \in PlacesOf(t) \ {"release"} /\ t \in Threads
        BY <2>4, ReconcileNames, PlaceNames
      <3> QED BY <2>1, <2>2, <2>4, <3>1, ControlGo
    <2>5. CASE Call(t, "cleanup", "accept_cleaned") /\ UNCHANGED then
      <3>1. /\ "accept_cleaned" \in CallsOf(t) /\ "cleanup" \in Commands
            /\ "cleanup" = CommandAt("accept_cleaned") /\ t \in Threads
        BY PlaceNames, ThreadAssumption DEF CallsOf, RunCalls, ReconcileCalls,
          AcceptCalls, Commands, CommandAt, Reconcilers
      <3> QED BY <2>1, <2>2, <2>5, <3>1, ControlCall
    <2> QED BY <2>3, <2>4, <2>5
  <1>52. ASSUME NEW t \in Resolvers, AcceptCleaned(t) PROVE Control'
    <2>1. At(t, "accept_cleaned") /\ UNCHANGED up
      BY <1>52 DEF AcceptCleaned
    <2>2. phase # "none" => phase' # "none"
      BY <1>52 DEF AcceptCleaned, advance, update
    <2>3. (\E next \in {"answer"} : Goto(t, next)) /\ UNCHANGED <<helper, answer, then>>
      BY <1>52 DEF AcceptCleaned
    <2>4. ASSUME NEW next \in {"answer"}, Goto(t, next),
                 UNCHANGED <<helper, answer, then>>
          PROVE  Control'
      <3>1. next \in PlacesOf(t) \ {"release"} /\ t \in Threads
        BY <2>4, ReconcileNames, PlaceNames
      <3> QED BY <2>1, <2>2, <2>4, <3>1, ControlGo
    <2> QED BY <2>3, <2>4
  <1>53. ASSUME NEW t \in Threads, runSwapStep(t) PROVE Control'
    <2>1. helper' = [helper EXCEPT ![t] = "idle"] /\ UNCHANGED <<pc, then, up, phase>>
      BY <1>53 DEF runSwapStep
    <2>2. \A u \in Threads : helper'[u] = IF u = t THEN "idle" ELSE helper[u]
      BY <2>1 DEF TypeOK, ThreadTypes
    <2>3. AtPlaces' /\ Turns'
      BY <2>1, <2>2 DEF TakeTurns, AtPlaces, Turns
    <2>4. helper' \in [Threads -> Commands \cup {"idle"}]
      BY <2>1 DEF TypeOK, ThreadTypes
    <2>5. answer' \in [Threads -> Results]
      <3>1. CASE answer[t] = "error"
        <4>1. {"error", "killed", "inconsistent"} \subseteq Results
          BY DEF Results, Reports
        <4>2. PICK a \in Results : answer' = [answer EXCEPT ![t] = a]
          BY <1>53, <3>1, <4>1 DEF runSwapStep
        <4> QED BY <4>2 DEF TypeOK, ThreadTypes
      <3>2. CASE answer[t] # "error"
        <4>1. helper[t] \in Commands /\ work \in Works
          BY <1>53 DEF runSwapStep, RowTypes, TypeOK, ThreadTypes
        <4>2. work' \in Works
          BY <1>53, <3>2, <4>1, ContractTypes DEF runSwapStep
        <4>3. PICK a \in Results : answer' = [answer EXCEPT ![t] = a]
          BY <1>53, <3>2, <4>1, <4>2, ContractTypes DEF runSwapStep
        <4> QED BY <4>3 DEF TypeOK, ThreadTypes
      <3> QED BY <3>1, <3>2
    <2> QED BY <2>1, <2>3, <2>4, <2>5 DEF Control, TypeOK, ThreadTypes
  <1>54. CASE Outsiders
    BY <1>54, OutsidersMove, ControlStays
  <1>55. CASE WorkloadWrites
    BY <1>55, ControlStays DEF WorkloadWrites
  <1>56. CASE Crash
    <2>1. \A t \in Threads : pc'[t] = "off" /\ helper'[t] = "idle"
      BY <1>56 DEF Crash
    <2>2. AtPlaces' /\ Turns'
      <3>1. \A t \in Threads : "off" \in PlacesOf(t)
        BY DEF PlacesOf, RunPlaces, BootPlaces, ResolvePlaces
      <3> QED BY <2>1, <3>1, PlaceNames, ThreadAssumption DEF AtPlaces, Turns
    <2>3. pc' \in [Threads -> Places] /\ then' \in [Threads -> Places]
      BY <1>56, PlaceNames DEF Crash
    <2>4. helper' \in [Threads -> Commands \cup {"idle"}] /\ answer' \in [Threads -> Results]
      BY <1>56 DEF Crash, Results
    <2> QED BY <2>2, <2>3, <2>4 DEF Control
  <1>57. ASSUME NEW g \in Commands, Ghost(g) PROVE Control'
    BY <1>57, ControlStays DEF Ghost
  <1>58. CASE UNCHANGED vars
    BY <1>58, ControlStays DEF vars
  <1> QED
    BY ZenonT(60), <1>1, <1>2, <1>3, <1>4, <1>5, <1>6, <1>7, <1>8, <1>9, <1>10, <1>11,
      <1>12, <1>13, <1>14, <1>15, <1>16, <1>17, <1>18, <1>19, <1>20, <1>21, <1>22,
      <1>23, <1>24, <1>25, <1>26, <1>27, <1>28, <1>29, <1>30, <1>31, <1>32, <1>33,
      <1>34, <1>35, <1>36, <1>37, <1>38, <1>39, <1>40, <1>41, <1>42, <1>43, <1>44,
      <1>45, <1>46, <1>47, <1>48, <1>49, <1>50, <1>51, <1>52, <1>53, <1>54, <1>55,
      <1>56, <1>57, <1>58 DEF Next, Pipeline, BootSequence, Environment, Reconcile,
      Accept, Releases, Reconcilers, Threads, Outsiders

(* What a thread remembers: the intent it read, whether a staging volume   *)
(* stayed, and what its release of the fence met.                          *)
LocalTypes ==
    /\ intent \in [Threads -> [phase : Phases \cup {"none"}, class : Classes]]
    /\ kept \in [Threads -> BOOLEAN] /\ failed \in [Threads -> BOOLEAN]
    /\ visited \in [Threads -> SUBSET Containers]

(* Nothing is learnt,                                                      *)
LEMMA LocalsStay ==
    ASSUME TypeOK, UNCHANGED <<intent, kept, failed, visited>>
    PROVE  LocalTypes'
  BY DEF LocalTypes, TypeOK, ThreadTypes

(* or a release of the fence begins, with or without a new intent.         *)
LEMMA LocalsRelease ==
    ASSUME TypeOK, NEW t \in Threads, NEW place \in Places,
           releaseFence(t, place) \/ UNCHANGED <<failed, visited>>,
           Snapshot(t) \/ UNCHANGED intent, kept' \in [Threads -> BOOLEAN]
    PROVE  LocalTypes'
  <1>1. visited' \in [Threads -> SUBSET Containers] /\ failed' \in [Threads -> BOOLEAN]
    BY ReleaseTypes DEF TypeOK, ThreadTypes
  <1>2. intent' \in [Threads -> [phase : Phases \cup {"none"}, class : Classes]]
    BY SnapshotTypes DEF TypeOK, ThreadTypes
  <1> QED BY <1>1, <1>2 DEF LocalTypes

(* Every step leaves the locals of the threads what they are declared as.  *)
LEMMA LocalTypesStep ==
    ASSUME TypeOK, [Next]_vars
    PROVE  LocalTypes'
  <1>1. CASE prepareOverwriteAdmission
    BY <1>1, LocalsStay DEF prepareOverwriteAdmission
  <1>2. CASE admitOverwrite
    BY <1>2, LocalsStay DEF admitOverwrite
  <1>3. CASE stagePoint
    BY <1>3, LocalsStay DEF stagePoint
  <1>4. CASE createLabelledVolume
    BY <1>4, LocalsStay DEF createLabelledVolume
  <1>5. CASE RestoreStaging
    BY <1>5, LocalsStay DEF RestoreStaging
  <1>6. CASE Unstage
    BY <1>6, LocalsStay DEF Unstage
  <1>7. CASE removeStaging
    BY <1>7, LocalsStay DEF removeStaging
  <1>8. CASE fenceWorkloads
    BY <1>8, LocalsStay DEF fenceWorkloads
  <1>9. CASE waitForStartsInFlight
    BY <1>9, LocalsStay DEF waitForStartsInFlight
  <1>10. CASE recordMembers
    <2>1. visited' \in [Threads -> SUBSET Containers] /\ failed' \in [Threads -> BOOLEAN]
      BY <1>10, PlaceNames DEF recordMembers, TypeOK, ThreadTypes
    <2> QED BY <1>10, <2>1 DEF recordMembers, LocalTypes, TypeOK, ThreadTypes
  <1>11. ASSUME NEW c \in Containers, Pin(c) PROVE LocalTypes'
    BY <1>11, LocalsStay DEF Pin
  <1>12. ASSUME NEW c \in Containers, Stop(c) PROVE LocalTypes'
    <2>1. visited' \in [Threads -> SUBSET Containers] /\ failed' \in [Threads -> BOOLEAN]
      BY <1>12, PlaceNames DEF Stop, TypeOK, ThreadTypes
    <2> QED BY <1>12, <2>1 DEF Stop, LocalTypes, TypeOK, ThreadTypes
  <1>13. CASE FenceEnd
    BY <1>13, LocalsStay DEF FenceEnd
  <1>14. CASE RecheckBeforePoint
    BY <1>14, LocalsStay DEF RecheckBeforePoint
  <1>15. CASE BeginPoint
    BY <1>15, LocalsStay DEF BeginPoint
  <1>16. CASE takePreRestorePoint
    BY <1>16, LocalsStay DEF takePreRestorePoint
  <1>17. CASE materializePoint
    BY <1>17, LocalsStay DEF materializePoint
  <1>18. CASE Materialized
    BY <1>18, LocalsStay DEF Materialized
  <1>19. CASE Prepared
    BY <1>19, LocalsStay DEF Prepared
  <1>20. CASE RecheckBeforeSwap
    BY <1>20, LocalsStay DEF RecheckBeforeSwap
  <1>21. CASE Commit
    BY <1>21, LocalsStay DEF Commit
  <1>22. CASE swapAndCleanup
    BY <1>22, LocalsStay DEF swapAndCleanup
  <1>23. CASE releaseAfterCommit
    <2>1. releaseFence("run", "commit_settle") \/ UNCHANGED <<failed, visited>>
      BY <1>23 DEF releaseAfterCommit
    <2>2. UNCHANGED intent /\ kept' \in [Threads -> BOOLEAN]
      BY <1>23 DEF releaseAfterCommit, TypeOK, ThreadTypes
    <2>3. "run" \in Threads /\ "commit_settle" \in Places
      BY PlaceNames
    <2> QED BY <2>1, <2>2, <2>3, LocalsRelease
  <1>24. CASE CommitSettle
    BY <1>24, LocalsStay DEF CommitSettle
  <1>25. CASE RollbackBegin
    BY <1>25, LocalsStay DEF RollbackBegin
  <1>26. CASE RollbackDone
    BY <1>26, LocalsStay DEF RollbackDone
  <1>27. CASE RollbackStaging
    <2>1. releaseFence("run", "rollback_settle")
      BY <1>27 DEF RollbackStaging
    <2>2. UNCHANGED intent /\ kept' \in [Threads -> BOOLEAN]
      BY <1>27 DEF RollbackStaging, TypeOK, ThreadTypes
    <2>3. "run" \in Threads /\ "rollback_settle" \in Places
      BY PlaceNames
    <2> QED BY <2>1, <2>2, <2>3, LocalsRelease
  <1>28. CASE rollbackIntent
    BY <1>28, LocalsStay DEF rollbackIntent
  <1>29. CASE releaseStacks
    <2>1. Forget("run") /\ "run" \in Threads
      BY <1>29, PlaceNames DEF releaseStacks
    <2> QED BY <2>1, ForgetTypes DEF TypeOK, LocalTypes
  <1>30. CASE Boot
    BY <1>30, LocalsStay DEF Boot
  <1>31. CASE removeForeignEpochHelpers
    <2>1. Snapshot("boot") \/ UNCHANGED intent
      BY <1>31 DEF removeForeignEpochHelpers
    <2>2. kept' \in [Threads -> BOOLEAN] /\ UNCHANGED <<failed, visited>>
      BY <1>31 DEF removeForeignEpochHelpers, TypeOK, ThreadTypes
    <2> QED BY <2>1, <2>2, PlaceNames, LocalsRelease
  <1>32. CASE reconcileOverwriteIntentsAtStartup
    <2>1. releaseFence("boot", "clear") \/ UNCHANGED <<failed, visited>>
      BY <1>32 DEF reconcileOverwriteIntentsAtStartup
    <2>2. UNCHANGED intent /\ kept' \in [Threads -> BOOLEAN]
      BY <1>32 DEF reconcileOverwriteIntentsAtStartup, TypeOK, ThreadTypes
    <2>3. "boot" \in Threads /\ "clear" \in Places
      BY PlaceNames
    <2> QED BY <2>1, <2>2, <2>3, LocalsRelease
  <1>33. ASSUME NEW t \in Reconcilers, reconcileOverwriteIntent(t) PROVE LocalTypes'
    <2>1. kept' \in [Threads -> BOOLEAN] /\ UNCHANGED <<intent, failed, visited>>
      BY <1>33 DEF reconcileOverwriteIntent, TypeOK, ThreadTypes
    <2> QED BY <2>1 DEF LocalTypes, TypeOK, ThreadTypes
  <1>34. ASSUME NEW t \in Reconcilers, ReadUnderWorkloads(t) PROVE LocalTypes'
    BY <1>34, LocalsStay DEF ReadUnderWorkloads
  <1>35. ASSUME NEW t \in Reconcilers, Undone(t) PROVE LocalTypes'
    <2>1. releaseFence(t, "settle_rolled_back") \/ UNCHANGED <<failed, visited>>
      BY <1>35 DEF Undone
    <2>2. UNCHANGED intent /\ kept' \in [Threads -> BOOLEAN]
      BY <1>35 DEF Undone, TypeOK, ThreadTypes
    <2>3. t \in Threads /\ "settle_rolled_back" \in Places
      BY PlaceNames
    <2> QED BY <2>1, <2>2, <2>3, LocalsRelease
  <1>36. ASSUME NEW t \in Reconcilers, ReconcileStaging(t) PROVE LocalTypes'
    <2>1. releaseFence(t, "settle_rolled_back")
      BY <1>36 DEF ReconcileStaging
    <2>2. UNCHANGED intent /\ kept' \in [Threads -> BOOLEAN]
      BY <1>36 DEF ReconcileStaging, TypeOK, ThreadTypes
    <2>3. t \in Threads /\ "settle_rolled_back" \in Places
      BY PlaceNames
    <2> QED BY <2>1, <2>2, <2>3, LocalsRelease
  <1>37. ASSUME NEW t \in Reconcilers, JournalDecides(t) PROVE LocalTypes'
    <2>1. releaseFence(t, "settle_committed") \/ UNCHANGED <<failed, visited>>
      BY <1>37 DEF JournalDecides
    <2>2. UNCHANGED intent /\ kept' \in [Threads -> BOOLEAN]
      BY <1>37 DEF JournalDecides, TypeOK, ThreadTypes
    <2>3. t \in Threads /\ "settle_committed" \in Places
      BY PlaceNames
    <2> QED BY <2>1, <2>2, <2>3, LocalsRelease
  <1>38. ASSUME NEW t \in Reconcilers, CommitFinished(t) PROVE LocalTypes'
    BY <1>38, LocalsStay DEF CommitFinished
  <1>39. ASSUME NEW t \in Reconcilers, RollForward(t) PROVE LocalTypes'
    BY <1>39, LocalsStay DEF RollForward
  <1>40. ASSUME NEW t \in Reconcilers, ForwardCleaned(t) PROVE LocalTypes'
    <2>1. releaseFence(t, "settle_forward") \/ UNCHANGED <<failed, visited>>
      BY <1>40 DEF ForwardCleaned
    <2>2. UNCHANGED intent /\ kept' \in [Threads -> BOOLEAN]
      BY <1>40 DEF ForwardCleaned, TypeOK, ThreadTypes
    <2>3. t \in Threads /\ "settle_forward" \in Places
      BY PlaceNames
    <2> QED BY <2>1, <2>2, <2>3, LocalsRelease
  <1>41. ASSUME NEW t \in Reconcilers, SettleForward(t) PROVE LocalTypes'
    BY <1>41, LocalsStay DEF SettleForward
  <1>42. ASSUME NEW t \in Reconcilers, clearFenceOutcome(t) PROVE LocalTypes'
    BY <1>42, LocalsStay DEF clearFenceOutcome
  <1>43. ASSUME NEW t \in Reconcilers, settleInterruptedOverwriteOperations(t)
         PROVE LocalTypes'
    <2>1. Forget(t) /\ t \in Threads
      BY <1>43, PlaceNames DEF settleInterruptedOverwriteOperations
    <2> QED BY <2>1, ForgetTypes DEF TypeOK, LocalTypes
  <1>44. ASSUME NEW t \in Reconcilers, NEW to \in Settled, settleProven(t, to)
         PROVE LocalTypes'
    BY <1>44, LocalsStay DEF settleProven
  <1>45. ASSUME NEW t \in Threads, ReleaseEnd(t) PROVE LocalTypes'
    BY <1>45, LocalsStay DEF ReleaseEnd
  <1>46. ASSUME NEW t \in Threads, NEW c \in Containers, ReleaseMember(t, c)
         PROVE LocalTypes'
    <2>1. visited' \in [Threads -> SUBSET Containers] /\ failed' \in [Threads -> BOOLEAN]
      BY <1>46, PlaceNames DEF ReleaseMember, TypeOK, ThreadTypes
    <2> QED BY <1>46, <2>1 DEF ReleaseMember, LocalTypes, TypeOK, ThreadTypes
  <1>47. ASSUME NEW t \in Threads, NEW c \in Containers, ReleaseMemberFails(t, c)
         PROVE LocalTypes'
    <2>1. visited' \in [Threads -> SUBSET Containers] /\ failed' \in [Threads -> BOOLEAN]
      BY <1>47, PlaceNames DEF ReleaseMemberFails, TypeOK, ThreadTypes
    <2> QED BY <1>47, <2>1 DEF ReleaseMemberFails, LocalTypes, TypeOK, ThreadTypes
  <1>48. ASSUME NEW t \in Resolvers, Retry(t) PROVE LocalTypes'
    <2>1. releaseFence(t, "clear") \/ UNCHANGED <<failed, visited>>
      BY <1>48 DEF Retry
    <2>2. Snapshot(t) /\ kept' \in [Threads -> BOOLEAN]
      BY <1>48 DEF Retry, TypeOK, ThreadTypes
    <2>3. t \in Threads /\ "clear" \in Places
      BY PlaceNames
    <2> QED BY <2>1, <2>2, <2>3, LocalsRelease
  <1>49. ASSUME NEW t \in Resolvers, ReleaseFenceRequest(t) PROVE LocalTypes'
    <2>1. releaseFence(t, "accept_released")
      BY <1>49 DEF ReleaseFenceRequest
    <2>2. Snapshot(t) /\ kept' \in [Threads -> BOOLEAN]
      BY <1>49 DEF ReleaseFenceRequest, TypeOK, ThreadTypes
    <2>3. t \in Threads /\ "accept_released" \in Places
      BY PlaceNames
    <2> QED BY <2>1, <2>2, <2>3, LocalsRelease
  <1>50. ASSUME NEW t \in Resolvers, AcceptReleased(t) PROVE LocalTypes'
    BY <1>50, LocalsStay DEF AcceptReleased
  <1>51. ASSUME NEW t \in Resolvers, AcceptStatus(t) PROVE LocalTypes'
    BY <1>51, LocalsStay DEF AcceptStatus
  <1>52. ASSUME NEW t \in Resolvers, AcceptCleaned(t) PROVE LocalTypes'
    BY <1>52, LocalsStay DEF AcceptCleaned
  <1>53. ASSUME NEW t \in Threads, runSwapStep(t) PROVE LocalTypes'
    BY <1>53, LocalsStay DEF runSwapStep
  <1>54. CASE Outsiders
    BY <1>54, OutsidersMove, LocalsStay
  <1>55. CASE WorkloadWrites
    BY <1>55, LocalsStay DEF WorkloadWrites
  <1>56. CASE Crash
    <2>1. intent' \in [Threads -> [phase : Phases \cup {"none"}, class : Classes]]
      BY <1>56 DEF Crash, Classes
    <2>2. kept' \in [Threads -> BOOLEAN] /\ failed' \in [Threads -> BOOLEAN]
      BY <1>56 DEF Crash
    <2>3. visited' \in [Threads -> SUBSET Containers]
      BY <1>56 DEF Crash
    <2> QED BY <2>1, <2>2, <2>3 DEF LocalTypes
  <1>57. ASSUME NEW g \in Commands, Ghost(g) PROVE LocalTypes'
    BY <1>57, LocalsStay DEF Ghost
  <1>58. CASE UNCHANGED vars
    BY <1>58, LocalsStay DEF vars
  <1> QED
    BY ZenonT(60), <1>1, <1>2, <1>3, <1>4, <1>5, <1>6, <1>7, <1>8, <1>9, <1>10, <1>11,
      <1>12, <1>13, <1>14, <1>15, <1>16, <1>17, <1>18, <1>19, <1>20, <1>21, <1>22,
      <1>23, <1>24, <1>25, <1>26, <1>27, <1>28, <1>29, <1>30, <1>31, <1>32, <1>33,
      <1>34, <1>35, <1>36, <1>37, <1>38, <1>39, <1>40, <1>41, <1>42, <1>43, <1>44,
      <1>45, <1>46, <1>47, <1>48, <1>49, <1>50, <1>51, <1>52, <1>53, <1>54, <1>55,
      <1>56, <1>57, <1>58 DEF Next, Pipeline, BootSequence, Environment, Reconcile,
      Accept, Releases, Reconcilers, Threads, Outsiders

(* Where a release of the fence returns to.                                *)
LEMMA ReleaseReturns ==
    ASSUME TakeTurns, NEW t \in Threads, pc[t] = "release"
    PROVE  /\ then[t] \in {"commit_settle", "rollback_settle", "settle_committed",
                           "settle_rolled_back", "settle_forward", "clear",
                           "accept_released"}
           /\ t = "run" => then[t] \in {"commit_settle", "rollback_settle"}
           /\ t # "run" => then[t] \notin {"commit_settle", "rollback_settle"}
           /\ t = "boot" => then[t] # "accept_released"
  BY DEF TakeTurns, AtPlaces, ReturnsOf, RunSettles, ReconcileSettles

(* A helper moves the work directory out of no state but with restore.     *)
LEMMA ReachFromNone ==
    \A command \in Commands : \A w \in Reach(command, "none") :
        command # "restore" => w = "none"
  BY DEF Reach

(* A thread waits for a helper only at a place where it called one.        *)
LEMMA HelperPlaces ==
    ASSUME TakeTurns, NEW t \in Threads, helper[t] # "idle"
    PROVE  pc[t] \notin {"off", "admit", "release", "done", "helpers", "failed", "fences",
                         "settle", "answer", "materialize"} \cup BeforeCopy
  BY DEF TakeTurns, AtPlaces, CallsOf, RunCalls, ReconcileCalls, AcceptCalls,
    BeforeCopy, BeforeFence

(* What the table of transitions allows.                                   *)
LEMMA Transitions ==
    /\ \A p \in Phases : ALLOWED_TRANSITIONS[p] \subseteq Phases
    /\ \A p \in Settled : ALLOWED_TRANSITIONS[p] = {}
    /\ \A p \in Phases \ Settled : "rolled_back" \in ALLOWED_TRANSITIONS[p]
    /\ \A p \in Phases : p \notin Settled =>
          ("completion_unknown" \in ALLOWED_TRANSITIONS[p] <=> p # "completion_unknown")
    /\ \A p \in Phases :
          /\ "staging" \in ALLOWED_TRANSITIONS[p] <=> p = "recorded"
          /\ "staged_verified" \in ALLOWED_TRANSITIONS[p] <=> p = "staging"
          /\ "fenced" \in ALLOWED_TRANSITIONS[p] <=> p = "staged_verified"
          /\ "protecting" \in ALLOWED_TRANSITIONS[p] <=> p = "fenced"
          /\ "materializing" \in ALLOWED_TRANSITIONS[p] <=> p = "protecting"
          /\ "swapping" \in ALLOWED_TRANSITIONS[p] <=> p = "materializing"
          /\ "swapped" \in ALLOWED_TRANSITIONS[p] <=> p = "swapping"
          /\ "committed" \in ALLOWED_TRANSITIONS[p] <=>
                p \in {"staged_verified", "swapped", "completion_unknown"}
  <1>1. \A p \in Phases : ALLOWED_TRANSITIONS[p] =
            (IF p \in Settled THEN {} ELSE {"rolled_back"}) \cup
            CASE p = "recorded"           -> {"staging", "completion_unknown"}
              [] p = "staging"            -> {"staged_verified", "completion_unknown"}
              [] p = "staged_verified"    -> {"fenced", "committed", "completion_unknown"}
              [] p = "fenced"             -> {"protecting", "completion_unknown"}
              [] p = "protecting"         -> {"materializing", "completion_unknown"}
              [] p = "materializing"      -> {"swapping", "completion_unknown"}
              [] p = "swapping"           -> {"swapped", "completion_unknown"}
              [] p = "swapped"            -> {"committed", "completion_unknown"}
              [] p = "completion_unknown" -> {"committed"}
              [] p \in Settled            -> {}
    BY DEF ALLOWED_TRANSITIONS
  <1> QED BY SMTT(30), <1>1, RowNames DEF Settled

(* A thread beyond the admission, and beyond the ends of the boot          *)
(* sequence, works on a recorded intent.                                   *)
LEMMA Recorded ==
    ASSUME TakeTurns, Unrecorded, NEW t \in Threads,
           pc[t] \notin {"off", "admit", "helpers", "failed", "fences", "settle", "done"}
    PROVE  phase # "none"
  BY DEF TakeTurns, Turns, Unrecorded, Threads

(* The intent stays recorded wherever such a thread goes.                  *)
LEMMA UnrecordedGo ==
    ASSUME TypeOK, TakeTurns, Unrecorded, NEW t \in Threads, NEW from, At(t, from),
           from \notin {"off", "admit", "helpers", "failed", "fences", "settle", "done"},
           NEW next, next # "admit", pc' = [pc EXCEPT ![t] = next],
           phase # "none" => phase' # "none"
    PROVE  Unrecorded'
  <1>1. phase # "none" /\ phase' # "none"
    BY Recorded DEF At
  <1>2. pc["run"] # "admit"
    BY <1>1 DEF Unrecorded
  <1>3. pc'["run"] # "admit"
    BY <1>2, PlaceNames DEF TypeOK, ThreadTypes
  <1> QED BY <1>1, <1>3 DEF Unrecorded

(* So does an intent that no thread touches.                               *)
LEMMA UnrecordedStays ==
    ASSUME Unrecorded, UNCHANGED <<phase, fenceState, releasedAt, work, ghosts, policy>>,
           pc'["run"] \in {pc["run"], "off"},
           pc'["boot"] \in {pc["boot"], "off", "helpers", "failed", "fences", "settle", "done"}
    PROVE  Unrecorded'
  BY DEF Unrecorded

(* Until an intent is recorded nothing is fenced, moved or left behind.    *)
LEMMA UnrecordedStep ==
    ASSUME TypeOK, TakeTurns, Unrecorded, [Next]_vars
    PROVE  Unrecorded'
  <1>1. CASE prepareOverwriteAdmission
    <2>1. /\ phase = "none" /\ pc' = [pc EXCEPT !["run"] = "admit"]
          /\ UNCHANGED <<phase, fenceState, releasedAt, work, ghosts, policy>>
      BY <1>1 DEF prepareOverwriteAdmission, Goto
    <2>2. pc'["run"] = "admit" /\ pc'["boot"] = pc["boot"]
      BY <2>1, PlaceNames DEF TypeOK, ThreadTypes
    <2> QED BY <2>1, <2>2 DEF Unrecorded
  <1>2. CASE admitOverwrite
    <2>1. PICK next \in {"stage", "off"} : pc' = [pc EXCEPT !["run"] = next]
      BY <1>2 DEF admitOverwrite, Goto
    <2>2. pc'["run"] = next /\ pc'["boot"] = pc["boot"]
      BY <2>1, PlaceNames DEF TypeOK, ThreadTypes
    <2>3. CASE phase' = "recorded"
      BY <2>1, <2>2, <2>3 DEF Unrecorded
    <2>4. CASE Goto("run", "off") /\ UNCHANGED row
      <3>1. pc'["run"] = "off"
        BY <2>4, PlaceNames DEF Goto, TypeOK, ThreadTypes
      <3> QED BY <1>2, <2>2, <2>4, <3>1, UnrecordedStays DEF admitOverwrite
    <2> QED BY <1>2, <2>3, <2>4 DEF admitOverwrite
  <1>3. CASE stagePoint
    <2>1. At("run", "stage") /\ "run" \in Threads
      BY <1>3, PlaceNames DEF stagePoint
    <2>2. phase # "none" => phase' # "none"
      BY <1>3 DEF stagePoint, advance, update
    <2>3. PICK next \in {"create"} : pc' = [pc EXCEPT !["run"] = next]
      BY <1>3 DEF stagePoint, Goto
    <2> QED BY <2>1, <2>2, <2>3, UnrecordedGo
  <1>4. CASE createLabelledVolume
    <2>1. At("run", "create") /\ "run" \in Threads
      BY <1>4, PlaceNames DEF createLabelledVolume
    <2>2. phase # "none" => phase' # "none"
      BY <1>4 DEF createLabelledVolume
    <2>3. PICK next \in {"copy", "unstage", "rollback"} :
                  pc' = [pc EXCEPT !["run"] = next]
      BY <1>4 DEF createLabelledVolume, settleRollback, Goto
    <2> QED BY <2>1, <2>2, <2>3, UnrecordedGo
  <1>5. CASE RestoreStaging
    <2>1. At("run", "copy") /\ "run" \in Threads
      BY <1>5, PlaceNames DEF RestoreStaging
    <2>2. phase # "none" => phase' # "none"
      BY <1>5 DEF RestoreStaging, advance, update
    <2>3. PICK next \in {"remove", "unstage"} : pc' = [pc EXCEPT !["run"] = next]
      BY <1>5 DEF RestoreStaging, Goto
    <2> QED BY <2>1, <2>2, <2>3, UnrecordedGo
  <1>6. CASE Unstage
    <2>1. At("run", "unstage") /\ "run" \in Threads
      BY <1>6, PlaceNames DEF Unstage
    <2>2. phase # "none" => phase' # "none"
      BY <1>6 DEF Unstage, advance, update
    <2>3. PICK next \in {"return"} : pc' = [pc EXCEPT !["run"] = next]
      BY <1>6 DEF Unstage, Finish, Goto
    <2> QED BY <2>1, <2>2, <2>3, UnrecordedGo
  <1>7. CASE removeStaging
    <2>1. At("run", "remove") /\ "run" \in Threads
      BY <1>7, PlaceNames DEF removeStaging
    <2>2. phase # "none" => phase' # "none"
      BY <1>7 DEF removeStaging, advance, update
    <2>3. PICK next \in {"recheck", "return"} : pc' = [pc EXCEPT !["run"] = next]
      BY <1>7 DEF removeStaging, Finish, Goto
    <2> QED BY <2>1, <2>2, <2>3, UnrecordedGo
  <1>8. CASE fenceWorkloads
    <2>1. At("run", "recheck") /\ "run" \in Threads
      BY <1>8, PlaceNames DEF fenceWorkloads
    <2>2. phase # "none" => phase' # "none"
      BY <1>8 DEF fenceWorkloads, advance, update
    <2>3. PICK next \in {"drain", "rollback", "return"} :
                  pc' = [pc EXCEPT !["run"] = next]
      BY <1>8 DEF fenceWorkloads, settleRollback, Finish, Goto
    <2> QED BY <2>1, <2>2, <2>3, UnrecordedGo
  <1>9. CASE waitForStartsInFlight
    <2>1. At("run", "drain") /\ "run" \in Threads
      BY <1>9, PlaceNames DEF waitForStartsInFlight
    <2>2. phase # "none" => phase' # "none"
      BY <1>9 DEF waitForStartsInFlight
    <2>3. PICK next \in {"observe", "rollback"} : pc' = [pc EXCEPT !["run"] = next]
      BY <1>9 DEF waitForStartsInFlight, settleRollback, Goto
    <2> QED BY <2>1, <2>2, <2>3, UnrecordedGo
  <1>10. CASE recordMembers
    <2>1. At("run", "observe") /\ "run" \in Threads
      BY <1>10, PlaceNames DEF recordMembers
    <2>2. phase # "none" => phase' # "none"
      BY <1>10 DEF recordMembers
    <2>3. PICK next \in {"fence", "rollback", "return"} :
                  pc' = [pc EXCEPT !["run"] = next]
      BY <1>10 DEF recordMembers, settleRollback, Finish, Goto
    <2> QED BY <2>1, <2>2, <2>3, UnrecordedGo
  <1>11. ASSUME NEW c \in Containers, Pin(c) PROVE Unrecorded'
    BY <1>11 DEF Pin, At, Unrecorded
  <1>12. ASSUME NEW c \in Containers, Stop(c) PROVE Unrecorded'
    BY <1>12 DEF Stop, Unrecorded
  <1>13. CASE FenceEnd
    <2>1. At("run", "fence") /\ "run" \in Threads
      BY <1>13, PlaceNames DEF FenceEnd
    <2>2. phase # "none" => phase' # "none"
      BY <1>13 DEF FenceEnd, advance, update
    <2>3. PICK next \in {"protect", "rollback"} : pc' = [pc EXCEPT !["run"] = next]
      BY <1>13 DEF FenceEnd, settleRollback, Goto
    <2> QED BY <2>1, <2>2, <2>3, UnrecordedGo
  <1>14. CASE RecheckBeforePoint
    <2>1. At("run", "protect") /\ "run" \in Threads
      BY <1>14, PlaceNames DEF RecheckBeforePoint
    <2>2. phase # "none" => phase' # "none"
      BY <1>14 DEF RecheckBeforePoint
    <2>3. PICK next \in {"begin", "rollback"} : pc' = [pc EXCEPT !["run"] = next]
      BY <1>14 DEF RecheckBeforePoint, settleRollback, Goto
    <2> QED BY <2>1, <2>2, <2>3, UnrecordedGo
  <1>15. CASE BeginPoint
    <2>1. At("run", "begin") /\ "run" \in Threads
      BY <1>15, PlaceNames DEF BeginPoint
    <2>2. phase # "none" => phase' # "none"
      BY <1>15 DEF BeginPoint
    <2>3. PICK next \in {"capture", "rollback"} : pc' = [pc EXCEPT !["run"] = next]
      BY <1>15 DEF BeginPoint, settleRollback, Goto
    <2> QED BY <2>1, <2>2, <2>3, UnrecordedGo
  <1>16. CASE takePreRestorePoint
    <2>1. At("run", "capture") /\ "run" \in Threads
      BY <1>16, PlaceNames DEF takePreRestorePoint
    <2>2. phase # "none" => phase' # "none"
      BY <1>16 DEF takePreRestorePoint
    <2>3. PICK next \in {"materialize", "rollback"} : pc' = [pc EXCEPT !["run"] = next]
      BY <1>16 DEF takePreRestorePoint, settleRollback, Goto
    <2> QED BY <2>1, <2>2, <2>3, UnrecordedGo
  <1>17. CASE materializePoint
    <2>1. At("run", "materialize") /\ "run" \in Threads
      BY <1>17, PlaceNames DEF materializePoint
    <2>2. phase # "none" => phase' # "none"
      BY <1>17 DEF materializePoint, advance, update
    <2>3. PICK next \in {"materialized"} : pc' = [pc EXCEPT !["run"] = next]
      BY <1>17 DEF materializePoint, Call, Goto
    <2> QED BY <2>1, <2>2, <2>3, UnrecordedGo
  <1>18. CASE Materialized
    <2>1. At("run", "materialized") /\ "run" \in Threads
      BY <1>18, PlaceNames DEF Materialized
    <2>2. phase # "none" => phase' # "none"
      BY <1>18 DEF Materialized
    <2>3. PICK next \in {"prepared", "rollback"} : pc' = [pc EXCEPT !["run"] = next]
      BY <1>18 DEF Materialized, settleRollback, Call, Goto
    <2> QED BY <2>1, <2>2, <2>3, UnrecordedGo
  <1>19. CASE Prepared
    <2>1. At("run", "prepared") /\ "run" \in Threads
      BY <1>19, PlaceNames DEF Prepared
    <2>2. phase # "none" => phase' # "none"
      BY <1>19 DEF Prepared, advance, update
    <2>3. PICK next \in {"recheck_swap", "rollback"} : pc' = [pc EXCEPT !["run"] = next]
      BY <1>19 DEF Prepared, settleRollback, Goto
    <2> QED BY <2>1, <2>2, <2>3, UnrecordedGo
  <1>20. CASE RecheckBeforeSwap
    <2>1. At("run", "recheck_swap") /\ "run" \in Threads
      BY <1>20, PlaceNames DEF RecheckBeforeSwap
    <2>2. phase # "none" => phase' # "none"
      BY <1>20 DEF RecheckBeforeSwap
    <2>3. PICK next \in {"commit", "rollback"} : pc' = [pc EXCEPT !["run"] = next]
      BY <1>20 DEF RecheckBeforeSwap, settleRollback, Goto
    <2> QED BY <2>1, <2>2, <2>3, UnrecordedGo
  <1>21. CASE Commit
    <2>1. "run" \in Threads /\ \E from \in {"commit", "committed", "recommitted"} :
             At("run", from)
      BY <1>21, PlaceNames DEF Commit
    <2>2. phase # "none" => phase' # "none"
      BY <1>21 DEF Commit
    <2>3. PICK next \in {"committed", "confirm_reported", "confirm", "confirm_last"} :
                  pc' = [pc EXCEPT !["run"] = next]
      BY <1>21 DEF Commit, Call, Goto
    <2> QED BY <2>1, <2>2, <2>3, UnrecordedGo
  <1>22. CASE swapAndCleanup
    <2>1. "run" \in Threads /\ \E from
             \in {"confirm", "confirm_reported", "confirm_last"} : At("run", from)
      BY <1>22, PlaceNames DEF swapAndCleanup
    <2>2. phase # "none" => phase' # "none"
      BY <1>22 DEF swapAndCleanup, advance, update
    <2>3. PICK next \in {"cleaned", "recommitted", "return", "rollback"} :
                  pc' = [pc EXCEPT !["run"] = next]
      BY <1>22 DEF swapAndCleanup, Finish, settleRollback, Call, Goto
    <2> QED BY <2>1, <2>2, <2>3, UnrecordedGo
  <1>23. CASE releaseAfterCommit
    <2>1. At("run", "cleaned") /\ "run" \in Threads
      BY <1>23, PlaceNames DEF releaseAfterCommit
    <2>2. phase # "none" => phase' # "none"
      BY <1>23 DEF releaseAfterCommit, advance, update
    <2>3. PICK next \in {"commit_settle", "release", "return"} :
                  pc' = [pc EXCEPT !["run"] = next]
      BY <1>23 DEF releaseAfterCommit, Finish, releaseFence, Goto
    <2> QED BY <2>1, <2>2, <2>3, UnrecordedGo
  <1>24. CASE CommitSettle
    <2>1. At("run", "commit_settle") /\ "run" \in Threads
      BY <1>24, PlaceNames DEF CommitSettle
    <2>2. phase # "none" => phase' # "none"
      BY <1>24 DEF CommitSettle, advance, update
    <2>3. PICK next \in {"return"} : pc' = [pc EXCEPT !["run"] = next]
      BY <1>24 DEF CommitSettle, Finish, Goto
    <2> QED BY <2>1, <2>2, <2>3, UnrecordedGo
  <1>25. CASE RollbackBegin
    <2>1. At("run", "rollback") /\ "run" \in Threads
      BY <1>25, PlaceNames DEF RollbackBegin
    <2>2. phase # "none" => phase' # "none"
      BY <1>25 DEF RollbackBegin
    <2>3. PICK next \in {"rollback_done", "rollback_staging"} :
                  pc' = [pc EXCEPT !["run"] = next]
      BY <1>25 DEF RollbackBegin, Call, Goto
    <2> QED BY <2>1, <2>2, <2>3, UnrecordedGo
  <1>26. CASE RollbackDone
    <2>1. At("run", "rollback_done") /\ "run" \in Threads
      BY <1>26, PlaceNames DEF RollbackDone
    <2>2. phase # "none" => phase' # "none"
      BY <1>26 DEF RollbackDone, advance, update
    <2>3. PICK next \in {"rollback_staging", "return"} : pc' = [pc EXCEPT !["run"] = next]
      BY <1>26 DEF RollbackDone, Finish, Goto
    <2> QED BY <2>1, <2>2, <2>3, UnrecordedGo
  <1>27. CASE RollbackStaging
    <2>1. At("run", "rollback_staging") /\ "run" \in Threads
      BY <1>27, PlaceNames DEF RollbackStaging
    <2>2. phase # "none" => phase' # "none"
      BY <1>27 DEF RollbackStaging
    <2>3. PICK next \in {"rollback_settle", "release"} : pc' = [pc EXCEPT !["run"] = next]
      BY <1>27 DEF RollbackStaging, releaseFence, Goto
    <2> QED BY <2>1, <2>2, <2>3, UnrecordedGo
  <1>28. CASE rollbackIntent
    <2>1. At("run", "rollback_settle") /\ "run" \in Threads
      BY <1>28, PlaceNames DEF rollbackIntent
    <2>2. phase # "none" => phase' # "none"
      BY <1>28 DEF rollbackIntent, advance, update
    <2>3. PICK next \in {"return"} : pc' = [pc EXCEPT !["run"] = next]
      BY <1>28 DEF rollbackIntent, Finish, Goto
    <2> QED BY <2>1, <2>2, <2>3, UnrecordedGo
  <1>29. CASE releaseStacks
    BY <1>29, PlaceNames, UnrecordedGo DEF releaseStacks, Goto
  <1>30. CASE Boot
    <2>1. /\ pc' = [pc EXCEPT !["boot"] = "helpers"]
          /\ UNCHANGED <<phase, fenceState, releasedAt, work, ghosts, policy>>
      BY <1>30 DEF Boot, Goto
    <2>2. pc'["run"] = pc["run"] /\ pc'["boot"] = "helpers"
      BY <2>1, PlaceNames DEF TypeOK, ThreadTypes
    <2> QED BY <2>1, <2>2, UnrecordedStays
  <1>31. CASE removeForeignEpochHelpers
    BY <1>31 DEF removeForeignEpochHelpers, Unsettled, Goto, TypeOK, ThreadTypes,
      Unrecorded, Threads
  <1>32. CASE reconcileOverwriteIntentsAtStartup
    BY <1>32 DEF reconcileOverwriteIntentsAtStartup, releaseFence, Goto, TypeOK,
      ThreadTypes, Unrecorded, Settled, Threads
  <1>33. ASSUME NEW t \in Reconcilers, reconcileOverwriteIntent(t) PROVE Unrecorded'
    <2>1. At(t, "reconcile") /\ t \in Threads
      BY <1>33, PlaceNames DEF reconcileOverwriteIntent
    <2>2. phase # "none" => phase' # "none"
      BY <1>33 DEF reconcileOverwriteIntent
    <2>3. PICK next \in {"unstage", "read", "undone", "decide"} :
                  pc' = [pc EXCEPT ![t] = next]
      BY <1>33 DEF reconcileOverwriteIntent, Call, Goto
    <2> QED BY <2>1, <2>2, <2>3, UnrecordedGo
  <1>34. ASSUME NEW t \in Reconcilers, ReadUnderWorkloads(t) PROVE Unrecorded'
    <2>1. At(t, "read") /\ t \in Threads
      BY <1>34, PlaceNames DEF ReadUnderWorkloads
    <2>2. phase # "none" => phase' # "none"
      BY <1>34 DEF ReadUnderWorkloads, markUnknown, advance, update
    <2>3. PICK next \in {"fences", "answer", "unstage"} : pc' = [pc EXCEPT ![t] = next]
      BY <1>34 DEF ReadUnderWorkloads, Reconciled, Goto
    <2> QED BY <2>1, <2>2, <2>3, UnrecordedGo
  <1>35. ASSUME NEW t \in Reconcilers, Undone(t) PROVE Unrecorded'
    <2>1. At(t, "undone") /\ t \in Threads
      BY <1>35, PlaceNames DEF Undone
    <2>2. phase # "none" => phase' # "none"
      BY <1>35 DEF Undone, markUnknown, advance, update
    <2>3. PICK next \in {"fences", "answer", "unstage", "settle_rolled_back", "release"} :
                  pc' = [pc EXCEPT ![t] = next]
      BY <1>35 DEF Undone, Reconciled, releaseFence, Goto
    <2> QED BY <2>1, <2>2, <2>3, UnrecordedGo
  <1>36. ASSUME NEW t \in Reconcilers, ReconcileStaging(t) PROVE Unrecorded'
    <2>1. At(t, "unstage") /\ t \in Threads
      BY <1>36, PlaceNames DEF ReconcileStaging
    <2>2. phase # "none" => phase' # "none"
      BY <1>36 DEF ReconcileStaging
    <2>3. PICK next \in {"settle_rolled_back", "release"} : pc' = [pc EXCEPT ![t] = next]
      BY <1>36 DEF ReconcileStaging, releaseFence, Goto
    <2> QED BY <2>1, <2>2, <2>3, UnrecordedGo
  <1>37. ASSUME NEW t \in Reconcilers, JournalDecides(t) PROVE Unrecorded'
    <2>1. At(t, "decide") /\ t \in Threads
      BY <1>37, PlaceNames DEF JournalDecides
    <2>2. phase # "none" => phase' # "none"
      BY <1>37 DEF JournalDecides, markUnknown, advance, update
    <2>3. PICK next \in {"settle_committed", "release", "fences", "answer", "forward",
                         "finish", "undone"} : pc' = [pc EXCEPT ![t] = next]
      BY <1>37 DEF JournalDecides, Reconciled, Call, releaseFence, Goto
    <2> QED BY <2>1, <2>2, <2>3, UnrecordedGo
  <1>38. ASSUME NEW t \in Reconcilers, CommitFinished(t) PROVE Unrecorded'
    <2>1. At(t, "finish") /\ t \in Threads
      BY <1>38, PlaceNames DEF CommitFinished
    <2>2. phase # "none" => phase' # "none"
      BY <1>38 DEF CommitFinished, markUnknown, advance, update
    <2>3. PICK next \in {"fences", "answer", "forward"} : pc' = [pc EXCEPT ![t] = next]
      BY <1>38 DEF CommitFinished, Reconciled, Goto
    <2> QED BY <2>1, <2>2, <2>3, UnrecordedGo
  <1>39. ASSUME NEW t \in Reconcilers, RollForward(t) PROVE Unrecorded'
    <2>1. At(t, "forward") /\ t \in Threads
      BY <1>39, PlaceNames DEF RollForward
    <2>2. phase # "none" => phase' # "none"
      BY <1>39 DEF RollForward, advance, update
    <2>3. PICK next \in {"fences", "answer", "forwarded"} : pc' = [pc EXCEPT ![t] = next]
      BY <1>39 DEF RollForward, Reconciled, Call, Goto
    <2> QED BY <2>1, <2>2, <2>3, UnrecordedGo
  <1>40. ASSUME NEW t \in Reconcilers, ForwardCleaned(t) PROVE Unrecorded'
    <2>1. At(t, "forwarded") /\ t \in Threads
      BY <1>40, PlaceNames DEF ForwardCleaned
    <2>2. phase # "none" => phase' # "none"
      BY <1>40 DEF ForwardCleaned, advance, update
    <2>3. PICK next \in {"settle_forward", "release", "fences", "answer"} :
                  pc' = [pc EXCEPT ![t] = next]
      BY <1>40 DEF ForwardCleaned, Reconciled, releaseFence, Goto
    <2> QED BY <2>1, <2>2, <2>3, UnrecordedGo
  <1>41. ASSUME NEW t \in Reconcilers, SettleForward(t) PROVE Unrecorded'
    <2>1. At(t, "settle_forward") /\ t \in Threads
      BY <1>41, PlaceNames DEF SettleForward
    <2>2. phase # "none" => phase' # "none"
      BY <1>41 DEF SettleForward, markUnknown, advance, update
    <2>3. PICK next \in {"fences", "answer"} : pc' = [pc EXCEPT ![t] = next]
      BY <1>41 DEF SettleForward, Reconciled, Goto
    <2> QED BY <2>1, <2>2, <2>3, UnrecordedGo
  <1>42. ASSUME NEW t \in Reconcilers, clearFenceOutcome(t) PROVE Unrecorded'
    <2>1. At(t, "clear") /\ t \in Threads
      BY <1>42, PlaceNames DEF clearFenceOutcome
    <2>2. phase # "none" => phase' # "none"
      BY <1>42 DEF clearFenceOutcome, advance, update
    <2>3. PICK next \in {"settle", "answer"} : pc' = [pc EXCEPT ![t] = next]
      BY <1>42 DEF clearFenceOutcome, Goto
    <2> QED BY <2>1, <2>2, <2>3, UnrecordedGo
  <1>43. ASSUME NEW t \in Reconcilers, settleInterruptedOverwriteOperations(t)
         PROVE Unrecorded'
    <2>1. /\ pc' = [pc EXCEPT ![t] = IF t = "boot" THEN "done" ELSE "off"]
          /\ UNCHANGED <<phase, fenceState, releasedAt, work, ghosts, policy>>
      BY <1>43 DEF settleInterruptedOverwriteOperations, Goto
    <2>2. t \in Threads /\ t # "run"
      BY PlaceNames, ThreadAssumption DEF Reconcilers
    <2>3. pc'["run"] = pc["run"] /\ pc'["boot"] \in {pc["boot"], "done"}
      BY <2>1, <2>2, PlaceNames DEF TypeOK, ThreadTypes
    <2> QED BY <2>1, <2>3, UnrecordedStays
  <1>44. ASSUME NEW t \in Reconcilers, NEW to \in Settled, settleProven(t, to)
         PROVE Unrecorded'
    <2>1. t \in Threads /\ \E from \in {"settle_committed", "settle_rolled_back"} :
             At(t, from)
      BY <1>44, PlaceNames DEF settleProven, Settled
    <2>2. phase # "none" => phase' # "none"
      BY <1>44 DEF settleProven, advance, update, Settled
    <2>3. PICK next \in {"fences", "answer"} : pc' = [pc EXCEPT ![t] = next]
      BY <1>44 DEF settleProven, Reconciled, Goto
    <2> QED BY <2>1, <2>2, <2>3, UnrecordedGo
  <1>45. ASSUME NEW t \in Threads, ReleaseEnd(t) PROVE Unrecorded'
    <2>1. At(t, "release") /\ pc' = [pc EXCEPT ![t] = then[t]] /\ UNCHANGED phase
      BY <1>45 DEF ReleaseEnd, Goto
    <2>2. then[t] # "admit"
      BY <2>1, ReleaseReturns DEF At
    <2> QED BY <2>1, <2>2, UnrecordedGo
  <1>46. ASSUME NEW t \in Threads, NEW c \in Containers, ReleaseMember(t, c)
         PROVE Unrecorded'
    <2>1. phase # "none" /\ UNCHANGED <<phase, pc>>
      BY <1>46, Recorded DEF ReleaseMember, At
    <2> QED BY <2>1 DEF Unrecorded
  <1>47. ASSUME NEW t \in Threads, NEW c \in Containers, ReleaseMemberFails(t, c)
         PROVE Unrecorded'
    <2>1. phase # "none" /\ UNCHANGED <<phase, pc>>
      BY <1>47, Recorded DEF ReleaseMemberFails, At
    <2> QED BY <2>1 DEF Unrecorded
  <1>48. ASSUME NEW t \in Resolvers, Retry(t) PROVE Unrecorded'
    BY <1>48 DEF Retry, releaseFence, Goto, TypeOK, ThreadTypes, Unrecorded, Threads
  <1>49. ASSUME NEW t \in Resolvers, ReleaseFenceRequest(t) PROVE Unrecorded'
    <2>1. phase # "none" /\ UNCHANGED phase
      BY <1>49 DEF ReleaseFenceRequest
    <2>2. PICK next : pc' = [pc EXCEPT ![t] = next]
      BY <1>49 DEF ReleaseFenceRequest, releaseFence, Goto
    <2>3. pc'["run"] = pc["run"]
      BY <2>2, PlaceNames, ThreadAssumption DEF TypeOK, ThreadTypes
    <2> QED BY <2>1, <2>3 DEF Unrecorded
  <1>50. ASSUME NEW t \in Resolvers, AcceptReleased(t) PROVE Unrecorded'
    <2>1. At(t, "accept_released") /\ t \in Threads
      BY <1>50, PlaceNames DEF AcceptReleased
    <2>2. phase # "none" => phase' # "none"
      BY <1>50 DEF AcceptReleased
    <2>3. PICK next \in {"answer", "accept_status"} : pc' = [pc EXCEPT ![t] = next]
      BY <1>50 DEF AcceptReleased, Call, Goto
    <2> QED BY <2>1, <2>2, <2>3, UnrecordedGo
  <1>51. ASSUME NEW t \in Resolvers, AcceptStatus(t) PROVE Unrecorded'
    <2>1. At(t, "accept_status") /\ t \in Threads
      BY <1>51, PlaceNames DEF AcceptStatus
    <2>2. phase # "none" => phase' # "none"
      BY <1>51 DEF AcceptStatus, advance, update
    <2>3. PICK next \in {"answer", "accept_cleaned"} : pc' = [pc EXCEPT ![t] = next]
      BY <1>51 DEF AcceptStatus, Call, Goto
    <2> QED BY <2>1, <2>2, <2>3, UnrecordedGo
  <1>52. ASSUME NEW t \in Resolvers, AcceptCleaned(t) PROVE Unrecorded'
    <2>1. At(t, "accept_cleaned") /\ t \in Threads
      BY <1>52, PlaceNames DEF AcceptCleaned
    <2>2. phase # "none" => phase' # "none"
      BY <1>52 DEF AcceptCleaned, advance, update
    <2>3. PICK next \in {"answer"} : pc' = [pc EXCEPT ![t] = next]
      BY <1>52 DEF AcceptCleaned, Goto
    <2> QED BY <2>1, <2>2, <2>3, UnrecordedGo
  <1>53. ASSUME NEW t \in Threads, runSwapStep(t) PROVE Unrecorded'
    <2>1. pc[t] \notin {"off", "admit", "helpers", "failed", "fences", "settle", "done"}
      BY <1>53, HelperPlaces DEF runSwapStep
    <2>2. phase # "none" /\ UNCHANGED <<phase, pc>>
      BY <1>53, <2>1, Recorded DEF runSwapStep
    <2> QED BY <2>2 DEF Unrecorded
  <1>54. CASE Outsiders
    BY <1>54, OutsidersMove DEF Unrecorded
  <1>55. CASE WorkloadWrites
    BY <1>55 DEF WorkloadWrites, Unrecorded
  <1>56. CASE Crash
    <2>1. /\ pc'["run"] = "off" /\ pc'["boot"] = "off"
          /\ UNCHANGED <<phase, fenceState, releasedAt, work, policy>>
      BY <1>56, PlaceNames DEF Crash
    <2>2. phase = "none" => \A t \in Threads : helper[t] = "idle"
      <3> SUFFICES ASSUME phase = "none", NEW t \in Threads, helper[t] # "idle"
      PROVE FALSE
        OBVIOUS
      <3>1. pc[t] \notin {"off", "admit", "helpers", "failed", "fences", "settle", "done"}
        BY HelperPlaces
      <3> QED BY <3>1, Recorded
    <2>3. phase = "none" => ghosts' = {}
      BY <1>56, <2>2 DEF Crash, Unrecorded
    <2> QED BY <2>1, <2>3 DEF Unrecorded
  <1>57. ASSUME NEW g \in Commands, Ghost(g) PROVE Unrecorded'
    BY <1>57 DEF Ghost, Unrecorded
  <1>58. CASE UNCHANGED vars
    BY <1>58 DEF vars, Unrecorded
  <1> QED
    BY ZenonT(60), <1>1, <1>2, <1>3, <1>4, <1>5, <1>6, <1>7, <1>8, <1>9, <1>10, <1>11,
      <1>12, <1>13, <1>14, <1>15, <1>16, <1>17, <1>18, <1>19, <1>20, <1>21, <1>22,
      <1>23, <1>24, <1>25, <1>26, <1>27, <1>28, <1>29, <1>30, <1>31, <1>32, <1>33,
      <1>34, <1>35, <1>36, <1>37, <1>38, <1>39, <1>40, <1>41, <1>42, <1>43, <1>44,
      <1>45, <1>46, <1>47, <1>48, <1>49, <1>50, <1>51, <1>52, <1>53, <1>54, <1>55,
      <1>56, <1>57, <1>58 DEF Next, Pipeline, BootSequence, Environment, Reconcile,
      Accept, Releases, Reconcilers, Threads, Outsiders

(* A thread moves and leaves the fence as it is,                           *)
LEMMA PinsGo ==
    ASSUME TypeOK, Pins, NEW t \in Threads, NEW next, next # "release",
           t = "run" => next \notin BeforeFence \cup {"fence"},
           pc' = [pc EXCEPT ![t] = next],
           UNCHANGED <<fenceState, releasedAt, policy, failed, visited>>
    PROVE  Pins'
  <1>1. \A u \in Threads : pc'[u] = IF u = t THEN next ELSE pc[u]
    BY DEF TypeOK, ThreadTypes
  <1>2. pc'["run"] = pc["run"] \/ pc'["run"] \notin BeforeFence \cup {"fence"}
    BY <1>1, PlaceNames
  <1>3. {"drain", "observe"} \subseteq BeforeFence
    BY DEF BeforeFence
  <1>4. \A u \in Threads : pc'[u] = "release" => pc[u] = "release"
    BY <1>1
  <1> QED BY <1>2, <1>3, <1>4 DEF Pins, PinnedMeansFenced, FenceLive

(* the pipeline moves before anything is pinned,                           *)
LEMMA PinsOpen ==
    ASSUME TypeOK, Pins, NEW from \in BeforeFence, At("run", from), NEW next,
           pc' = [pc EXCEPT !["run"] = next], LocalTypes', UNCHANGED <<releasedAt, policy>>,
           next \in {"drain", "observe", "fence"} => fenceState' = "held"
    PROVE  Pins'
  <1>1. pc'["run"] = next
    BY PlaceNames DEF TypeOK, ThreadTypes
  <1>2. releasedAt' = {} /\ \A c \in Containers : policy'[c] = "own"
    BY DEF At, Pins
  <1>3. \A u \in Threads : visited'[u] \subseteq Containers
    BY DEF LocalTypes
  <1> QED BY <1>1, <1>2, <1>3 DEF Pins, PinnedMeansFenced

(* a thread begins to release the fence,                                   *)
LEMMA PinsRelease ==
    ASSUME TypeOK, Pins, NEW t \in Threads, NEW place, releaseFence(t, place),
           t = "run" => place \notin BeforeFence \cup {"fence"},
           UNCHANGED <<fenceState, releasedAt, policy>>
    PROVE  Pins'
  <1>1. PICK next \in {place, "release"} : pc' = [pc EXCEPT ![t] = next]
    BY DEF releaseFence, Goto
  <1>2. \A u \in Threads : pc'[u] = IF u = t THEN next ELSE pc[u]
    BY <1>1 DEF TypeOK, ThreadTypes
  <1>3. {"drain", "observe"} \subseteq BeforeFence /\ "release" \notin BeforeFence \cup {"fence"}
    BY DEF BeforeFence
  <1>4. pc'["run"] = pc["run"] \/ pc'["run"] \notin BeforeFence \cup {"fence"}
    BY <1>1, <1>2, <1>3, PlaceNames
  <1>5. ASSUME NEW u \in Threads, pc'[u] = "release", ~failed'[u]
        PROVE  \A c \in visited'[u] : policy'[c] = "own"
    <2>1. CASE u = t
      <3>1. visited'[u] = releasedAt
        BY <2>1 DEF releaseFence, TypeOK, ThreadTypes
      <3> QED BY <3>1 DEF Pins
    <2>2. CASE u # t
      <3>1. pc[u] = "release" /\ failed'[u] = failed[u] /\ visited'[u] = visited[u]
        BY <1>2, <1>5, <2>2 DEF releaseFence, TypeOK, ThreadTypes
      <3> QED BY <1>5, <3>1 DEF Pins
    <2> QED BY <2>1, <2>2
  <1> QED BY <1>3, <1>4, <1>5 DEF Pins, PinnedMeansFenced, FenceLive

(* a thread forgets its locals as it ends,                                 *)
LEMMA PinsForget ==
    ASSUME TypeOK, Pins, NEW t \in Threads, NEW next \in {"off", "done"}, Goto(t, next),
           Forget(t), UNCHANGED <<fenceState, releasedAt, policy>>
    PROVE  Pins'
  <1>1. \A u \in Threads : pc'[u] = IF u = t THEN next ELSE pc[u]
    BY DEF TypeOK, ThreadTypes, Goto
  <1>2. \A u \in Threads : pc'[u] = "release" =>
            pc[u] = "release" /\ failed'[u] = failed[u] /\ visited'[u] = visited[u]
    BY <1>1 DEF Forget, TypeOK, ThreadTypes
  <1>3. pc'["run"] = pc["run"] \/ pc'["run"] \in {"off", "done"}
    BY <1>1, PlaceNames
  <1> QED BY <1>2, <1>3 DEF Pins, PinnedMeansFenced, FenceLive, BeforeFence

(* or nothing of this happens.                                             *)
LEMMA PinsStay ==
    ASSUME Pins, UNCHANGED <<pc, fenceState, releasedAt, policy, failed, visited>>
    PROVE  Pins'
  BY DEF Pins, PinnedMeansFenced, FenceLive

(* While the fence is released the pipeline is not about to take it, and   *)
(* while the pipeline is at work nobody else is releasing it.              *)
LEMMA ReleaseTurns ==
    ASSUME TakeTurns, NEW t \in Threads, pc[t] = "release"
    PROVE  pc["run"] \notin BeforeFence \cup {"fence"}
  <1>1. t # "run" => pc["run"] = "off"
    BY DEF TakeTurns, Turns, Threads
  <1> QED BY <1>1 DEF BeforeFence

(* Every container the fence pinned is unpinned again before the fence     *)
(* reads released.                                                         *)
LEMMA PinsStep ==
    ASSUME TypeOK, TakeTurns, Unrecorded, Pins, [Next]_vars
    PROVE  Pins'
  <1>0. LocalTypes'
    BY LocalTypesStep
  <1>1. CASE prepareOverwriteAdmission
    <2>1. "admit" \notin BeforeFence \cup {"fence"}
      BY DEF BeforeFence
    <2> QED BY <1>1, <2>1, PlaceNames, PinsGo DEF prepareOverwriteAdmission, Goto
  <1>2. CASE admitOverwrite
    <2>1. /\ At("run", "admit")
                /\ UNCHANGED <<fenceState, releasedAt, policy, failed, visited>>
          /\ \E next \in {"stage", "off"} : pc' = [pc EXCEPT !["run"] = next]
      BY <1>2 DEF admitOverwrite, Goto
    <2>2. releasedAt' = {} /\ \A c \in Containers : policy'[c] = "own"
      BY <2>1 DEF At, Unrecorded
    <2>3. pc'["run"] \in {"stage", "off"}
      BY <2>1, PlaceNames DEF TypeOK, ThreadTypes
    <2>4. \A u \in Threads : visited'[u] \subseteq Containers
      BY <1>0 DEF LocalTypes
    <2> QED BY <2>2, <2>3, <2>4 DEF Pins, PinnedMeansFenced
  <1>3. CASE stagePoint
    <2>1. At("run", "stage") /\ "run" \in Threads
      BY <1>3, PlaceNames DEF stagePoint
    <2>2. UNCHANGED <<releasedAt, policy>> /\ "stage" \in BeforeFence
      BY <1>3 DEF stagePoint, BeforeFence
    <2>3. PICK next \in {"create"} :
             /\ pc' = [pc EXCEPT !["run"] = next]
             /\ next \in {"drain", "observe", "fence"} => fenceState' = "held"
      BY <1>3 DEF stagePoint, Goto
    <2> QED BY <1>0, <2>1, <2>2, <2>3, PinsOpen
  <1>4. CASE createLabelledVolume
    <2>1. At("run", "create") /\ "run" \in Threads
      BY <1>4, PlaceNames DEF createLabelledVolume
    <2>2. UNCHANGED <<releasedAt, policy>> /\ "create" \in BeforeFence
      BY <1>4 DEF createLabelledVolume, BeforeFence
    <2>3. PICK next \in {"copy", "unstage", "rollback"} :
             /\ pc' = [pc EXCEPT !["run"] = next]
             /\ next \in {"drain", "observe", "fence"} => fenceState' = "held"
      BY <1>4 DEF createLabelledVolume, settleRollback, Goto
    <2> QED BY <1>0, <2>1, <2>2, <2>3, PinsOpen
  <1>5. CASE RestoreStaging
    <2>1. At("run", "copy") /\ "run" \in Threads
      BY <1>5, PlaceNames DEF RestoreStaging
    <2>2. UNCHANGED <<releasedAt, policy>> /\ "copy" \in BeforeFence
      BY <1>5 DEF RestoreStaging, BeforeFence
    <2>3. PICK next \in {"remove", "unstage"} :
             /\ pc' = [pc EXCEPT !["run"] = next]
             /\ next \in {"drain", "observe", "fence"} => fenceState' = "held"
      BY <1>5 DEF RestoreStaging, Goto
    <2> QED BY <1>0, <2>1, <2>2, <2>3, PinsOpen
  <1>6. CASE Unstage
    <2>1. At("run", "unstage") /\ "run" \in Threads
      BY <1>6, PlaceNames DEF Unstage
    <2>2. UNCHANGED <<releasedAt, policy>> /\ "unstage" \in BeforeFence
      BY <1>6 DEF Unstage, BeforeFence
    <2>3. PICK next \in {"return"} :
             /\ pc' = [pc EXCEPT !["run"] = next]
             /\ next \in {"drain", "observe", "fence"} => fenceState' = "held"
      BY <1>6 DEF Unstage, Finish, Goto
    <2> QED BY <1>0, <2>1, <2>2, <2>3, PinsOpen
  <1>7. CASE removeStaging
    <2>1. At("run", "remove") /\ "run" \in Threads
      BY <1>7, PlaceNames DEF removeStaging
    <2>2. UNCHANGED <<releasedAt, policy>> /\ "remove" \in BeforeFence
      BY <1>7 DEF removeStaging, BeforeFence
    <2>3. PICK next \in {"recheck", "return"} :
             /\ pc' = [pc EXCEPT !["run"] = next]
             /\ next \in {"drain", "observe", "fence"} => fenceState' = "held"
      BY <1>7 DEF removeStaging, Finish, Goto
    <2> QED BY <1>0, <2>1, <2>2, <2>3, PinsOpen
  <1>8. CASE fenceWorkloads
    <2>1. At("run", "recheck") /\ "run" \in Threads
      BY <1>8, PlaceNames DEF fenceWorkloads
    <2>2. UNCHANGED <<releasedAt, policy>> /\ "recheck" \in BeforeFence
      BY <1>8 DEF fenceWorkloads, BeforeFence
    <2>3. PICK next \in {"drain", "rollback", "return"} :
             /\ pc' = [pc EXCEPT !["run"] = next]
             /\ next \in {"drain", "observe", "fence"} => fenceState' = "held"
      BY <1>8 DEF fenceWorkloads, settleRollback, Finish, Goto
    <2> QED BY <1>0, <2>1, <2>2, <2>3, PinsOpen
  <1>9. CASE waitForStartsInFlight
    <2>1. At("run", "drain") /\ "run" \in Threads
      BY <1>9, PlaceNames DEF waitForStartsInFlight
    <2>2. UNCHANGED <<releasedAt, policy>> /\ "drain" \in BeforeFence
      BY <1>9 DEF waitForStartsInFlight, BeforeFence
    <2>3. PICK next \in {"observe", "rollback"} :
             /\ pc' = [pc EXCEPT !["run"] = next]
             /\ next \in {"drain", "observe", "fence"} => fenceState' = "held"
      BY <1>9, <2>1 DEF waitForStartsInFlight, settleRollback, Goto, At, Pins
    <2> QED BY <1>0, <2>1, <2>2, <2>3, PinsOpen
  <1>10. CASE recordMembers
    <2>1. At("run", "observe") /\ "run" \in Threads
      BY <1>10, PlaceNames DEF recordMembers
    <2>2. UNCHANGED <<releasedAt, policy>> /\ "observe" \in BeforeFence
      BY <1>10 DEF recordMembers, BeforeFence
    <2>3. PICK next \in {"fence", "rollback", "return"} :
             /\ pc' = [pc EXCEPT !["run"] = next]
             /\ next \in {"drain", "observe", "fence"} => fenceState' = "held"
      BY <1>10, <2>1 DEF recordMembers, settleRollback, Finish, Goto, At, Pins
    <2> QED BY <1>0, <2>1, <2>2, <2>3, PinsOpen
  <1>11. ASSUME NEW c \in Containers, Pin(c) PROVE Pins'
    <2>1. /\ At("run", "fence") /\ policy' = [policy EXCEPT ![c] = "no"]
          /\ UNCHANGED <<pc, fenceState, releasedAt, failed, visited>>
      BY <1>11 DEF Pin
    <2>2. \A t \in Threads : pc[t] # "release"
      BY <2>1, ReleaseTurns DEF At
    <2>3. fenceState = "held" /\ releasedAt = {} /\ pc["run"] \notin BeforeFence
      BY <2>1 DEF At, Pins, BeforeFence
    <2> QED BY <2>1, <2>2, <2>3 DEF Pins, PinnedMeansFenced, FenceLive
  <1>12. ASSUME NEW c \in Containers, Stop(c) PROVE Pins'
    <2>1. At("run", "fence") /\ UNCHANGED <<pc, fenceState, releasedAt, policy>>
      BY <1>12 DEF Stop
    <2>2. \A t \in Threads : pc[t] # "release"
      BY <2>1, ReleaseTurns DEF At
    <2> QED BY <2>1, <2>2 DEF Pins, PinnedMeansFenced, FenceLive
  <1>13. CASE FenceEnd
    <2>1. At("run", "fence") /\ "run" \in Threads
      BY <1>13, PlaceNames DEF FenceEnd
    <2>2. UNCHANGED <<fenceState, releasedAt, policy>>
      BY <1>13 DEF FenceEnd
    <2>3. \A next \in {"protect", "rollback"} :
             next \notin BeforeFence \cup {"fence", "release"}
      BY DEF BeforeFence
    <2>4. PICK next \in {"protect", "rollback"} : pc' = [pc EXCEPT !["run"] = next]
      BY <1>13 DEF FenceEnd, settleRollback, Goto
    <2>5. UNCHANGED <<failed, visited>>
      BY <1>13 DEF FenceEnd
    <2> QED BY <2>1, <2>2, <2>3, <2>4, <2>5, PinsGo
  <1>14. CASE RecheckBeforePoint
    <2>1. At("run", "protect") /\ "run" \in Threads
      BY <1>14, PlaceNames DEF RecheckBeforePoint
    <2>2. UNCHANGED <<fenceState, releasedAt, policy>>
      BY <1>14 DEF RecheckBeforePoint
    <2>3. \A next \in {"begin", "rollback"} :
             next \notin BeforeFence \cup {"fence", "release"}
      BY DEF BeforeFence
    <2>4. PICK next \in {"begin", "rollback"} : pc' = [pc EXCEPT !["run"] = next]
      BY <1>14 DEF RecheckBeforePoint, settleRollback, Goto
    <2>5. UNCHANGED <<failed, visited>>
      BY <1>14 DEF RecheckBeforePoint
    <2> QED BY <2>1, <2>2, <2>3, <2>4, <2>5, PinsGo
  <1>15. CASE BeginPoint
    <2>1. At("run", "begin") /\ "run" \in Threads
      BY <1>15, PlaceNames DEF BeginPoint
    <2>2. UNCHANGED <<fenceState, releasedAt, policy>>
      BY <1>15 DEF BeginPoint
    <2>3. \A next \in {"capture", "rollback"} :
             next \notin BeforeFence \cup {"fence", "release"}
      BY DEF BeforeFence
    <2>4. PICK next \in {"capture", "rollback"} : pc' = [pc EXCEPT !["run"] = next]
      BY <1>15 DEF BeginPoint, settleRollback, Goto
    <2>5. UNCHANGED <<failed, visited>>
      BY <1>15 DEF BeginPoint
    <2> QED BY <2>1, <2>2, <2>3, <2>4, <2>5, PinsGo
  <1>16. CASE takePreRestorePoint
    <2>1. At("run", "capture") /\ "run" \in Threads
      BY <1>16, PlaceNames DEF takePreRestorePoint
    <2>2. UNCHANGED <<fenceState, releasedAt, policy>>
      BY <1>16 DEF takePreRestorePoint
    <2>3. \A next \in {"materialize", "rollback"} :
             next \notin BeforeFence \cup {"fence", "release"}
      BY DEF BeforeFence
    <2>4. PICK next \in {"materialize", "rollback"} : pc' = [pc EXCEPT !["run"] = next]
      BY <1>16 DEF takePreRestorePoint, settleRollback, Goto
    <2>5. UNCHANGED <<failed, visited>>
      BY <1>16 DEF takePreRestorePoint
    <2> QED BY <2>1, <2>2, <2>3, <2>4, <2>5, PinsGo
  <1>17. CASE materializePoint
    <2>1. At("run", "materialize") /\ "run" \in Threads
      BY <1>17, PlaceNames DEF materializePoint
    <2>2. UNCHANGED <<fenceState, releasedAt, policy>>
      BY <1>17 DEF materializePoint
    <2>3. \A next \in {"materialized"} : next \notin BeforeFence \cup {"fence", "release"}
      BY DEF BeforeFence
    <2>4. PICK next \in {"materialized"} : pc' = [pc EXCEPT !["run"] = next]
      BY <1>17 DEF materializePoint, Call, Goto
    <2>5. UNCHANGED <<failed, visited>>
      BY <1>17 DEF materializePoint
    <2> QED BY <2>1, <2>2, <2>3, <2>4, <2>5, PinsGo
  <1>18. CASE Materialized
    <2>1. At("run", "materialized") /\ "run" \in Threads
      BY <1>18, PlaceNames DEF Materialized
    <2>2. UNCHANGED <<fenceState, releasedAt, policy>>
      BY <1>18 DEF Materialized
    <2>3. \A next \in {"prepared", "rollback"} :
             next \notin BeforeFence \cup {"fence", "release"}
      BY DEF BeforeFence
    <2>4. PICK next \in {"prepared", "rollback"} : pc' = [pc EXCEPT !["run"] = next]
      BY <1>18 DEF Materialized, settleRollback, Call, Goto
    <2>5. UNCHANGED <<failed, visited>>
      BY <1>18 DEF Materialized
    <2> QED BY <2>1, <2>2, <2>3, <2>4, <2>5, PinsGo
  <1>19. CASE Prepared
    <2>1. At("run", "prepared") /\ "run" \in Threads
      BY <1>19, PlaceNames DEF Prepared
    <2>2. UNCHANGED <<fenceState, releasedAt, policy>>
      BY <1>19 DEF Prepared
    <2>3. \A next \in {"recheck_swap", "rollback"} :
             next \notin BeforeFence \cup {"fence", "release"}
      BY DEF BeforeFence
    <2>4. PICK next \in {"recheck_swap", "rollback"} : pc' = [pc EXCEPT !["run"] = next]
      BY <1>19 DEF Prepared, settleRollback, Goto
    <2>5. UNCHANGED <<failed, visited>>
      BY <1>19 DEF Prepared
    <2> QED BY <2>1, <2>2, <2>3, <2>4, <2>5, PinsGo
  <1>20. CASE RecheckBeforeSwap
    <2>1. At("run", "recheck_swap") /\ "run" \in Threads
      BY <1>20, PlaceNames DEF RecheckBeforeSwap
    <2>2. UNCHANGED <<fenceState, releasedAt, policy>>
      BY <1>20 DEF RecheckBeforeSwap
    <2>3. \A next \in {"commit", "rollback"} :
             next \notin BeforeFence \cup {"fence", "release"}
      BY DEF BeforeFence
    <2>4. PICK next \in {"commit", "rollback"} : pc' = [pc EXCEPT !["run"] = next]
      BY <1>20 DEF RecheckBeforeSwap, settleRollback, Goto
    <2>5. UNCHANGED <<failed, visited>>
      BY <1>20 DEF RecheckBeforeSwap
    <2> QED BY <2>1, <2>2, <2>3, <2>4, <2>5, PinsGo
  <1>21. CASE Commit
    <2>1. "run" \in Threads /\ \E from \in {"commit", "committed", "recommitted"} :
             At("run", from)
      BY <1>21, PlaceNames DEF Commit
    <2>2. UNCHANGED <<fenceState, releasedAt, policy>>
      BY <1>21 DEF Commit
    <2>3. \A next \in {"committed", "confirm_reported", "confirm", "confirm_last"} :
             next \notin BeforeFence \cup {"fence", "release"}
      BY DEF BeforeFence
    <2>4. PICK next \in {"committed", "confirm_reported", "confirm", "confirm_last"} :
                  pc' = [pc EXCEPT !["run"] = next]
      BY <1>21 DEF Commit, Call, Goto
    <2>5. UNCHANGED <<failed, visited>>
      BY <1>21 DEF Commit
    <2> QED BY <2>1, <2>2, <2>3, <2>4, <2>5, PinsGo
  <1>22. CASE swapAndCleanup
    <2>1. "run" \in Threads /\ \E from
             \in {"confirm", "confirm_reported", "confirm_last"} : At("run", from)
      BY <1>22, PlaceNames DEF swapAndCleanup
    <2>2. UNCHANGED <<fenceState, releasedAt, policy>>
      BY <1>22 DEF swapAndCleanup
    <2>3. \A next \in {"cleaned", "recommitted", "return", "rollback"} :
             next \notin BeforeFence \cup {"fence", "release"}
      BY DEF BeforeFence
    <2>4. PICK next \in {"cleaned", "recommitted", "return", "rollback"} :
                  pc' = [pc EXCEPT !["run"] = next]
      BY <1>22 DEF swapAndCleanup, Finish, settleRollback, Call, Goto
    <2>5. UNCHANGED <<failed, visited>>
      BY <1>22 DEF swapAndCleanup
    <2> QED BY <2>1, <2>2, <2>3, <2>4, <2>5, PinsGo
  <1>23. CASE releaseAfterCommit
    <2>1. At("run", "cleaned") /\ "run" \in Threads
      BY <1>23, PlaceNames DEF releaseAfterCommit
    <2>2. UNCHANGED <<fenceState, releasedAt, policy>>
      BY <1>23 DEF releaseAfterCommit
    <2>3. \A next \in {"commit_settle", "return"} :
             next \notin BeforeFence \cup {"fence", "release"}
      BY DEF BeforeFence
    <2>4. \/ releaseFence("run", "commit_settle")
          \/ /\ \E next \in {"return"} : pc' = [pc EXCEPT !["run"] = next]
             /\ UNCHANGED <<failed, visited>>
      BY <1>23 DEF releaseAfterCommit, Finish, Goto
    <2>5. CASE releaseFence("run", "commit_settle")
      BY <2>1, <2>2, <2>3, <2>5, PinsRelease
    <2>6. ASSUME NEW next \in {"return"}, pc' = [pc EXCEPT !["run"] = next],
                 UNCHANGED <<failed, visited>>
          PROVE  Pins'
      BY <2>1, <2>2, <2>3, <2>6, PinsGo
    <2> QED BY <2>4, <2>5, <2>6
  <1>24. CASE CommitSettle
    <2>1. At("run", "commit_settle") /\ "run" \in Threads
      BY <1>24, PlaceNames DEF CommitSettle
    <2>2. UNCHANGED <<fenceState, releasedAt, policy>>
      BY <1>24 DEF CommitSettle
    <2>3. \A next \in {"return"} : next \notin BeforeFence \cup {"fence", "release"}
      BY DEF BeforeFence
    <2>4. PICK next \in {"return"} : pc' = [pc EXCEPT !["run"] = next]
      BY <1>24 DEF CommitSettle, Finish, Goto
    <2>5. UNCHANGED <<failed, visited>>
      BY <1>24 DEF CommitSettle
    <2> QED BY <2>1, <2>2, <2>3, <2>4, <2>5, PinsGo
  <1>25. CASE RollbackBegin
    <2>1. At("run", "rollback") /\ "run" \in Threads
      BY <1>25, PlaceNames DEF RollbackBegin
    <2>2. UNCHANGED <<fenceState, releasedAt, policy>>
      BY <1>25 DEF RollbackBegin
    <2>3. \A next \in {"rollback_done", "rollback_staging"} :
             next \notin BeforeFence \cup {"fence", "release"}
      BY DEF BeforeFence
    <2>4. PICK next \in {"rollback_done", "rollback_staging"} :
                  pc' = [pc EXCEPT !["run"] = next]
      BY <1>25 DEF RollbackBegin, Call, Goto
    <2>5. UNCHANGED <<failed, visited>>
      BY <1>25 DEF RollbackBegin
    <2> QED BY <2>1, <2>2, <2>3, <2>4, <2>5, PinsGo
  <1>26. CASE RollbackDone
    <2>1. At("run", "rollback_done") /\ "run" \in Threads
      BY <1>26, PlaceNames DEF RollbackDone
    <2>2. UNCHANGED <<fenceState, releasedAt, policy>>
      BY <1>26 DEF RollbackDone
    <2>3. \A next \in {"rollback_staging", "return"} :
             next \notin BeforeFence \cup {"fence", "release"}
      BY DEF BeforeFence
    <2>4. PICK next \in {"rollback_staging", "return"} : pc' = [pc EXCEPT !["run"] = next]
      BY <1>26 DEF RollbackDone, Finish, Goto
    <2>5. UNCHANGED <<failed, visited>>
      BY <1>26 DEF RollbackDone
    <2> QED BY <2>1, <2>2, <2>3, <2>4, <2>5, PinsGo
  <1>27. CASE RollbackStaging
    <2>1. At("run", "rollback_staging") /\ "run" \in Threads
      BY <1>27, PlaceNames DEF RollbackStaging
    <2>2. UNCHANGED <<fenceState, releasedAt, policy>>
      BY <1>27 DEF RollbackStaging
    <2>3. \A next \in {"rollback_settle"} :
             next \notin BeforeFence \cup {"fence", "release"}
      BY DEF BeforeFence
    <2>4. releaseFence("run", "rollback_settle")
      BY <1>27 DEF RollbackStaging
    <2> QED BY <2>1, <2>2, <2>3, <2>4, PinsRelease
  <1>28. CASE rollbackIntent
    <2>1. At("run", "rollback_settle") /\ "run" \in Threads
      BY <1>28, PlaceNames DEF rollbackIntent
    <2>2. UNCHANGED <<fenceState, releasedAt, policy>>
      BY <1>28 DEF rollbackIntent
    <2>3. \A next \in {"return"} : next \notin BeforeFence \cup {"fence", "release"}
      BY DEF BeforeFence
    <2>4. PICK next \in {"return"} : pc' = [pc EXCEPT !["run"] = next]
      BY <1>28 DEF rollbackIntent, Finish, Goto
    <2>5. UNCHANGED <<failed, visited>>
      BY <1>28 DEF rollbackIntent
    <2> QED BY <2>1, <2>2, <2>3, <2>4, <2>5, PinsGo
  <1>29. CASE releaseStacks
    BY <1>29, PlaceNames, PinsForget DEF releaseStacks
  <1>30. CASE Boot
    BY <1>30, PlaceNames, PinsGo DEF Boot, Goto
  <1>31. CASE removeForeignEpochHelpers
    <2>1. At("boot", "helpers") /\ "boot" \in Threads
      BY <1>31, PlaceNames DEF removeForeignEpochHelpers
    <2>2. UNCHANGED <<fenceState, releasedAt, policy>>
      BY <1>31 DEF removeForeignEpochHelpers
    <2>3. "boot" # "run"
      OBVIOUS
    <2>4. PICK next \in {"reconcile", "fences", "settle", "failed"} :
                  pc' = [pc EXCEPT !["boot"] = next]
      BY <1>31 DEF removeForeignEpochHelpers, Goto
    <2>5. UNCHANGED <<failed, visited>>
      BY <1>31 DEF removeForeignEpochHelpers
    <2> QED BY <2>1, <2>2, <2>3, <2>4, <2>5, PinsGo
  <1>32. CASE reconcileOverwriteIntentsAtStartup
    <2>1. At("boot", "fences") /\ "boot" \in Threads
      BY <1>32, PlaceNames DEF reconcileOverwriteIntentsAtStartup
    <2>2. UNCHANGED <<fenceState, releasedAt, policy>>
      BY <1>32 DEF reconcileOverwriteIntentsAtStartup
    <2>3. "boot" # "run"
      OBVIOUS
    <2>4. \/ releaseFence("boot", "clear")
          \/ /\ \E next \in {"settle"} : pc' = [pc EXCEPT !["boot"] = next]
             /\ UNCHANGED <<failed, visited>>
      BY <1>32 DEF reconcileOverwriteIntentsAtStartup, Goto
    <2>5. CASE releaseFence("boot", "clear")
      BY <2>1, <2>2, <2>3, <2>5, PinsRelease
    <2>6. ASSUME NEW next \in {"settle"}, pc' = [pc EXCEPT !["boot"] = next],
                 UNCHANGED <<failed, visited>>
          PROVE  Pins'
      BY <2>1, <2>2, <2>3, <2>6, PinsGo
    <2> QED BY <2>4, <2>5, <2>6
  <1>33. ASSUME NEW t \in Reconcilers, reconcileOverwriteIntent(t) PROVE Pins'
    <2>1. At(t, "reconcile") /\ t \in Threads
      BY <1>33, PlaceNames DEF reconcileOverwriteIntent
    <2>2. UNCHANGED <<fenceState, releasedAt, policy>>
      BY <1>33 DEF reconcileOverwriteIntent
    <2>3. t # "run"
      BY ThreadAssumption DEF Reconcilers
    <2>4. PICK next \in {"unstage", "read", "undone", "decide"} :
                  pc' = [pc EXCEPT ![t] = next]
      BY <1>33 DEF reconcileOverwriteIntent, Call, Goto
    <2>5. UNCHANGED <<failed, visited>>
      BY <1>33 DEF reconcileOverwriteIntent
    <2> QED BY <2>1, <2>2, <2>3, <2>4, <2>5, PinsGo
  <1>34. ASSUME NEW t \in Reconcilers, ReadUnderWorkloads(t) PROVE Pins'
    <2>1. At(t, "read") /\ t \in Threads
      BY <1>34, PlaceNames DEF ReadUnderWorkloads
    <2>2. UNCHANGED <<fenceState, releasedAt, policy>>
      BY <1>34 DEF ReadUnderWorkloads
    <2>3. t # "run"
      BY ThreadAssumption DEF Reconcilers
    <2>4. PICK next \in {"fences", "answer", "unstage"} : pc' = [pc EXCEPT ![t] = next]
      BY <1>34 DEF ReadUnderWorkloads, Reconciled, Goto
    <2>5. UNCHANGED <<failed, visited>>
      BY <1>34 DEF ReadUnderWorkloads
    <2> QED BY <2>1, <2>2, <2>3, <2>4, <2>5, PinsGo
  <1>35. ASSUME NEW t \in Reconcilers, Undone(t) PROVE Pins'
    <2>1. At(t, "undone") /\ t \in Threads
      BY <1>35, PlaceNames DEF Undone
    <2>2. UNCHANGED <<fenceState, releasedAt, policy>>
      BY <1>35 DEF Undone
    <2>3. t # "run"
      BY ThreadAssumption DEF Reconcilers
    <2>4. \/ releaseFence(t, "settle_rolled_back")
          \/ /\ \E next \in {"fences", "answer", "unstage"} :
                   pc' = [pc EXCEPT ![t] = next]
             /\ UNCHANGED <<failed, visited>>
      BY <1>35 DEF Undone, Reconciled, Goto
    <2>5. CASE releaseFence(t, "settle_rolled_back")
      BY <2>1, <2>2, <2>3, <2>5, PinsRelease
    <2>6. ASSUME NEW next \in {"fences", "answer", "unstage"}, pc' = [pc EXCEPT ![t] = next],
                 UNCHANGED <<failed, visited>>
          PROVE  Pins'
      BY <2>1, <2>2, <2>3, <2>6, PinsGo
    <2> QED BY <2>4, <2>5, <2>6
  <1>36. ASSUME NEW t \in Reconcilers, ReconcileStaging(t) PROVE Pins'
    <2>1. At(t, "unstage") /\ t \in Threads
      BY <1>36, PlaceNames DEF ReconcileStaging
    <2>2. UNCHANGED <<fenceState, releasedAt, policy>>
      BY <1>36 DEF ReconcileStaging
    <2>3. t # "run"
      BY ThreadAssumption DEF Reconcilers
    <2>4. releaseFence(t, "settle_rolled_back")
      BY <1>36 DEF ReconcileStaging
    <2> QED BY <2>1, <2>2, <2>3, <2>4, PinsRelease
  <1>37. ASSUME NEW t \in Reconcilers, JournalDecides(t) PROVE Pins'
    <2>1. At(t, "decide") /\ t \in Threads
      BY <1>37, PlaceNames DEF JournalDecides
    <2>2. UNCHANGED <<fenceState, releasedAt, policy>>
      BY <1>37 DEF JournalDecides
    <2>3. t # "run"
      BY ThreadAssumption DEF Reconcilers
    <2>4. \/ releaseFence(t, "settle_committed")
          \/ /\ \E next \in {"fences", "answer", "forward", "finish", "undone"} :
                   pc' = [pc EXCEPT ![t] = next]
             /\ UNCHANGED <<failed, visited>>
      BY <1>37 DEF JournalDecides, Reconciled, Call, Goto
    <2>5. CASE releaseFence(t, "settle_committed")
      BY <2>1, <2>2, <2>3, <2>5, PinsRelease
    <2>6. ASSUME NEW next \in {"fences", "answer", "forward", "finish", "undone"},
                 pc' = [pc EXCEPT ![t] = next],
                 UNCHANGED <<failed, visited>>
          PROVE  Pins'
      BY <2>1, <2>2, <2>3, <2>6, PinsGo
    <2> QED BY <2>4, <2>5, <2>6
  <1>38. ASSUME NEW t \in Reconcilers, CommitFinished(t) PROVE Pins'
    <2>1. At(t, "finish") /\ t \in Threads
      BY <1>38, PlaceNames DEF CommitFinished
    <2>2. UNCHANGED <<fenceState, releasedAt, policy>>
      BY <1>38 DEF CommitFinished
    <2>3. t # "run"
      BY ThreadAssumption DEF Reconcilers
    <2>4. PICK next \in {"fences", "answer", "forward"} : pc' = [pc EXCEPT ![t] = next]
      BY <1>38 DEF CommitFinished, Reconciled, Goto
    <2>5. UNCHANGED <<failed, visited>>
      BY <1>38 DEF CommitFinished
    <2> QED BY <2>1, <2>2, <2>3, <2>4, <2>5, PinsGo
  <1>39. ASSUME NEW t \in Reconcilers, RollForward(t) PROVE Pins'
    <2>1. At(t, "forward") /\ t \in Threads
      BY <1>39, PlaceNames DEF RollForward
    <2>2. UNCHANGED <<fenceState, releasedAt, policy>>
      BY <1>39 DEF RollForward
    <2>3. t # "run"
      BY ThreadAssumption DEF Reconcilers
    <2>4. PICK next \in {"fences", "answer", "forwarded"} : pc' = [pc EXCEPT ![t] = next]
      BY <1>39 DEF RollForward, Reconciled, Call, Goto
    <2>5. UNCHANGED <<failed, visited>>
      BY <1>39 DEF RollForward
    <2> QED BY <2>1, <2>2, <2>3, <2>4, <2>5, PinsGo
  <1>40. ASSUME NEW t \in Reconcilers, ForwardCleaned(t) PROVE Pins'
    <2>1. At(t, "forwarded") /\ t \in Threads
      BY <1>40, PlaceNames DEF ForwardCleaned
    <2>2. UNCHANGED <<fenceState, releasedAt, policy>>
      BY <1>40 DEF ForwardCleaned
    <2>3. t # "run"
      BY ThreadAssumption DEF Reconcilers
    <2>4. \/ releaseFence(t, "settle_forward")
          \/ /\ \E next \in {"fences", "answer"} : pc' = [pc EXCEPT ![t] = next]
             /\ UNCHANGED <<failed, visited>>
      BY <1>40 DEF ForwardCleaned, Reconciled, Goto
    <2>5. CASE releaseFence(t, "settle_forward")
      BY <2>1, <2>2, <2>3, <2>5, PinsRelease
    <2>6. ASSUME NEW next \in {"fences", "answer"}, pc' = [pc EXCEPT ![t] = next],
                 UNCHANGED <<failed, visited>>
          PROVE  Pins'
      BY <2>1, <2>2, <2>3, <2>6, PinsGo
    <2> QED BY <2>4, <2>5, <2>6
  <1>41. ASSUME NEW t \in Reconcilers, SettleForward(t) PROVE Pins'
    <2>1. At(t, "settle_forward") /\ t \in Threads
      BY <1>41, PlaceNames DEF SettleForward
    <2>2. UNCHANGED <<fenceState, releasedAt, policy>>
      BY <1>41 DEF SettleForward
    <2>3. t # "run"
      BY ThreadAssumption DEF Reconcilers
    <2>4. PICK next \in {"fences", "answer"} : pc' = [pc EXCEPT ![t] = next]
      BY <1>41 DEF SettleForward, Reconciled, Goto
    <2>5. UNCHANGED <<failed, visited>>
      BY <1>41 DEF SettleForward
    <2> QED BY <2>1, <2>2, <2>3, <2>4, <2>5, PinsGo
  <1>42. ASSUME NEW t \in Reconcilers, clearFenceOutcome(t) PROVE Pins'
    <2>1. At(t, "clear") /\ t \in Threads
      BY <1>42, PlaceNames DEF clearFenceOutcome
    <2>2. UNCHANGED <<fenceState, releasedAt, policy>>
      BY <1>42 DEF clearFenceOutcome
    <2>3. t # "run"
      BY ThreadAssumption DEF Reconcilers
    <2>4. PICK next \in {"settle", "answer"} : pc' = [pc EXCEPT ![t] = next]
      BY <1>42 DEF clearFenceOutcome, Goto
    <2>5. UNCHANGED <<failed, visited>>
      BY <1>42 DEF clearFenceOutcome
    <2> QED BY <2>1, <2>2, <2>3, <2>4, <2>5, PinsGo
  <1>43. ASSUME NEW t \in Reconcilers, settleInterruptedOverwriteOperations(t) PROVE Pins'
    <2>1. \E next \in {"off", "done"} : Goto(t, next)
      BY <1>43 DEF settleInterruptedOverwriteOperations
    <2> QED
      BY <1>43, <2>1, PlaceNames, PinsForget DEF settleInterruptedOverwriteOperations
  <1>44. ASSUME NEW t \in Reconcilers, NEW to \in Settled, settleProven(t, to) PROVE Pins'
    <2>1. t \in Threads /\ \E from \in {"settle_committed", "settle_rolled_back"} :
             At(t, from)
      BY <1>44, PlaceNames DEF settleProven, Settled
    <2>2. UNCHANGED <<fenceState, releasedAt, policy>>
      BY <1>44 DEF settleProven
    <2>3. t # "run"
      BY ThreadAssumption DEF Reconcilers
    <2>4. PICK next \in {"fences", "answer"} : pc' = [pc EXCEPT ![t] = next]
      BY <1>44 DEF settleProven, Reconciled, Goto
    <2>5. UNCHANGED <<failed, visited>>
      BY <1>44 DEF settleProven
    <2> QED BY <2>1, <2>2, <2>3, <2>4, <2>5, PinsGo
  <1>45. ASSUME NEW t \in Threads, ReleaseEnd(t) PROVE Pins'
    <2>1. /\ At(t, "release") /\ pc' = [pc EXCEPT ![t] = then[t]] /\ visited[t] = Containers
          /\ fenceState' = IF failed[t] THEN "release_failed" ELSE "released"
          /\ UNCHANGED <<releasedAt, policy, failed, visited>>
      BY <1>45 DEF ReleaseEnd, Goto
    <2>2. /\ then[t] \notin BeforeFence \cup {"fence", "release"}
          /\ pc["run"] \notin BeforeFence \cup {"fence"}
      BY <2>1, ReleaseReturns, ReleaseTurns DEF At, BeforeFence
    <2>3. \A u \in Threads : pc'[u] = IF u = t THEN then[t] ELSE pc[u]
      BY <2>1 DEF TypeOK, ThreadTypes
    <2>4. pc'["run"] \notin BeforeFence \cup {"fence", "drain", "observe"}
      BY <2>2, <2>3, PlaceNames DEF BeforeFence
    <2>5. PinnedMeansFenced'
      <3>1. CASE failed[t]
        BY <2>1, <3>1 DEF PinnedMeansFenced, FenceLive
      <3>2. CASE ~failed[t]
        <4>1. \A c \in Containers : policy[c] = "own"
          BY <2>1, <3>2 DEF At, Pins
        <4> QED BY <2>1, <4>1 DEF PinnedMeansFenced
      <3> QED BY <3>1, <3>2
    <2>6. \A u \in Threads : pc'[u] = "release" => pc[u] = "release"
      BY <2>2, <2>3
    <2> QED BY <2>1, <2>4, <2>5, <2>6 DEF Pins
  <1>46. ASSUME NEW t \in Threads, NEW c \in Containers, ReleaseMember(t, c) PROVE Pins'
    <2>1. /\ At(t, "release") /\ visited' = [visited EXCEPT ![t] = @ \cup {c}]
          /\ policy' = [policy EXCEPT ![c] = "own"] /\ releasedAt' = releasedAt \cup {c}
          /\ UNCHANGED <<pc, fenceState, failed>>
      BY <1>46 DEF ReleaseMember
    <2>2. pc["run"] \notin BeforeFence \cup {"fence", "drain", "observe"}
      BY <2>1, ReleaseTurns DEF At, BeforeFence
    <2>3. /\ policy'[c] = "own"
          /\ \A d \in Containers : policy[d] = "own" => policy'[d] = "own"
          /\ \A d \in Containers : policy'[d] = "no" => policy[d] = "no"
      BY <2>1 DEF TypeOK, RowTypes
    <2>4. \A u \in Threads :
             visited[u] \subseteq Containers /\ visited'[u] \subseteq visited[u] \cup {c}
      BY <2>1 DEF TypeOK, ThreadTypes
    <2>5. releasedAt \subseteq Containers
      BY DEF TypeOK, RowTypes
    <2>6. PinnedMeansFenced'
      BY <2>1, <2>3 DEF Pins, PinnedMeansFenced, FenceLive
    <2>7. \A d \in releasedAt' : policy'[d] = "own"
      BY <2>1, <2>3, <2>5 DEF Pins
    <2>8. ASSUME NEW u \in Threads, pc'[u] = "release", ~failed'[u], NEW d \in visited'[u]
          PROVE  policy'[d] = "own"
      <3>1. d = c \/ (d \in visited[u] /\ d \in Containers)
        BY <2>4, <2>8
      <3>2. d \in visited[u] => policy[d] = "own"
        BY <2>1, <2>8 DEF Pins
      <3> QED BY <2>3, <3>1, <3>2
    <2> QED BY <2>1, <2>2, <2>6, <2>7, <2>8 DEF Pins
  <1>47. ASSUME NEW t \in Threads, NEW c \in Containers, ReleaseMemberFails(t, c)
         PROVE Pins'
    <2>1. /\ At(t, "release") /\ visited' = [visited EXCEPT ![t] = @ \cup {c}]
          /\ failed' = [failed EXCEPT ![t] = TRUE]
          /\ UNCHANGED <<pc, fenceState, releasedAt>>
      BY <1>47 DEF ReleaseMemberFails
    <2>2. pc["run"] \notin BeforeFence \cup {"fence", "drain", "observe"}
      BY <2>1, ReleaseTurns DEF At, BeforeFence
    <2>3. PICK p \in {"own", policy[c]} : policy' = [policy EXCEPT ![c] = p]
      BY <1>47 DEF ReleaseMemberFails
    <2>4. /\ \A d \in Containers : policy[d] = "own" => policy'[d] = "own"
          /\ \A d \in Containers : policy'[d] = "no" => policy[d] = "no"
      BY <2>3 DEF TypeOK, RowTypes
    <2>5. \A u \in Threads : visited[u] \subseteq Containers
      BY DEF TypeOK, ThreadTypes
    <2>6. \A u \in Threads : ~failed'[u] => ~failed[u] /\ visited'[u] = visited[u]
      BY <2>1 DEF TypeOK, ThreadTypes
    <2>7. PinnedMeansFenced'
      BY <2>1, <2>4 DEF Pins, PinnedMeansFenced, FenceLive
    <2>8. \A d \in releasedAt' : policy'[d] = "own"
      BY <2>1, <2>4 DEF Pins, TypeOK, RowTypes
    <2>9. ASSUME NEW u \in Threads, pc'[u] = "release", ~failed'[u], NEW d \in visited'[u]
          PROVE  policy'[d] = "own"
      <3>1. d \in visited[u] /\ ~failed[u] /\ pc[u] = "release" /\ d \in Containers
        BY <2>1, <2>5, <2>6, <2>9
      <3>2. policy[d] = "own"
        BY <3>1 DEF Pins
      <3> QED BY <2>4, <3>1, <3>2
    <2> QED BY <2>1, <2>2, <2>7, <2>8, <2>9 DEF Pins
  <1>48. ASSUME NEW t \in Resolvers, Retry(t) PROVE Pins'
    <2>1. t \in Threads /\ t # "run" /\ UNCHANGED <<fenceState, releasedAt, policy>>
      BY <1>48, PlaceNames, ThreadAssumption DEF Retry
    <2>2. CASE releaseFence(t, "clear")
      BY <2>1, <2>2, PinsRelease
    <2>3. ASSUME NEW next \in {"answer", "reconcile"}, Goto(t, next), UNCHANGED <<failed, visited>>
          PROVE  Pins'
      BY <2>1, <2>3, PinsGo DEF Goto
    <2> QED BY <1>48, <2>2, <2>3 DEF Retry
  <1>49. ASSUME NEW t \in Resolvers, ReleaseFenceRequest(t) PROVE Pins'
    <2>1. t \in Threads /\ t # "run" /\ releaseFence(t, "accept_released")
      BY <1>49, PlaceNames, ThreadAssumption DEF ReleaseFenceRequest
    <2> QED BY <1>49, <2>1, PinsRelease DEF ReleaseFenceRequest
  <1>50. ASSUME NEW t \in Resolvers, AcceptReleased(t) PROVE Pins'
    <2>1. At(t, "accept_released") /\ t \in Threads
      BY <1>50, PlaceNames DEF AcceptReleased
    <2>2. UNCHANGED <<fenceState, releasedAt, policy>>
      BY <1>50 DEF AcceptReleased
    <2>3. t # "run"
      BY ThreadAssumption DEF Reconcilers
    <2>4. PICK next \in {"answer", "accept_status"} : pc' = [pc EXCEPT ![t] = next]
      BY <1>50 DEF AcceptReleased, Call, Goto
    <2>5. UNCHANGED <<failed, visited>>
      BY <1>50 DEF AcceptReleased
    <2> QED BY <2>1, <2>2, <2>3, <2>4, <2>5, PinsGo
  <1>51. ASSUME NEW t \in Resolvers, AcceptStatus(t) PROVE Pins'
    <2>1. At(t, "accept_status") /\ t \in Threads
      BY <1>51, PlaceNames DEF AcceptStatus
    <2>2. UNCHANGED <<fenceState, releasedAt, policy>>
      BY <1>51 DEF AcceptStatus
    <2>3. t # "run"
      BY ThreadAssumption DEF Reconcilers
    <2>4. PICK next \in {"answer", "accept_cleaned"} : pc' = [pc EXCEPT ![t] = next]
      BY <1>51 DEF AcceptStatus, Call, Goto
    <2>5. UNCHANGED <<failed, visited>>
      BY <1>51 DEF AcceptStatus
    <2> QED BY <2>1, <2>2, <2>3, <2>4, <2>5, PinsGo
  <1>52. ASSUME NEW t \in Resolvers, AcceptCleaned(t) PROVE Pins'
    <2>1. At(t, "accept_cleaned") /\ t \in Threads
      BY <1>52, PlaceNames DEF AcceptCleaned
    <2>2. UNCHANGED <<fenceState, releasedAt, policy>>
      BY <1>52 DEF AcceptCleaned
    <2>3. t # "run"
      BY ThreadAssumption DEF Reconcilers
    <2>4. PICK next \in {"answer"} : pc' = [pc EXCEPT ![t] = next]
      BY <1>52 DEF AcceptCleaned, Goto
    <2>5. UNCHANGED <<failed, visited>>
      BY <1>52 DEF AcceptCleaned
    <2> QED BY <2>1, <2>2, <2>3, <2>4, <2>5, PinsGo
  <1>53. ASSUME NEW t \in Threads, runSwapStep(t) PROVE Pins'
    BY <1>53, PinsStay DEF runSwapStep
  <1>54. CASE Outsiders
    BY <1>54, OutsidersMove, PinsStay
  <1>55. CASE WorkloadWrites
    BY <1>55, PinsStay DEF WorkloadWrites
  <1>56. CASE Crash
    <2>1. /\ \A t \in Threads : pc'[t] = "off"
          /\ UNCHANGED <<fenceState, releasedAt, policy>>
      BY <1>56 DEF Crash
    <2> QED BY <2>1, PlaceNames DEF Pins, PinnedMeansFenced, FenceLive, BeforeFence
  <1>57. ASSUME NEW g \in Commands, Ghost(g) PROVE Pins'
    BY <1>57, PinsStay DEF Ghost
  <1>58. CASE UNCHANGED vars
    BY <1>58, PinsStay DEF vars
  <1> QED
    BY ZenonT(60), <1>1, <1>2, <1>3, <1>4, <1>5, <1>6, <1>7, <1>8, <1>9, <1>10, <1>11,
      <1>12, <1>13, <1>14, <1>15, <1>16, <1>17, <1>18, <1>19, <1>20, <1>21, <1>22,
      <1>23, <1>24, <1>25, <1>26, <1>27, <1>28, <1>29, <1>30, <1>31, <1>32, <1>33,
      <1>34, <1>35, <1>36, <1>37, <1>38, <1>39, <1>40, <1>41, <1>42, <1>43, <1>44,
      <1>45, <1>46, <1>47, <1>48, <1>49, <1>50, <1>51, <1>52, <1>53, <1>54, <1>55,
      <1>56, <1>57, <1>58 DEF Next, Pipeline, BootSequence, Environment, Reconcile,
      Accept, Releases, Reconcilers, Threads, Outsiders

(* A settled intent stays settled, and one that is not holds its points.   *)
Keeps ==
    /\ phase \in Settled => phase' \in Settled
    /\ phase' \notin Settled \cup {"none"} => holds'

(* A transition keeps both,                                                *)
LEMMA KeepsAdvance ==
    ASSUME TypeOK, Copies, phase # "none", NEW to, NEW class, advance(to, class),
           UNCHANGED holds
    PROVE  Keeps
  <1>1. phase \in Phases
    BY DEF TypeOK, RowTypes
  <1>2. CASE to \in ALLOWED_TRANSITIONS[phase]
    <2>1. phase \notin Settled
      BY <1>2, Transitions
    <2> QED BY <2>1 DEF Copies, Keeps
  <1>3. CASE to \notin ALLOWED_TRANSITIONS[phase]
    BY <1>3 DEF advance, row, Copies, Keeps
  <1> QED BY <1>2, <1>3

LEMMA KeepsUnknown ==
    ASSUME TypeOK, Copies, phase # "none", NEW t, NEW class, markUnknown(t, class),
           UNCHANGED holds
    PROVE  Keeps
  <1>1. CASE update(class)
    BY <1>1 DEF update, Copies, Keeps
  <1>2. CASE advance("completion_unknown", class)
    BY <1>2, KeepsAdvance
  <1> QED BY <1>1, <1>2 DEF markUnknown

(* so does a settlement, which releases the holds when it is allowed,      *)
LEMMA KeepsSettle ==
    ASSUME TypeOK, Copies, phase # "none", NEW to \in Settled, NEW class,
           advance(to, class), releaseHolds(to)
    PROVE  Keeps
  <1>1. CASE to \in ALLOWED_TRANSITIONS[phase]
    BY <1>1 DEF advance, Keeps
  <1>2. CASE to \notin ALLOWED_TRANSITIONS[phase]
    <2>1. phase' = phase /\ (holds => holds')
      BY <1>2 DEF advance, row, releaseHolds, TypeOK, FlagTypes
    <2> QED BY <2>1 DEF Copies, Keeps
  <1> QED BY <1>1, <1>2

(* and whatever leaves the phase and the holds alone.                      *)
LEMMA KeepsStay ==
    ASSUME Copies, UNCHANGED <<phase, holds>>
    PROVE  Keeps
  BY DEF Copies, Keeps

(* Every step keeps the intent settled, or its points held.                *)
LEMMA KeepsStep ==
    ASSUME TypeOK, TakeTurns, Unrecorded, Copies, [Next]_vars
    PROVE  Keeps
  <1>1. CASE prepareOverwriteAdmission
    BY <1>1, KeepsStay DEF prepareOverwriteAdmission, row
  <1>2. CASE admitOverwrite
    <2>1. \/ phase = "none" /\ phase' = "recorded" /\ holds' = TRUE
          \/ UNCHANGED <<phase, holds>>
      BY <1>2 DEF admitOverwrite, At, Unrecorded, row
    <2> QED BY <2>1, KeepsStay DEF Keeps, Settled
  <1>3. CASE stagePoint
    <2>1. At("run", "stage") /\ "run" \in Threads
      BY <1>3, PlaceNames DEF stagePoint
    <2>2. phase # "none"
      BY <2>1, Recorded DEF At
    <2>3. advance("staging", outcomeClass) /\ UNCHANGED holds
      BY <1>3 DEF stagePoint
    <2> QED BY <2>3, <2>2, KeepsAdvance
  <1>4. CASE createLabelledVolume
    BY <1>4, KeepsStay DEF createLabelledVolume, row
  <1>5. CASE RestoreStaging
    <2>1. At("run", "copy") /\ "run" \in Threads
      BY <1>5, PlaceNames DEF RestoreStaging
    <2>2. phase # "none"
      BY <2>1, Recorded DEF At
    <2>3. \/ advance("staged_verified", outcomeClass) /\ UNCHANGED holds
          \/ UNCHANGED <<phase, holds>>
      BY <1>5 DEF RestoreStaging, row, update
    <2>4. CASE advance("staged_verified", outcomeClass) /\ UNCHANGED holds
      BY <1>5, <2>4, <2>2, KeepsAdvance
    <2>5. CASE UNCHANGED <<phase, holds>>
      BY <1>5, <2>5, KeepsStay
    <2> QED BY <2>3, <2>4, <2>5
  <1>6. CASE Unstage
    <2>1. At("run", "unstage") /\ "run" \in Threads
      BY <1>6, PlaceNames DEF Unstage
    <2>2. phase # "none"
      BY <2>1, Recorded DEF At
    <2>3. \/ advance("rolled_back", "other") /\ releaseHolds("rolled_back")
          \/ UNCHANGED <<phase, holds>>
      BY <1>6 DEF Unstage, row, update
    <2>4. CASE advance("rolled_back", "other") /\ releaseHolds("rolled_back")
      BY <1>6, <2>4, <2>2, RowNames, KeepsSettle DEF Settled
    <2>5. CASE UNCHANGED <<phase, holds>>
      BY <1>6, <2>5, KeepsStay
    <2> QED BY <2>3, <2>4, <2>5
  <1>7. CASE removeStaging
    BY <1>7, KeepsStay DEF removeStaging, update, row
  <1>8. CASE fenceWorkloads
    <2>1. At("run", "recheck") /\ "run" \in Threads
      BY <1>8, PlaceNames DEF fenceWorkloads
    <2>2. phase # "none"
      BY <2>1, Recorded DEF At
    <2>3. \/ advance("fenced", outcomeClass) /\ UNCHANGED holds
          \/ UNCHANGED <<phase, holds>>
      BY <1>8 DEF fenceWorkloads, row, update
    <2>4. CASE advance("fenced", outcomeClass) /\ UNCHANGED holds
      BY <1>8, <2>4, <2>2, KeepsAdvance
    <2>5. CASE UNCHANGED <<phase, holds>>
      BY <1>8, <2>5, KeepsStay
    <2> QED BY <2>3, <2>4, <2>5
  <1>9. CASE waitForStartsInFlight
    BY <1>9, KeepsStay DEF waitForStartsInFlight, row
  <1>10. CASE recordMembers
    BY <1>10, KeepsStay DEF recordMembers, row
  <1>11. ASSUME NEW c \in Containers, Pin(c) PROVE Keeps
    BY <1>11, KeepsStay DEF Pin, row
  <1>12. ASSUME NEW c \in Containers, Stop(c) PROVE Keeps
    BY <1>12, KeepsStay DEF Stop, row
  <1>13. CASE FenceEnd
    <2>1. At("run", "fence") /\ "run" \in Threads
      BY <1>13, PlaceNames DEF FenceEnd
    <2>2. phase # "none"
      BY <2>1, Recorded DEF At
    <2>3. \/ advance("protecting", outcomeClass) /\ UNCHANGED holds
          \/ UNCHANGED <<phase, holds>>
      BY <1>13 DEF FenceEnd, row, update
    <2>4. CASE advance("protecting", outcomeClass) /\ UNCHANGED holds
      BY <1>13, <2>4, <2>2, KeepsAdvance
    <2>5. CASE UNCHANGED <<phase, holds>>
      BY <1>13, <2>5, KeepsStay
    <2> QED BY <2>3, <2>4, <2>5
  <1>14. CASE RecheckBeforePoint
    BY <1>14, KeepsStay DEF RecheckBeforePoint, row
  <1>15. CASE BeginPoint
    BY <1>15, KeepsStay DEF BeginPoint, row
  <1>16. CASE takePreRestorePoint
    BY <1>16, KeepsStay DEF takePreRestorePoint, row
  <1>17. CASE materializePoint
    <2>1. At("run", "materialize") /\ "run" \in Threads
      BY <1>17, PlaceNames DEF materializePoint
    <2>2. phase # "none"
      BY <2>1, Recorded DEF At
    <2>3. advance("materializing", outcomeClass) /\ UNCHANGED holds
      BY <1>17 DEF materializePoint
    <2> QED BY <2>3, <2>2, KeepsAdvance
  <1>18. CASE Materialized
    BY <1>18, KeepsStay DEF Materialized, row
  <1>19. CASE Prepared
    <2>1. At("run", "prepared") /\ "run" \in Threads
      BY <1>19, PlaceNames DEF Prepared
    <2>2. phase # "none"
      BY <2>1, Recorded DEF At
    <2>3. \/ advance("swapping", outcomeClass) /\ UNCHANGED holds
          \/ UNCHANGED <<phase, holds>>
      BY <1>19 DEF Prepared, row, update
    <2>4. CASE advance("swapping", outcomeClass) /\ UNCHANGED holds
      BY <1>19, <2>4, <2>2, KeepsAdvance
    <2>5. CASE UNCHANGED <<phase, holds>>
      BY <1>19, <2>5, KeepsStay
    <2> QED BY <2>3, <2>4, <2>5
  <1>20. CASE RecheckBeforeSwap
    BY <1>20, KeepsStay DEF RecheckBeforeSwap, row
  <1>21. CASE Commit
    BY <1>21, KeepsStay DEF Commit, row
  <1>22. CASE swapAndCleanup
    <2>1. "run" \in Threads /\ \E from
             \in {"confirm", "confirm_reported", "confirm_last"} : At("run", from)
      BY <1>22, PlaceNames DEF swapAndCleanup
    <2>2. phase # "none"
      BY <2>1, Recorded DEF At
    <2>3. \/ advance("swapped", outcomeClass) /\ UNCHANGED holds
          \/ advance("completion_unknown", "other") /\ UNCHANGED holds
          \/ UNCHANGED <<phase, holds>>
      BY <1>22 DEF swapAndCleanup, row, update
    <2>4. CASE advance("swapped", outcomeClass) /\ UNCHANGED holds
      BY <1>22, <2>4, <2>2, KeepsAdvance
    <2>5. CASE advance("completion_unknown", "other") /\ UNCHANGED holds
      BY <1>22, <2>5, <2>2, KeepsAdvance
    <2>6. CASE UNCHANGED <<phase, holds>>
      BY <1>22, <2>6, KeepsStay
    <2> QED BY <2>3, <2>4, <2>5, <2>6
  <1>23. CASE releaseAfterCommit
    BY <1>23, KeepsStay DEF releaseAfterCommit, update, row
  <1>24. CASE CommitSettle
    <2>1. At("run", "commit_settle") /\ "run" \in Threads
      BY <1>24, PlaceNames DEF CommitSettle
    <2>2. phase # "none"
      BY <2>1, Recorded DEF At
    <2>3. advance("committed", IF failed["run"] THEN "fence_unavailable" ELSE "null")
             /\ releaseHolds("committed")
      BY <1>24 DEF CommitSettle
    <2> QED BY <2>3, <2>2, RowNames, KeepsSettle DEF Settled
  <1>25. CASE RollbackBegin
    BY <1>25, KeepsStay DEF RollbackBegin, row
  <1>26. CASE RollbackDone
    <2>1. At("run", "rollback_done") /\ "run" \in Threads
      BY <1>26, PlaceNames DEF RollbackDone
    <2>2. phase # "none"
      BY <2>1, Recorded DEF At
    <2>3. \/ advance("completion_unknown", "other") /\ UNCHANGED holds
          \/ UNCHANGED <<phase, holds>>
      BY <1>26 DEF RollbackDone, row, update
    <2>4. CASE advance("completion_unknown", "other") /\ UNCHANGED holds
      BY <1>26, <2>4, <2>2, KeepsAdvance
    <2>5. CASE UNCHANGED <<phase, holds>>
      BY <1>26, <2>5, KeepsStay
    <2> QED BY <2>3, <2>4, <2>5
  <1>27. CASE RollbackStaging
    BY <1>27, KeepsStay DEF RollbackStaging, row
  <1>28. CASE rollbackIntent
    <2>1. At("run", "rollback_settle") /\ "run" \in Threads
      BY <1>28, PlaceNames DEF rollbackIntent
    <2>2. phase # "none" /\ phase \in Phases
      BY <2>1, Recorded DEF At, TypeOK, RowTypes
    <2>3. \/ UNCHANGED <<phase, holds>>
          \/ advance("rolled_back", IF failed["run"] THEN "fence_unavailable" ELSE "null")
      BY <1>28 DEF rollbackIntent, update
    <2>4. CASE advance("rolled_back", IF failed["run"] THEN "fence_unavailable" ELSE "null")
      <3>1. phase \notin Settled => "rolled_back" \in ALLOWED_TRANSITIONS[phase]
        BY <2>2, Transitions
      <3>2. phase' \in Settled
        BY <2>4, <3>1 DEF advance, row, Settled
      <3> QED BY <3>2 DEF Keeps
    <2> QED BY <2>3, <2>4, KeepsStay
  <1>29. CASE releaseStacks
    BY <1>29, KeepsStay DEF releaseStacks, row
  <1>30. CASE Boot
    BY <1>30, KeepsStay DEF Boot, row
  <1>31. CASE removeForeignEpochHelpers
    BY <1>31, KeepsStay DEF removeForeignEpochHelpers, row
  <1>32. CASE reconcileOverwriteIntentsAtStartup
    BY <1>32, KeepsStay DEF reconcileOverwriteIntentsAtStartup, row
  <1>33. ASSUME NEW t \in Reconcilers, reconcileOverwriteIntent(t) PROVE Keeps
    BY <1>33, KeepsStay DEF reconcileOverwriteIntent, row
  <1>34. ASSUME NEW t \in Reconcilers, ReadUnderWorkloads(t) PROVE Keeps
    <2>1. At(t, "read") /\ t \in Threads
      BY <1>34, PlaceNames DEF ReadUnderWorkloads
    <2>2. phase # "none"
      BY <2>1, Recorded DEF At
    <2>3. \/ markUnknown(t, "other") /\ UNCHANGED holds
          \/ UNCHANGED <<phase, holds>>
      BY <1>34 DEF ReadUnderWorkloads, row, update
    <2>4. CASE markUnknown(t, "other") /\ UNCHANGED holds
      BY <1>34, <2>4, <2>2, KeepsUnknown
    <2>5. CASE UNCHANGED <<phase, holds>>
      BY <1>34, <2>5, KeepsStay
    <2> QED BY <2>3, <2>4, <2>5
  <1>35. ASSUME NEW t \in Reconcilers, Undone(t) PROVE Keeps
    <2>1. At(t, "undone") /\ t \in Threads
      BY <1>35, PlaceNames DEF Undone
    <2>2. phase # "none"
      BY <2>1, Recorded DEF At
    <2>3. \/ markUnknown(t, "other") /\ UNCHANGED holds
          \/ UNCHANGED <<phase, holds>>
      BY <1>35 DEF Undone, row, update
    <2>4. CASE markUnknown(t, "other") /\ UNCHANGED holds
      BY <1>35, <2>4, <2>2, KeepsUnknown
    <2>5. CASE UNCHANGED <<phase, holds>>
      BY <1>35, <2>5, KeepsStay
    <2> QED BY <2>3, <2>4, <2>5
  <1>36. ASSUME NEW t \in Reconcilers, ReconcileStaging(t) PROVE Keeps
    BY <1>36, KeepsStay DEF ReconcileStaging, row
  <1>37. ASSUME NEW t \in Reconcilers, JournalDecides(t) PROVE Keeps
    <2>1. At(t, "decide") /\ t \in Threads
      BY <1>37, PlaceNames DEF JournalDecides
    <2>2. phase # "none"
      BY <2>1, Recorded DEF At
    <2>3. \/ markUnknown(t, "other") /\ UNCHANGED holds
          \/ UNCHANGED <<phase, holds>>
      BY <1>37 DEF JournalDecides, row, update
    <2>4. CASE markUnknown(t, "other") /\ UNCHANGED holds
      BY <1>37, <2>4, <2>2, KeepsUnknown
    <2>5. CASE UNCHANGED <<phase, holds>>
      BY <1>37, <2>5, KeepsStay
    <2> QED BY <2>3, <2>4, <2>5
  <1>38. ASSUME NEW t \in Reconcilers, CommitFinished(t) PROVE Keeps
    <2>1. At(t, "finish") /\ t \in Threads
      BY <1>38, PlaceNames DEF CommitFinished
    <2>2. phase # "none"
      BY <2>1, Recorded DEF At
    <2>3. \/ markUnknown(t, "other") /\ UNCHANGED holds
          \/ UNCHANGED <<phase, holds>>
      BY <1>38 DEF CommitFinished, row, update
    <2>4. CASE markUnknown(t, "other") /\ UNCHANGED holds
      BY <1>38, <2>4, <2>2, KeepsUnknown
    <2>5. CASE UNCHANGED <<phase, holds>>
      BY <1>38, <2>5, KeepsStay
    <2> QED BY <2>3, <2>4, <2>5
  <1>39. ASSUME NEW t \in Reconcilers, RollForward(t) PROVE Keeps
    <2>1. At(t, "forward") /\ t \in Threads
      BY <1>39, PlaceNames DEF RollForward
    <2>2. phase # "none"
      BY <2>1, Recorded DEF At
    <2>3. \/ advance("swapped", outcomeClass) /\ UNCHANGED holds
          \/ UNCHANGED <<phase, holds>>
      BY <1>39 DEF RollForward, row, update
    <2>4. CASE advance("swapped", outcomeClass) /\ UNCHANGED holds
      BY <1>39, <2>4, <2>2, KeepsAdvance
    <2>5. CASE UNCHANGED <<phase, holds>>
      BY <1>39, <2>5, KeepsStay
    <2> QED BY <2>3, <2>4, <2>5
  <1>40. ASSUME NEW t \in Reconcilers, ForwardCleaned(t) PROVE Keeps
    BY <1>40, KeepsStay DEF ForwardCleaned, update, row
  <1>41. ASSUME NEW t \in Reconcilers, SettleForward(t) PROVE Keeps
    <2>1. At(t, "settle_forward") /\ t \in Threads
      BY <1>41, PlaceNames DEF SettleForward
    <2>2. phase # "none"
      BY <2>1, Recorded DEF At
    <2>3. \/ advance("committed", "null") /\ releaseHolds("committed")
          \/ markUnknown(t, "fence_unavailable") /\ UNCHANGED holds
          \/ UNCHANGED <<phase, holds>>
      BY <1>41 DEF SettleForward, row, update
    <2>4. CASE advance("committed", "null") /\ releaseHolds("committed")
      BY <1>41, <2>4, <2>2, RowNames, KeepsSettle DEF Settled
    <2>5. CASE markUnknown(t, "fence_unavailable") /\ UNCHANGED holds
      BY <1>41, <2>5, <2>2, KeepsUnknown
    <2>6. CASE UNCHANGED <<phase, holds>>
      BY <1>41, <2>6, KeepsStay
    <2> QED BY <2>3, <2>4, <2>5, <2>6
  <1>42. ASSUME NEW t \in Reconcilers, clearFenceOutcome(t) PROVE Keeps
    <2>1. At(t, "clear") /\ t \in Threads /\ UNCHANGED phase
      BY <1>42, PlaceNames DEF clearFenceOutcome, update, row
    <2>2. phase \in Settled
      BY <2>1 DEF At, Copies, Toward
    <2> QED BY <2>1, <2>2 DEF Keeps
  <1>43. ASSUME NEW t \in Reconcilers, settleInterruptedOverwriteOperations(t) PROVE Keeps
    BY <1>43, KeepsStay DEF settleInterruptedOverwriteOperations, row
  <1>44. ASSUME NEW t \in Reconcilers, NEW to \in Settled, settleProven(t, to) PROVE Keeps
    <2>1. t \in Threads /\ \E from \in {"settle_committed", "settle_rolled_back"} :
             At(t, from)
      BY <1>44, PlaceNames DEF settleProven, Settled
    <2>2. phase # "none"
      BY <2>1, Recorded DEF At
    <2>3. \/ advance(to, IF failed[t] THEN "fence_unavailable" ELSE "null")
                /\ releaseHolds(to)
          \/ UNCHANGED <<phase, holds>>
      BY <1>44 DEF settleProven, row, update
    <2>4. CASE advance(to, IF failed[t] THEN "fence_unavailable" ELSE "null")
                  /\ releaseHolds(to)
      BY <1>44, <2>4, <2>2, RowNames, KeepsSettle DEF Settled
    <2>5. CASE UNCHANGED <<phase, holds>>
      BY <1>44, <2>5, KeepsStay
    <2> QED BY <2>3, <2>4, <2>5
  <1>45. ASSUME NEW t \in Threads, ReleaseEnd(t) PROVE Keeps
    BY <1>45, KeepsStay DEF ReleaseEnd, row
  <1>46. ASSUME NEW t \in Threads, NEW c \in Containers, ReleaseMember(t, c) PROVE Keeps
    BY <1>46, KeepsStay DEF ReleaseMember, row
  <1>47. ASSUME NEW t \in Threads, NEW c \in Containers, ReleaseMemberFails(t, c)
         PROVE Keeps
    BY <1>47, KeepsStay DEF ReleaseMemberFails, row
  <1>48. ASSUME NEW t \in Resolvers, Retry(t) PROVE Keeps
    BY <1>48, KeepsStay DEF Retry, row
  <1>49. ASSUME NEW t \in Resolvers, ReleaseFenceRequest(t) PROVE Keeps
    BY <1>49, KeepsStay DEF ReleaseFenceRequest, row
  <1>50. ASSUME NEW t \in Resolvers, AcceptReleased(t) PROVE Keeps
    BY <1>50, KeepsStay DEF AcceptReleased, row
  <1>51. ASSUME NEW t \in Resolvers, AcceptStatus(t) PROVE Keeps
    <2>1. At(t, "accept_status") /\ t \in Threads
      BY <1>51, PlaceNames DEF AcceptStatus
    <2>2. phase # "none"
      BY <2>1, Recorded DEF At
    <2>3. \/ advance("completion_unknown", intent[t].class) /\ UNCHANGED holds
          \/ UNCHANGED <<phase, holds>>
      BY <1>51 DEF AcceptStatus, row, update
    <2>4. CASE advance("completion_unknown", intent[t].class) /\ UNCHANGED holds
      BY <1>51, <2>4, <2>2, KeepsAdvance
    <2>5. CASE UNCHANGED <<phase, holds>>
      BY <1>51, <2>5, KeepsStay
    <2> QED BY <2>3, <2>4, <2>5
  <1>52. ASSUME NEW t \in Resolvers, AcceptCleaned(t) PROVE Keeps
    <2>1. At(t, "accept_cleaned") /\ t \in Threads
      BY <1>52, PlaceNames DEF AcceptCleaned
    <2>2. phase # "none"
      BY <2>1, Recorded DEF At
    <2>3. \/ advance("committed", "null") /\ releaseHolds("committed")
          \/ UNCHANGED <<phase, holds>>
      BY <1>52 DEF AcceptCleaned, row, update
    <2>4. CASE advance("committed", "null") /\ releaseHolds("committed")
      BY <1>52, <2>4, <2>2, RowNames, KeepsSettle DEF Settled
    <2>5. CASE UNCHANGED <<phase, holds>>
      BY <1>52, <2>5, KeepsStay
    <2> QED BY <2>3, <2>4, <2>5
  <1>53. ASSUME NEW t \in Threads, runSwapStep(t) PROVE Keeps
    BY <1>53, KeepsStay DEF runSwapStep, row
  <1>54. CASE Outsiders
    BY <1>54, OutsidersMove, KeepsStay DEF row
  <1>55. CASE WorkloadWrites
    BY <1>55, KeepsStay DEF WorkloadWrites, row
  <1>56. CASE Crash
    BY <1>56, KeepsStay DEF Crash, row
  <1>57. ASSUME NEW g \in Commands, Ghost(g) PROVE Keeps
    BY <1>57, KeepsStay DEF Ghost, row
  <1>58. CASE UNCHANGED vars
    BY <1>58, KeepsStay DEF vars, row
  <1> QED
    BY ZenonT(60), <1>1, <1>2, <1>3, <1>4, <1>5, <1>6, <1>7, <1>8, <1>9, <1>10, <1>11,
      <1>12, <1>13, <1>14, <1>15, <1>16, <1>17, <1>18, <1>19, <1>20, <1>21, <1>22,
      <1>23, <1>24, <1>25, <1>26, <1>27, <1>28, <1>29, <1>30, <1>31, <1>32, <1>33,
      <1>34, <1>35, <1>36, <1>37, <1>38, <1>39, <1>40, <1>41, <1>42, <1>43, <1>44,
      <1>45, <1>46, <1>47, <1>48, <1>49, <1>50, <1>51, <1>52, <1>53, <1>54, <1>55,
      <1>56, <1>57, <1>58 DEF Next, Pipeline, BootSequence, Environment, Reconcile,
      Accept, Releases, Reconcilers, Threads, Outsiders

(* A thread that goes elsewhere is not on its way to clear the outcome.    *)
LEMMA TowardGo ==
    ASSUME NEW t \in Threads, pc'[t] \notin {"clear", "release"},
           \A u \in Threads \ {t} : pc'[u] = pc[u] /\ then'[u] = then[u]
    PROVE  \A u \in Threads : Toward(u)' = "clear" => Toward(u) = "clear"
  <1> SUFFICES ASSUME NEW u \in Threads, Toward(u)' = "clear" PROVE Toward(u) = "clear"
    OBVIOUS
  <1>1. CASE u = t
    BY <1>1 DEF Toward
  <1>2. CASE u # t
    BY <1>2 DEF Toward
  <1> QED BY <1>1, <1>2

(* The volume and the safety copy are left alone, and no thread comes to a *)
(* place that claims more of them.                                         *)
LEMMA CopiesStay ==
    ASSUME Copies, Keeps, UNCHANGED <<work, ghosts, point, dirty, running, restarted>>,
           pc'["run"] \in BeforeCopy => pc["run"] \in BeforeCopy,
           pc'["run"] \in {"begin", "capture", "materialize"} => pc'["run"] = pc["run"],
           \A u \in Threads : helper'[u] = "restore" => helper[u] = "restore",
           \A u \in Threads :
              Toward(u)' = "clear" => Toward(u) = "clear" \/ phase \in Settled
    PROVE  Copies'
  <1>1. Touched' => Touched
    BY DEF Touched
  <1>2. Touched' => point' = "succeeded" /\ ~dirty'
    BY <1>1 DEF Copies
  <1>3. \A u \in Threads : Toward(u)' = "clear" => phase' \in Settled
    BY DEF Copies, Keeps
  <1> QED BY <1>2, <1>3 DEF Copies, Keeps

(* A thread goes on, without a helper of its own or with one that restores *)
(* nothing,                                                                *)
LEMMA CopiesGo ==
    ASSUME TypeOK, Copies, Keeps, UNCHANGED <<work, ghosts, point, dirty, running, restarted>>,
           NEW t \in Threads, NEW next, pc' = [pc EXCEPT ![t] = next],
           next \notin {"begin", "capture", "materialize", "clear", "release"},
           t = "run" /\ next \in BeforeCopy => pc["run"] \in BeforeCopy,
           \A u \in Threads \ {t} : then'[u] = then[u],
           \A u \in Threads : helper'[u] = "restore" => helper[u] = "restore"
    PROVE  Copies'
  <1>1. \A u \in Threads : pc'[u] = IF u = t THEN next ELSE pc[u]
    BY DEF TypeOK, ThreadTypes
  <1>2. \A u \in Threads : Toward(u)' = "clear" => Toward(u) = "clear"
    <2>1. pc'[t] \notin {"clear", "release"}
      BY <1>1
    <2>2. \A u \in Threads \ {t} : pc'[u] = pc[u] /\ then'[u] = then[u]
      BY <1>1
    <2> QED BY <2>1, <2>2, TowardGo
  <1>3. /\ pc'["run"] \in BeforeCopy => pc["run"] \in BeforeCopy
        /\ pc'["run"] \in {"begin", "capture", "materialize"} => pc'["run"] = pc["run"]
    BY <1>1, PlaceNames
  <1> QED BY <1>2, <1>3, CopiesStay

LEMMA CopiesCall ==
    ASSUME TypeOK, Copies, Keeps, UNCHANGED <<work, ghosts, point, dirty, running, restarted>>,
           NEW t \in Threads, NEW command, command # "restore", NEW next, Call(t, command, next),
           next \notin BeforeCopy \cup {"materialize", "clear", "release"}, UNCHANGED then
    PROVE  Copies'
  <1>1. pc' = [pc EXCEPT ![t] = next]
    BY DEF Call, Goto
  <1>2. \A u \in Threads : helper'[u] = "restore" => helper[u] = "restore"
    BY DEF Call, TypeOK, ThreadTypes
  <1>3. next \notin {"begin", "capture", "materialize", "clear", "release"}
    BY DEF BeforeCopy
  <1> QED BY <1>1, <1>2, <1>3, CopiesGo

(* or begins to release the fence.                                         *)
LEMMA CopiesRelease ==
    ASSUME TypeOK, Copies, Keeps, UNCHANGED <<work, ghosts, point, dirty, running, restarted>>,
           NEW t \in Threads, NEW place, releaseFence(t, place), UNCHANGED helper,
           place \notin BeforeCopy \cup {"materialize"}, place = "clear" => phase \in Settled
    PROVE  Copies'
  <1>1. PICK next \in {place, "release"} : pc' = [pc EXCEPT ![t] = next]
    BY DEF releaseFence, Goto
  <1>2. \A u \in Threads : pc'[u] = IF u = t THEN next ELSE pc[u]
    BY <1>1 DEF TypeOK, ThreadTypes
  <1>3. \A u \in Threads : then'[u] = IF u = t THEN place ELSE then[u]
    BY DEF releaseFence, TypeOK, ThreadTypes
  <1>4. \A u \in Threads :
           Toward(u)' = "clear" => Toward(u) = "clear" \/ phase \in Settled
    <2> SUFFICES ASSUME NEW u \in Threads, Toward(u)' = "clear"
                 PROVE  Toward(u) = "clear" \/ phase \in Settled
      OBVIOUS
    <2>1. CASE u = t
      BY <1>2, <1>3, <2>1 DEF Toward
    <2>2. CASE u # t
      BY <1>2, <1>3, <2>2 DEF Toward
    <2> QED BY <2>1, <2>2
  <1>5. "release" \notin BeforeCopy /\ {"begin", "capture"} \subseteq BeforeCopy
    BY DEF BeforeCopy, BeforeFence
  <1>6. /\ pc'["run"] \in BeforeCopy => pc["run"] \in BeforeCopy
        /\ pc'["run"] \in {"begin", "capture", "materialize"} => pc'["run"] = pc["run"]
    BY <1>1, <1>2, <1>5, PlaceNames
  <1> QED BY <1>4, <1>6, CopiesStay

(* While the pipeline is short of the copy nothing can touch the volume.   *)
LEMMA UntouchedBefore ==
    ASSUME TakeTurns, Copies, pc["run"] \in BeforeCopy
    PROVE  ~Touched
  <1>1. work = "none" /\ ghosts = {}
    BY DEF Copies
  <1>2. pc["run"] # "materialize" /\ pc["run"] # "off"
    BY DEF BeforeCopy, BeforeFence
  <1>3. \A t \in Threads : pc[t] \in {"off", "done", pc["run"]}
    BY <1>2 DEF TakeTurns, Turns, Threads
  <1>4. \A t \in Threads : helper[t] = "idle"
    BY <1>3, HelperPlaces
  <1> QED BY <1>1, <1>2, <1>4 DEF Touched

(* The volume stays untouched until the safety copy is complete, and the   *)
(* copy stays held until the intent settles.                               *)
LEMMA CopiesStep ==
    ASSUME TypeOK, TakeTurns, Unrecorded, Copies, [Next]_vars
    PROVE  Copies'
  <1>0. Keeps
    BY KeepsStep
  <1>1. CASE prepareOverwriteAdmission
    <2>1. "admit" \notin BeforeCopy
      BY DEF BeforeCopy, BeforeFence
    <2> QED
      BY <1>0, <1>1, <2>1, PlaceNames, CopiesGo DEF prepareOverwriteAdmission, Goto
  <1>2. CASE admitOverwrite
    <2>1. At("run", "admit") /\ "run" \in Threads
      BY <1>2, PlaceNames DEF admitOverwrite
    <2>2. UNCHANGED <<work, ghosts, point, dirty, running, restarted, then, helper>>
      BY <1>2 DEF admitOverwrite
    <2>3. PICK next \in {"stage", "off"} : pc' = [pc EXCEPT !["run"] = next]
      BY <1>2 DEF admitOverwrite, Goto
    <2>4. work = "none" /\ ghosts = {} /\ phase = "none"
      BY <2>1 DEF At, Unrecorded
    <2>5. pc["run"] = "admit" /\ pc'["run"] = next /\ \A u \in Threads \ {"run"} :
             pc'[u] = pc[u]
      BY <2>1, <2>3 DEF At, TypeOK, ThreadTypes
    <2>6. Touched' => Touched
      BY <2>2, <2>5 DEF Touched
    <2>7. \A u \in Threads : Toward(u)' = "clear" => phase' \in Settled
      <3> SUFFICES ASSUME NEW u \in Threads, Toward(u)' = "clear" PROVE phase' \in Settled
        OBVIOUS
      <3>1. CASE u = "run"
        BY <2>5, <3>1 DEF Toward
      <3>2. CASE u # "run"
        <4>1. Toward(u) = "clear"
          BY <2>2, <2>5, <3>2 DEF Toward
        <4> QED BY <1>0, <4>1 DEF Copies, Keeps
      <3> QED BY <3>1, <3>2
    <2> QED BY <1>0, <2>2, <2>4, <2>5, <2>6, <2>7 DEF Copies, Keeps
  <1>3. CASE stagePoint
    <2>1. At("run", "stage") /\ "run" \in Threads
      BY <1>3, PlaceNames DEF stagePoint
    <2>2. UNCHANGED <<work, ghosts, point, dirty, running, restarted>>
      BY <1>3 DEF stagePoint
    <2>3. "stage" \in BeforeCopy
      BY DEF BeforeCopy, BeforeFence
    <2>4. (\E next \in {"create"} : pc' = [pc EXCEPT !["run"] = next])
             /\ UNCHANGED <<then, helper>>
      BY <1>3 DEF stagePoint, Goto
    <2>5. ASSUME NEW next \in {"create"}, pc' = [pc EXCEPT !["run"] = next],
                 UNCHANGED <<then, helper>>
          PROVE  Copies'
      BY <1>0, <2>1, <2>2, <2>3, <2>5, CopiesGo DEF At
    <2> QED BY <2>4, <2>5
  <1>4. CASE createLabelledVolume
    <2>1. At("run", "create") /\ "run" \in Threads
      BY <1>4, PlaceNames DEF createLabelledVolume
    <2>2. UNCHANGED <<work, ghosts, point, dirty, running, restarted>>
      BY <1>4 DEF createLabelledVolume
    <2>3. "create" \in BeforeCopy
      BY DEF BeforeCopy, BeforeFence
    <2>4. (\E next \in {"copy", "unstage", "rollback"} :
             pc' = [pc EXCEPT !["run"] = next]) /\ UNCHANGED <<then, helper>>
      BY <1>4 DEF createLabelledVolume, settleRollback, Goto
    <2>5. ASSUME NEW next \in {"copy", "unstage", "rollback"}, pc' = [pc EXCEPT !["run"] = next],
                 UNCHANGED <<then, helper>>
          PROVE  Copies'
      BY <1>0, <2>1, <2>2, <2>3, <2>5, CopiesGo DEF At
    <2> QED BY <2>4, <2>5
  <1>5. CASE RestoreStaging
    <2>1. At("run", "copy") /\ "run" \in Threads
      BY <1>5, PlaceNames DEF RestoreStaging
    <2>2. UNCHANGED <<work, ghosts, point, dirty, running, restarted>>
      BY <1>5 DEF RestoreStaging
    <2>3. "copy" \in BeforeCopy
      BY DEF BeforeCopy, BeforeFence
    <2>4. (\E next \in {"remove", "unstage"} : pc' = [pc EXCEPT !["run"] = next])
             /\ UNCHANGED <<then, helper>>
      BY <1>5 DEF RestoreStaging, Goto
    <2>5. ASSUME NEW next \in {"remove", "unstage"}, pc' = [pc EXCEPT !["run"] = next],
                 UNCHANGED <<then, helper>>
          PROVE  Copies'
      BY <1>0, <2>1, <2>2, <2>3, <2>5, CopiesGo DEF At
    <2> QED BY <2>4, <2>5
  <1>6. CASE Unstage
    <2>1. At("run", "unstage") /\ "run" \in Threads
      BY <1>6, PlaceNames DEF Unstage
    <2>2. UNCHANGED <<work, ghosts, point, dirty, running, restarted>>
      BY <1>6 DEF Unstage
    <2>3. "unstage" \in BeforeCopy
      BY DEF BeforeCopy, BeforeFence
    <2>4. (\E next \in {"return"} : pc' = [pc EXCEPT !["run"] = next])
             /\ UNCHANGED <<then, helper>>
      BY <1>6 DEF Unstage, Finish, Goto
    <2>5. ASSUME NEW next \in {"return"}, pc' = [pc EXCEPT !["run"] = next],
                 UNCHANGED <<then, helper>>
          PROVE  Copies'
      BY <1>0, <2>1, <2>2, <2>3, <2>5, CopiesGo DEF At
    <2> QED BY <2>4, <2>5
  <1>7. CASE removeStaging
    <2>1. At("run", "remove") /\ "run" \in Threads
      BY <1>7, PlaceNames DEF removeStaging
    <2>2. UNCHANGED <<work, ghosts, point, dirty, running, restarted>>
      BY <1>7 DEF removeStaging
    <2>3. "remove" \in BeforeCopy
      BY DEF BeforeCopy, BeforeFence
    <2>4. (\E next \in {"recheck", "return"} : pc' = [pc EXCEPT !["run"] = next])
             /\ UNCHANGED <<then, helper>>
      BY <1>7 DEF removeStaging, Finish, Goto
    <2>5. ASSUME NEW next \in {"recheck", "return"}, pc' = [pc EXCEPT !["run"] = next],
                 UNCHANGED <<then, helper>>
          PROVE  Copies'
      BY <1>0, <2>1, <2>2, <2>3, <2>5, CopiesGo DEF At
    <2> QED BY <2>4, <2>5
  <1>8. CASE fenceWorkloads
    <2>1. At("run", "recheck") /\ "run" \in Threads
      BY <1>8, PlaceNames DEF fenceWorkloads
    <2>2. UNCHANGED <<work, ghosts, point, dirty, running, restarted>>
      BY <1>8 DEF fenceWorkloads
    <2>3. "recheck" \in BeforeCopy
      BY DEF BeforeCopy, BeforeFence
    <2>4. (\E next \in {"drain", "rollback", "return"} :
             pc' = [pc EXCEPT !["run"] = next]) /\ UNCHANGED <<then, helper>>
      BY <1>8 DEF fenceWorkloads, settleRollback, Finish, Goto
    <2>5. ASSUME NEW next \in {"drain", "rollback", "return"}, pc' = [pc EXCEPT !["run"] = next],
                 UNCHANGED <<then, helper>>
          PROVE  Copies'
      BY <1>0, <2>1, <2>2, <2>3, <2>5, CopiesGo DEF At
    <2> QED BY <2>4, <2>5
  <1>9. CASE waitForStartsInFlight
    <2>1. At("run", "drain") /\ "run" \in Threads
      BY <1>9, PlaceNames DEF waitForStartsInFlight
    <2>2. UNCHANGED <<work, ghosts, point, dirty, running, restarted>>
      BY <1>9 DEF waitForStartsInFlight
    <2>3. "drain" \in BeforeCopy
      BY DEF BeforeCopy, BeforeFence
    <2>4. (\E next \in {"observe", "rollback"} : pc' = [pc EXCEPT !["run"] = next])
             /\ UNCHANGED <<then, helper>>
      BY <1>9 DEF waitForStartsInFlight, settleRollback, Goto
    <2>5. ASSUME NEW next \in {"observe", "rollback"}, pc' = [pc EXCEPT !["run"] = next],
                 UNCHANGED <<then, helper>>
          PROVE  Copies'
      BY <1>0, <2>1, <2>2, <2>3, <2>5, CopiesGo DEF At
    <2> QED BY <2>4, <2>5
  <1>10. CASE recordMembers
    <2>1. At("run", "observe") /\ "run" \in Threads
      BY <1>10, PlaceNames DEF recordMembers
    <2>2. UNCHANGED <<work, ghosts, point, dirty, running, restarted>>
      BY <1>10 DEF recordMembers
    <2>3. "observe" \in BeforeCopy
      BY DEF BeforeCopy, BeforeFence
    <2>4. (\E next \in {"fence", "rollback", "return"} :
             pc' = [pc EXCEPT !["run"] = next]) /\ UNCHANGED <<then, helper>>
      BY <1>10 DEF recordMembers, settleRollback, Finish, Goto
    <2>5. ASSUME NEW next \in {"fence", "rollback", "return"}, pc' = [pc EXCEPT !["run"] = next],
                 UNCHANGED <<then, helper>>
          PROVE  Copies'
      BY <1>0, <2>1, <2>2, <2>3, <2>5, CopiesGo DEF At
    <2> QED BY <2>4, <2>5
  <1>11. ASSUME NEW c \in Containers, Pin(c) PROVE Copies'
    BY <1>0, <1>11, CopiesStay DEF Pin, Toward
  <1>12. ASSUME NEW c \in Containers, Stop(c) PROVE Copies'
    <2>1. /\ At("run", "fence")
          /\ UNCHANGED <<pc, helper, then, work, ghosts, point, dirty, restarted>>
      BY <1>12 DEF Stop
    <2>2. \A u \in Threads : Toward(u)' = Toward(u)
      BY <2>1 DEF Toward
    <2>3. Touched' = Touched
      BY <2>1 DEF Touched
    <2> QED BY <1>0, <2>1, <2>2, <2>3 DEF At, Copies, Keeps
  <1>13. CASE FenceEnd
    <2>1. /\ At("run", "fence") /\ "run" \in Threads
          /\ UNCHANGED <<helper, then, work, ghosts, point, dirty, running>>
      BY <1>13, PlaceNames DEF FenceEnd
    <2>2. PICK next \in {"protect", "rollback"} : pc' = [pc EXCEPT !["run"] = next]
      BY <1>13 DEF FenceEnd, settleRollback, Goto
    <2>3. pc["run"] = "fence" /\ pc'["run"] = next /\ \A u \in Threads \ {"run"} :
             pc'[u] = pc[u]
      BY <2>1, <2>2 DEF At, TypeOK, ThreadTypes
    <2>4. \A u \in Threads : Toward(u)' = "clear" => Toward(u) = "clear"
      BY <2>1, <2>3, PlaceNames, TowardGo
    <2>5. Touched' => Touched
      BY <2>1, <2>3 DEF Touched
    <2>6. work = "none" /\ ghosts = {}
      BY <2>3 DEF Copies, BeforeCopy
    <2> QED BY <1>0, <2>1, <2>3, <2>4, <2>5, <2>6 DEF Copies, Keeps
  <1>14. CASE RecheckBeforePoint
    <2>1. /\ At("run", "protect") /\ "run" \in Threads
          /\ UNCHANGED <<helper, then, work, ghosts, point, dirty, running, restarted>>
      BY <1>14, PlaceNames DEF RecheckBeforePoint
    <2>2. PICK next \in {"begin", "rollback"} :
             pc' = [pc EXCEPT !["run"] = next] /\ (next = "begin" => running = {})
      BY <1>14 DEF RecheckBeforePoint, settleRollback, Goto
    <2>3. pc["run"] = "protect" /\ pc'["run"] = next /\ \A u \in Threads \ {"run"} :
             pc'[u] = pc[u]
      BY <2>1, <2>2 DEF At, TypeOK, ThreadTypes
    <2>4. \A u \in Threads : Toward(u)' = "clear" => Toward(u) = "clear"
      BY <2>1, <2>3, PlaceNames, TowardGo
    <2>5. Touched' => Touched
      BY <2>1, <2>3 DEF Touched
    <2>6. work = "none" /\ ghosts = {}
      BY <2>3 DEF Copies, BeforeCopy
    <2> QED BY <1>0, <2>1, <2>2, <2>3, <2>4, <2>5, <2>6 DEF Copies, Keeps
  <1>15. CASE BeginPoint
    <2>1. /\ At("run", "begin") /\ "run" \in Threads
          /\ UNCHANGED <<helper, then, work, ghosts, running, restarted>>
      BY <1>15, PlaceNames DEF BeginPoint
    <2>2. PICK next \in {"capture", "rollback"} :
             /\ pc' = [pc EXCEPT !["run"] = next]
             /\ next = "capture" => dirty' = (running # {})
      BY <1>15 DEF BeginPoint, settleRollback, Goto
    <2>3. pc["run"] = "begin" /\ pc'["run"] = next /\ \A u \in Threads \ {"run"} :
             pc'[u] = pc[u]
      BY <2>1, <2>2 DEF At, TypeOK, ThreadTypes
    <2>4. \A u \in Threads : Toward(u)' = "clear" => Toward(u) = "clear"
      BY <2>1, <2>3, PlaceNames, TowardGo
    <2>5. ~Touched
      BY <2>3, UntouchedBefore DEF BeforeCopy
    <2>6. ~Touched'
      BY <2>1, <2>3, <2>5 DEF Touched
    <2>7. work = "none" /\ ghosts = {}
      BY <2>3 DEF Copies, BeforeCopy
    <2>8. next = "capture" /\ dirty' => restarted'
      BY <2>1, <2>2, <2>3 DEF Copies
    <2> QED BY <1>0, <2>1, <2>3, <2>4, <2>6, <2>7, <2>8 DEF Copies, Keeps
  <1>16. CASE takePreRestorePoint
    <2>1. /\ At("run", "capture") /\ "run" \in Threads
          /\ UNCHANGED <<helper, then, work, ghosts, running, dirty, restarted>>
      BY <1>16, PlaceNames DEF takePreRestorePoint
    <2>2. PICK next \in {"materialize", "rollback"} :
             /\ pc' = [pc EXCEPT !["run"] = next]
             /\ next = "materialize" => ~restarted /\ point' = "succeeded"
      BY <1>16 DEF takePreRestorePoint, containersStillFenced, settleRollback, Goto
    <2>3. pc["run"] = "capture" /\ pc'["run"] = next /\ \A u \in Threads \ {"run"} :
             pc'[u] = pc[u]
      BY <2>1, <2>2 DEF At, TypeOK, ThreadTypes
    <2>4. \A u \in Threads : Toward(u)' = "clear" => Toward(u) = "clear"
      BY <2>1, <2>3, PlaceNames, TowardGo
    <2>5. ~Touched
      BY <2>3, UntouchedBefore DEF BeforeCopy
    <2>6. Touched' => next = "materialize"
      BY <2>1, <2>3, <2>5 DEF Touched
    <2>7. Touched' => point' = "succeeded" /\ ~dirty'
      BY <2>1, <2>2, <2>3, <2>6 DEF Copies
    <2>8. next \notin BeforeCopy
      BY DEF BeforeCopy, BeforeFence
    <2> QED BY <1>0, <2>1, <2>3, <2>4, <2>7, <2>8 DEF Copies, Keeps
  <1>17. CASE materializePoint
    <2>1. /\ At("run", "materialize") /\ "run" \in Threads
          /\ UNCHANGED <<then, work, ghosts, point, running, dirty, restarted>>
      BY <1>17, PlaceNames DEF materializePoint
    <2>2. pc' = [pc EXCEPT !["run"] = "materialized"]
      BY <1>17 DEF materializePoint, Call, Goto
    <2>3. /\ pc["run"] = "materialize" /\ pc'["run"] = "materialized"
          /\ \A u \in Threads \ {"run"} : pc'[u] = pc[u]
      BY <2>1, <2>2 DEF At, TypeOK, ThreadTypes
    <2>4. \A u \in Threads : Toward(u)' = "clear" => Toward(u) = "clear"
      BY <2>1, <2>3, PlaceNames, TowardGo
    <2>5. Touched
      BY <2>3 DEF Touched
    <2>6. point' = "succeeded" /\ ~dirty'
      BY <2>1, <2>5 DEF Copies
    <2>7. "materialized" \notin BeforeCopy
      BY DEF BeforeCopy, BeforeFence
    <2> QED BY <1>0, <2>3, <2>4, <2>6, <2>7 DEF Copies, Keeps
  <1>18. CASE Materialized
    <2>1. At("run", "materialized") /\ "run" \in Threads
      BY <1>18, PlaceNames DEF Materialized
    <2>2. UNCHANGED <<work, ghosts, point, dirty, running, restarted>>
      BY <1>18 DEF Materialized
    <2>3. \A next \in {"prepared", "rollback"} :
             next \notin BeforeCopy \cup {"materialize", "clear", "release"}
      BY DEF BeforeCopy, BeforeFence
    <2>4. \/ (\E next \in {"rollback"} : pc' = [pc EXCEPT !["run"] = next])
                /\ UNCHANGED <<then, helper>>
          \/ Call("run", "prepare", "prepared") /\ UNCHANGED then
      BY <1>18 DEF Materialized, settleRollback, Goto
    <2>5. ASSUME NEW next \in {"rollback"}, pc' = [pc EXCEPT !["run"] = next],
                 UNCHANGED <<then, helper>>
          PROVE  Copies'
      BY <1>0, <2>1, <2>2, <2>3, <2>5, CopiesGo
    <2>6. CASE Call("run", "prepare", "prepared") /\ UNCHANGED then
      BY <1>0, <2>1, <2>2, <2>3, <2>6, CopiesCall
    <2> QED BY <2>4, <2>5, <2>6
  <1>19. CASE Prepared
    <2>1. At("run", "prepared") /\ "run" \in Threads
      BY <1>19, PlaceNames DEF Prepared
    <2>2. UNCHANGED <<work, ghosts, point, dirty, running, restarted>>
      BY <1>19 DEF Prepared
    <2>3. \A next \in {"recheck_swap", "rollback"} :
             next \notin BeforeCopy \cup {"materialize", "clear", "release"}
      BY DEF BeforeCopy, BeforeFence
    <2>4. (\E next \in {"recheck_swap", "rollback"} : pc' = [pc EXCEPT !["run"] = next])
             /\ UNCHANGED <<then, helper>>
      BY <1>19 DEF Prepared, settleRollback, Goto
    <2>5. ASSUME NEW next \in {"recheck_swap", "rollback"}, pc' = [pc EXCEPT !["run"] = next],
                 UNCHANGED <<then, helper>>
          PROVE  Copies'
      BY <1>0, <2>1, <2>2, <2>3, <2>5, CopiesGo
    <2> QED BY <2>4, <2>5
  <1>20. CASE RecheckBeforeSwap
    <2>1. At("run", "recheck_swap") /\ "run" \in Threads
      BY <1>20, PlaceNames DEF RecheckBeforeSwap
    <2>2. UNCHANGED <<work, ghosts, point, dirty, running, restarted>>
      BY <1>20 DEF RecheckBeforeSwap
    <2>3. \A next \in {"commit", "rollback"} :
             next \notin BeforeCopy \cup {"materialize", "clear", "release"}
      BY DEF BeforeCopy, BeforeFence
    <2>4. (\E next \in {"commit", "rollback"} : pc' = [pc EXCEPT !["run"] = next])
             /\ UNCHANGED <<then, helper>>
      BY <1>20 DEF RecheckBeforeSwap, settleRollback, Goto
    <2>5. ASSUME NEW next \in {"commit", "rollback"}, pc' = [pc EXCEPT !["run"] = next],
                 UNCHANGED <<then, helper>>
          PROVE  Copies'
      BY <1>0, <2>1, <2>2, <2>3, <2>5, CopiesGo
    <2> QED BY <2>4, <2>5
  <1>21. CASE Commit
    <2>1. "run" \in Threads /\ \E from \in {"commit", "committed", "recommitted"} :
             At("run", from)
      BY <1>21, PlaceNames DEF Commit
    <2>2. UNCHANGED <<work, ghosts, point, dirty, running, restarted>>
      BY <1>21 DEF Commit
    <2>3. \A next \in {"committed", "confirm_reported", "confirm", "confirm_last"} :
             next \notin BeforeCopy \cup {"materialize", "clear", "release"}
      BY DEF BeforeCopy, BeforeFence
    <2>4. \/ Call("run", "commit", "committed") /\ UNCHANGED then
          \/ Call("run", "status", "confirm_reported") /\ UNCHANGED then
          \/ Call("run", "status", "confirm") /\ UNCHANGED then
          \/ Call("run", "status", "confirm_last") /\ UNCHANGED then
      BY <1>21 DEF Commit
    <2>5. CASE Call("run", "commit", "committed") /\ UNCHANGED then
      BY <1>0, <2>1, <2>2, <2>3, <2>5, CopiesCall
    <2>6. CASE Call("run", "status", "confirm_reported") /\ UNCHANGED then
      BY <1>0, <2>1, <2>2, <2>3, <2>6, CopiesCall
    <2>7. CASE Call("run", "status", "confirm") /\ UNCHANGED then
      BY <1>0, <2>1, <2>2, <2>3, <2>7, CopiesCall
    <2>8. CASE Call("run", "status", "confirm_last") /\ UNCHANGED then
      BY <1>0, <2>1, <2>2, <2>3, <2>8, CopiesCall
    <2> QED BY <2>4, <2>5, <2>6, <2>7, <2>8
  <1>22. CASE swapAndCleanup
    <2>1. "run" \in Threads /\ \E from
             \in {"confirm", "confirm_reported", "confirm_last"} : At("run", from)
      BY <1>22, PlaceNames DEF swapAndCleanup
    <2>2. UNCHANGED <<work, ghosts, point, dirty, running, restarted>>
      BY <1>22 DEF swapAndCleanup
    <2>3. \A next \in {"cleaned", "recommitted", "return", "rollback"} :
             next \notin BeforeCopy \cup {"materialize", "clear", "release"}
      BY DEF BeforeCopy, BeforeFence
    <2>4. \/ (\E next \in {"return", "rollback"} : pc' = [pc EXCEPT !["run"] = next])
                /\ UNCHANGED <<then, helper>>
          \/ Call("run", "cleanup", "cleaned") /\ UNCHANGED then
          \/ Call("run", "commit", "recommitted") /\ UNCHANGED then
      BY <1>22 DEF swapAndCleanup, Finish, settleRollback, Goto
    <2>5. ASSUME NEW next \in {"return", "rollback"}, pc' = [pc EXCEPT !["run"] = next],
                 UNCHANGED <<then, helper>>
          PROVE  Copies'
      BY <1>0, <2>1, <2>2, <2>3, <2>5, CopiesGo
    <2>6. CASE Call("run", "cleanup", "cleaned") /\ UNCHANGED then
      BY <1>0, <2>1, <2>2, <2>3, <2>6, CopiesCall
    <2>7. CASE Call("run", "commit", "recommitted") /\ UNCHANGED then
      BY <1>0, <2>1, <2>2, <2>3, <2>7, CopiesCall
    <2> QED BY <2>4, <2>5, <2>6, <2>7
  <1>23. CASE releaseAfterCommit
    <2>1. At("run", "cleaned") /\ "run" \in Threads
      BY <1>23, PlaceNames DEF releaseAfterCommit
    <2>2. UNCHANGED <<work, ghosts, point, dirty, running, restarted>>
      BY <1>23 DEF releaseAfterCommit
    <2>3. \A next \in {"commit_settle", "return"} :
             next \notin BeforeCopy \cup {"materialize", "clear", "release"}
      BY DEF BeforeCopy, BeforeFence
    <2>4. \/ (\E next \in {"return"} : pc' = [pc EXCEPT !["run"] = next])
                /\ UNCHANGED <<then, helper>>
          \/ releaseFence("run", "commit_settle") /\ UNCHANGED helper
      BY <1>23 DEF releaseAfterCommit, Finish, Goto
    <2>5. ASSUME NEW next \in {"return"}, pc' = [pc EXCEPT !["run"] = next],
                 UNCHANGED <<then, helper>>
          PROVE  Copies'
      BY <1>0, <2>1, <2>2, <2>3, <2>5, CopiesGo
    <2>6. CASE releaseFence("run", "commit_settle") /\ UNCHANGED helper
      BY <1>0, <2>1, <2>2, <2>3, <2>6, CopiesRelease
    <2> QED BY <2>4, <2>5, <2>6
  <1>24. CASE CommitSettle
    <2>1. At("run", "commit_settle") /\ "run" \in Threads
      BY <1>24, PlaceNames DEF CommitSettle
    <2>2. UNCHANGED <<work, ghosts, point, dirty, running, restarted>>
      BY <1>24 DEF CommitSettle
    <2>3. \A next \in {"return"} :
             next \notin BeforeCopy \cup {"materialize", "clear", "release"}
      BY DEF BeforeCopy, BeforeFence
    <2>4. (\E next \in {"return"} : pc' = [pc EXCEPT !["run"] = next])
             /\ UNCHANGED <<then, helper>>
      BY <1>24 DEF CommitSettle, Finish, Goto
    <2>5. ASSUME NEW next \in {"return"}, pc' = [pc EXCEPT !["run"] = next],
                 UNCHANGED <<then, helper>>
          PROVE  Copies'
      BY <1>0, <2>1, <2>2, <2>3, <2>5, CopiesGo
    <2> QED BY <2>4, <2>5
  <1>25. CASE RollbackBegin
    <2>1. At("run", "rollback") /\ "run" \in Threads
      BY <1>25, PlaceNames DEF RollbackBegin
    <2>2. UNCHANGED <<work, ghosts, point, dirty, running, restarted>>
      BY <1>25 DEF RollbackBegin
    <2>3. \A next \in {"rollback_done", "rollback_staging"} :
             next \notin BeforeCopy \cup {"materialize", "clear", "release"}
      BY DEF BeforeCopy, BeforeFence
    <2>4. \/ (\E next \in {"rollback_staging"} : pc' = [pc EXCEPT !["run"] = next])
                /\ UNCHANGED <<then, helper>>
          \/ Call("run", "rollback", "rollback_done") /\ UNCHANGED then
      BY <1>25 DEF RollbackBegin, Goto
    <2>5. ASSUME NEW next \in {"rollback_staging"}, pc' = [pc EXCEPT !["run"] = next],
                 UNCHANGED <<then, helper>>
          PROVE  Copies'
      BY <1>0, <2>1, <2>2, <2>3, <2>5, CopiesGo
    <2>6. CASE Call("run", "rollback", "rollback_done") /\ UNCHANGED then
      BY <1>0, <2>1, <2>2, <2>3, <2>6, CopiesCall
    <2> QED BY <2>4, <2>5, <2>6
  <1>26. CASE RollbackDone
    <2>1. At("run", "rollback_done") /\ "run" \in Threads
      BY <1>26, PlaceNames DEF RollbackDone
    <2>2. UNCHANGED <<work, ghosts, point, dirty, running, restarted>>
      BY <1>26 DEF RollbackDone
    <2>3. \A next \in {"rollback_staging", "return"} :
             next \notin BeforeCopy \cup {"materialize", "clear", "release"}
      BY DEF BeforeCopy, BeforeFence
    <2>4. (\E next \in {"rollback_staging", "return"} :
             pc' = [pc EXCEPT !["run"] = next]) /\ UNCHANGED <<then, helper>>
      BY <1>26 DEF RollbackDone, Finish, Goto
    <2>5. ASSUME NEW next \in {"rollback_staging", "return"}, pc' = [pc EXCEPT !["run"] = next],
                 UNCHANGED <<then, helper>>
          PROVE  Copies'
      BY <1>0, <2>1, <2>2, <2>3, <2>5, CopiesGo
    <2> QED BY <2>4, <2>5
  <1>27. CASE RollbackStaging
    <2>1. At("run", "rollback_staging") /\ "run" \in Threads
      BY <1>27, PlaceNames DEF RollbackStaging
    <2>2. UNCHANGED <<work, ghosts, point, dirty, running, restarted>>
      BY <1>27 DEF RollbackStaging
    <2>3. \A next \in {"rollback_settle"} :
             next \notin BeforeCopy \cup {"materialize", "clear", "release"}
      BY DEF BeforeCopy, BeforeFence
    <2>4. releaseFence("run", "rollback_settle") /\ UNCHANGED helper
      BY <1>27 DEF RollbackStaging
    <2>5. CASE releaseFence("run", "rollback_settle") /\ UNCHANGED helper
      BY <1>0, <2>1, <2>2, <2>3, <2>5, CopiesRelease
    <2> QED BY <2>4, <2>5
  <1>28. CASE rollbackIntent
    <2>1. At("run", "rollback_settle") /\ "run" \in Threads
      BY <1>28, PlaceNames DEF rollbackIntent
    <2>2. UNCHANGED <<work, ghosts, point, dirty, running, restarted>>
      BY <1>28 DEF rollbackIntent
    <2>3. \A next \in {"return"} :
             next \notin BeforeCopy \cup {"materialize", "clear", "release"}
      BY DEF BeforeCopy, BeforeFence
    <2>4. (\E next \in {"return"} : pc' = [pc EXCEPT !["run"] = next])
             /\ UNCHANGED <<then, helper>>
      BY <1>28 DEF rollbackIntent, Finish, Goto
    <2>5. ASSUME NEW next \in {"return"}, pc' = [pc EXCEPT !["run"] = next],
                 UNCHANGED <<then, helper>>
          PROVE  Copies'
      BY <1>0, <2>1, <2>2, <2>3, <2>5, CopiesGo
    <2> QED BY <2>4, <2>5
  <1>29. CASE releaseStacks
    <2>1. UNCHANGED <<work, ghosts, point, dirty, running, restarted, helper>>
      BY <1>29 DEF releaseStacks, Forget
    <2>2. pc' = [pc EXCEPT !["run"] = "off"] /\ \A u \in Threads \ {"run"} :
             then'[u] = then[u]
      BY <1>29 DEF releaseStacks, Forget, Goto, TypeOK, ThreadTypes
    <2>3. "off" \notin BeforeCopy
      BY DEF BeforeCopy, BeforeFence
    <2> QED BY <1>0, <2>1, <2>2, <2>3, PlaceNames, CopiesGo
  <1>30. CASE Boot
    <2>1. UNCHANGED <<work, ghosts, point, dirty, running, restarted, helper, then>>
      BY <1>30 DEF Boot
    <2> QED BY <1>0, <1>30, <2>1, PlaceNames, CopiesGo DEF Boot, Goto
  <1>31. CASE removeForeignEpochHelpers
    <2>1. /\ At("boot", "helpers") /\ ghosts' \subseteq ghosts
          /\ UNCHANGED <<work, point, dirty, running, restarted, helper, then>>
      BY <1>31 DEF removeForeignEpochHelpers
    <2>2. PICK next \in {"reconcile", "fences", "settle", "failed"} :
                  pc' = [pc EXCEPT !["boot"] = next]
      BY <1>31 DEF removeForeignEpochHelpers, Goto
    <2>3. pc'["boot"] = next /\ \A u \in Threads \ {"boot"} : pc'[u] = pc[u]
      BY <2>2, PlaceNames DEF TypeOK, ThreadTypes
    <2>4. \A u \in Threads : Toward(u)' = "clear" => Toward(u) = "clear"
      BY <2>1, <2>3, PlaceNames, TowardGo
    <2>5. pc'["run"] = pc["run"]
      BY <2>3, PlaceNames
    <2>6. Touched' => Touched
      BY <2>1, <2>5 DEF Touched
    <2>7. ghosts = {} => ghosts' = {}
      BY <2>1
    <2> QED BY <1>0, <2>1, <2>4, <2>5, <2>6, <2>7 DEF Copies, Keeps
  <1>32. CASE reconcileOverwriteIntentsAtStartup
    <2>1. UNCHANGED <<work, ghosts, point, dirty, running, restarted, helper>>
      BY <1>32 DEF reconcileOverwriteIntentsAtStartup
    <2>2. \/ phase \in Settled /\ releaseFence("boot", "clear")
          \/ pc' = [pc EXCEPT !["boot"] = "settle"] /\ UNCHANGED then
      BY <1>32 DEF reconcileOverwriteIntentsAtStartup, Goto
    <2>3. "clear" \notin BeforeCopy \cup {"materialize"}
      BY DEF BeforeCopy, BeforeFence
    <2>4. CASE phase \in Settled /\ releaseFence("boot", "clear")
      BY <1>0, <2>1, <2>3, <2>4, PlaceNames, CopiesRelease
    <2>5. CASE pc' = [pc EXCEPT !["boot"] = "settle"] /\ UNCHANGED then
      BY <1>0, <2>1, <2>5, PlaceNames, CopiesGo
    <2> QED BY <2>2, <2>4, <2>5
  <1>33. ASSUME NEW t \in Reconcilers, reconcileOverwriteIntent(t) PROVE Copies'
    <2>1. At(t, "reconcile") /\ t \in Threads
      BY <1>33, PlaceNames DEF reconcileOverwriteIntent
    <2>2. UNCHANGED <<work, ghosts, point, dirty, running, restarted>>
      BY <1>33 DEF reconcileOverwriteIntent
    <2>3. \A next \in {"read", "undone", "decide"} \ {"release"} :
             next \notin BeforeCopy \cup {"materialize", "clear", "release"}
      BY DEF BeforeCopy, BeforeFence
    <2>4. t # "run"
      BY ThreadAssumption DEF Reconcilers
    <2>5. \/ (\E next \in {"unstage"} : pc' = [pc EXCEPT ![t] = next])
                /\ UNCHANGED <<then, helper>>
          \/ Call(t, "status", "read") /\ UNCHANGED then
          \/ Call(t, "rollback", "undone") /\ UNCHANGED then
          \/ Call(t, "status", "decide") /\ UNCHANGED then
      BY <1>33 DEF reconcileOverwriteIntent, Goto
    <2>6. ASSUME NEW next \in {"unstage"}, pc' = [pc EXCEPT ![t] = next],
                 UNCHANGED <<then, helper>>
          PROVE  Copies'
      BY <1>0, <2>1, <2>2, <2>3, <2>4, <2>6, CopiesGo
    <2>7. CASE Call(t, "status", "read") /\ UNCHANGED then
      BY <1>0, <2>1, <2>2, <2>3, <2>4, <2>7, CopiesCall
    <2>8. CASE Call(t, "rollback", "undone") /\ UNCHANGED then
      BY <1>0, <2>1, <2>2, <2>3, <2>4, <2>8, CopiesCall
    <2>9. CASE Call(t, "status", "decide") /\ UNCHANGED then
      BY <1>0, <2>1, <2>2, <2>3, <2>4, <2>9, CopiesCall
    <2> QED BY <2>5, <2>6, <2>7, <2>8, <2>9
  <1>34. ASSUME NEW t \in Reconcilers, ReadUnderWorkloads(t) PROVE Copies'
    <2>1. At(t, "read") /\ t \in Threads
      BY <1>34, PlaceNames DEF ReadUnderWorkloads
    <2>2. UNCHANGED <<work, ghosts, point, dirty, running, restarted>>
      BY <1>34 DEF ReadUnderWorkloads
    <2>3. t # "run"
      BY ThreadAssumption DEF Reconcilers
    <2>4. (\E next \in {"fences", "answer", "unstage"} : pc' = [pc EXCEPT ![t] = next])
             /\ UNCHANGED <<then, helper>>
      BY <1>34 DEF ReadUnderWorkloads, Reconciled, Goto
    <2>5. ASSUME NEW next \in {"fences", "answer", "unstage"}, pc' = [pc EXCEPT ![t] = next],
                 UNCHANGED <<then, helper>>
          PROVE  Copies'
      BY <1>0, <2>1, <2>2, <2>3, <2>5, CopiesGo
    <2> QED BY <2>4, <2>5
  <1>35. ASSUME NEW t \in Reconcilers, Undone(t) PROVE Copies'
    <2>1. At(t, "undone") /\ t \in Threads
      BY <1>35, PlaceNames DEF Undone
    <2>2. UNCHANGED <<work, ghosts, point, dirty, running, restarted>>
      BY <1>35 DEF Undone
    <2>3. \A next \in {"settle_rolled_back", "release"} \ {"release"} :
             next \notin BeforeCopy \cup {"materialize", "clear", "release"}
      BY DEF BeforeCopy, BeforeFence
    <2>4. t # "run"
      BY ThreadAssumption DEF Reconcilers
    <2>5. \/ (\E next \in {"fences", "answer", "unstage"} :
                pc' = [pc EXCEPT ![t] = next]) /\ UNCHANGED <<then, helper>>
          \/ releaseFence(t, "settle_rolled_back") /\ UNCHANGED helper
      BY <1>35 DEF Undone, Reconciled, Goto
    <2>6. ASSUME NEW next \in {"fences", "answer", "unstage"}, pc' = [pc EXCEPT ![t] = next],
                 UNCHANGED <<then, helper>>
          PROVE  Copies'
      BY <1>0, <2>1, <2>2, <2>3, <2>4, <2>6, CopiesGo
    <2>7. CASE releaseFence(t, "settle_rolled_back") /\ UNCHANGED helper
      BY <1>0, <2>1, <2>2, <2>3, <2>4, <2>7, CopiesRelease
    <2> QED BY <2>5, <2>6, <2>7
  <1>36. ASSUME NEW t \in Reconcilers, ReconcileStaging(t) PROVE Copies'
    <2>1. At(t, "unstage") /\ t \in Threads
      BY <1>36, PlaceNames DEF ReconcileStaging
    <2>2. UNCHANGED <<work, ghosts, point, dirty, running, restarted>>
      BY <1>36 DEF ReconcileStaging
    <2>3. \A next \in {"settle_rolled_back", "release"} \ {"release"} :
             next \notin BeforeCopy \cup {"materialize", "clear", "release"}
      BY DEF BeforeCopy, BeforeFence
    <2>4. t # "run"
      BY ThreadAssumption DEF Reconcilers
    <2>5. releaseFence(t, "settle_rolled_back") /\ UNCHANGED helper
      BY <1>36 DEF ReconcileStaging
    <2>6. CASE releaseFence(t, "settle_rolled_back") /\ UNCHANGED helper
      BY <1>0, <2>1, <2>2, <2>3, <2>4, <2>6, CopiesRelease
    <2> QED BY <2>5, <2>6
  <1>37. ASSUME NEW t \in Reconcilers, JournalDecides(t) PROVE Copies'
    <2>1. At(t, "decide") /\ t \in Threads
      BY <1>37, PlaceNames DEF JournalDecides
    <2>2. UNCHANGED <<work, ghosts, point, dirty, running, restarted>>
      BY <1>37 DEF JournalDecides
    <2>3. \A next \in {"settle_committed", "release", "finish", "undone"} \ {"release"} :
             next \notin BeforeCopy \cup {"materialize", "clear", "release"}
      BY DEF BeforeCopy, BeforeFence
    <2>4. t # "run"
      BY ThreadAssumption DEF Reconcilers
    <2>5. \/ (\E next \in {"fences", "answer", "forward"} :
                pc' = [pc EXCEPT ![t] = next]) /\ UNCHANGED <<then, helper>>
          \/ releaseFence(t, "settle_committed") /\ UNCHANGED helper
          \/ Call(t, "commit", "finish") /\ UNCHANGED then
          \/ Call(t, "rollback", "undone") /\ UNCHANGED then
      BY <1>37 DEF JournalDecides, Reconciled, Goto
    <2>6. ASSUME NEW next \in {"fences", "answer", "forward"}, pc' = [pc EXCEPT ![t] = next],
                 UNCHANGED <<then, helper>>
          PROVE  Copies'
      BY <1>0, <2>1, <2>2, <2>3, <2>4, <2>6, CopiesGo
    <2>7. CASE releaseFence(t, "settle_committed") /\ UNCHANGED helper
      BY <1>0, <2>1, <2>2, <2>3, <2>4, <2>7, CopiesRelease
    <2>8. CASE Call(t, "commit", "finish") /\ UNCHANGED then
      BY <1>0, <2>1, <2>2, <2>3, <2>4, <2>8, CopiesCall
    <2>9. CASE Call(t, "rollback", "undone") /\ UNCHANGED then
      BY <1>0, <2>1, <2>2, <2>3, <2>4, <2>9, CopiesCall
    <2> QED BY <2>5, <2>6, <2>7, <2>8, <2>9
  <1>38. ASSUME NEW t \in Reconcilers, CommitFinished(t) PROVE Copies'
    <2>1. At(t, "finish") /\ t \in Threads
      BY <1>38, PlaceNames DEF CommitFinished
    <2>2. UNCHANGED <<work, ghosts, point, dirty, running, restarted>>
      BY <1>38 DEF CommitFinished
    <2>3. t # "run"
      BY ThreadAssumption DEF Reconcilers
    <2>4. (\E next \in {"fences", "answer", "forward"} : pc' = [pc EXCEPT ![t] = next])
             /\ UNCHANGED <<then, helper>>
      BY <1>38 DEF CommitFinished, Reconciled, Goto
    <2>5. ASSUME NEW next \in {"fences", "answer", "forward"}, pc' = [pc EXCEPT ![t] = next],
                 UNCHANGED <<then, helper>>
          PROVE  Copies'
      BY <1>0, <2>1, <2>2, <2>3, <2>5, CopiesGo
    <2> QED BY <2>4, <2>5
  <1>39. ASSUME NEW t \in Reconcilers, RollForward(t) PROVE Copies'
    <2>1. At(t, "forward") /\ t \in Threads
      BY <1>39, PlaceNames DEF RollForward
    <2>2. UNCHANGED <<work, ghosts, point, dirty, running, restarted>>
      BY <1>39 DEF RollForward
    <2>3. \A next \in {"forwarded"} \ {"release"} :
             next \notin BeforeCopy \cup {"materialize", "clear", "release"}
      BY DEF BeforeCopy, BeforeFence
    <2>4. t # "run"
      BY ThreadAssumption DEF Reconcilers
    <2>5. \/ (\E next \in {"fences", "answer"} : pc' = [pc EXCEPT ![t] = next])
                /\ UNCHANGED <<then, helper>>
          \/ Call(t, "cleanup", "forwarded") /\ UNCHANGED then
      BY <1>39 DEF RollForward, Reconciled, Goto
    <2>6. ASSUME NEW next \in {"fences", "answer"}, pc' = [pc EXCEPT ![t] = next],
                 UNCHANGED <<then, helper>>
          PROVE  Copies'
      BY <1>0, <2>1, <2>2, <2>3, <2>4, <2>6, CopiesGo
    <2>7. CASE Call(t, "cleanup", "forwarded") /\ UNCHANGED then
      BY <1>0, <2>1, <2>2, <2>3, <2>4, <2>7, CopiesCall
    <2> QED BY <2>5, <2>6, <2>7
  <1>40. ASSUME NEW t \in Reconcilers, ForwardCleaned(t) PROVE Copies'
    <2>1. At(t, "forwarded") /\ t \in Threads
      BY <1>40, PlaceNames DEF ForwardCleaned
    <2>2. UNCHANGED <<work, ghosts, point, dirty, running, restarted>>
      BY <1>40 DEF ForwardCleaned
    <2>3. \A next \in {"settle_forward", "release"} \ {"release"} :
             next \notin BeforeCopy \cup {"materialize", "clear", "release"}
      BY DEF BeforeCopy, BeforeFence
    <2>4. t # "run"
      BY ThreadAssumption DEF Reconcilers
    <2>5. \/ (\E next \in {"fences", "answer"} : pc' = [pc EXCEPT ![t] = next])
                /\ UNCHANGED <<then, helper>>
          \/ releaseFence(t, "settle_forward") /\ UNCHANGED helper
      BY <1>40 DEF ForwardCleaned, Reconciled, Goto
    <2>6. ASSUME NEW next \in {"fences", "answer"}, pc' = [pc EXCEPT ![t] = next],
                 UNCHANGED <<then, helper>>
          PROVE  Copies'
      BY <1>0, <2>1, <2>2, <2>3, <2>4, <2>6, CopiesGo
    <2>7. CASE releaseFence(t, "settle_forward") /\ UNCHANGED helper
      BY <1>0, <2>1, <2>2, <2>3, <2>4, <2>7, CopiesRelease
    <2> QED BY <2>5, <2>6, <2>7
  <1>41. ASSUME NEW t \in Reconcilers, SettleForward(t) PROVE Copies'
    <2>1. At(t, "settle_forward") /\ t \in Threads
      BY <1>41, PlaceNames DEF SettleForward
    <2>2. UNCHANGED <<work, ghosts, point, dirty, running, restarted>>
      BY <1>41 DEF SettleForward
    <2>3. t # "run"
      BY ThreadAssumption DEF Reconcilers
    <2>4. (\E next \in {"fences", "answer"} : pc' = [pc EXCEPT ![t] = next])
             /\ UNCHANGED <<then, helper>>
      BY <1>41 DEF SettleForward, Reconciled, Goto
    <2>5. ASSUME NEW next \in {"fences", "answer"}, pc' = [pc EXCEPT ![t] = next],
                 UNCHANGED <<then, helper>>
          PROVE  Copies'
      BY <1>0, <2>1, <2>2, <2>3, <2>5, CopiesGo
    <2> QED BY <2>4, <2>5
  <1>42. ASSUME NEW t \in Reconcilers, clearFenceOutcome(t) PROVE Copies'
    <2>1. At(t, "clear") /\ t \in Threads
      BY <1>42, PlaceNames DEF clearFenceOutcome
    <2>2. UNCHANGED <<work, ghosts, point, dirty, running, restarted>>
      BY <1>42 DEF clearFenceOutcome
    <2>3. t # "run"
      BY ThreadAssumption DEF Reconcilers
    <2>4. (\E next \in {"settle", "answer"} : pc' = [pc EXCEPT ![t] = next])
             /\ UNCHANGED <<then, helper>>
      BY <1>42 DEF clearFenceOutcome, Goto
    <2>5. ASSUME NEW next \in {"settle", "answer"}, pc' = [pc EXCEPT ![t] = next],
                 UNCHANGED <<then, helper>>
          PROVE  Copies'
      BY <1>0, <2>1, <2>2, <2>3, <2>5, CopiesGo
    <2> QED BY <2>4, <2>5
  <1>43. ASSUME NEW t \in Reconcilers, settleInterruptedOverwriteOperations(t)
         PROVE Copies'
    <2>1. UNCHANGED <<work, ghosts, point, dirty, running, restarted, helper>>
      BY <1>43 DEF settleInterruptedOverwriteOperations, Forget
    <2>2. t \in Threads /\ t # "run"
      BY PlaceNames, ThreadAssumption DEF Reconcilers
    <2>3. PICK next \in {"off", "done"} : pc' = [pc EXCEPT ![t] = next]
      BY <1>43 DEF settleInterruptedOverwriteOperations, Goto
    <2>4. \A u \in Threads \ {t} : then'[u] = then[u]
      BY <1>43 DEF settleInterruptedOverwriteOperations, Forget, TypeOK, ThreadTypes
    <2> QED BY <1>0, <2>1, <2>2, <2>3, <2>4, CopiesGo
  <1>44. ASSUME NEW t \in Reconcilers, NEW to \in Settled, settleProven(t, to)
         PROVE Copies'
    <2>1. t \in Threads /\ \E from \in {"settle_committed", "settle_rolled_back"} :
             At(t, from)
      BY <1>44, PlaceNames DEF settleProven, Settled
    <2>2. UNCHANGED <<work, ghosts, point, dirty, running, restarted>>
      BY <1>44 DEF settleProven
    <2>3. t # "run"
      BY ThreadAssumption DEF Reconcilers
    <2>4. (\E next \in {"fences", "answer"} : pc' = [pc EXCEPT ![t] = next])
             /\ UNCHANGED <<then, helper>>
      BY <1>44 DEF settleProven, Reconciled, Goto
    <2>5. ASSUME NEW next \in {"fences", "answer"}, pc' = [pc EXCEPT ![t] = next],
                 UNCHANGED <<then, helper>>
          PROVE  Copies'
      BY <1>0, <2>1, <2>2, <2>3, <2>5, CopiesGo
    <2> QED BY <2>4, <2>5
  <1>45. ASSUME NEW t \in Threads, ReleaseEnd(t) PROVE Copies'
    <2>1. /\ At(t, "release") /\ pc' = [pc EXCEPT ![t] = then[t]]
          /\ UNCHANGED <<work, ghosts, point, dirty, running, restarted, helper, then>>
      BY <1>45 DEF ReleaseEnd, Goto
    <2>2. then[t] \notin BeforeCopy \cup {"materialize", "release"}
      BY <2>1, ReleaseReturns DEF At, BeforeCopy, BeforeFence
    <2>3. \A u \in Threads : pc'[u] = IF u = t THEN then[t] ELSE pc[u]
      BY <2>1 DEF TypeOK, ThreadTypes
    <2>4. \A u \in Threads : Toward(u)' = "clear" => Toward(u) = "clear"
      <3> SUFFICES ASSUME NEW u \in Threads, Toward(u)' = "clear"
      PROVE Toward(u) = "clear"
        OBVIOUS
      <3>1. CASE u = t
        BY <2>1, <2>2, <2>3, <3>1 DEF At, Toward
      <3>2. CASE u # t
        BY <2>1, <2>3, <3>2 DEF Toward
      <3> QED BY <3>1, <3>2
    <2>5. {"begin", "capture"} \subseteq BeforeCopy
      BY DEF BeforeCopy
    <2>6. /\ pc'["run"] \in BeforeCopy => pc["run"] \in BeforeCopy
          /\ pc'["run"] \in {"begin", "capture", "materialize"} => pc'["run"] = pc["run"]
      BY <2>2, <2>3, <2>5, PlaceNames
    <2> QED BY <1>0, <2>1, <2>4, <2>6, CopiesStay
  <1>46. ASSUME NEW t \in Threads, NEW c \in Containers, ReleaseMember(t, c) PROVE Copies'
    <2>1. /\ At(t, "release") /\ UNCHANGED <<work, ghosts, point, helper, then, pc>>
      BY <1>46 DEF ReleaseMember
    <2>2. pc["run"] # "begin" /\ pc["run"] # "capture"
      BY <2>1 DEF At, TakeTurns, Turns, Threads
    <2>3. dirty' = dirty
      BY <1>46, <2>2 DEF ReleaseMember, Started, TypeOK, FlagTypes
    <2>4. \A u \in Threads : Toward(u)' = Toward(u)
      BY <2>1 DEF Toward
    <2>5. Touched' = Touched
      BY <2>1 DEF Touched
    <2> QED BY <1>0, <2>1, <2>2, <2>3, <2>4, <2>5 DEF Copies, Keeps
  <1>47. ASSUME NEW t \in Threads, NEW c \in Containers, ReleaseMemberFails(t, c)
         PROVE Copies'
    BY <1>0, <1>47, CopiesStay DEF ReleaseMemberFails, Toward
  <1>48. ASSUME NEW t \in Resolvers, Retry(t) PROVE Copies'
    <2>1. UNCHANGED <<work, ghosts, point, dirty, running, restarted, helper>>
      BY <1>48 DEF Retry
    <2>2. t \in Threads /\ t # "run"
      BY PlaceNames, ThreadAssumption
    <2>3. "clear" \notin BeforeCopy \cup {"materialize"}
      BY DEF BeforeCopy, BeforeFence
    <2>4. \/ phase \in Settled /\ releaseFence(t, "clear")
          \/ (\E next \in {"answer", "reconcile"} : pc' = [pc EXCEPT ![t] = next])
                /\ UNCHANGED then
      BY <1>48 DEF Retry, Goto
    <2>5. CASE phase \in Settled /\ releaseFence(t, "clear")
      BY <1>0, <2>1, <2>2, <2>3, <2>5, CopiesRelease
    <2>6. ASSUME NEW next \in {"answer", "reconcile"}, pc' = [pc EXCEPT ![t] = next], UNCHANGED then
          PROVE  Copies'
      BY <1>0, <2>1, <2>2, <2>6, CopiesGo
    <2> QED BY <2>4, <2>5, <2>6
  <1>49. ASSUME NEW t \in Resolvers, ReleaseFenceRequest(t) PROVE Copies'
    <2>1. UNCHANGED <<work, ghosts, point, dirty, running, restarted, helper>>
      BY <1>49 DEF ReleaseFenceRequest
    <2>2. t \in Threads /\ releaseFence(t, "accept_released")
      BY <1>49, PlaceNames DEF ReleaseFenceRequest
    <2>3. "accept_released" \notin BeforeCopy \cup {"materialize"}
      BY DEF BeforeCopy, BeforeFence
    <2> QED BY <1>0, <2>1, <2>2, <2>3, CopiesRelease
  <1>50. ASSUME NEW t \in Resolvers, AcceptReleased(t) PROVE Copies'
    <2>1. At(t, "accept_released") /\ t \in Threads
      BY <1>50, PlaceNames DEF AcceptReleased
    <2>2. UNCHANGED <<work, ghosts, point, dirty, running, restarted>>
      BY <1>50 DEF AcceptReleased
    <2>3. \A next \in {"accept_status"} \ {"release"} :
             next \notin BeforeCopy \cup {"materialize", "clear", "release"}
      BY DEF BeforeCopy, BeforeFence
    <2>4. t # "run"
      BY ThreadAssumption DEF Reconcilers
    <2>5. \/ (\E next \in {"answer"} : pc' = [pc EXCEPT ![t] = next])
                /\ UNCHANGED <<then, helper>>
          \/ Call(t, "status", "accept_status") /\ UNCHANGED then
      BY <1>50 DEF AcceptReleased, Goto
    <2>6. ASSUME NEW next \in {"answer"}, pc' = [pc EXCEPT ![t] = next],
                 UNCHANGED <<then, helper>>
          PROVE  Copies'
      BY <1>0, <2>1, <2>2, <2>3, <2>4, <2>6, CopiesGo
    <2>7. CASE Call(t, "status", "accept_status") /\ UNCHANGED then
      BY <1>0, <2>1, <2>2, <2>3, <2>4, <2>7, CopiesCall
    <2> QED BY <2>5, <2>6, <2>7
  <1>51. ASSUME NEW t \in Resolvers, AcceptStatus(t) PROVE Copies'
    <2>1. At(t, "accept_status") /\ t \in Threads
      BY <1>51, PlaceNames DEF AcceptStatus
    <2>2. UNCHANGED <<work, ghosts, point, dirty, running, restarted>>
      BY <1>51 DEF AcceptStatus
    <2>3. \A next \in {"accept_cleaned"} \ {"release"} :
             next \notin BeforeCopy \cup {"materialize", "clear", "release"}
      BY DEF BeforeCopy, BeforeFence
    <2>4. t # "run"
      BY ThreadAssumption DEF Reconcilers
    <2>5. \/ (\E next \in {"answer"} : pc' = [pc EXCEPT ![t] = next])
                /\ UNCHANGED <<then, helper>>
          \/ Call(t, "cleanup", "accept_cleaned") /\ UNCHANGED then
      BY <1>51 DEF AcceptStatus, Goto
    <2>6. ASSUME NEW next \in {"answer"}, pc' = [pc EXCEPT ![t] = next],
                 UNCHANGED <<then, helper>>
          PROVE  Copies'
      BY <1>0, <2>1, <2>2, <2>3, <2>4, <2>6, CopiesGo
    <2>7. CASE Call(t, "cleanup", "accept_cleaned") /\ UNCHANGED then
      BY <1>0, <2>1, <2>2, <2>3, <2>4, <2>7, CopiesCall
    <2> QED BY <2>5, <2>6, <2>7
  <1>52. ASSUME NEW t \in Resolvers, AcceptCleaned(t) PROVE Copies'
    <2>1. At(t, "accept_cleaned") /\ t \in Threads
      BY <1>52, PlaceNames DEF AcceptCleaned
    <2>2. UNCHANGED <<work, ghosts, point, dirty, running, restarted>>
      BY <1>52 DEF AcceptCleaned
    <2>3. t # "run"
      BY ThreadAssumption DEF Reconcilers
    <2>4. (\E next \in {"answer"} : pc' = [pc EXCEPT ![t] = next])
             /\ UNCHANGED <<then, helper>>
      BY <1>52 DEF AcceptCleaned, Goto
    <2>5. ASSUME NEW next \in {"answer"}, pc' = [pc EXCEPT ![t] = next],
                 UNCHANGED <<then, helper>>
          PROVE  Copies'
      BY <1>0, <2>1, <2>2, <2>3, <2>5, CopiesGo
    <2> QED BY <2>4, <2>5
  <1>53. ASSUME NEW t \in Threads, runSwapStep(t) PROVE Copies'
    <2>1. helper[t] \in Commands /\ helper[t] # "idle"
      BY <1>53 DEF runSwapStep, TypeOK, ThreadTypes
    <2>2. work' = work \/ work' \in Reach(helper[t], work)
      BY <1>53 DEF runSwapStep
    <2>3. work' # "none" => work # "none" \/ helper[t] = "restore"
      BY <2>1, <2>2, ReachFromNone
    <2>4. /\ helper' = [helper EXCEPT ![t] = "idle"]
          /\ UNCHANGED <<point, running, ghosts, pc, then, restarted, dirty>>
      BY <1>53 DEF runSwapStep
    <2>5. \A u \in Threads : helper'[u] = "restore" => helper[u] = "restore"
      BY <2>4 DEF TypeOK, ThreadTypes
    <2>6. Touched' => Touched
      BY <2>3, <2>4, <2>5 DEF Touched
    <2>7. pc["run"] \in BeforeCopy => ~Touched
      BY UntouchedBefore
    <2>8. pc["run"] \in BeforeCopy => work' = "none"
      BY <2>6, <2>7 DEF Touched
    <2>9. \A u \in Threads : Toward(u)' = Toward(u)
      BY <2>4 DEF Toward
    <2> QED BY <1>0, <2>4, <2>6, <2>8, <2>9 DEF Copies, Keeps
  <1>54. CASE Outsiders
    <2>1. Touched' = Touched /\ \A t \in Threads : Toward(t)' = Toward(t)
      BY <1>54, OutsidersMove DEF Touched, Toward
    <2>2. /\ dirty' => dirty \/ pc["run"] = "capture"
          /\ pc["run"] = "begin" /\ running' # {} => restarted'
          /\ pc["run"] = "capture" /\ dirty' => restarted'
      <3>1. CASE \E S \in SUBSET Containers : Started(S)
        <4>1. PICK S \in SUBSET Containers : Started(S)
          BY <3>1
        <4>2. CASE S = {}
          BY <4>1, <4>2 DEF Started, Copies
        <4>3. CASE S # {}
          BY <4>1, <4>3 DEF Started
        <4> QED BY <4>2, <4>3
      <3>2. CASE running' \subseteq running /\ UNCHANGED history
        BY <3>2 DEF Copies
      <3> QED BY <1>54, <3>1, <3>2, OutsidersStart
    <2>3. pc["run"] = "capture" => ~Touched
      BY UntouchedBefore DEF BeforeCopy
    <2> QED BY <1>54, <2>1, <2>2, <2>3, OutsidersMove DEF Copies
  <1>55. CASE WorkloadWrites
    BY <1>0, <1>55, CopiesStay DEF WorkloadWrites, Toward
  <1>56. CASE Crash
    <2>1. /\ \A t \in Threads : pc'[t] = "off" /\ then'[t] = "off" /\ helper'[t] = "idle"
          /\ UNCHANGED <<work, point>>
      BY <1>56 DEF Crash
    <2>2. dirty' => dirty \/ pc["run"] = "capture"
      BY <1>56 DEF Crash, Started
    <2>3. pc["run"] = "capture" => ~Touched
      BY UntouchedBefore DEF BeforeCopy
    <2>4. "restore" \in ghosts' => Touched
      <3>1. \A g \in ghosts' : g \in ghosts \/ \E t \in Threads : g = helper[t]
        BY <1>56 DEF Crash
      <3> QED BY <3>1 DEF Touched
    <2>5. Touched' => Touched
      BY <2>1, <2>4, PlaceNames DEF Touched
    <2>6. pc'["run"] = "off" /\ "off" \notin BeforeCopy
      BY <2>1, PlaceNames DEF BeforeCopy, BeforeFence
    <2>7. \A t \in Threads : Toward(t)' = "off"
      BY <2>1 DEF Toward
    <2>8. Touched' => point' = "succeeded" /\ ~dirty'
      BY <2>1, <2>2, <2>3, <2>5 DEF Copies
    <2> QED BY <1>0, <2>6, <2>7, <2>8 DEF Copies, Keeps
  <1>57. ASSUME NEW g \in Commands, Ghost(g) PROVE Copies'
    <2>1. /\ g \in ghosts /\ work' \in Reach(g, work) /\ ghosts' \subseteq ghosts
          /\ UNCHANGED <<point, running, pc, then, helper, restarted, dirty>>
      BY <1>57 DEF Ghost
    <2>2. pc["run"] \notin BeforeCopy
      BY <2>1 DEF Copies
    <2>3. work' # "none" => work # "none" \/ g = "restore"
      BY <2>1, ReachFromNone
    <2>4. Touched' => Touched
      BY <2>1, <2>3 DEF Touched
    <2>5. \A u \in Threads : Toward(u)' = Toward(u)
      BY <2>1 DEF Toward
    <2> QED BY <1>0, <2>1, <2>2, <2>4, <2>5 DEF Copies, Keeps
  <1>58. CASE UNCHANGED vars
    BY <1>0, <1>58, CopiesStay DEF vars, Toward
  <1> QED
    BY ZenonT(60), <1>1, <1>2, <1>3, <1>4, <1>5, <1>6, <1>7, <1>8, <1>9, <1>10, <1>11,
      <1>12, <1>13, <1>14, <1>15, <1>16, <1>17, <1>18, <1>19, <1>20, <1>21, <1>22,
      <1>23, <1>24, <1>25, <1>26, <1>27, <1>28, <1>29, <1>30, <1>31, <1>32, <1>33,
      <1>34, <1>35, <1>36, <1>37, <1>38, <1>39, <1>40, <1>41, <1>42, <1>43, <1>44,
      <1>45, <1>46, <1>47, <1>48, <1>49, <1>50, <1>51, <1>52, <1>53, <1>54, <1>55,
      <1>56, <1>57, <1>58 DEF Next, Pipeline, BootSequence, Environment, Reconcile,
      Accept, Releases, Reconcilers, Threads, Outsiders

-----------------------------------------------------------------------------
(* What holds of the restore for any number of containers and of resolve   *)
(* requests, with starts past Sencho and helpers that Docker keeps.        *)
Safeguards == TypeOK /\ TakeTurns /\ Unrecorded /\ Pins /\ Copies

(* The restore begins with no intent, no fence and no helper.              *)
LEMMA SafeguardsInit == Init => Safeguards
  <1> SUFFICES ASSUME Init PROVE Safeguards
    OBVIOUS
  <1>1. RowTypes
    BY DEF Init, RowTypes, Classes, FenceStates, OpStates, Works
  <1>2. FlagTypes
    BY DEF Init, FlagTypes
  <1>3. ThreadTypes
    <2>1. pc \in [Threads -> Places] /\ then \in [Threads -> Places]
      BY SMTT(30), PlaceNames DEF Init
    <2>2. helper \in [Threads -> Commands \cup {"idle"}] /\ answer \in [Threads -> Results]
      BY DEF Init, Results
    <2>3. intent \in [Threads -> [phase : Phases \cup {"none"}, class : Classes]]
      BY DEF Init, Classes
    <2>4. kept \in [Threads -> BOOLEAN] /\ failed \in [Threads -> BOOLEAN]
      BY DEF Init
    <2>5. visited \in [Threads -> SUBSET Containers]
      BY DEF Init
    <2> QED BY <2>1, <2>2, <2>3, <2>4, <2>5 DEF ThreadTypes
  <1>4. \A t \in Threads : pc[t] = IF t = "boot" THEN "done" ELSE "off"
    BY DEF Init
  <1>5. AtPlaces
    BY DEF Init, AtPlaces, PlacesOf, RunPlaces, BootPlaces, ResolvePlaces
  <1>6. Turns
    BY PlaceNames, ThreadAssumption DEF Init, Turns
  <1>7. Unrecorded
    BY PlaceNames DEF Init, Unrecorded
  <1>8. Pins
    BY PlaceNames DEF Init, Pins, PinnedMeansFenced
  <1>9. Copies
    BY PlaceNames DEF Init, Copies, Touched, Toward
  <1> QED
    BY <1>1, <1>2, <1>3, <1>5, <1>6, <1>7, <1>8, <1>9 DEF Safeguards, TypeOK,
      TakeTurns

(* Every step of the pipeline, the boot sequence, a resolve request, the   *)
(* helpers, Docker and everybody else keeps the safeguards.                *)
LEMMA SafeguardsStep == Safeguards /\ [Next]_vars => Safeguards'
  <1> SUFFICES ASSUME Safeguards, [Next]_vars PROVE Safeguards'
    OBVIOUS
  <1>1. TypeOK /\ TakeTurns /\ Unrecorded /\ Pins /\ Copies
    BY DEF Safeguards
  <1>2. TypeOK'
    BY <1>1, RowTypesStep, FlagTypesStep, ControlStep, LocalTypesStep DEF TypeOK,
      ThreadTypes, Control, LocalTypes
  <1>3. TakeTurns'
    BY <1>1, ControlStep DEF TakeTurns, Control
  <1>4. Unrecorded' /\ Pins' /\ Copies'
    BY <1>1, UnrecordedStep, PinsStep, CopiesStep
  <1> QED BY <1>2, <1>3, <1>4 DEF Safeguards

(* In every reachable state the types, the turns of the threads and the    *)
(* safeguards of fence and copy hold.                                      *)
THEOREM SafeguardsHold == Spec => []Safeguards
  BY SafeguardsInit, SafeguardsStep, PTL DEF Spec

(* Every row, container, thread and flag of the restore keeps its type.    *)
THEOREM RestoreTypes == Spec => []TypeOK
  <1>1. Safeguards => TypeOK
    BY DEF Safeguards
  <1> QED BY <1>1, SafeguardsHold, PTL

(* releaseRestoreFence leaves no container pinned behind a fence that      *)
(* reads released: a pinned container is always under a live fence.        *)
THEOREM PinsAreFenced == Spec => []PinnedMeansFenced
  <1>1. Safeguards => PinnedMeansFenced
    BY DEF Safeguards, Pins
  <1> QED BY <1>1, SafeguardsHold, PTL

(* materializePoint comes after a complete pre-restore point, taken while  *)
(* nothing ran, and the point stays held while the intent is unsettled.    *)
THEOREM CopyComesFirst == Spec => []SafetyCopyFirst
  <1>1. Safeguards => SafetyCopyFirst
    <2> SUFFICES ASSUME Safeguards, Content(work) # "original" PROVE
                   point = "succeeded" /\ ~dirty /\ (phase \notin Settled => holds)
      BY DEF SafetyCopyFirst
    <2>1. work # "none"
      BY DEF Content
    <2>2. phase # "none"
      BY <2>1 DEF Safeguards, Unrecorded
    <2> QED BY <2>1, <2>2 DEF Safeguards, Copies, Touched
  <1> QED BY <1>1, SafeguardsHold, PTL
=============================================================================
