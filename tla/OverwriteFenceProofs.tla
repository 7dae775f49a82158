-------------------------- MODULE OverwriteFenceProofs --------------------------
(***************************************************************************)
(* The fence of OverwriteRestore, on top of OverwriteTruthProofs: what the *)
(* row reports of it, what the endings of the operation say, and, without  *)
(* starts past Sencho, that no workload runs while it is live.  From these *)
(* follow the properties of the restore: one writer, true settlements and  *)
(* endings, and no workload on data that nobody proved.                    *)
(***************************************************************************)
EXTENDS OverwriteTruthProofs

(* Zenon is the default; a leaf that it cannot do names the SMT solver.    *)
USE ZenonT(30)
USE DEF row, fence, docker, volume, process, helpers, release, history, containers

(* A step of one thread that leaves the fence alone.                       *)
LEMMA ReportsMove ==
    ASSUME TypeOK, FenceReports, NEW t \in Threads, UNCHANGED fenceState,
           \A u \in Threads \ {t} : pc'[u] = pc[u] /\ failed'[u] = failed[u],
           phase' = "committed" /\ FenceLive => outcomeClass' = "fence_unavailable",
           pc'[t] = "release" => FenceLive,
           pc'[t] \in ReturnsOf(t) /\ ~failed'[t] => ~FenceLive,
           pc'[t] \in AcceptCalls => ~FenceLive
    PROVE  FenceReports'
  BY DEF FenceReports, FenceLive, ReturnsOf

(* A release is entered only over a live fence.                            *)
LEMMA ReleaseReports ==
    ASSUME TypeOK, NEW t \in Threads, NEW place \in ReturnsOf(t), releaseFence(t, place)
    PROVE  /\ \A u \in Threads \ {t} : pc'[u] = pc[u] /\ failed'[u] = failed[u]
           /\ pc'[t] = "release" => FenceLive
           /\ pc'[t] \in ReturnsOf(t) /\ ~failed'[t] => ~FenceLive
           /\ pc'[t] \in AcceptCalls => ~FenceLive
  <1>1. place \notin AcceptCalls \cup {"release"} /\ "release" \notin ReturnsOf(t) \cup AcceptCalls
    BY DEF ReturnsOf, RunSettles, ReconcileSettles, AcceptCalls
  <1>2. /\ pc'[t] = IF FenceLive THEN "release" ELSE place
        /\ \A u \in Threads \ {t} : pc'[u] = pc[u] /\ failed'[u] = failed[u]
    BY DEF releaseFence, Goto, TypeOK, ThreadTypes
  <1> QED BY <1>1, <1>2

(* The places that promise something of the fence.                         *)
Promising == {"commit_settle", "rollback_settle", "settle_committed", "settle_rolled_back",
              "settle_forward", "clear", "accept_released", "accept_status",
              "accept_cleaned", "release"}

(* A step of a thread that goes to another place while the others rest.    *)
LEMMA ReportsRest ==
    ASSUME OneAtATime, TypeOK, TakeTurns, NEW t \in Threads, NEW from, NEW to,
           At(t, from), from \notin {"off", "done", "release"}, Goto(t, to),
           to \notin Promising,
           phase' = "committed" /\ FenceLive' => outcomeClass' = "fence_unavailable"
    PROVE  FenceReports'
  <1>1. pc'[t] = to /\ \A u \in Threads \ {t} : pc'[u] = pc[u]
    BY DEF Goto, TypeOK, ThreadTypes
  <1>2. \A u \in Threads \ {t} : pc[u] \in {"off", "done"}
    BY TowardAt, OthersRest
  <1>3. {"off", "done"} \cap Promising = {}
    BY DEF Promising
  <1>4. \A u \in Threads : pc'[u] \notin Promising
    BY <1>1, <1>2, <1>3
  <1>5. AcceptCalls \cup {"release"} \subseteq Promising
    BY DEF Promising, AcceptCalls
  <1>6. \A u \in Threads : ReturnsOf(u) \subseteq Promising
    BY DEF Promising, ReturnsOf, RunSettles, ReconcileSettles
  <1> QED BY <1>4, <1>5, <1>6 DEF FenceReports, ReturnsOf

(* A committed intent over an untouched row and fence says what it said.   *)
LEMMA ReportsSame ==
    ASSUME FenceReports, UNCHANGED <<phase, outcomeClass, fenceState>>
    PROVE  phase' = "committed" /\ FenceLive' => outcomeClass' = "fence_unavailable"
  BY DEF FenceReports, FenceLive

(* A release that reports no failure has left no fence, and a committed    *)
(* intent with a live fence says so.                                       *)
LEMMA FenceReportsStep ==
    ASSUME OneAtATime, TypeOK, TakeTurns, Unrecorded, Phased, FenceReports,
           [Next]_vars
    PROVE  FenceReports'
  <1>1. CASE prepareOverwriteAdmission
    <2>1. Goto("run", "admit") /\ phase' # "committed" /\ UNCHANGED <<fenceState, failed>>
      BY <1>1 DEF prepareOverwriteAdmission
    <2>2. pc'["run"] = "admit" /\ \A u \in Threads \ {"run"} : pc'[u] = pc[u]
      BY <2>1, PlaceNames DEF Goto, TypeOK, ThreadTypes
    <2>3. "admit" \notin ReturnsOf("run") \cup AcceptCalls \cup {"release"}
      BY DEF ReturnsOf, RunSettles, AcceptCalls
    <2> QED BY <2>1, <2>2, <2>3, ReportsMove, PlaceNames
  <1>2. CASE admitOverwrite
    <2>1. At("run", "admit")
      BY <1>2 DEF admitOverwrite
    <2>2. phase # "committed"
      BY <2>1 DEF At, Unrecorded
    <2>3. phase' # "committed"
      BY <1>2, <2>2 DEF admitOverwrite
    <2>4. PICK to \in {"stage", "off"} : Goto("run", to)
      BY <1>2 DEF admitOverwrite
    <2>5. to \notin Promising
      BY <2>4 DEF Promising
    <2> QED BY <2>1, <2>3, <2>4, <2>5, ReportsRest, PlaceNames
  <1>3. CASE stagePoint
    <2>1. At("run", "stage")
      BY <1>3 DEF stagePoint
    <2>2. phase # "committed"
      BY <2>1, TowardAt, PlaceNames DEF Phased, RunPhase, PRE_FENCE_PHASES, FENCED_PHASES
    <2>3. phase' # "committed"
      BY <1>3, <2>2 DEF stagePoint, advance
    <2>4. PICK to \in {"create"} : Goto("run", to)
      BY <1>3 DEF stagePoint
    <2>5. to \notin Promising
      BY <2>4 DEF Promising
    <2> QED BY <2>1, <2>3, <2>4, <2>5, ReportsRest, PlaceNames
  <1>4. CASE createLabelledVolume
    <2>1. At("run", "create")
      BY <1>4 DEF createLabelledVolume
    <2>2. phase # "committed"
      BY <2>1, TowardAt, PlaceNames DEF Phased, RunPhase, PRE_FENCE_PHASES, FENCED_PHASES
    <2>3. phase' # "committed"
      BY <1>4, <2>2 DEF createLabelledVolume
    <2>4. PICK to \in {"copy", "unstage", "rollback"} : Goto("run", to)
      BY <1>4 DEF createLabelledVolume, settleRollback
    <2>5. to \notin Promising
      BY <2>4 DEF Promising
    <2> QED BY <2>1, <2>3, <2>4, <2>5, ReportsRest, PlaceNames
  <1>5. CASE RestoreStaging
    <2>1. At("run", "copy")
      BY <1>5 DEF RestoreStaging
    <2>2. phase # "committed"
      BY <2>1, TowardAt, PlaceNames DEF Phased, RunPhase, PRE_FENCE_PHASES, FENCED_PHASES
    <2>3. phase' # "committed"
      BY <1>5, <2>2 DEF RestoreStaging, advance
    <2>4. PICK to \in {"remove", "unstage"} : Goto("run", to)
      BY <1>5 DEF RestoreStaging
    <2>5. to \notin Promising
      BY <2>4 DEF Promising
    <2> QED BY <2>1, <2>3, <2>4, <2>5, ReportsRest, PlaceNames
  <1>6. CASE Unstage
    <2>1. At("run", "unstage")
      BY <1>6 DEF Unstage
    <2>2. phase # "committed"
      BY <2>1, TowardAt, PlaceNames DEF Phased, RunPhase, PRE_FENCE_PHASES, FENCED_PHASES
    <2>3. phase' # "committed"
      BY <1>6, <2>2 DEF Unstage, advance, update
    <2>4. PICK to \in {"return"} : Goto("run", to)
      BY <1>6 DEF Unstage, Finish
    <2>5. to \notin Promising
      BY <2>4 DEF Promising
    <2> QED BY <2>1, <2>3, <2>4, <2>5, ReportsRest, PlaceNames
  <1>7. CASE removeStaging
    <2>1. At("run", "remove")
      BY <1>7 DEF removeStaging
    <2>2. phase # "committed"
      BY <2>1, TowardAt, PlaceNames DEF Phased, RunPhase, PRE_FENCE_PHASES, FENCED_PHASES
    <2>3. phase' # "committed"
      BY <1>7, <2>2 DEF removeStaging, update
    <2>4. PICK to \in {"recheck", "return"} : Goto("run", to)
      BY <1>7 DEF removeStaging, Finish
    <2>5. to \notin Promising
      BY <2>4 DEF Promising
    <2> QED BY <2>1, <2>3, <2>4, <2>5, ReportsRest, PlaceNames
  <1>8. CASE fenceWorkloads
    <2>1. At("run", "recheck")
      BY <1>8 DEF fenceWorkloads
    <2>2. phase # "committed"
      BY <2>1, TowardAt, PlaceNames DEF Phased, RunPhase, PRE_FENCE_PHASES, FENCED_PHASES
    <2>3. phase' # "committed"
      BY <1>8, <2>2 DEF fenceWorkloads, advance
    <2>4. PICK to \in {"drain", "rollback", "return"} : Goto("run", to)
      BY <1>8 DEF fenceWorkloads, settleRollback, Finish
    <2>5. to \notin Promising
      BY <2>4 DEF Promising
    <2> QED BY <2>1, <2>3, <2>4, <2>5, ReportsRest, PlaceNames
  <1>9. CASE waitForStartsInFlight
    <2>1. At("run", "drain")
      BY <1>9 DEF waitForStartsInFlight
    <2>2. phase # "committed"
      BY <2>1, TowardAt, PlaceNames DEF Phased, RunPhase, PRE_FENCE_PHASES, FENCED_PHASES
    <2>3. phase' # "committed"
      BY <1>9, <2>2 DEF waitForStartsInFlight
    <2>4. PICK to \in {"observe", "rollback"} : Goto("run", to)
      BY <1>9 DEF waitForStartsInFlight, settleRollback
    <2>5. to \notin Promising
      BY <2>4 DEF Promising
    <2> QED BY <2>1, <2>3, <2>4, <2>5, ReportsRest, PlaceNames
  <1>10. CASE recordMembers
    <2>1. At("run", "observe")
      BY <1>10 DEF recordMembers
    <2>2. phase # "committed"
      BY <2>1, TowardAt, PlaceNames DEF Phased, RunPhase, PRE_FENCE_PHASES, FENCED_PHASES
    <2>3. phase' # "committed"
      BY <1>10, <2>2 DEF recordMembers
    <2>4. PICK to \in {"fence", "rollback", "return"} : Goto("run", to)
      BY <1>10 DEF recordMembers, settleRollback, Finish
    <2>5. to \notin Promising
      BY <2>4 DEF Promising
    <2> QED BY <2>1, <2>3, <2>4, <2>5, ReportsRest, PlaceNames
  <1>11. ASSUME NEW c \in Containers, Pin(c) PROVE FenceReports'
    BY <1>11 DEF Pin, FenceReports, FenceLive
  <1>12. ASSUME NEW c \in Containers, Stop(c) PROVE FenceReports'
    BY <1>12 DEF Stop, FenceReports, FenceLive
  <1>13. CASE FenceEnd
    <2>1. At("run", "fence")
      BY <1>13 DEF FenceEnd
    <2>2. phase # "committed"
      BY <2>1, TowardAt, PlaceNames DEF Phased, RunPhase, PRE_FENCE_PHASES, FENCED_PHASES
    <2>3. phase' # "committed"
      BY <1>13, <2>2 DEF FenceEnd, advance
    <2>4. PICK to \in {"protect", "rollback"} : Goto("run", to)
      BY <1>13 DEF FenceEnd, settleRollback
    <2>5. to \notin Promising
      BY <2>4 DEF Promising
    <2> QED BY <2>1, <2>3, <2>4, <2>5, ReportsRest, PlaceNames
  <1>14. CASE RecheckBeforePoint
    <2>1. At("run", "protect")
      BY <1>14 DEF RecheckBeforePoint
    <2>2. phase # "committed"
      BY <2>1, TowardAt, PlaceNames DEF Phased, RunPhase, PRE_FENCE_PHASES, FENCED_PHASES
    <2>3. phase' # "committed"
      BY <1>14, <2>2 DEF RecheckBeforePoint
    <2>4. PICK to \in {"begin", "rollback"} : Goto("run", to)
      BY <1>14 DEF RecheckBeforePoint, settleRollback
    <2>5. to \notin Promising
      BY <2>4 DEF Promising
    <2> QED BY <2>1, <2>3, <2>4, <2>5, ReportsRest, PlaceNames
  <1>15. CASE BeginPoint
    <2>1. At("run", "begin")
      BY <1>15 DEF BeginPoint
    <2>2. phase # "committed"
      BY <2>1, TowardAt, PlaceNames DEF Phased, RunPhase, PRE_FENCE_PHASES, FENCED_PHASES
    <2>3. phase' # "committed"
      BY <1>15, <2>2 DEF BeginPoint
    <2>4. PICK to \in {"capture", "rollback"} : Goto("run", to)
      BY <1>15 DEF BeginPoint, settleRollback
    <2>5. to \notin Promising
      BY <2>4 DEF Promising
    <2> QED BY <2>1, <2>3, <2>4, <2>5, ReportsRest, PlaceNames
  <1>16. CASE takePreRestorePoint
    <2>1. At("run", "capture")
      BY <1>16 DEF takePreRestorePoint
    <2>2. phase # "committed"
      BY <2>1, TowardAt, PlaceNames DEF Phased, RunPhase, PRE_FENCE_PHASES, FENCED_PHASES
    <2>3. phase' # "committed"
      BY <1>16, <2>2 DEF takePreRestorePoint
    <2>4. PICK to \in {"materialize", "rollback"} : Goto("run", to)
      BY <1>16 DEF takePreRestorePoint, settleRollback
    <2>5. to \notin Promising
      BY <2>4 DEF Promising
    <2> QED BY <2>1, <2>3, <2>4, <2>5, ReportsRest, PlaceNames
  <1>17. CASE materializePoint
    <2>1. At("run", "materialize")
      BY <1>17 DEF materializePoint
    <2>2. phase # "committed"
      BY <2>1, TowardAt, PlaceNames DEF Phased, RunPhase, PRE_FENCE_PHASES, FENCED_PHASES
    <2>3. phase' # "committed"
      BY <1>17, <2>2 DEF materializePoint, advance
    <2>4. PICK to \in {"materialized"} : Goto("run", to)
      BY <1>17 DEF materializePoint, Call
    <2>5. to \notin Promising
      BY <2>4 DEF Promising
    <2> QED BY <2>1, <2>3, <2>4, <2>5, ReportsRest, PlaceNames
  <1>18. CASE Materialized
    <2>1. At("run", "materialized")
      BY <1>18 DEF Materialized
    <2>2. phase # "committed"
      BY <2>1, TowardAt, PlaceNames DEF Phased, RunPhase, PRE_FENCE_PHASES, FENCED_PHASES
    <2>3. phase' # "committed"
      BY <1>18, <2>2 DEF Materialized
    <2>4. PICK to \in {"prepared", "rollback"} : Goto("run", to)
      BY <1>18 DEF Materialized, settleRollback, Call
    <2>5. to \notin Promising
      BY <2>4 DEF Promising
    <2> QED BY <2>1, <2>3, <2>4, <2>5, ReportsRest, PlaceNames
  <1>19. CASE Prepared
    <2>1. At("run", "prepared")
      BY <1>19 DEF Prepared
    <2>2. phase # "committed"
      BY <2>1, TowardAt, PlaceNames DEF Phased, RunPhase, PRE_FENCE_PHASES, FENCED_PHASES
    <2>3. phase' # "committed"
      BY <1>19, <2>2 DEF Prepared, advance
    <2>4. PICK to \in {"recheck_swap", "rollback"} : Goto("run", to)
      BY <1>19 DEF Prepared, settleRollback
    <2>5. to \notin Promising
      BY <2>4 DEF Promising
    <2> QED BY <2>1, <2>3, <2>4, <2>5, ReportsRest, PlaceNames
  <1>20. CASE RecheckBeforeSwap
    <2>1. At("run", "recheck_swap")
      BY <1>20 DEF RecheckBeforeSwap
    <2>2. phase # "committed"
      BY <2>1, TowardAt, PlaceNames DEF Phased, RunPhase, PRE_FENCE_PHASES, FENCED_PHASES
    <2>3. phase' # "committed"
      BY <1>20, <2>2 DEF RecheckBeforeSwap
    <2>4. PICK to \in {"commit", "rollback"} : Goto("run", to)
      BY <1>20 DEF RecheckBeforeSwap, settleRollback
    <2>5. to \notin Promising
      BY <2>4 DEF Promising
    <2> QED BY <2>1, <2>3, <2>4, <2>5, ReportsRest, PlaceNames
  <1>21. CASE Commit
    <2>1. PICK from \in {"commit", "committed", "recommitted"} : At("run", from)
      BY <1>21 DEF Commit
    <2>2. phase # "committed"
      BY <2>1, TowardAt, PlaceNames DEF Phased, RunPhase, PRE_FENCE_PHASES, FENCED_PHASES
    <2>3. phase' # "committed"
      BY <1>21, <2>2 DEF Commit
    <2>4. PICK to \in {"committed", "confirm_reported",
                       "confirm", "confirm_last"} : Goto("run", to)
      BY <1>21 DEF Commit, Call
    <2>5. to \notin Promising
      BY <2>4 DEF Promising
    <2> QED BY <2>1, <2>3, <2>4, <2>5, ReportsRest, PlaceNames
  <1>22. CASE swapAndCleanup
    <2>1. PICK from \in {"confirm", "confirm_reported", "confirm_last"} : At("run", from)
      BY <1>22 DEF swapAndCleanup
    <2>2. phase # "committed"
      BY <2>1, TowardAt, PlaceNames DEF Phased, RunPhase, PRE_FENCE_PHASES, FENCED_PHASES
    <2>3. phase' # "committed"
      BY <1>22, <2>2 DEF swapAndCleanup, advance
    <2>4. PICK to \in {"cleaned", "recommitted", "return", "rollback"} : Goto("run", to)
      BY <1>22 DEF swapAndCleanup, Call, Finish, settleRollback
    <2>5. to \notin Promising
      BY <2>4 DEF Promising
    <2> QED BY <2>1, <2>3, <2>4, <2>5, ReportsRest, PlaceNames
  <1>23. CASE releaseAfterCommit
    <2>1. At("run", "cleaned") /\ UNCHANGED <<fenceState, phase>>
      BY <1>23 DEF releaseAfterCommit, update
    <2>2. phase' # "committed"
      BY <2>1, TowardAt, PlaceNames DEF Phased, RunPhase
    <2>3. releaseFence("run", "commit_settle") \/ Goto("run", "return")
      BY <1>23 DEF releaseAfterCommit, Finish
    <2>4. CASE releaseFence("run", "commit_settle")
      <3>1. "commit_settle" \in ReturnsOf("run")
        BY DEF ReturnsOf, RunSettles
      <3> QED BY <2>1, <2>2, <2>4, <3>1, ReleaseReports, ReportsMove, PlaceNames
    <2>5. CASE Goto("run", "return")
      BY <2>1, <2>2, <2>5, ReportsRest, PlaceNames DEF Promising
    <2> QED BY <2>3, <2>4, <2>5
  <1>24. CASE CommitSettle
    <2>1. At("run", "commit_settle") /\ Goto("run", "return") /\ UNCHANGED fenceState
      BY <1>24 DEF CommitSettle, Finish
    <2>2. phase # "committed"
      BY <2>1, TowardAt, PlaceNames DEF Phased, RunPhase
    <2>3. ~failed["run"] => ~FenceLive
      BY <2>1, PlaceNames DEF At, FenceReports, ReturnsOf, RunSettles
    <2>4. phase' = "committed" /\ failed["run"] => outcomeClass' = "fence_unavailable"
      BY <1>24, <2>2 DEF CommitSettle, advance
    <2>5. FenceLive' <=> FenceLive
      BY <2>1 DEF FenceLive
    <2> QED BY <2>1, <2>3, <2>4, <2>5, ReportsRest, PlaceNames DEF Promising
  <1>25. CASE RollbackBegin
    <2>1. At("run", "rollback")
      BY <1>25 DEF RollbackBegin
    <2>2. phase # "committed"
      BY <2>1, TowardAt, PlaceNames DEF Phased, RunPhase, PRE_FENCE_PHASES, FENCED_PHASES
    <2>3. phase' # "committed"
      BY <1>25, <2>2 DEF RollbackBegin
    <2>4. PICK to \in {"rollback_done", "rollback_staging"} : Goto("run", to)
      BY <1>25 DEF RollbackBegin, Call
    <2>5. to \notin Promising
      BY <2>4 DEF Promising
    <2> QED BY <2>1, <2>3, <2>4, <2>5, ReportsRest, PlaceNames
  <1>26. CASE RollbackDone
    <2>1. At("run", "rollback_done")
      BY <1>26 DEF RollbackDone
    <2>2. phase # "committed"
      BY <2>1, TowardAt, PlaceNames DEF Phased, RunPhase, PRE_FENCE_PHASES, FENCED_PHASES
    <2>3. phase' # "committed"
      BY <1>26, <2>2 DEF RollbackDone, advance
    <2>4. PICK to \in {"rollback_staging", "return"} : Goto("run", to)
      BY <1>26 DEF RollbackDone, Finish
    <2>5. to \notin Promising
      BY <2>4 DEF Promising
    <2> QED BY <2>1, <2>3, <2>4, <2>5, ReportsRest, PlaceNames
  <1>27. CASE RollbackStaging
    <2>1. At("run", "rollback_staging") /\ UNCHANGED <<fenceState, phase, outcomeClass>>
      BY <1>27 DEF RollbackStaging
    <2>2. releaseFence("run", "rollback_settle") /\ "rollback_settle" \in ReturnsOf("run")
      BY <1>27 DEF RollbackStaging, ReturnsOf, RunSettles
    <2> QED BY <2>1, <2>2, ReleaseReports, ReportsMove, PlaceNames DEF FenceReports
  <1>28. CASE rollbackIntent
    <2>1. At("run", "rollback_settle") /\ Goto("run", "return")
      BY <1>28 DEF rollbackIntent, Finish
    <2>2. phase # "committed"
      BY <2>1, TowardAt, PlaceNames DEF Phased, RunPhase, PRE_FENCE_PHASES, FENCED_PHASES
    <2>3. phase' # "committed"
      BY <1>28, <2>2 DEF rollbackIntent, update, advance
    <2> QED BY <2>1, <2>3, ReportsRest, PlaceNames DEF Promising
  <1>29. CASE releaseStacks
    <2>1. /\ "run" \in Threads /\ UNCHANGED fenceState /\ pc'["run"] \in {"off"}
          /\ \A u \in Threads \ {"run"} : pc'[u] = pc[u] /\ failed'[u] = failed[u]
      BY <1>29, PlaceNames DEF releaseStacks, Forget, Goto, TypeOK, ThreadTypes
    <2>2. pc'["run"] \notin ReturnsOf("run") \cup AcceptCalls \cup {"release"}
      BY <2>1 DEF ReturnsOf, RunSettles, ReconcileSettles, AcceptCalls
    <2>3. phase' = "committed" /\ FenceLive => outcomeClass' = "fence_unavailable"
      BY <1>29 DEF releaseStacks, FenceReports
    <2> QED BY <2>1, <2>2, <2>3, ReportsMove
  <1>30. CASE Boot
    <2>1. Goto("boot", "helpers") /\ UNCHANGED <<phase, outcomeClass, fenceState, failed>>
      BY <1>30 DEF Boot
    <2>2. pc'["boot"] = "helpers" /\ \A u \in Threads \ {"boot"} : pc'[u] = pc[u]
      BY <2>1, PlaceNames DEF Goto, TypeOK, ThreadTypes
    <2>3. "helpers" \notin ReturnsOf("boot") \cup AcceptCalls \cup {"release"}
      BY DEF ReturnsOf, ReconcileSettles, AcceptCalls
    <2> QED BY <2>1, <2>2, <2>3, ReportsMove, PlaceNames DEF FenceReports
  <1>31. CASE removeForeignEpochHelpers
    <2>1. At("boot", "helpers") /\ UNCHANGED <<phase, outcomeClass, fenceState>>
      BY <1>31 DEF removeForeignEpochHelpers
    <2>2. PICK to \in {"reconcile", "fences", "settle", "failed"} : Goto("boot", to)
      BY <1>31 DEF removeForeignEpochHelpers
    <2>3. to \notin Promising
      BY <2>2 DEF Promising
    <2> QED BY <2>1, <2>2, <2>3, ReportsRest, ReportsSame, PlaceNames
  <1>32. CASE reconcileOverwriteIntentsAtStartup
    <2>1. At("boot", "fences") /\ UNCHANGED <<phase, outcomeClass, fenceState>>
      BY <1>32 DEF reconcileOverwriteIntentsAtStartup
    <2>2. releaseFence("boot", "clear") \/ Goto("boot", "settle")
      BY <1>32 DEF reconcileOverwriteIntentsAtStartup
    <2>3. CASE releaseFence("boot", "clear")
      <3>1. "clear" \in ReturnsOf("boot")
        BY DEF ReturnsOf, ReconcileSettles
      <3> QED
        BY <2>1, <2>3, <3>1, ReleaseReports, ReportsMove, PlaceNames DEF FenceReports
    <2>4. CASE Goto("boot", "settle")
      BY <2>1, <2>4, ReportsRest, ReportsSame, PlaceNames DEF Promising
    <2> QED BY <2>2, <2>3, <2>4
  <1>33. ASSUME NEW t \in Reconcilers, reconcileOverwriteIntent(t) PROVE FenceReports'
    <2>1. t \in Threads /\ At(t, "reconcile")
      BY <1>33, PlaceNames DEF reconcileOverwriteIntent
    <2>2. phase # "committed"
      BY <2>1, TowardAt DEF Phased, ReconcilePhase, FENCED_PHASES, Undecided, Settled
    <2>3. phase' # "committed"
      BY <1>33, <2>2 DEF reconcileOverwriteIntent
    <2>4. PICK to \in {"unstage", "read", "undone", "decide"} : Goto(t, to)
      BY <1>33 DEF reconcileOverwriteIntent, Call
    <2>5. to \notin Promising
      BY <2>4 DEF Promising
    <2> QED BY <2>1, <2>3, <2>4, <2>5, ReportsRest
  <1>34. ASSUME NEW t \in Reconcilers, ReadUnderWorkloads(t) PROVE FenceReports'
    <2>1. t \in Threads /\ At(t, "read")
      BY <1>34, PlaceNames DEF ReadUnderWorkloads
    <2>2. phase # "committed"
      BY <2>1, TowardAt DEF Phased, ReconcilePhase, FENCED_PHASES, Undecided, Settled
    <2>3. phase' # "committed"
      BY <1>34, <2>2 DEF ReadUnderWorkloads, markUnknown, update, advance
    <2>4. PICK to \in {"fences", "answer", "unstage"} : Goto(t, to)
      BY <1>34 DEF ReadUnderWorkloads, Reconciled
    <2>5. to \notin Promising
      BY <2>4 DEF Promising
    <2> QED BY <2>1, <2>3, <2>4, <2>5, ReportsRest
  <1>35. ASSUME NEW t \in Reconcilers, Undone(t) PROVE FenceReports'
    <2>0. phase # "committed"
      BY <1>35, TowardAt, PlaceNames DEF Undone, Phased, ReconcilePhase, FENCED_PHASES,
        Undecided
    <2>1. CASE Goto(t, "unstage") /\ UNCHANGED <<row, release>>
      <3>1. /\ t \in Threads /\ UNCHANGED fenceState /\ pc'[t] \in {"unstage"}
            /\ \A u \in Threads \ {t} : pc'[u] = pc[u] /\ failed'[u] = failed[u]
        BY <1>35, <2>1, PlaceNames DEF Undone, Goto, TypeOK, ThreadTypes
      <3>2. pc'[t] \notin ReturnsOf(t) \cup AcceptCalls \cup {"release"}
        BY <3>1 DEF ReturnsOf, RunSettles, ReconcileSettles, AcceptCalls
      <3>3. phase' = "committed" /\ FenceLive => outcomeClass' = "fence_unavailable"
        BY <2>0, <2>1
      <3> QED BY <3>1, <3>2, <3>3, ReportsMove
    <2>2. CASE Reconciled(t) /\ markUnknown(t, "other") /\ UNCHANGED release
      <3>1. /\ t \in Threads /\ UNCHANGED fenceState /\ pc'[t] \in {"fences", "answer"}
            /\ \A u \in Threads \ {t} : pc'[u] = pc[u] /\ failed'[u] = failed[u]
        BY <1>35, <2>2, PlaceNames DEF Undone, Reconciled, Goto, TypeOK, ThreadTypes
      <3>2. pc'[t] \notin ReturnsOf(t) \cup AcceptCalls \cup {"release"}
        BY <3>1 DEF ReturnsOf, RunSettles, ReconcileSettles, AcceptCalls
      <3>3. phase' = "committed" /\ FenceLive => outcomeClass' = "fence_unavailable"
        BY <2>0, <2>2 DEF markUnknown, update, advance
      <3> QED BY <3>1, <3>2, <3>3, ReportsMove
    <2>3. CASE releaseFence(t, "settle_rolled_back") /\ UNCHANGED row
      <3>1. t \in Threads /\ UNCHANGED <<fenceState, phase, outcomeClass>>
        BY <1>35, <2>3, PlaceNames DEF Undone
      <3>2. "settle_rolled_back" \in ReturnsOf(t) /\ releaseFence(t, "settle_rolled_back")
        BY <1>35, <2>3, ThreadAssumption DEF Undone, ReturnsOf, RunSettles,
          ReconcileSettles, Reconcilers
      <3> QED BY <3>1, <3>2, ReleaseReports, ReportsMove DEF FenceReports
    <2> QED BY <1>35, <2>1, <2>2, <2>3 DEF Undone
  <1>36. ASSUME NEW t \in Reconcilers, ReconcileStaging(t) PROVE FenceReports'
    <2>1. t \in Threads /\ UNCHANGED <<fenceState, phase, outcomeClass>>
      BY <1>36, PlaceNames DEF ReconcileStaging
    <2>2. "settle_rolled_back" \in ReturnsOf(t) /\ releaseFence(t, "settle_rolled_back")
      BY <1>36, ThreadAssumption DEF ReconcileStaging, ReturnsOf, RunSettles,
        ReconcileSettles, Reconcilers
    <2> QED BY <2>1, <2>2, ReleaseReports, ReportsMove DEF FenceReports
  <1>37. ASSUME NEW t \in Reconcilers, JournalDecides(t) PROVE FenceReports'
    <2>1. t \in Threads /\ At(t, "decide") /\ UNCHANGED fenceState
      BY <1>37, PlaceNames DEF JournalDecides
    <2>2. phase # "committed"
      BY <2>1, TowardAt DEF Phased, ReconcilePhase, Undecided
    <2>3. phase' # "committed"
      BY <1>37, <2>2 DEF JournalDecides, markUnknown, update, advance
    <2>4. \/ releaseFence(t, "settle_committed")
          \/ \E to \in {"fences", "answer", "finish", "forward", "undone"} : Goto(t, to)
      BY <1>37 DEF JournalDecides, Reconciled, Call
    <2>5. CASE releaseFence(t, "settle_committed")
      <3>1. "settle_committed" \in ReturnsOf(t)
        BY ThreadAssumption DEF ReturnsOf, ReconcileSettles, Reconcilers
      <3> QED BY <2>1, <2>3, <2>5, <3>1, ReleaseReports, ReportsMove
    <2>6. CASE \E to \in {"fences", "answer", "finish", "forward", "undone"} : Goto(t, to)
      BY <2>1, <2>3, <2>6, ReportsRest DEF Promising
    <2> QED BY <2>4, <2>5, <2>6
  <1>38. ASSUME NEW t \in Reconcilers, CommitFinished(t) PROVE FenceReports'
    <2>1. t \in Threads /\ At(t, "finish")
      BY <1>38, PlaceNames DEF CommitFinished
    <2>2. phase # "committed"
      BY <2>1, TowardAt DEF Phased, ReconcilePhase, FENCED_PHASES, Undecided, Settled
    <2>3. phase' # "committed"
      BY <1>38, <2>2 DEF CommitFinished, markUnknown, update, advance
    <2>4. PICK to \in {"forward", "fences", "answer"} : Goto(t, to)
      BY <1>38 DEF CommitFinished, Reconciled
    <2>5. to \notin Promising
      BY <2>4 DEF Promising
    <2> QED BY <2>1, <2>3, <2>4, <2>5, ReportsRest
  <1>39. ASSUME NEW t \in Reconcilers, RollForward(t) PROVE FenceReports'
    <2>1. t \in Threads /\ At(t, "forward")
      BY <1>39, PlaceNames DEF RollForward
    <2>2. phase # "committed"
      BY <2>1, TowardAt DEF Phased, ReconcilePhase, FENCED_PHASES, Undecided, Settled
    <2>3. phase' # "committed"
      BY <1>39, <2>2 DEF RollForward, advance
    <2>4. PICK to \in {"fences", "answer", "forwarded"} : Goto(t, to)
      BY <1>39 DEF RollForward, Reconciled, Call
    <2>5. to \notin Promising
      BY <2>4 DEF Promising
    <2> QED BY <2>1, <2>3, <2>4, <2>5, ReportsRest
  <1>40. ASSUME NEW t \in Reconcilers, ForwardCleaned(t) PROVE FenceReports'
    <2>0. phase # "committed"
      BY <1>40, TowardAt, PlaceNames DEF ForwardCleaned, Phased, ReconcilePhase
    <2>1. CASE ok(t)
      <3>1. t \in Threads /\ UNCHANGED <<fenceState, phase, outcomeClass>>
        BY <1>40, <2>1, PlaceNames DEF ForwardCleaned
      <3>2. "settle_forward" \in ReturnsOf(t) /\ releaseFence(t, "settle_forward")
        BY <1>40, <2>1, ThreadAssumption DEF ForwardCleaned, ReturnsOf, RunSettles,
          ReconcileSettles, Reconcilers
      <3> QED BY <3>1, <3>2, ReleaseReports, ReportsMove DEF FenceReports
    <2>2. CASE ~ok(t)
      <3>1. /\ t \in Threads /\ UNCHANGED fenceState /\ pc'[t] \in {"fences", "answer"}
            /\ \A u \in Threads \ {t} : pc'[u] = pc[u] /\ failed'[u] = failed[u]
        BY <1>40, <2>2, PlaceNames DEF ForwardCleaned, Reconciled, Goto, TypeOK,
          ThreadTypes
      <3>2. pc'[t] \notin ReturnsOf(t) \cup AcceptCalls \cup {"release"}
        BY <3>1 DEF ReturnsOf, RunSettles, ReconcileSettles, AcceptCalls
      <3>3. phase' = "committed" /\ FenceLive => outcomeClass' = "fence_unavailable"
        BY <1>40, <2>0, <2>2 DEF ForwardCleaned, update
      <3> QED BY <3>1, <3>2, <3>3, ReportsMove
    <2> QED BY <2>1, <2>2
  <1>41. ASSUME NEW t \in Reconcilers, SettleForward(t) PROVE FenceReports'
    <2>1. t \in Threads /\ At(t, "settle_forward") /\ UNCHANGED fenceState
      BY <1>41, PlaceNames DEF SettleForward
    <2>2. phase # "committed"
      BY <2>1, TowardAt DEF Phased, ReconcilePhase
    <2>3. ~failed[t] => ~FenceLive
      BY <2>1, ThreadAssumption DEF At, FenceReports, ReturnsOf, ReconcileSettles,
        Reconcilers
    <2>4. failed[t] => phase' # "committed"
      BY <1>41, <2>2 DEF SettleForward, markUnknown, update, advance
    <2>5. FenceLive' <=> FenceLive
      BY <2>1 DEF FenceLive
    <2>6. Goto(t, "fences") \/ Goto(t, "answer")
      BY <1>41 DEF SettleForward, Reconciled
    <2> QED BY <2>1, <2>3, <2>4, <2>5, <2>6, ReportsRest DEF Promising
  <1>42. ASSUME NEW t \in Reconcilers, clearFenceOutcome(t) PROVE FenceReports'
    <2>1. /\ t \in Threads /\ UNCHANGED fenceState /\ pc'[t] \in {"settle", "answer"}
          /\ \A u \in Threads \ {t} : pc'[u] = pc[u] /\ failed'[u] = failed[u]
      BY <1>42, PlaceNames DEF clearFenceOutcome, Goto, TypeOK, ThreadTypes
    <2>2. pc'[t] \notin ReturnsOf(t) \cup AcceptCalls \cup {"release"}
      BY <2>1 DEF ReturnsOf, RunSettles, ReconcileSettles, AcceptCalls
    <2>3. phase' = "committed" /\ FenceLive => outcomeClass' = "fence_unavailable"
      <3>1. ~failed[t] => ~FenceLive
        BY <1>42, <2>1, ThreadAssumption DEF clearFenceOutcome, At, FenceReports,
          ReturnsOf, ReconcileSettles, Reconcilers
      <3> QED BY <1>42, <3>1 DEF clearFenceOutcome, update, FenceReports
    <2> QED BY <2>1, <2>2, <2>3, ReportsMove
  <1>43. ASSUME NEW t \in Reconcilers, settleInterruptedOverwriteOperations(t)
         PROVE FenceReports'
    <2>1. /\ t \in Threads /\ (At(t, "settle") \/ At(t, "answer"))
          /\ (Goto(t, "done") \/ Goto(t, "off"))
          /\ UNCHANGED <<phase, outcomeClass, fenceState>>
      BY <1>43, PlaceNames DEF settleInterruptedOverwriteOperations
    <2> QED BY <2>1, ReportsRest, ReportsSame DEF Promising
  <1>44. ASSUME NEW t \in Reconcilers, NEW to \in Settled, settleProven(t, to)
         PROVE FenceReports'
    <2>1. PICK from \in {"settle_committed", "settle_rolled_back"} : At(t, from)
      BY <1>44 DEF settleProven
    <2>2. t \in Threads /\ UNCHANGED fenceState
      BY <1>44, PlaceNames DEF settleProven
    <2>3. phase # "committed"
      BY <2>1, <2>2, TowardAt DEF Phased, ReconcilePhase, Settled
    <2>4. ~failed[t] => ~FenceLive
      BY <2>1, <2>2, ThreadAssumption DEF At, FenceReports, ReturnsOf, ReconcileSettles,
        Reconcilers
    <2>5. phase' = "committed" /\ failed[t] => outcomeClass' = "fence_unavailable"
      BY <1>44, <2>3 DEF settleProven, update, advance
    <2>6. FenceLive' <=> FenceLive
      BY <2>2 DEF FenceLive
    <2>7. Goto(t, "fences") \/ Goto(t, "answer")
      BY <1>44 DEF settleProven, Reconciled
    <2> QED BY <2>1, <2>2, <2>4, <2>5, <2>6, <2>7, ReportsRest DEF Promising
  <1>45. ASSUME NEW t \in Threads, ReleaseEnd(t) PROVE FenceReports'
    <2>1. /\ pc'[t] = then[t]
                /\ UNCHANGED <<phase, outcomeClass, failed>> /\ pc[t] = "release"
          /\ \A u \in Threads \ {t} : pc'[u] = pc[u]
          /\ fenceState' = IF failed[t] THEN "release_failed" ELSE "released"
      BY <1>45 DEF ReleaseEnd, Goto, TypeOK, ThreadTypes, At
    <2>2. \A u \in Threads \ {t} : pc[u] \in {"off", "done"}
      BY <2>1, ReleaseReturns, OthersRest DEF Toward
    <2>3. \A u \in Threads :
             {"off", "done"} \cap (ReturnsOf(u) \cup AcceptCalls \cup {"release"}) = {}
      BY DEF ReturnsOf, RunSettles, ReconcileSettles, AcceptCalls
    <2>4. then[t] \notin AcceptCalls \cup {"release"}
      BY <2>1, ReleaseReturns DEF AcceptCalls
    <2>5. FenceLive /\ (~failed[t] => ~FenceLive')
      BY <2>1 DEF FenceReports, FenceLive
    <2> QED BY <2>1, <2>2, <2>3, <2>4, <2>5 DEF FenceReports, ReturnsOf
  <1>46. ASSUME NEW t \in Threads, NEW c \in Containers, ReleaseMember(t, c)
         PROVE FenceReports'
    BY <1>46 DEF ReleaseMember, Started, FenceReports, FenceLive
  <1>47. ASSUME NEW t \in Threads, NEW c \in Containers, ReleaseMemberFails(t, c)
         PROVE FenceReports'
    <2>1. /\ pc[t] = "release" /\ UNCHANGED <<pc, phase, outcomeClass, fenceState>>
          /\ \A u \in Threads \ {t} : failed'[u] = failed[u]
      BY <1>47 DEF ReleaseMemberFails, At, TypeOK, ThreadTypes
    <2>2. "release" \notin ReturnsOf(t) \cup AcceptCalls
      BY DEF ReturnsOf, RunSettles, ReconcileSettles, AcceptCalls
    <2> QED BY <2>1, <2>2, ReportsMove DEF FenceReports
  <1>48. ASSUME NEW t \in Resolvers, Retry(t) PROVE FenceReports'
    <2>1. CASE releaseFence(t, "clear")
      <3>1. t \in Threads /\ UNCHANGED <<fenceState, phase, outcomeClass>>
        BY <1>48, <2>1, PlaceNames DEF Retry
      <3>2. "clear" \in ReturnsOf(t) /\ releaseFence(t, "clear")
        BY <1>48, <2>1, ThreadAssumption DEF Retry, ReturnsOf, RunSettles,
          ReconcileSettles, Reconcilers
      <3> QED BY <3>1, <3>2, ReleaseReports, ReportsMove DEF FenceReports
    <2>2. CASE (Goto(t, "answer") \/ Goto(t, "reconcile")) /\ UNCHANGED release
      <3>1. /\ t \in Threads /\ UNCHANGED fenceState /\ pc'[t] \in {"answer", "reconcile"}
            /\ \A u \in Threads \ {t} : pc'[u] = pc[u] /\ failed'[u] = failed[u]
        BY <1>48, <2>2, PlaceNames DEF Retry, Goto, TypeOK, ThreadTypes
      <3>2. pc'[t] \notin ReturnsOf(t) \cup AcceptCalls \cup {"release"}
        BY <3>1 DEF ReturnsOf, RunSettles, ReconcileSettles, AcceptCalls
      <3>3. phase' = "committed" /\ FenceLive => outcomeClass' = "fence_unavailable"
        BY <1>48, <2>2 DEF Retry, FenceReports
      <3> QED BY <3>1, <3>2, <3>3, ReportsMove
    <2> QED BY <1>48, <2>1, <2>2 DEF Retry
  <1>49. ASSUME NEW t \in Resolvers, ReleaseFenceRequest(t) PROVE FenceReports'
    <2>1. t \in Threads /\ UNCHANGED <<fenceState, phase, outcomeClass>>
      BY <1>49, PlaceNames DEF ReleaseFenceRequest
    <2>2. "accept_released" \in ReturnsOf(t) /\ releaseFence(t, "accept_released")
      BY <1>49, ThreadAssumption DEF ReleaseFenceRequest, ReturnsOf, RunSettles,
        ReconcileSettles, Reconcilers
    <2> QED BY <2>1, <2>2, ReleaseReports, ReportsMove DEF FenceReports
  <1>50. ASSUME NEW t \in Resolvers, AcceptReleased(t) PROVE FenceReports'
    <2>1. /\ t \in Threads /\ UNCHANGED <<fenceState, phase, outcomeClass, failed>>
          /\ \A u \in Threads \ {t} : pc'[u] = pc[u]
          /\ IF failed[t] THEN pc'[t] = "answer" ELSE pc'[t] = "accept_status"
      BY <1>50, PlaceNames DEF AcceptReleased, Call, Goto, TypeOK, ThreadTypes
    <2>2. ~failed[t] => ~FenceLive
      BY <1>50, <2>1, ThreadAssumption DEF AcceptReleased, At, FenceReports, ReturnsOf
    <2>3. {"answer", "accept_status"} \cap (ReturnsOf(t) \cup {"release"}) = {}
             /\ "answer" \notin AcceptCalls
      BY DEF ReturnsOf, RunSettles, ReconcileSettles, AcceptCalls
    <2> QED BY <2>1, <2>2, <2>3, ReportsMove DEF FenceReports
  <1>51. ASSUME NEW t \in Resolvers, AcceptStatus(t) PROVE FenceReports'
    <2>1. t \in Threads /\ t \in Reconcilers /\ At(t, "accept_status")
             /\ UNCHANGED <<fenceState, failed>>
      BY <1>51, PlaceNames DEF AcceptStatus, Reconcilers
    <2>2. phase # "committed" /\ ~FenceLive
      BY <2>1, TowardAt DEF Phased, ReconcilePhase, Settled, FenceReports, AcceptCalls, At
    <2>3. Goto(t, "answer") \/ Goto(t, "accept_cleaned")
      BY <1>51 DEF AcceptStatus, Call
    <2>4. pc'[t] \in {"answer", "accept_cleaned"} /\ \A u \in Threads \ {t} :
             pc'[u] = pc[u]
      BY <2>1, <2>3 DEF Goto, TypeOK, ThreadTypes
    <2>5. {"answer", "accept_cleaned"} \cap (ReturnsOf(t) \cup {"release"}) = {}
      BY DEF ReturnsOf, RunSettles, ReconcileSettles
    <2> QED BY <2>1, <2>2, <2>4, <2>5, ReportsMove
  <1>52. ASSUME NEW t \in Resolvers, AcceptCleaned(t) PROVE FenceReports'
    <2>1. /\ t \in Threads /\ UNCHANGED fenceState /\ pc'[t] \in {"answer"}
          /\ \A u \in Threads \ {t} : pc'[u] = pc[u] /\ failed'[u] = failed[u]
      BY <1>52, PlaceNames DEF AcceptCleaned, Goto, TypeOK, ThreadTypes
    <2>2. pc'[t] \notin ReturnsOf(t) \cup AcceptCalls \cup {"release"}
      BY <2>1 DEF ReturnsOf, RunSettles, ReconcileSettles, AcceptCalls
    <2>3. ~FenceLive
      BY <1>52, <2>1 DEF AcceptCleaned, At, FenceReports, AcceptCalls
    <2> QED BY <2>1, <2>2, <2>3, ReportsMove
  <1>53. ASSUME NEW t \in Threads, runSwapStep(t) PROVE FenceReports'
    BY <1>53 DEF runSwapStep, FenceReports, FenceLive
  <1>54. CASE Outsiders
    BY <1>54, OutsidersMove DEF FenceReports, FenceLive
  <1>55. CASE WorkloadWrites
    BY <1>55 DEF WorkloadWrites, FenceReports, FenceLive
  <1>56. CASE Crash
    <2>1. /\ \A t \in Threads : pc'[t] = "off"
          /\ UNCHANGED <<phase, outcomeClass, fenceState>>
      BY <1>56 DEF Crash
    <2>2. \A t \in Threads : "off" \notin ReturnsOf(t) \cup AcceptCalls \cup {"release"}
      BY DEF ReturnsOf, RunSettles, ReconcileSettles, AcceptCalls
    <2> QED BY <2>1, <2>2, ReportsSame DEF FenceReports, ReturnsOf
  <1>57. ASSUME NEW g \in Commands, Ghost(g) PROVE FenceReports'
    BY <1>57 DEF Ghost, FenceReports, FenceLive
  <1>58. CASE UNCHANGED vars
    BY <1>58 DEF vars, FenceReports, FenceLive
  <1> QED
    BY ZenonT(60), <1>1, <1>2, <1>3, <1>4, <1>5, <1>6, <1>7, <1>8, <1>9, <1>10, <1>11,
      <1>12, <1>13, <1>14, <1>15, <1>16, <1>17, <1>18, <1>19, <1>20, <1>21, <1>22,
      <1>23, <1>24, <1>25, <1>26, <1>27, <1>28, <1>29, <1>30, <1>31, <1>32, <1>33,
      <1>34, <1>35, <1>36, <1>37, <1>38, <1>39, <1>40, <1>41, <1>42, <1>43, <1>44,
      <1>45, <1>46, <1>47, <1>48, <1>49, <1>50, <1>51, <1>52, <1>53, <1>54, <1>55,
      <1>56, <1>57, <1>58 DEF Next, Pipeline, BootSequence, Environment, Reconcile,
      Accept, Releases, Reconcilers, Threads, Outsiders

(* Without a change of the operation, of the volume, or of a committed     *)
(* intent, what the ending rests on stays.                                 *)
LEMMA EndingsFrame ==
    ASSUME Endings, UNCHANGED <<op, work, ghosts, fenceState>>, pc'["run"] = pc["run"],
           phase = "committed" => phase' = "committed"
    PROVE  Endings'
  BY DEF Endings, FenceLive

(* A running operation claims nothing yet.                                 *)
LEMMA EndingsRunning ==
    ASSUME op' = "running"
    PROVE  Endings'
  BY DEF Endings

(* A committed intent stays committed.                                     *)
LEMMA CommittedStays ==
    ASSUME phase = "committed", NEW to, NEW class, advance(to, class)
    PROVE  phase' = "committed"
  BY RowNames, Transitions DEF advance, Settled

(* The state an operation ended in stays true of the volume.               *)
LEMMA EndingsStep ==
    ASSUME OneAtATime, TypeOK, TakeTurns, Unrecorded, Phased, Alone, Truth,
           FenceReports, Endings, [Next]_vars
    PROVE  Endings'
  <1>1. CASE prepareOverwriteAdmission
    BY <1>1, PlaceNames DEF prepareOverwriteAdmission, Goto, Endings, FenceLive, TypeOK,
      ThreadTypes
  <1>2. CASE admitOverwrite
    BY <1>2, PlaceNames DEF admitOverwrite, Goto, Endings, FenceLive, TypeOK, ThreadTypes
  <1>3. CASE stagePoint
    BY <1>3, EndingsRunning DEF stagePoint, At, Endings
  <1>4. CASE createLabelledVolume
    BY <1>4, EndingsRunning DEF createLabelledVolume, At, Endings
  <1>5. CASE RestoreStaging
    BY <1>5, EndingsRunning DEF RestoreStaging, At, Endings
  <1>6. CASE Unstage
    <2>1. op = "running" /\ ghosts = {} /\ UNCHANGED <<work, ghosts>>
      BY <1>6, NoGhosts, PlaceNames DEF Unstage, At, Endings
    <2>2. work = "none"
      BY <1>6, TowardAt, PlaceNames DEF Unstage, Phased, RunPhase, Truth, PhaseWork
    <2>3. \/ op' = "running"
          \/ pc'["run"] = "return" /\ op' \in {"failed", "cancelled"}
      BY <1>6, <2>1, <2>2, PlaceNames DEF Unstage, Finish, settleRollback, Goto, TypeOK,
        RowTypes, ThreadTypes
    <2> QED BY <2>1, <2>2, <2>3, EndingsRunning DEF Endings, Done
  <1>7. CASE removeStaging
    <2>1. op = "running" /\ ghosts = {} /\ UNCHANGED <<work, ghosts>>
      BY <1>7, NoGhosts, PlaceNames DEF removeStaging, At, Endings
    <2>2. work = "none"
      BY <1>7, TowardAt, PlaceNames DEF removeStaging, Phased, RunPhase, Truth, PhaseWork
    <2>3. \/ op' = "running"
          \/ pc'["run"] = "return" /\ op' = "failed"
      BY <1>7, <2>1, <2>2, PlaceNames DEF removeStaging, Finish, settleRollback, Goto,
        TypeOK, RowTypes, ThreadTypes
    <2> QED BY <2>1, <2>2, <2>3, EndingsRunning DEF Endings, Done
  <1>8. CASE fenceWorkloads
    <2>1. op = "running" /\ ghosts = {} /\ UNCHANGED <<work, ghosts>>
      BY <1>8, NoGhosts, PlaceNames DEF fenceWorkloads, At, Endings
    <2>2. work = "none"
      BY <1>8, TowardAt, PlaceNames DEF fenceWorkloads, Phased, RunPhase, Truth, PhaseWork
    <2>3. \/ op' = "running"
          \/ pc'["run"] = "return" /\ op' = "failed"
      BY <1>8, <2>1, <2>2, PlaceNames DEF fenceWorkloads, Finish, settleRollback, Goto,
        TypeOK, RowTypes, ThreadTypes
    <2> QED BY <2>1, <2>2, <2>3, EndingsRunning DEF Endings, Done
  <1>9. CASE waitForStartsInFlight
    BY <1>9, EndingsRunning DEF waitForStartsInFlight, At, Endings
  <1>10. CASE recordMembers
    <2>1. op = "running" /\ ghosts = {} /\ UNCHANGED <<work, ghosts>>
      BY <1>10, NoGhosts, PlaceNames DEF recordMembers, At, Endings
    <2>2. work = "none"
      BY <1>10, TowardAt, PlaceNames DEF recordMembers, Phased, RunPhase, Truth, PhaseWork
    <2>3. \/ op' = "running"
          \/ pc'["run"] = "return" /\ op' = "failed"
      BY <1>10, <2>1, <2>2, PlaceNames DEF recordMembers, Finish, settleRollback, Goto,
        TypeOK, RowTypes, ThreadTypes
    <2> QED BY <2>1, <2>2, <2>3, EndingsRunning DEF Endings, Done
  <1>11. ASSUME NEW c \in Containers, Pin(c) PROVE Endings'
    BY <1>11, EndingsRunning DEF Pin, At, Endings
  <1>12. ASSUME NEW c \in Containers, Stop(c) PROVE Endings'
    BY <1>12, EndingsRunning DEF Stop, At, Endings
  <1>13. CASE FenceEnd
    BY <1>13, EndingsRunning DEF FenceEnd, At, Endings
  <1>14. CASE RecheckBeforePoint
    BY <1>14, EndingsRunning DEF RecheckBeforePoint, At, Endings
  <1>15. CASE BeginPoint
    BY <1>15, EndingsRunning DEF BeginPoint, At, Endings
  <1>16. CASE takePreRestorePoint
    BY <1>16, EndingsRunning DEF takePreRestorePoint, At, Endings
  <1>17. CASE materializePoint
    BY <1>17, EndingsRunning DEF materializePoint, At, Endings
  <1>18. CASE Materialized
    BY <1>18, EndingsRunning DEF Materialized, At, Endings
  <1>19. CASE Prepared
    BY <1>19, EndingsRunning DEF Prepared, At, Endings
  <1>20. CASE RecheckBeforeSwap
    BY <1>20, EndingsRunning DEF RecheckBeforeSwap, At, Endings
  <1>21. CASE Commit
    BY <1>21, EndingsRunning DEF Commit, At, Endings
  <1>22. CASE swapAndCleanup
    <2>1. op = "running" /\ ghosts = {} /\ UNCHANGED <<work, ghosts>>
      BY <1>22, NoGhosts, PlaceNames DEF swapAndCleanup, At, Endings
    <2>2. \/ op' = "running"
          \/ pc'["run"] = "return" /\ op' = "completion_unknown"
      BY <1>22, <2>1, PlaceNames DEF swapAndCleanup, Finish, settleRollback, Goto,
        TypeOK, RowTypes, ThreadTypes, Call
    <2> QED BY <2>1, <2>2, EndingsRunning DEF Endings, Done
  <1>23. CASE releaseAfterCommit
    <2>1. op = "running" /\ ghosts = {} /\ UNCHANGED <<work, ghosts>>
      BY <1>23, NoGhosts, PlaceNames DEF releaseAfterCommit, At, Endings
    <2>2. work \in Done
      BY <1>23, TowardAt, PlaceNames DEF releaseAfterCommit, Truth, PlaceWork, At
    <2>3. \/ op' = "running"
          \/ pc'["run"] = "return" /\ op' = "partial"
      BY <1>23, <2>1, <2>2, PlaceNames DEF releaseAfterCommit, Finish, settleRollback,
        Goto, TypeOK, RowTypes, ThreadTypes
    <2> QED BY <2>1, <2>2, <2>3, EndingsRunning DEF Endings, Done
  <1>24. CASE CommitSettle
    <2>1. ghosts = {} /\ UNCHANGED <<work, ghosts, fenceState>> /\ pc'["run"] = "return"
      BY <1>24, NoGhosts, PlaceNames DEF CommitSettle, At, Finish, Goto, TypeOK,
        ThreadTypes
    <2>2. work \in {"gone", "torn"} /\ phase = "swapped" /\ (~failed["run"] => ~FenceLive)
      BY <1>24, TowardAt, PlaceNames DEF CommitSettle, At, Truth, PlaceWork, Phased,
        RunPhase, FenceReports, ReturnsOf, RunSettles
    <2>3. /\ op' = IF failed["run"] THEN "partial" ELSE "succeeded"
          /\ phase' = "committed"
      BY <1>24, <2>2, Transitions, RowNames DEF CommitSettle, Finish, advance
    <2> QED BY <2>1, <2>2, <2>3 DEF Endings, FenceLive, Done
  <1>25. CASE RollbackBegin
    BY <1>25, EndingsRunning DEF RollbackBegin, At, Endings
  <1>26. CASE RollbackDone
    <2>1. op = "running" /\ ghosts = {} /\ UNCHANGED <<work, ghosts>>
      BY <1>26, NoGhosts, PlaceNames DEF RollbackDone, At, Endings
    <2>2. \/ op' = "running"
          \/ pc'["run"] = "return" /\ op' = "completion_unknown"
      BY <1>26, <2>1, PlaceNames DEF RollbackDone, Finish, settleRollback, Goto, TypeOK,
        RowTypes, ThreadTypes
    <2> QED BY <2>1, <2>2, EndingsRunning DEF Endings, Done
  <1>27. CASE RollbackStaging
    BY <1>27, EndingsRunning DEF RollbackStaging, At, Endings
  <1>28. CASE rollbackIntent
    <2>1. op = "running" /\ ghosts = {} /\ UNCHANGED <<work, ghosts>>
      BY <1>28, NoGhosts, PlaceNames DEF rollbackIntent, At, Endings
    <2>2. work \in {"none", "torn"}
      BY <1>28, TowardAt, PlaceNames DEF rollbackIntent, Truth, PlaceWork, At
    <2>3. \/ op' = "running"
          \/ pc'["run"] = "return" /\ op' \in {"none", "failed", "cancelled", "completion_unknown"}
      BY <1>28, <2>1, <2>2, PlaceNames DEF rollbackIntent, Finish, settleRollback, Goto,
        TypeOK, RowTypes, ThreadTypes
    <2> QED BY <2>1, <2>2, <2>3, EndingsRunning DEF Endings, Done
  <1>29. CASE releaseStacks
    BY <1>29, PlaceNames DEF releaseStacks, Goto, Endings, FenceLive, TypeOK, ThreadTypes
  <1>30. CASE Boot
    BY <1>30, PlaceNames DEF Boot, Goto, Endings, FenceLive, TakeTurns, Turns, TypeOK,
      FlagTypes, ThreadTypes
  <1>31. CASE removeForeignEpochHelpers
    BY <1>31, PlaceNames DEF removeForeignEpochHelpers, Goto, Endings, FenceLive,
      TypeOK, ThreadTypes, OneAtATime
  <1>32. CASE reconcileOverwriteIntentsAtStartup
    <2>1. pc'["run"] = pc["run"]
      BY <1>32, PlaceNames DEF reconcileOverwriteIntentsAtStartup, releaseFence, Goto,
        TypeOK, ThreadTypes
    <2> QED BY <1>32, <2>1, EndingsFrame DEF reconcileOverwriteIntentsAtStartup
  <1>33. ASSUME NEW t \in Reconcilers, reconcileOverwriteIntent(t) PROVE Endings'
    <2>1. UNCHANGED <<op, work, ghosts, fenceState>>
      BY <1>33 DEF reconcileOverwriteIntent
    <2>2. pc'["run"] = pc["run"]
      BY SMTT(30), <1>33, PlaceNames, ThreadAssumption DEF reconcileOverwriteIntent,
        Call, Goto, Reconcilers, Threads, TypeOK, ThreadTypes
    <2>3. phase = "committed" => phase' = "committed"
      BY <1>33, CommittedStays DEF reconcileOverwriteIntent, Call
    <2> QED BY <2>1, <2>2, <2>3, EndingsFrame
  <1>34. ASSUME NEW t \in Reconcilers, ReadUnderWorkloads(t) PROVE Endings'
    <2>1. UNCHANGED <<op, work, ghosts, fenceState>>
      BY <1>34 DEF ReadUnderWorkloads
    <2>2. pc'["run"] = pc["run"]
      BY SMTT(30), <1>34, PlaceNames, ThreadAssumption DEF ReadUnderWorkloads,
        Reconciled, markUnknown, update, Goto, Reconcilers, Threads, TypeOK, ThreadTypes
    <2>3. phase = "committed" => phase' = "committed"
      BY <1>34, CommittedStays DEF ReadUnderWorkloads, Reconciled, markUnknown, update
    <2> QED BY <2>1, <2>2, <2>3, EndingsFrame
  <1>35. ASSUME NEW t \in Reconcilers, Undone(t) PROVE Endings'
    <2>1. UNCHANGED <<op, work, ghosts, fenceState>>
      BY <1>35 DEF Undone
    <2>2. pc'["run"] = pc["run"]
      BY SMTT(30), <1>35, PlaceNames, ThreadAssumption DEF Undone, Reconciled,
        markUnknown, update, releaseFence, Goto, Reconcilers, Threads, TypeOK,
        ThreadTypes
    <2>3. phase = "committed" => phase' = "committed"
      BY <1>35, CommittedStays DEF Undone, Reconciled, markUnknown, update
    <2> QED BY <2>1, <2>2, <2>3, EndingsFrame
  <1>36. ASSUME NEW t \in Reconcilers, ReconcileStaging(t) PROVE Endings'
    <2>1. UNCHANGED <<op, work, ghosts, fenceState>>
      BY <1>36 DEF ReconcileStaging
    <2>2. pc'["run"] = pc["run"]
      BY <1>36, PlaceNames, ThreadAssumption DEF ReconcileStaging, releaseFence, Goto,
        Reconcilers, Threads, TypeOK, ThreadTypes
    <2>3. phase = "committed" => phase' = "committed"
      BY <1>36, CommittedStays DEF ReconcileStaging
    <2> QED BY <2>1, <2>2, <2>3, EndingsFrame
  <1>37. ASSUME NEW t \in Reconcilers, JournalDecides(t) PROVE Endings'
    <2>1. UNCHANGED <<op, work, ghosts, fenceState>>
      BY <1>37 DEF JournalDecides
    <2>2. pc'["run"] = pc["run"]
      BY SMTT(30), <1>37, PlaceNames, ThreadAssumption DEF JournalDecides, releaseFence,
        Reconciled, markUnknown, update, Call, Goto, Reconcilers, Threads, TypeOK,
        ThreadTypes
    <2>3. phase = "committed" => phase' = "committed"
      BY <1>37, CommittedStays DEF JournalDecides, Reconciled, markUnknown, update, Call
    <2> QED BY <2>1, <2>2, <2>3, EndingsFrame
  <1>38. ASSUME NEW t \in Reconcilers, CommitFinished(t) PROVE Endings'
    <2>1. UNCHANGED <<op, work, ghosts, fenceState>>
      BY <1>38 DEF CommitFinished
    <2>2. pc'["run"] = pc["run"]
      BY SMTT(30), <1>38, PlaceNames, ThreadAssumption DEF CommitFinished, Reconciled,
        markUnknown, update, Goto, Reconcilers, Threads, TypeOK, ThreadTypes
    <2>3. phase = "committed" => phase' = "committed"
      BY <1>38, CommittedStays DEF CommitFinished, Reconciled, markUnknown, update
    <2> QED BY <2>1, <2>2, <2>3, EndingsFrame
  <1>39. ASSUME NEW t \in Reconcilers, RollForward(t) PROVE Endings'
    <2>1. UNCHANGED <<op, work, ghosts, fenceState>>
      BY <1>39 DEF RollForward
    <2>2. pc'["run"] = pc["run"]
      BY SMTT(30), <1>39, PlaceNames, ThreadAssumption DEF RollForward, Reconciled,
        Call, Goto, Reconcilers, Threads, TypeOK, ThreadTypes
    <2>3. phase = "committed" => phase' = "committed"
      BY <1>39, CommittedStays DEF RollForward, Reconciled, Call
    <2> QED BY <2>1, <2>2, <2>3, EndingsFrame
  <1>40. ASSUME NEW t \in Reconcilers, ForwardCleaned(t) PROVE Endings'
    <2>1. UNCHANGED <<op, work, ghosts, fenceState>>
      BY <1>40 DEF ForwardCleaned
    <2>2. pc'["run"] = pc["run"]
      BY SMTT(30), <1>40, PlaceNames, ThreadAssumption DEF ForwardCleaned, releaseFence,
        update, Reconciled, Goto, Reconcilers, Threads, TypeOK, ThreadTypes
    <2>3. phase = "committed" => phase' = "committed"
      BY <1>40, CommittedStays DEF ForwardCleaned, update, Reconciled
    <2> QED BY <2>1, <2>2, <2>3, EndingsFrame
  <1>41. ASSUME NEW t \in Reconcilers, SettleForward(t) PROVE Endings'
    <2>1. UNCHANGED <<op, work, ghosts, fenceState>>
      BY <1>41 DEF SettleForward
    <2>2. pc'["run"] = pc["run"]
      BY <1>41, PlaceNames, ThreadAssumption DEF SettleForward, update, markUnknown,
        Reconciled, Goto, Reconcilers, Threads, TypeOK, ThreadTypes
    <2>3. phase = "committed" => phase' = "committed"
      BY <1>41, CommittedStays DEF SettleForward, update, markUnknown, Reconciled
    <2> QED BY <2>1, <2>2, <2>3, EndingsFrame
  <1>42. ASSUME NEW t \in Reconcilers, clearFenceOutcome(t) PROVE Endings'
    <2>1. UNCHANGED <<op, work, ghosts, fenceState>>
      BY <1>42 DEF clearFenceOutcome
    <2>2. pc'["run"] = pc["run"]
      BY <1>42, PlaceNames, ThreadAssumption DEF clearFenceOutcome, update, Goto,
        Reconcilers, Threads, TypeOK, ThreadTypes
    <2>3. phase = "committed" => phase' = "committed"
      BY <1>42, CommittedStays DEF clearFenceOutcome, update
    <2> QED BY <2>1, <2>2, <2>3, EndingsFrame
  <1>43. ASSUME NEW t \in Reconcilers, settleInterruptedOverwriteOperations(t)
         PROVE Endings'
    <2>1. /\ UNCHANGED <<work, ghosts, fenceState, phase, outcomeClass>> /\ pc'["run"] = pc["run"]
          /\ op' = IF op = "completion_unknown" THEN overwriteEndingFor ELSE op
      BY <1>43, PlaceNames, ThreadAssumption DEF settleInterruptedOverwriteOperations,
        Goto, Reconcilers, TypeOK, ThreadTypes
    <2>2. CASE op # "completion_unknown"
      BY <2>1, <2>2, EndingsFrame
    <2>3. CASE op = "completion_unknown"
      <3>1. ghosts = {}
        BY <1>43, NoGhosts, PlaceNames DEF settleInterruptedOverwriteOperations, At
      <3>2. pc["run"] \in {"off", "admit", "return"}
        BY <2>3 DEF Endings
      <3>3. PhaseWork(phase, work) /\ (phase = "committed" /\ FenceLive
               => outcomeClass = "fence_unavailable")
        BY DEF Truth, FenceReports
      <3>4. \/ op' = "succeeded" /\ phase = "committed" /\ outcomeClass # "fence_unavailable"
            \/ op' = "partial" /\ phase \in {"committed", "swapped"}
            \/ op' = "failed" /\ phase = "rolled_back"
            \/ op' = "completion_unknown"
        BY <2>1, <2>3 DEF overwriteEndingFor
      <3> QED BY <2>1, <3>1, <3>2, <3>3, <3>4 DEF Endings, FenceLive, PhaseWork, Done
    <2> QED BY <2>2, <2>3
  <1>44. ASSUME NEW t \in Reconcilers, NEW to \in Settled, settleProven(t, to)
         PROVE Endings'
    <2>1. UNCHANGED <<op, work, ghosts, fenceState>>
      BY <1>44 DEF settleProven
    <2>2. pc'["run"] = pc["run"]
      BY <1>44, PlaceNames, ThreadAssumption DEF settleProven, update, Reconciled, Goto,
        Reconcilers, Threads, TypeOK, ThreadTypes
    <2>3. phase = "committed" => phase' = "committed"
      BY <1>44, CommittedStays DEF settleProven, update, Reconciled
    <2> QED BY <2>1, <2>2, <2>3, EndingsFrame
  <1>45. ASSUME NEW t \in Threads, ReleaseEnd(t) PROVE Endings'
    <2>1. /\ pc[t] = "release" /\ pc'[t] = then[t] /\ \A u \in Threads \ {t} :
                pc'[u] = pc[u]
          /\ UNCHANGED <<op, work, ghosts, phase>>
      BY <1>45 DEF ReleaseEnd, At, Goto, TypeOK, ThreadTypes
    <2>2. FenceLive
      BY <2>1 DEF FenceReports
    <2>3. op # "succeeded"
      BY <2>2 DEF Endings
    <2>4. CASE t = "run"
      BY <2>1, <2>4, EndingsRunning DEF Endings
    <2>5. CASE t # "run"
      BY <2>1, <2>3, <2>5, PlaceNames DEF Endings
    <2> QED BY <2>4, <2>5
  <1>46. ASSUME NEW t \in Threads, NEW c \in Containers, ReleaseMember(t, c)
         PROVE Endings'
    BY <1>46, EndingsFrame DEF ReleaseMember
  <1>47. ASSUME NEW t \in Threads, NEW c \in Containers, ReleaseMemberFails(t, c)
         PROVE Endings'
    BY <1>47, EndingsFrame DEF ReleaseMemberFails
  <1>48. ASSUME NEW t \in Resolvers, Retry(t) PROVE Endings'
    <2>1. UNCHANGED <<op, work, ghosts, fenceState>>
      BY <1>48 DEF Retry
    <2>2. pc'["run"] = pc["run"]
      BY SMTT(30), <1>48, PlaceNames, ThreadAssumption DEF Retry, releaseFence, Goto,
        Reconcilers, Threads, TypeOK, ThreadTypes
    <2>3. phase = "committed" => phase' = "committed"
      BY <1>48, CommittedStays DEF Retry
    <2> QED BY <2>1, <2>2, <2>3, EndingsFrame
  <1>49. ASSUME NEW t \in Resolvers, ReleaseFenceRequest(t) PROVE Endings'
    <2>1. UNCHANGED <<op, work, ghosts, fenceState>>
      BY <1>49 DEF ReleaseFenceRequest
    <2>2. pc'["run"] = pc["run"]
      BY <1>49, PlaceNames, ThreadAssumption DEF ReleaseFenceRequest, releaseFence,
        Goto, Reconcilers, Threads, TypeOK, ThreadTypes
    <2>3. phase = "committed" => phase' = "committed"
      BY <1>49, CommittedStays DEF ReleaseFenceRequest
    <2> QED BY <2>1, <2>2, <2>3, EndingsFrame
  <1>50. ASSUME NEW t \in Resolvers, AcceptReleased(t) PROVE Endings'
    <2>1. UNCHANGED <<op, work, ghosts, fenceState>>
      BY <1>50 DEF AcceptReleased
    <2>2. pc'["run"] = pc["run"]
      BY SMTT(30), <1>50, PlaceNames, ThreadAssumption DEF AcceptReleased, Call, Goto,
        Reconcilers, Threads, TypeOK, ThreadTypes
    <2>3. phase = "committed" => phase' = "committed"
      BY <1>50, CommittedStays DEF AcceptReleased, Call
    <2> QED BY <2>1, <2>2, <2>3, EndingsFrame
  <1>51. ASSUME NEW t \in Resolvers, AcceptStatus(t) PROVE Endings'
    <2>1. UNCHANGED <<op, work, ghosts, fenceState>>
      BY <1>51 DEF AcceptStatus
    <2>2. pc'["run"] = pc["run"]
      BY SMTT(30), <1>51, PlaceNames, ThreadAssumption DEF AcceptStatus, Call, update,
        Goto, Reconcilers, Threads, TypeOK, ThreadTypes
    <2>3. phase = "committed" => phase' = "committed"
      BY <1>51, CommittedStays DEF AcceptStatus, Call, update
    <2> QED BY <2>1, <2>2, <2>3, EndingsFrame
  <1>52. ASSUME NEW t \in Resolvers, AcceptCleaned(t) PROVE Endings'
    <2>1. UNCHANGED <<op, work, ghosts, fenceState>>
      BY <1>52 DEF AcceptCleaned
    <2>2. pc'["run"] = pc["run"]
      BY <1>52, PlaceNames, ThreadAssumption DEF AcceptCleaned, update, Goto,
        Reconcilers, Threads, TypeOK, ThreadTypes
    <2>3. phase = "committed" => phase' = "committed"
      BY <1>52, CommittedStays DEF AcceptCleaned, update
    <2> QED BY <2>1, <2>2, <2>3, EndingsFrame
  <1>53. ASSUME NEW t \in Threads, runSwapStep(t) PROVE Endings'
    <2>1. /\ helper[t] \in Commands /\ pc[t] \in CallsOf(t) /\ helper[t] = CommandAt(pc[t])
          /\ UNCHANGED <<op, pc, phase, fenceState, ghosts>>
          /\ work' = work \/ work' \in Reach(helper[t], work)
      BY <1>53 DEF runSwapStep, TakeTurns, AtPlaces, TypeOK, ThreadTypes
    <2>2. helper[t] = "restore" => op = "running"
      <3>1. helper[t] = "restore" => pc[t] = "materialized"
        BY <2>1 DEF CommandAt
      <3>2. pc[t] = "materialized" => t = "run"
        BY <2>1 DEF CallsOf, ReconcileCalls, AcceptCalls
      <3> QED BY <3>1, <3>2 DEF Endings
    <2>3. /\ op \in {"failed", "cancelled"} => work' \in {"none", "torn"}
          /\ op = "partial" => work' \in Done
      BY <2>1, <2>2 DEF Endings, Reach, Done
    <2> QED BY <2>1, <2>3 DEF Endings, FenceLive
  <1>54. CASE Outsiders
    BY <1>54, OutsidersMove DEF Endings, FenceLive
  <1>55. CASE WorkloadWrites
    BY <1>55 DEF WorkloadWrites, Endings, FenceLive
  <1>56. CASE Crash
    <2>1. pc'["run"] = "off" /\ UNCHANGED <<op, work, phase, fenceState>>
      BY <1>56, PlaceNames DEF Crash
    <2>2. ASSUME "restore" \in ghosts', "restore" \notin ghosts PROVE op = "running"
      <3>1. PICK t \in Threads : helper[t] = "restore"
        BY <1>56, <2>2 DEF Crash
      <3>2. pc[t] = "materialized" /\ pc[t] \in CallsOf(t)
        BY <3>1 DEF TakeTurns, AtPlaces, CommandAt
      <3>3. t = "run"
        BY <3>2 DEF CallsOf, ReconcileCalls, AcceptCalls
      <3> QED BY <3>2, <3>3 DEF Endings
    <2> QED BY <2>1, <2>2 DEF Endings, FenceLive
  <1>57. ASSUME NEW g \in Commands, Ghost(g) PROVE Endings'
    <2>1. /\ g \in ghosts /\ work' \in Reach(g, work) /\ ghosts' \subseteq ghosts
          /\ UNCHANGED <<op, pc, phase, fenceState>>
      BY <1>57 DEF Ghost
    <2>2. g = "restore" => op \in {"running", "completion_unknown"}
      BY <2>1 DEF Endings
    <2>3. /\ op \in {"failed", "cancelled"} => work' \in {"none", "torn"}
          /\ op = "partial" => work' \in Done
      BY <2>1, <2>2 DEF Endings, Reach, Done
    <2> QED BY <2>1, <2>3 DEF Endings, FenceLive
  <1>58. CASE UNCHANGED vars
    BY <1>58 DEF vars, Endings, FenceLive
  <1> QED
    BY ZenonT(60), <1>1, <1>2, <1>3, <1>4, <1>5, <1>6, <1>7, <1>8, <1>9, <1>10, <1>11,
      <1>12, <1>13, <1>14, <1>15, <1>16, <1>17, <1>18, <1>19, <1>20, <1>21, <1>22,
      <1>23, <1>24, <1>25, <1>26, <1>27, <1>28, <1>29, <1>30, <1>31, <1>32, <1>33,
      <1>34, <1>35, <1>36, <1>37, <1>38, <1>39, <1>40, <1>41, <1>42, <1>43, <1>44,
      <1>45, <1>46, <1>47, <1>48, <1>49, <1>50, <1>51, <1>52, <1>53, <1>54, <1>55,
      <1>56, <1>57, <1>58 DEF Next, Pipeline, BootSequence, Environment, Reconcile,
      Accept, Releases, Reconcilers, Threads, Outsiders

(* Nothing starts on a quiet volume.                                       *)
LEMMA QuietFrame ==
    ASSUME Quiet, UNCHANGED <<running, startsInFlight, stackOp, fenceState, policy>>
    PROVE  Quiet'
  BY DEF Quiet, FenceLive

(* A thread that releases the fence is done with the volume, or an         *)
(* operator asked for the release.                                         *)
LEMMA ReleaseIsSafe ==
    ASSUME TypeOK, TakeTurns, Phased, Alone, Truth, Fenced, NEW t \in Threads, pc[t] = "release"
    PROVE  /\ work \in {"none", "gone", "torn"} \/ accepted
           /\ ghosts = {}
           /\ pc["run"] = IF t = "run" THEN "release" ELSE "off"
  <1>1. ghosts = {}
    BY NoGhosts
  <1>2. pc["run"] = IF t = "run" THEN "release" ELSE "off"
    BY PlaceNames DEF TakeTurns, Turns, Threads
  <1>3. Toward(t) = then[t] /\ PlaceWork(then[t], work) /\ PhaseWork(phase, work)
    BY DEF Toward, Truth
  <1>4. then[t] = "clear" => work \in {"none", "gone", "torn"}
    <2>1. then[t] = "clear" => phase \in Settled
      BY <1>3, ReleaseReturns DEF Phased, ReconcilePhase, Threads, Reconcilers
    <2> QED BY <1>3, <2>1 DEF PhaseWork, Settled
  <1>5. then[t] = "accept_released" => accepted
    BY <1>3 DEF Fenced
  <1>6. then[t] \notin {"clear", "accept_released"} => work \in {"none", "gone", "torn"}
    BY <1>3, ReleaseReturns DEF PlaceWork
  <1> QED BY <1>1, <1>2, <1>4, <1>5, <1>6

(* What the quiet of the volume is about, and the places of the pipeline   *)
(* that promise nothing of it.                                             *)
world == <<running, startsInFlight, stackOp, fenceState, policy, work, ghosts, accepted>>
LoosePlaces == {"create", "copy", "unstage", "remove", "recheck", "drain", "prepared",
                "recheck_swap", "commit", "committed", "confirm", "confirm_reported",
                "confirm_last", "recommitted", "cleaned", "commit_settle", "rollback",
                "rollback_done", "rollback_staging", "rollback_settle", "return"}
AcceptPlaces == {"accept_released", "accept_status", "accept_cleaned"}

(* The pipeline moves without touching any of it.                          *)
LEMMA FencedRun ==
    ASSUME TypeOK, Fenced, NEW from, NEW to, At("run", from), from \notin {"off", "admit"},
           Heads("run", to), UNCHANGED world,
           to \in LoosePlaces \/ (to \in QuietPlaces /\ (Quiet \/ from \in QuietPlaces))
    PROVE  Fenced'
  <1>1. stackOp = "data_restore" /\ (to \in QuietPlaces => Quiet)
    BY DEF At, Fenced, LoosePlaces, QuietPlaces
  <1>2. Quiet => Quiet'
    BY DEF Quiet, FenceLive, world
  <1>3. to \notin {"release", "off", "admit", "observe", "fence"} \cup AcceptPlaces
    BY DEF LoosePlaces, QuietPlaces, AcceptPlaces
  <1>4. Toward("run")' = to /\ \A u \in Threads \ {"run"} : Toward(u)' = Toward(u)
    BY <1>3, TowardGoto, TowardRelease, PlaceNames DEF Heads
  <1>5. pc'["run"] \in {to, "release"}
    BY PlaceNames DEF Heads, Goto, releaseFence, TypeOK, ThreadTypes
  <1>6. "release" \notin QuietPlaces
    BY DEF QuietPlaces
  <1> QED BY <1>1, <1>2, <1>3, <1>4, <1>5, <1>6 DEF Fenced, world, AcceptPlaces

(* The pipeline moves over a volume that nothing has touched.              *)
LEMMA FencedEarly ==
    ASSUME TypeOK, Fenced, NEW from, NEW to, At("run", from), from \notin {"off", "admit"},
           Goto("run", to), UNCHANGED <<work, ghosts, stackOp, then, accepted>>,
           work = "none", ghosts = {},
           to \in LoosePlaces \/ (to = "observe" /\ startsInFlight' = {})
    PROVE  Fenced'
  <1>1. stackOp = "data_restore"
    BY DEF At, Fenced
  <1>2. to \notin {"release", "off", "admit", "fence"} \cup AcceptPlaces \cup QuietPlaces
    BY DEF LoosePlaces, QuietPlaces, AcceptPlaces
  <1>3. to = "observe" => startsInFlight' = {}
    BY DEF LoosePlaces
  <1>4. Toward("run")' = to /\ \A u \in Threads \ {"run"} : Toward(u)' = Toward(u)
    BY <1>2, TowardGoto, PlaceNames
  <1>5. pc'["run"] = to
    BY PlaceNames DEF Goto, TypeOK, ThreadTypes
  <1> QED BY <1>1, <1>2, <1>3, <1>4, <1>5 DEF Fenced, AcceptPlaces

(* The pipeline is idle after the step.                                    *)
LEMMA FencedIdle ==
    ASSUME Fenced, pc'["run"] \in {"off", "admit"}, Toward("run")' = pc'["run"],
           \A u \in Threads \ {"run"} : Toward(u)' = Toward(u),
           Quiet => Quiet', UNCHANGED <<work, ghosts, accepted>>
    PROVE  Fenced'
  BY DEF Fenced, QuietPlaces

(* A thread beside the pipeline moves.                                     *)
LEMMA FencedAside ==
    ASSUME Fenced, NEW t \in Threads, t # "run",
           \A u \in Threads \ {t} : Toward(u)' = Toward(u),
           Toward(t)' \in AcceptPlaces => accepted',
           pc'["run"] = pc["run"], visited'["run"] = visited["run"], Quiet => Quiet',
           UNCHANGED <<running, startsInFlight, stackOp, policy, work>>,
           accepted => accepted', "restore" \in ghosts' => "restore" \in ghosts
    PROVE  Fenced'
  BY DEF Fenced, AcceptPlaces

(* And so does one that goes to a place or to a release.                   *)
Moves(t, to) == (Goto(t, to) /\ UNCHANGED <<then, visited>>) \/ releaseFence(t, to)
LEMMA FencedOther ==
    ASSUME TypeOK, Fenced, NEW t \in Reconcilers, NEW to, to # "release", Moves(t, to),
           UNCHANGED world, to \in AcceptPlaces => accepted
    PROVE  Fenced'
  <1>1. t \in Threads /\ t # "run" /\ "run" \in Threads
    BY PlaceNames, ThreadAssumption DEF Reconcilers
  <1>2. Toward(t)' = to /\ \A u \in Threads \ {t} : Toward(u)' = Toward(u)
    BY <1>1, TowardGoto, TowardRelease DEF Moves
  <1>3. pc'["run"] = pc["run"] /\ visited'["run"] = visited["run"]
    BY <1>1 DEF Moves, Goto, releaseFence, TypeOK, ThreadTypes
  <1>4. Quiet => Quiet'
    BY DEF Quiet, FenceLive, world
  <1> QED BY <1>1, <1>2, <1>3, <1>4, FencedAside DEF world

(* From the end of the fence until the work directory is settled nothing   *)
(* runs on the volume and nothing can start, unless an operator gave the   *)
(* fence up.                                                               *)
LEMMA FencedStep ==
    ASSUME OneAtATime, ~OutsideStarts, TypeOK, TakeTurns, Unrecorded, Pins, Phased,
           Alone, Truth, Fenced, [Next]_vars
    PROVE  Fenced'
  <1>1. CASE prepareOverwriteAdmission
    <2>1. Goto("run", "admit") /\ UNCHANGED world /\ UNCHANGED then
      BY <1>1 DEF prepareOverwriteAdmission, world
    <2>2. pc'["run"] = "admit" /\ Toward("run")' = "admit"
      BY <2>1, TowardGoto, PlaceNames DEF Goto, TypeOK, ThreadTypes
    <2>3. \A u \in Threads \ {"run"} : Toward(u)' = Toward(u)
      BY <2>1, TowardGoto, PlaceNames
    <2>4. Quiet => Quiet'
      BY <2>1 DEF Quiet, FenceLive, world
    <2> QED BY <2>1, <2>2, <2>3, <2>4, FencedIdle DEF world
  <1>2. CASE admitOverwrite
    <2>1. At("run", "admit") /\ UNCHANGED <<work, ghosts, then, accepted>>
      BY <1>2 DEF admitOverwrite
    <2>2. work = "none" /\ ghosts = {}
      BY <2>1 DEF At, Unrecorded
    <2>3. PICK to \in {"stage", "off"} :
                  Goto("run", to) /\ (to = "stage" => stackOp' = "data_restore")
      BY <1>2 DEF admitOverwrite
    <2>4. pc'["run"] = to /\ Toward("run")' = to /\ \A u \in Threads \ {"run"} :
             Toward(u)' = Toward(u)
      BY <2>1, <2>3, TowardGoto, PlaceNames DEF Goto, TypeOK, ThreadTypes
    <2> QED BY <2>1, <2>2, <2>3, <2>4 DEF Fenced, QuietPlaces
  <1>3. CASE stagePoint
    <2>1. At("run", "stage")
      BY <1>3 DEF stagePoint
    <2>2. UNCHANGED world
      BY <1>3 DEF stagePoint, world
    <2>3. PICK to \in {"create"} : Heads("run", to)
      BY <1>3 DEF stagePoint, Heads
    <2>4. to \in LoosePlaces
      BY <2>3 DEF LoosePlaces
    <2> QED BY <2>1, <2>2, <2>3, <2>4, FencedRun
  <1>4. CASE createLabelledVolume
    <2>1. At("run", "create")
      BY <1>4 DEF createLabelledVolume
    <2>2. UNCHANGED world
      BY <1>4 DEF createLabelledVolume, world
    <2>3. PICK to \in {"copy", "unstage", "rollback"} : Heads("run", to)
      BY <1>4 DEF createLabelledVolume, settleRollback, Heads
    <2>4. to \in LoosePlaces
      BY <2>3 DEF LoosePlaces
    <2> QED BY <2>1, <2>2, <2>3, <2>4, FencedRun
  <1>5. CASE RestoreStaging
    <2>1. At("run", "copy")
      BY <1>5 DEF RestoreStaging
    <2>2. UNCHANGED world
      BY <1>5 DEF RestoreStaging, world
    <2>3. PICK to \in {"remove", "unstage"} : Heads("run", to)
      BY <1>5 DEF RestoreStaging, Heads
    <2>4. to \in LoosePlaces
      BY <2>3 DEF LoosePlaces
    <2> QED BY <2>1, <2>2, <2>3, <2>4, FencedRun
  <1>6. CASE Unstage
    <2>1. At("run", "unstage")
      BY <1>6 DEF Unstage
    <2>2. UNCHANGED world
      BY <1>6 DEF Unstage, world
    <2>3. PICK to \in {"return"} : Heads("run", to)
      BY <1>6 DEF Unstage, Finish, Heads
    <2>4. to \in LoosePlaces
      BY <2>3 DEF LoosePlaces
    <2> QED BY <2>1, <2>2, <2>3, <2>4, FencedRun
  <1>7. CASE removeStaging
    <2>1. At("run", "remove")
      BY <1>7 DEF removeStaging
    <2>2. UNCHANGED world
      BY <1>7 DEF removeStaging, world
    <2>3. PICK to \in {"recheck", "return"} : Heads("run", to)
      BY <1>7 DEF removeStaging, Finish, Heads
    <2>4. to \in LoosePlaces
      BY <2>3 DEF LoosePlaces
    <2> QED BY <2>1, <2>2, <2>3, <2>4, FencedRun
  <1>8. CASE fenceWorkloads
    <2>1. At("run", "recheck") /\ UNCHANGED <<work, ghosts, stackOp, then, accepted>>
      BY <1>8 DEF fenceWorkloads
    <2>2. work = "none" /\ ghosts = {}
      BY <2>1, NoGhosts, TowardAt, PlaceNames DEF At, Phased, RunPhase, Truth, PhaseWork
    <2>3. PICK to \in {"drain", "rollback", "return"} : Goto("run", to)
      BY <1>8 DEF fenceWorkloads, settleRollback, Finish
    <2>4. to \in LoosePlaces \/ to = "observe"
      BY <2>3 DEF LoosePlaces
    <2> QED BY <2>1, <2>2, <2>3, <2>4, FencedEarly
  <1>9. CASE waitForStartsInFlight
    <2>1. At("run", "drain")
             /\ UNCHANGED <<work, ghosts, stackOp, then, accepted, startsInFlight>>
      BY <1>9 DEF waitForStartsInFlight
    <2>2. work = "none" /\ ghosts = {}
      BY <2>1, NoGhosts, TowardAt, PlaceNames DEF At, Phased, RunPhase, Truth, PhaseWork
    <2>3. PICK to \in {"observe", "rollback"} :
                  Goto("run", to) /\ (to = "observe" => startsInFlight' = {})
      BY <1>9 DEF waitForStartsInFlight, settleRollback
    <2>4. to \in LoosePlaces \/ to = "observe"
      BY <2>3 DEF LoosePlaces
    <2> QED BY <2>1, <2>2, <2>3, <2>4, FencedEarly
  <1>10. CASE recordMembers
    <2>1. At("run", "observe")
             /\ UNCHANGED <<work, ghosts, stackOp, then, accepted, startsInFlight>>
      BY <1>10 DEF recordMembers
    <2>2. work = "none" /\ ghosts = {} /\ startsInFlight = {} /\ stackOp = "data_restore"
      BY <2>1, NoGhosts, TowardAt, PlaceNames DEF At, Phased, RunPhase, Truth,
        PhaseWork, Fenced
    <2>3. \/ Goto("run", "fence") /\ visited' = [visited EXCEPT !["run"] = {}]
          \/ Goto("run", "rollback") \/ Goto("run", "return")
      BY <1>10 DEF recordMembers, settleRollback, Finish
    <2>4. CASE Goto("run", "fence") /\ visited' = [visited EXCEPT !["run"] = {}]
      <3>1. visited'["run"] = {} /\ pc'["run"] = "fence"
        BY <2>4, PlaceNames DEF Goto, TypeOK, ThreadTypes
      <3>2. Toward("run")' = "fence" /\ \A u \in Threads \ {"run"} :
               Toward(u)' = Toward(u)
        BY <2>1, <2>4, TowardGoto, PlaceNames
      <3> QED BY <2>1, <2>2, <3>1, <3>2 DEF Fenced, QuietPlaces
    <2>5. CASE Goto("run", "rollback") \/ Goto("run", "return")
      BY <2>1, <2>2, <2>5, FencedEarly DEF LoosePlaces
    <2> QED BY <2>3, <2>4, <2>5
  <1>11. ASSUME NEW c \in Containers, Pin(c) PROVE Fenced'
    <2>1. At("run", "fence") /\ UNCHANGED <<work, ghosts, stackOp, pc, then, visited,
                                            running, accepted, startsInFlight>>
      BY <1>11 DEF Pin
    <2>2. work = "none" /\ ghosts = {}
      BY <2>1, NoGhosts, TowardAt, PlaceNames DEF At, Phased, RunPhase, Truth, PhaseWork
    <2>3. \A d \in Containers : policy[d] = "no" => policy'[d] = "no"
      BY <1>11 DEF Pin, TypeOK, RowTypes
    <2>4. visited["run"] \subseteq Containers
      BY PlaceNames DEF TypeOK, ThreadTypes
    <2> QED BY <2>1, <2>2, <2>3, <2>4 DEF Fenced, Toward, QuietPlaces, At
  <1>12. ASSUME NEW c \in Containers, Stop(c) PROVE Fenced'
    <2>1. /\ At("run", "fence") /\ policy[c] = "no" /\ running' = running \ {c}
          /\ UNCHANGED <<work, ghosts, stackOp, pc, then, policy, accepted, startsInFlight>>
      BY <1>12 DEF Stop
    <2>2. work = "none" /\ ghosts = {}
      BY <2>1, NoGhosts, TowardAt, PlaceNames DEF At, Phased, RunPhase, Truth, PhaseWork
    <2>3. visited'["run"] = visited["run"] \cup {c}
      BY <1>12, PlaceNames DEF Stop, TypeOK, ThreadTypes
    <2> QED BY <2>1, <2>2, <2>3 DEF Fenced, Toward, QuietPlaces, At
  <1>13. CASE FenceEnd
    <2>1. At("run", "fence") /\ UNCHANGED world /\ UNCHANGED then
      BY <1>13 DEF FenceEnd, world
    <2>2. visited["run"] = Containers => Quiet
      <3>1. fenceState = "held" /\ startsInFlight = {} /\ stackOp = "data_restore"
        BY <2>1 DEF At, Pins, Fenced
      <3>2. \A c \in visited["run"] : policy[c] = "no" /\ c \notin running
        BY <2>1 DEF At, Fenced
      <3>3. running \subseteq Containers
        BY DEF TypeOK, RowTypes
      <3> QED BY <3>1, <3>2, <3>3 DEF Quiet, FenceLive
    <2>3. PICK to \in {"protect", "rollback"} :
                  Goto("run", to) /\ (to = "protect" => Quiet)
      BY <1>13, <2>2 DEF FenceEnd, settleRollback
    <2>4. Heads("run", to) /\ (to \in LoosePlaces \/ (to \in QuietPlaces /\ Quiet))
      BY <2>1, <2>3 DEF LoosePlaces, QuietPlaces, Heads
    <2> QED BY <2>1, <2>4, FencedRun
  <1>14. CASE RecheckBeforePoint
    <2>1. At("run", "protect")
      BY <1>14 DEF RecheckBeforePoint
    <2>2. UNCHANGED world
      BY <1>14 DEF RecheckBeforePoint, world
    <2>3. PICK to \in {"begin", "rollback"} : Heads("run", to)
      BY <1>14 DEF RecheckBeforePoint, settleRollback, Heads
    <2>4. to \in LoosePlaces \/ (to \in QuietPlaces /\ "protect" \in QuietPlaces)
      BY <2>3 DEF LoosePlaces, QuietPlaces
    <2> QED BY <2>1, <2>2, <2>3, <2>4, FencedRun
  <1>15. CASE BeginPoint
    <2>1. At("run", "begin")
      BY <1>15 DEF BeginPoint
    <2>2. UNCHANGED world
      BY <1>15 DEF BeginPoint, world
    <2>3. PICK to \in {"capture", "rollback"} : Heads("run", to)
      BY <1>15 DEF BeginPoint, settleRollback, Heads
    <2>4. to \in LoosePlaces \/ (to \in QuietPlaces /\ "begin" \in QuietPlaces)
      BY <2>3 DEF LoosePlaces, QuietPlaces
    <2> QED BY <2>1, <2>2, <2>3, <2>4, FencedRun
  <1>16. CASE takePreRestorePoint
    <2>1. At("run", "capture")
      BY <1>16 DEF takePreRestorePoint
    <2>2. UNCHANGED world
      BY <1>16 DEF takePreRestorePoint, world
    <2>3. PICK to \in {"materialize", "rollback"} : Heads("run", to)
      BY <1>16 DEF takePreRestorePoint, settleRollback, Heads
    <2>4. to \in LoosePlaces \/ (to \in QuietPlaces /\ "capture" \in QuietPlaces)
      BY <2>3 DEF LoosePlaces, QuietPlaces
    <2> QED BY <2>1, <2>2, <2>3, <2>4, FencedRun
  <1>17. CASE materializePoint
    <2>1. At("run", "materialize")
      BY <1>17 DEF materializePoint
    <2>2. UNCHANGED world
      BY <1>17 DEF materializePoint, world
    <2>3. PICK to \in {"materialized"} : Heads("run", to)
      BY <1>17 DEF materializePoint, Call, Heads
    <2>4. to \in LoosePlaces \/ (to \in QuietPlaces /\ "materialize" \in QuietPlaces)
      BY <2>3 DEF LoosePlaces, QuietPlaces
    <2> QED BY <2>1, <2>2, <2>3, <2>4, FencedRun
  <1>18. CASE Materialized
    <2>1. At("run", "materialized")
      BY <1>18 DEF Materialized
    <2>2. UNCHANGED world
      BY <1>18 DEF Materialized, world
    <2>3. PICK to \in {"prepared", "rollback"} : Heads("run", to)
      BY <1>18 DEF Materialized, settleRollback, Call, Heads
    <2>4. to \in LoosePlaces
      BY <2>3 DEF LoosePlaces
    <2> QED BY <2>1, <2>2, <2>3, <2>4, FencedRun
  <1>19. CASE Prepared
    <2>1. At("run", "prepared")
      BY <1>19 DEF Prepared
    <2>2. UNCHANGED world
      BY <1>19 DEF Prepared, world
    <2>3. PICK to \in {"recheck_swap", "rollback"} : Heads("run", to)
      BY <1>19 DEF Prepared, settleRollback, Heads
    <2>4. to \in LoosePlaces
      BY <2>3 DEF LoosePlaces
    <2> QED BY <2>1, <2>2, <2>3, <2>4, FencedRun
  <1>20. CASE RecheckBeforeSwap
    <2>1. At("run", "recheck_swap")
      BY <1>20 DEF RecheckBeforeSwap
    <2>2. UNCHANGED world
      BY <1>20 DEF RecheckBeforeSwap, world
    <2>3. PICK to \in {"commit", "rollback"} : Heads("run", to)
      BY <1>20 DEF RecheckBeforeSwap, settleRollback, Heads
    <2>4. to \in LoosePlaces
      BY <2>3 DEF LoosePlaces
    <2> QED BY <2>1, <2>2, <2>3, <2>4, FencedRun
  <1>21. CASE Commit
    <2>1. PICK from \in {"commit", "committed", "recommitted"} : At("run", from)
      BY <1>21 DEF Commit
    <2>2. UNCHANGED world
      BY <1>21 DEF Commit, world
    <2>3. PICK to \in {"committed", "confirm_reported", "confirm", "confirm_last"} :
                  Heads("run", to)
      BY <1>21 DEF Commit, Call, Heads
    <2>4. to \in LoosePlaces
      BY <2>3 DEF LoosePlaces
    <2> QED BY <2>1, <2>2, <2>3, <2>4, FencedRun
  <1>22. CASE swapAndCleanup
    <2>1. PICK from \in {"confirm", "confirm_reported", "confirm_last"} : At("run", from)
      BY <1>22 DEF swapAndCleanup
    <2>2. UNCHANGED world
      BY <1>22 DEF swapAndCleanup, world
    <2>3. PICK to \in {"cleaned", "recommitted", "return", "rollback"} : Heads("run", to)
      BY <1>22 DEF swapAndCleanup, Call, Finish, settleRollback, Heads
    <2>4. to \in LoosePlaces
      BY <2>3 DEF LoosePlaces
    <2> QED BY <2>1, <2>2, <2>3, <2>4, FencedRun
  <1>23. CASE releaseAfterCommit
    <2>1. At("run", "cleaned")
      BY <1>23 DEF releaseAfterCommit
    <2>2. UNCHANGED world
      BY <1>23 DEF releaseAfterCommit, world
    <2>3. PICK to \in {"commit_settle", "return"} : Heads("run", to)
      BY <1>23 DEF releaseAfterCommit, Finish, Heads
    <2>4. to \in LoosePlaces
      BY <2>3 DEF LoosePlaces
    <2> QED BY <2>1, <2>2, <2>3, <2>4, FencedRun
  <1>24. CASE CommitSettle
    <2>1. At("run", "commit_settle")
      BY <1>24 DEF CommitSettle
    <2>2. UNCHANGED world
      BY <1>24 DEF CommitSettle, world
    <2>3. PICK to \in {"return"} : Heads("run", to)
      BY <1>24 DEF CommitSettle, Finish, Heads
    <2>4. to \in LoosePlaces
      BY <2>3 DEF LoosePlaces
    <2> QED BY <2>1, <2>2, <2>3, <2>4, FencedRun
  <1>25. CASE RollbackBegin
    <2>1. At("run", "rollback")
      BY <1>25 DEF RollbackBegin
    <2>2. UNCHANGED world
      BY <1>25 DEF RollbackBegin, world
    <2>3. PICK to \in {"rollback_done", "rollback_staging"} : Heads("run", to)
      BY <1>25 DEF RollbackBegin, Call, Heads
    <2>4. to \in LoosePlaces
      BY <2>3 DEF LoosePlaces
    <2> QED BY <2>1, <2>2, <2>3, <2>4, FencedRun
  <1>26. CASE RollbackDone
    <2>1. At("run", "rollback_done")
      BY <1>26 DEF RollbackDone
    <2>2. UNCHANGED world
      BY <1>26 DEF RollbackDone, world
    <2>3. PICK to \in {"rollback_staging", "return"} : Heads("run", to)
      BY <1>26 DEF RollbackDone, Finish, Heads
    <2>4. to \in LoosePlaces
      BY <2>3 DEF LoosePlaces
    <2> QED BY <2>1, <2>2, <2>3, <2>4, FencedRun
  <1>27. CASE RollbackStaging
    <2>1. At("run", "rollback_staging")
      BY <1>27 DEF RollbackStaging
    <2>2. UNCHANGED world
      BY <1>27 DEF RollbackStaging, world
    <2>3. PICK to \in {"rollback_settle"} : Heads("run", to)
      BY <1>27 DEF RollbackStaging, Heads
    <2>4. to \in LoosePlaces
      BY <2>3 DEF LoosePlaces
    <2> QED BY <2>1, <2>2, <2>3, <2>4, FencedRun
  <1>28. CASE rollbackIntent
    <2>1. At("run", "rollback_settle")
      BY <1>28 DEF rollbackIntent
    <2>2. UNCHANGED world
      BY <1>28 DEF rollbackIntent, world
    <2>3. PICK to \in {"return"} : Heads("run", to)
      BY <1>28 DEF rollbackIntent, Finish, Heads
    <2>4. to \in LoosePlaces
      BY <2>3 DEF LoosePlaces
    <2> QED BY <2>1, <2>2, <2>3, <2>4, FencedRun
  <1>29. CASE releaseStacks
    <2>1. /\ At("run", "return") /\ Goto("run", "off") /\ Forget("run") /\ stackOp' = "free"
          /\ UNCHANGED <<running, startsInFlight, fenceState, policy, work, ghosts, accepted>>
      BY <1>29 DEF releaseStacks
    <2>2. Quiet => Quiet'
      BY <2>1 DEF Quiet, FenceLive
    <2>3. pc'["run"] = "off" /\ Toward("run")' = "off"
      BY <2>1, TowardForget, PlaceNames DEF Goto, TypeOK, ThreadTypes
    <2>4. \A u \in Threads \ {"run"} : Toward(u)' = Toward(u)
      BY <2>1, TowardForget, PlaceNames
    <2> QED BY <2>1, <2>2, <2>3, <2>4, FencedIdle
  <1>30. CASE Boot
    <2>1. "boot" \in Reconcilers /\ UNCHANGED world /\ Moves("boot", "helpers")
      BY <1>30 DEF Boot, world, Reconcilers, Moves
    <2> QED BY <2>1, FencedOther DEF AcceptPlaces
  <1>31. CASE removeForeignEpochHelpers
    <2>1. /\ "boot" \in Reconcilers /\ UNCHANGED then
          /\ UNCHANGED <<running, startsInFlight, stackOp, fenceState, policy, work, accepted>>
      BY <1>31 DEF removeForeignEpochHelpers, Reconcilers
    <2>2. ghosts' \subseteq ghosts
      BY <1>31 DEF removeForeignEpochHelpers, OneAtATime
    <2>3. PICK to \in {"reconcile", "fences", "settle", "failed"} : Goto("boot", to)
      BY <1>31 DEF removeForeignEpochHelpers
    <2>4. Toward("boot")' = to /\ \A u \in Threads \ {"boot"} : Toward(u)' = Toward(u)
      BY <2>1, <2>3, TowardGoto, PlaceNames
    <2>5. pc'["run"] = pc["run"] /\ visited'["run"] = visited["run"]
      BY <1>31, <2>3, PlaceNames DEF removeForeignEpochHelpers, Goto, TypeOK, ThreadTypes
    <2>6. Quiet => Quiet'
      BY <2>1 DEF Quiet, FenceLive
    <2> QED BY <2>1, <2>2, <2>4, <2>5, <2>6, FencedAside, PlaceNames DEF AcceptPlaces
  <1>32. CASE reconcileOverwriteIntentsAtStartup
    <2>1. "boot" \in Reconcilers /\ UNCHANGED world
      BY <1>32 DEF reconcileOverwriteIntentsAtStartup, world, Reconcilers
    <2>2. PICK place \in {"clear", "settle"} : Moves("boot", place)
      BY <1>32 DEF reconcileOverwriteIntentsAtStartup, Moves
    <2> QED BY <2>1, <2>2, FencedOther DEF AcceptPlaces
  <1>33. ASSUME NEW t \in Reconcilers, reconcileOverwriteIntent(t) PROVE Fenced'
    <2>1. t \in Reconcilers /\ UNCHANGED world
      BY <1>33 DEF reconcileOverwriteIntent, world, Reconcilers
    <2>2. PICK place \in {"unstage", "read", "undone", "decide"} : Moves(t, place)
      BY <1>33 DEF reconcileOverwriteIntent, Call, Moves
    <2> QED BY <2>1, <2>2, FencedOther DEF AcceptPlaces
  <1>34. ASSUME NEW t \in Reconcilers, ReadUnderWorkloads(t) PROVE Fenced'
    <2>1. t \in Reconcilers /\ UNCHANGED world
      BY <1>34 DEF ReadUnderWorkloads, world, Reconcilers
    <2>2. PICK place \in {"fences", "answer", "unstage"} : Moves(t, place)
      BY <1>34 DEF ReadUnderWorkloads, Reconciled, Moves
    <2> QED BY <2>1, <2>2, FencedOther DEF AcceptPlaces
  <1>35. ASSUME NEW t \in Reconcilers, Undone(t) PROVE Fenced'
    <2>1. t \in Reconcilers /\ UNCHANGED world
      BY <1>35 DEF Undone, world, Reconcilers
    <2>2. PICK place \in {"fences", "answer", "unstage", "settle_rolled_back"} :
                  Moves(t, place)
      BY <1>35 DEF Undone, Reconciled, Moves
    <2> QED BY <2>1, <2>2, FencedOther DEF AcceptPlaces
  <1>36. ASSUME NEW t \in Reconcilers, ReconcileStaging(t) PROVE Fenced'
    <2>1. t \in Reconcilers /\ UNCHANGED world
      BY <1>36 DEF ReconcileStaging, world, Reconcilers
    <2>2. PICK place \in {"settle_rolled_back"} : Moves(t, place)
      BY <1>36 DEF ReconcileStaging, Moves
    <2> QED BY <2>1, <2>2, FencedOther DEF AcceptPlaces
  <1>37. ASSUME NEW t \in Reconcilers, JournalDecides(t) PROVE Fenced'
    <2>1. t \in Reconcilers /\ UNCHANGED world
      BY <1>37 DEF JournalDecides, world, Reconcilers
    <2>2. PICK place \in {"settle_committed", "fences", "answer", "finish", "forward", "undone"} :
             Moves(t, place)
      BY <1>37 DEF JournalDecides, Reconciled, Call, Moves
    <2> QED BY <2>1, <2>2, FencedOther DEF AcceptPlaces
  <1>38. ASSUME NEW t \in Reconcilers, CommitFinished(t) PROVE Fenced'
    <2>1. t \in Reconcilers /\ UNCHANGED world
      BY <1>38 DEF CommitFinished, world, Reconcilers
    <2>2. PICK place \in {"forward", "fences", "answer"} : Moves(t, place)
      BY <1>38 DEF CommitFinished, Reconciled, Moves
    <2> QED BY <2>1, <2>2, FencedOther DEF AcceptPlaces
  <1>39. ASSUME NEW t \in Reconcilers, RollForward(t) PROVE Fenced'
    <2>1. t \in Reconcilers /\ UNCHANGED world
      BY <1>39 DEF RollForward, world, Reconcilers
    <2>2. PICK place \in {"fences", "answer", "forwarded"} : Moves(t, place)
      BY <1>39 DEF RollForward, Reconciled, Call, Moves
    <2> QED BY <2>1, <2>2, FencedOther DEF AcceptPlaces
  <1>40. ASSUME NEW t \in Reconcilers, ForwardCleaned(t) PROVE Fenced'
    <2>1. t \in Reconcilers /\ UNCHANGED world
      BY <1>40 DEF ForwardCleaned, world, Reconcilers
    <2>2. PICK place \in {"settle_forward", "fences", "answer"} : Moves(t, place)
      BY <1>40 DEF ForwardCleaned, Reconciled, Moves
    <2> QED BY <2>1, <2>2, FencedOther DEF AcceptPlaces
  <1>41. ASSUME NEW t \in Reconcilers, SettleForward(t) PROVE Fenced'
    <2>1. t \in Reconcilers /\ UNCHANGED world
      BY <1>41 DEF SettleForward, world, Reconcilers
    <2>2. PICK place \in {"fences", "answer"} : Moves(t, place)
      BY <1>41 DEF SettleForward, Reconciled, Moves
    <2> QED BY <2>1, <2>2, FencedOther DEF AcceptPlaces
  <1>42. ASSUME NEW t \in Reconcilers, clearFenceOutcome(t) PROVE Fenced'
    <2>1. t \in Reconcilers /\ UNCHANGED world
      BY <1>42 DEF clearFenceOutcome, world, Reconcilers
    <2>2. PICK place \in {"settle", "answer"} : Moves(t, place)
      BY <1>42 DEF clearFenceOutcome, Moves
    <2> QED BY <2>1, <2>2, FencedOther DEF AcceptPlaces
  <1>43. ASSUME NEW t \in Reconcilers, settleInterruptedOverwriteOperations(t)
         PROVE Fenced'
    <2>1. /\ t \in Threads /\ t # "run" /\ UNCHANGED world /\ Forget(t)
          /\ (Goto(t, "done") \/ Goto(t, "off"))
      BY <1>43, PlaceNames, ThreadAssumption DEF settleInterruptedOverwriteOperations,
        world, Reconcilers
    <2>2. Toward(t)' \in {"done", "off"} /\ \A u \in Threads \ {t} :
             Toward(u)' = Toward(u)
      BY <2>1, TowardForget
    <2>3. pc'["run"] = pc["run"] /\ visited'["run"] = visited["run"]
      BY <2>1, PlaceNames DEF Goto, Forget, TypeOK, ThreadTypes
    <2>4. Quiet => Quiet'
      BY <2>1 DEF Quiet, FenceLive, world
    <2> QED BY <2>1, <2>2, <2>3, <2>4, FencedAside DEF AcceptPlaces, world
  <1>44. ASSUME NEW t \in Reconcilers, NEW to \in Settled, settleProven(t, to)
         PROVE Fenced'
    <2>1. t \in Reconcilers /\ UNCHANGED world
      BY <1>44 DEF settleProven, world, Reconcilers
    <2>2. PICK place \in {"fences", "answer"} : Moves(t, place)
      BY <1>44 DEF settleProven, Reconciled, Moves
    <2> QED BY <2>1, <2>2, FencedOther DEF AcceptPlaces
  <1>45. ASSUME NEW t \in Threads, ReleaseEnd(t) PROVE Fenced'
    <2>1. /\ work \in {"none", "gone", "torn"} \/ accepted
          /\ ghosts = {} /\ pc["run"] = IF t = "run" THEN "release" ELSE "off"
      BY <1>45, ReleaseIsSafe DEF ReleaseEnd, At
    <2>2. UNCHANGED <<work, ghosts, stackOp, accepted>> /\ \A u \in Threads :
             Toward(u)' = Toward(u)
      BY <1>45, TowardReleaseEnd DEF ReleaseEnd
    <2>3. pc'["run"] \in {"off", "commit_settle", "rollback_settle"}
             /\ (pc'["run"] = "off" <=> pc["run"] = "off")
      BY <1>45, <2>1, ReleaseReturns, PlaceNames DEF ReleaseEnd, At, Goto, TypeOK,
        ThreadTypes
    <2> QED BY <2>1, <2>2, <2>3 DEF Fenced, QuietPlaces
  <1>46. ASSUME NEW t \in Threads, NEW c \in Containers, ReleaseMember(t, c) PROVE Fenced'
    <2>1. /\ work \in {"none", "gone", "torn"} \/ accepted
          /\ ghosts = {} /\ pc["run"] = IF t = "run" THEN "release" ELSE "off"
      BY <1>46, ReleaseIsSafe DEF ReleaseMember, At
    <2>2. UNCHANGED <<work, ghosts, pc, then, stackOp, accepted>>
      BY <1>46 DEF ReleaseMember, Started
    <2> QED BY <2>1, <2>2 DEF Fenced, Toward, QuietPlaces
  <1>47. ASSUME NEW t \in Threads, NEW c \in Containers, ReleaseMemberFails(t, c)
         PROVE Fenced'
    <2>1. /\ work \in {"none", "gone", "torn"} \/ accepted
          /\ ghosts = {} /\ pc["run"] = IF t = "run" THEN "release" ELSE "off"
      BY <1>47, ReleaseIsSafe DEF ReleaseMemberFails, At
    <2>2. UNCHANGED <<work, ghosts, pc, then, stackOp, accepted>>
      BY <1>47 DEF ReleaseMemberFails, Started
    <2> QED BY <2>1, <2>2 DEF Fenced, Toward, QuietPlaces
  <1>48. ASSUME NEW t \in Resolvers, Retry(t) PROVE Fenced'
    <2>1. t \in Reconcilers /\ UNCHANGED world
      BY <1>48 DEF Retry, world, Reconcilers
    <2>2. PICK place \in {"clear", "answer", "reconcile"} : Moves(t, place)
      BY <1>48 DEF Retry, Moves
    <2> QED BY <2>1, <2>2, FencedOther DEF AcceptPlaces
  <1>49. ASSUME NEW t \in Resolvers, ReleaseFenceRequest(t) PROVE Fenced'
    <2>1. /\ t \in Threads /\ t # "run" /\ accepted' /\ releaseFence(t, "accept_released")
          /\ UNCHANGED <<running, startsInFlight, stackOp, fenceState, policy, work, ghosts>>
      BY <1>49, PlaceNames, ThreadAssumption DEF ReleaseFenceRequest
    <2>2. \A u \in Threads \ {t} : Toward(u)' = Toward(u)
      BY <2>1, TowardRelease
    <2>3. pc'["run"] = pc["run"] /\ visited'["run"] = visited["run"]
      BY <2>1, PlaceNames DEF releaseFence, Goto, TypeOK, ThreadTypes
    <2>4. Quiet => Quiet'
      BY <2>1 DEF Quiet, FenceLive
    <2> QED BY <2>1, <2>2, <2>3, <2>4, FencedAside
  <1>50. ASSUME NEW t \in Resolvers, AcceptReleased(t) PROVE Fenced'
    <2>1. /\ pc[t] = "accept_released" /\ t # "run" /\ t \in Threads
          /\ \A u \in Threads \ {t} : pc'[u] = pc[u]
          /\ UNCHANGED <<work, ghosts, then, visited, running, startsInFlight, stackOp,
                         fenceState, policy, accepted>>
      BY <1>50, PlaceNames, ThreadAssumption DEF AcceptReleased, Call, At, Goto, TypeOK,
        ThreadTypes
    <2>2. accepted /\ (Quiet' <=> Quiet)
      BY <2>1 DEF Fenced, Toward, Quiet, FenceLive
    <2> QED BY <2>1, <2>2, PlaceNames DEF Fenced
  <1>51. ASSUME NEW t \in Resolvers, AcceptStatus(t) PROVE Fenced'
    <2>1. t \in Reconcilers /\ t \in Threads /\ At(t, "accept_status") /\ UNCHANGED world
      BY <1>51, PlaceNames DEF AcceptStatus, world, Reconcilers
    <2>2. accepted
      BY <2>1, TowardAt DEF Fenced
    <2>3. PICK place \in {"answer", "accept_cleaned"} : Moves(t, place)
      BY <1>51 DEF AcceptStatus, Call, Moves
    <2> QED BY <2>1, <2>2, <2>3, FencedOther
  <1>52. ASSUME NEW t \in Resolvers, AcceptCleaned(t) PROVE Fenced'
    <2>1. t \in Reconcilers /\ UNCHANGED world
      BY <1>52 DEF AcceptCleaned, world, Reconcilers
    <2>2. PICK place \in {"answer"} : Moves(t, place)
      BY <1>52 DEF AcceptCleaned, Moves
    <2> QED BY <2>1, <2>2, FencedOther DEF AcceptPlaces
  <1>53. ASSUME NEW t \in Threads, runSwapStep(t) PROVE Fenced'
    <2>1. /\ helper[t] \in Commands /\ pc[t] \in CallsOf(t) /\ helper[t] = CommandAt(pc[t])
          /\ UNCHANGED <<running, startsInFlight, stackOp, fenceState, policy, pc, then,
                         visited, ghosts, accepted>>
          /\ work' = work \/ work' \in Reach(helper[t], work)
      BY <1>53 DEF runSwapStep, TakeTurns, AtPlaces, TypeOK, ThreadTypes
    <2>2. helper[t] = "restore" => Quiet
      <3>1. helper[t] = "restore" => pc[t] = "materialized"
        BY <2>1 DEF CommandAt
      <3>2. pc[t] = "materialized" => t = "run"
        BY <2>1 DEF CallsOf, ReconcileCalls, AcceptCalls
      <3> QED BY <3>1, <3>2 DEF Fenced, QuietPlaces
    <2>3. helper[t] # "restore" /\ work \in {"none", "gone", "torn"}
             => work' \in {"none", "gone", "torn"}
      BY <2>1 DEF Reach
    <2>4. Quiet' <=> Quiet
      BY <2>1 DEF Quiet, FenceLive
    <2> QED BY <2>1, <2>2, <2>3, <2>4 DEF Fenced, Toward
  <1>54. ASSUME NEW c \in Containers, startUnderFence(c) PROVE Fenced'
    BY <1>54, PlaceNames DEF startUnderFence, Fenced, Quiet, QuietPlaces, FenceLive,
      Toward, Reconcilers, Threads, At, Goto, TypeOK, RowTypes, ThreadTypes, Pins
  <1>55. ASSUME NEW c \in Containers, StartAnswered(c) PROVE Fenced'
    <2>1. /\ startsInFlight # {} /\ startsInFlight' \subseteq startsInFlight
          /\ UNCHANGED <<work, ghosts, pc, then, visited, stackOp, policy, accepted>>
      BY <1>55 DEF StartAnswered, Started
    <2>2. ~Quiet /\ pc["run"] \notin {"observe", "fence"} \cup QuietPlaces
      BY <2>1 DEF Fenced, Quiet
    <2> QED BY <2>1, <2>2 DEF Fenced, Toward
  <1>56. ASSUME NEW c \in Containers, PolicyStart(c) PROVE Fenced'
    <2>1. /\ policy[c] = "own" /\ running' = running \cup {c}
          /\ UNCHANGED <<work, ghosts, stackOp, pc, then, visited, policy, accepted,
                         startsInFlight>>
      BY <1>56 DEF PolicyStart, Started
    <2>2. ~Quiet
      BY <2>1 DEF Quiet
    <2> QED BY <2>1, <2>2 DEF Fenced, Toward
  <1>57. ASSUME NEW c \in Containers, OutsideStart(c) PROVE Fenced'
    BY <1>57, PlaceNames DEF OutsideStart, Started, Fenced, Quiet, QuietPlaces,
      FenceLive, Toward, Reconcilers, Threads, At, Goto, TypeOK, RowTypes, ThreadTypes,
      Pins
  <1>58. ASSUME NEW c \in Containers, ContainerStops(c) PROVE Fenced'
    <2>1. /\ c \in running /\ running' = running \ {c}
          /\ UNCHANGED <<work, ghosts, stackOp, pc, then, visited, policy, accepted,
                         startsInFlight>>
      BY <1>58 DEF ContainerStops
    <2>2. ~Quiet
      BY <2>1 DEF Quiet
    <2> QED BY <2>1, <2>2 DEF Fenced, Toward
  <1>59. CASE tryAcquire
    <2>1. stackOp # "data_restore" /\ UNCHANGED <<work, ghosts, pc, then, accepted>>
      BY <1>59 DEF tryAcquire
    <2>2. ~Quiet /\ pc["run"] \in {"off", "admit"}
      BY <1>59, <2>1 DEF tryAcquire, Quiet, Fenced
    <2> QED BY <2>1, <2>2 DEF Fenced, Toward, QuietPlaces
  <1>60. ASSUME NEW c \in Containers, LifecycleStart(c) PROVE Fenced'
    <2>1. stackOp # "data_restore" /\ UNCHANGED <<work, ghosts, pc, then, accepted>>
      BY <1>60 DEF LifecycleStart, Started
    <2>2. ~Quiet /\ pc["run"] \in {"off", "admit"}
      BY <1>60, <2>1 DEF LifecycleStart, Quiet, Fenced
    <2> QED BY <2>1, <2>2 DEF Fenced, Toward, QuietPlaces
  <1>61. CASE LifecycleEnd
    <2>1. stackOp # "data_restore" /\ UNCHANGED <<work, ghosts, pc, then, accepted>>
      BY <1>61 DEF LifecycleEnd
    <2>2. ~Quiet /\ pc["run"] \in {"off", "admit"}
      BY <1>61, <2>1 DEF LifecycleEnd, Quiet, Fenced
    <2> QED BY <2>1, <2>2 DEF Fenced, Toward, QuietPlaces
  <1>62. CASE WorkloadWrites
    BY <1>62, PlaceNames, NoGhosts DEF WorkloadWrites, Fenced, Quiet, QuietPlaces,
      FenceLive, Toward, Reconcilers, Threads, At, Goto, TypeOK, RowTypes, ThreadTypes,
      Pins
  <1>63. CASE Crash
    <2>1. /\ \A t \in Threads : pc'[t] = "off"
          /\ UNCHANGED <<work, accepted, fenceState, policy>> /\ startsInFlight' = {}
                /\ stackOp' = "free"
          /\ startsInFlight = {} => running' = running
      BY <1>63 DEF Crash, Started
    <2>2. Quiet => Quiet'
      BY <2>1 DEF Quiet, FenceLive
    <2>3. "restore" \in ghosts' => "restore" \in ghosts \/ Quiet
      <3> SUFFICES ASSUME "restore" \in ghosts', "restore" \notin ghosts PROVE Quiet
        OBVIOUS
      <3>1. PICK t \in Threads : helper[t] = "restore"
        BY <1>63 DEF Crash
      <3>2. pc[t] = "materialized" /\ pc[t] \in CallsOf(t)
        BY <3>1 DEF TakeTurns, AtPlaces, CommandAt
      <3>3. t = "run"
        BY <3>2 DEF CallsOf, ReconcileCalls, AcceptCalls
      <3> QED BY <3>2, <3>3 DEF Fenced, QuietPlaces
    <2> QED BY SMTT(30), <2>1, <2>2, <2>3, PlaceNames DEF Fenced, Toward, QuietPlaces
  <1>64. ASSUME NEW g \in Commands, Ghost(g) PROVE Fenced'
    <2>1. /\ g \in ghosts /\ work' \in Reach(g, work) /\ ghosts' \subseteq ghosts
          /\ UNCHANGED <<running, startsInFlight, stackOp, fenceState, policy, pc, then,
                         visited, accepted>>
      BY <1>64 DEF Ghost
    <2>2. g # "restore" /\ work \in {"none", "gone", "torn"} => work' \in {"none", "gone", "torn"}
      BY <2>1 DEF Reach
    <2>3. Quiet' <=> Quiet
      BY <2>1 DEF Quiet, FenceLive
    <2> QED BY <2>1, <2>2, <2>3 DEF Fenced, Toward
  <1>65. CASE UNCHANGED vars
    BY <1>65 DEF vars, Fenced, Quiet, QuietPlaces, FenceLive, Toward, Reconcilers,
      Threads, At, Goto, TypeOK, RowTypes, ThreadTypes, Pins
  <1> QED
    BY ZenonT(60), <1>1, <1>2, <1>3, <1>4, <1>5, <1>6, <1>7, <1>8, <1>9, <1>10, <1>11,
      <1>12, <1>13, <1>14, <1>15, <1>16, <1>17, <1>18, <1>19, <1>20, <1>21, <1>22,
      <1>23, <1>24, <1>25, <1>26, <1>27, <1>28, <1>29, <1>30, <1>31, <1>32, <1>33,
      <1>34, <1>35, <1>36, <1>37, <1>38, <1>39, <1>40, <1>41, <1>42, <1>43, <1>44,
      <1>45, <1>46, <1>47, <1>48, <1>49, <1>50, <1>51, <1>52, <1>53, <1>54, <1>55,
      <1>56, <1>57, <1>58, <1>59, <1>60, <1>61, <1>62, <1>63, <1>64, <1>65 DEF Next,
      Pipeline, BootSequence, Environment, Reconcile, Accept, Releases, Reconcilers,
      Threads

-----------------------------------------------------------------------------
(* No two helpers write to the volume, and none writes beside one that a   *)
(* dead process left.                                                      *)
LEMMA OneWriterFollows ==
    ASSUME OneAtATime, TypeOK, TakeTurns, Alone
    PROVE  OneWriter
  <1>1. ASSUME NEW t \in Writers
        PROVE  ghosts = {} /\ \A u \in Writers : u = t
    <2>1. t \in Threads /\ pc[t] \in CallsOf(t)
      BY <1>1 DEF Writers, TakeTurns, AtPlaces
    <2>2. pc[t] \notin {"off", "helpers", "failed", "done", "release"}
      BY <2>1 DEF CallsOf, RunCalls, ReconcileCalls, AcceptCalls
    <2>3. ghosts = {}
      BY <2>1, <2>2, NoGhosts
    <2>4. \A u \in Threads \ {t} : pc[u] \in {"off", "done"}
      BY <2>1, <2>2, OthersRest DEF Toward
    <2>5. \A u \in Threads : helper[u] # "idle" => pc[u] \notin {"off", "done"}
      BY HelperPlaces
    <2> QED BY <2>3, <2>4, <2>5 DEF Writers
  <1> QED BY <1>1 DEF OneWriter

(* The rows, the places of the threads and the volume agree.               *)
Agreement == Safeguards /\ Phased /\ Alone /\ Truth /\ FenceReports /\ Endings

(* They agree at the start, when nothing is recorded or moved.             *)
LEMMA AgreementInit == Init => Agreement
  <1> SUFFICES ASSUME Init PROVE Agreement
    OBVIOUS
  <1>1. \A t \in Threads : pc[t] = (IF t = "boot" THEN "done" ELSE "off")
                           /\ Toward(t) = (IF t = "boot" THEN "done" ELSE "off")
    BY DEF Init, Toward
  <1>2. Safeguards
    BY SafeguardsInit
  <1>3. Phased
    BY <1>1, PlaceNames, ThreadAssumption DEF Phased, RunPhase, ReconcilePhase,
      SnapshotPlaces, Reconcilers
  <1>4. Alone
    BY DEF Init, Alone
  <1>5. Truth
    BY <1>1 DEF Init, Truth, PhaseWork, PlaceWork, AnswerWork
  <1>6. FenceReports
    BY DEF Init, FenceReports, FenceLive, ReturnsOf, RunSettles, ReconcileSettles,
      AcceptCalls
  <1>7. Endings
    BY <1>1, PlaceNames, ThreadAssumption DEF Init, Endings
  <1> QED BY <1>2, <1>3, <1>4, <1>5, <1>6, <1>7 DEF Agreement

(* Every step keeps the agreement, with one resolve request at a time.     *)
LEMMA AgreementStep == OneAtATime => (Agreement /\ [Next]_vars => Agreement')
  <1> SUFFICES ASSUME OneAtATime, Agreement, [Next]_vars PROVE Agreement'
    OBVIOUS
  <1>1. TypeOK /\ TakeTurns /\ Unrecorded /\ Phased /\ Alone /\ Truth /\ FenceReports /\ Endings
    BY DEF Agreement, Safeguards
  <1>2. Safeguards'
    BY SafeguardsStep DEF Agreement
  <1>3. Phased' /\ Alone' /\ Truth'
    BY <1>1, PhasedStep, AloneStep, TruthStep
  <1>4. FenceReports' /\ Endings'
    BY <1>1, FenceReportsStep, EndingsStep
  <1> QED BY <1>2, <1>3, <1>4 DEF Agreement

(* With one resolve request at a time, rows, threads and volume agree in   *)
(* every reachable state.                                                  *)
THEOREM AgreementHolds == OneAtATime => (Spec => []Agreement)
  <1> SUFFICES ASSUME OneAtATime PROVE Spec => []Agreement
    OBVIOUS
  <1>1. Agreement /\ [Next]_vars => Agreement'
    BY AgreementStep
  <1> QED BY <1>1, AgreementInit, PTL DEF Spec

(* runSwapStep: one helper at a time works on the volume, and never beside *)
(* one that a dead process left behind.                                    *)
THEOREM WritersTakeTurns == OneAtATime => (Spec => []OneWriter)
  <1> SUFFICES ASSUME OneAtATime PROVE Spec => []OneWriter
    OBVIOUS
  <1>1. Agreement => OneWriter
    BY OneWriterFollows DEF Agreement, Safeguards
  <1> QED BY <1>1, AgreementHolds, PTL

(* An intent settled by the pipeline, by a boot or by a resolve request    *)
(* says what the volume holds, and the work directory is gone.             *)
THEOREM SettledMeansSettled == OneAtATime => (Spec => []SettledIsTrue)
  <1> SUFFICES ASSUME OneAtATime PROVE Spec => []SettledIsTrue
    OBVIOUS
  <1>1. Agreement => SettledIsTrue
    BY DEF Agreement, Truth, PhaseWork, SettledIsTrue
  <1> QED BY <1>1, AgreementHolds, PTL

(* The state overwriteEndingFor and the pipeline give the operation is     *)
(* true of the volume and of its fence, then and ever after.               *)
THEOREM EndingsStayTrue == OneAtATime => (Spec => []EndingIsTrue)
  <1> SUFFICES ASSUME OneAtATime PROVE Spec => []EndingIsTrue
    OBVIOUS
  <1>1. Agreement => EndingIsTrue
    <2> SUFFICES ASSUME Agreement PROVE EndingIsTrue
      OBVIOUS
    <2>1. Endings /\ fenceState \in FenceStates
      BY DEF Agreement, Safeguards, TypeOK, RowTypes
    <2> QED BY <2>1 DEF Endings, EndingIsTrue, Content, Done, FenceLive, FenceStates
  <1> QED BY <1>1, AgreementHolds, PTL

(* The whole inductive invariant that the model checker checks.            *)
THEOREM RestoreInvariantHolds ==
    OneAtATime /\ ~OutsideStarts => (Spec => []RestoreInvariant)
  <1> SUFFICES ASSUME OneAtATime, ~OutsideStarts PROVE Spec => []RestoreInvariant
    OBVIOUS
  <1>1. Init => Fenced
    <2> SUFFICES ASSUME Init PROVE Fenced
      OBVIOUS
    <2>1. \A t \in Threads : pc[t] = (IF t = "boot" THEN "done" ELSE "off")
                             /\ Toward(t) = (IF t = "boot" THEN "done" ELSE "off")
      BY DEF Init, Toward
    <2> QED BY <2>1, PlaceNames DEF Init, Fenced, QuietPlaces
  <1>2. Agreement /\ Fenced /\ [Next]_vars => Fenced'
    BY FencedStep DEF Agreement, Safeguards
  <1>3. Agreement /\ Fenced => RestoreInvariant
    BY OneWriterFollows DEF Agreement, Safeguards, RestoreInvariant
  <1> QED BY <1>1, <1>2, <1>3, AgreementHolds, PTL DEF Spec

(* Until an operator accepts the volume as it is, no workload runs while   *)
(* its entries are partly old and partly new.                              *)
THEOREM NoWorkloadOnMixedData ==
    OneAtATime /\ ~OutsideStarts => (Spec => []NoWorkloadOnUnprovenData)
  <1> SUFFICES ASSUME OneAtATime, ~OutsideStarts PROVE Spec => []NoWorkloadOnUnprovenData
    OBVIOUS
  <1>1. RestoreInvariant => NoWorkloadOnUnprovenData
    <2> SUFFICES ASSUME RestoreInvariant, running # {}, Content(work) = "mixed"
    PROVE accepted
      BY DEF NoWorkloadOnUnprovenData
    <2>1. work \notin {"none", "gone", "torn"}
      BY DEF Content
    <2> QED BY <2>1 DEF RestoreInvariant, Fenced, Quiet
  <1> QED BY <1>1, RestoreInvariantHolds, PTL

(* A helper changes what the volume root holds only from a work directory  *)
(* that is neither absent nor torn.                                        *)
LEMMA ContentMoves ==
    ASSUME NEW command \in Commands, NEW w \in Works, NEW v \in Reach(command, w),
           Content(v) # Content(w)
    PROVE  w \notin {"none", "gone", "torn"}
  BY DEF Reach, Content, Commands, Works

(* The volume changes only by a helper, of a thread or of a dead process.  *)
LEMMA WorkMoves ==
    ASSUME [Next]_vars
    PROVE  \/ work' = work
           \/ \E t \in Threads : helper[t] # "idle" /\ work' \in Reach(helper[t], work)
           \/ \E g \in ghosts : work' \in Reach(g, work)
  <1>1. ASSUME NEW t \in Threads, runSwapStep(t)
        PROVE  work' = work \/ (helper[t] # "idle" /\ work' \in Reach(helper[t], work))
    BY <1>1 DEF runSwapStep
  <1>2. ASSUME NEW g \in Commands, Ghost(g)
        PROVE  g \in ghosts /\ work' \in Reach(g, work)
    BY <1>2 DEF Ghost
  <1>3. Pipeline => work' = work
    BY DEF Pipeline, Releases, ReleaseEnd, ReleaseMember, ReleaseMemberFails,
      prepareOverwriteAdmission, admitOverwrite, stagePoint, createLabelledVolume,
      RestoreStaging, Unstage, removeStaging, fenceWorkloads, waitForStartsInFlight,
      recordMembers, Pin, Stop, FenceEnd, RecheckBeforePoint, BeginPoint,
      takePreRestorePoint, materializePoint, Materialized, Prepared, RecheckBeforeSwap,
      Commit, swapAndCleanup, releaseAfterCommit, CommitSettle, RollbackBegin,
      RollbackDone, RollbackStaging, rollbackIntent, releaseStacks
  <1>4. ASSUME NEW t \in Reconcilers, Reconcile(t) PROVE work' = work
    BY <1>4 DEF Reconcile, Releases, reconcileOverwriteIntent, ReadUnderWorkloads,
      Undone, ReconcileStaging, JournalDecides, CommitFinished, RollForward,
      ForwardCleaned, SettleForward, clearFenceOutcome,
      settleInterruptedOverwriteOperations, settleProven, ReleaseEnd, ReleaseMember,
      ReleaseMemberFails
  <1>5. ASSUME NEW t \in Resolvers, Retry(t) \/ ReleaseFenceRequest(t) \/ Accept(t)
        PROVE work' = work
    BY <1>5 DEF Retry, ReleaseFenceRequest, Accept, AcceptReleased, AcceptStatus,
      AcceptCleaned
  <1>6. BootSequence => work' = work
    BY <1>4 DEF BootSequence, Boot, removeForeignEpochHelpers,
      reconcileOverwriteIntentsAtStartup, Reconcilers
  <1>7. Environment => work' = work \/ \E g \in Commands : Ghost(g)
    BY DEF Environment, startUnderFence, StartAnswered, PolicyStart, OutsideStart,
      ContainerStops, LifecycleStart, tryAcquire, LifecycleEnd, WorkloadWrites, Crash
  <1>8. CASE UNCHANGED vars
    BY <1>8 DEF vars
  <1> QED BY <1>1, <1>2, <1>3, <1>4, <1>5, <1>6, <1>7, <1>8 DEF Next, Reconcilers

(* While a workload runs, no step moves the volume's data, unless an       *)
(* operator has accepted the volume as it is.                              *)
THEOREM NothingMoves ==
    OneAtATime /\ ~OutsideStarts => (Spec => NothingMovesUnderWorkloads)
  <1> SUFFICES ASSUME OneAtATime, ~OutsideStarts PROVE Spec => NothingMovesUnderWorkloads
    OBVIOUS
  <1>1. ASSUME RestoreInvariant, [Next]_vars, running # {}, ~accepted
        PROVE  Content(work') = Content(work)
    <2>1. work \in {"none", "gone", "torn"} /\ "restore" \notin ghosts
      BY <1>1 DEF RestoreInvariant, Fenced, Quiet
    <2>2. \/ work' = work
          \/ \E t \in Threads : helper[t] # "idle" /\ work' \in Reach(helper[t], work)
          \/ \E g \in ghosts : work' \in Reach(g, work)
      BY <1>1, WorkMoves
    <2>3. work \in Works /\ ghosts \subseteq Commands
          /\ \A t \in Threads : helper[t] \in Commands \cup {"idle"}
      BY <1>1 DEF RestoreInvariant, TypeOK, RowTypes, ThreadTypes
    <2> QED BY <2>1, <2>2, <2>3, ContentMoves DEF Commands
  <1>2. RestoreInvariant /\ [Next]_vars => [NothingMovesUnderWorkloadsStep]_vars
    BY <1>1 DEF NothingMovesUnderWorkloadsStep
  <1> QED BY <1>2, RestoreInvariantHolds, PTL DEF Spec, NothingMovesUnderWorkloads
=============================================================================
