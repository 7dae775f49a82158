-------------------------- MODULE OverwriteTruthProofs --------------------------
(***************************************************************************)
(* What the rows of OverwriteRestore say is true of the volume: proofs for *)
(* any number of containers, with one resolve request at a time and        *)
(* helpers that Docker removes when it is asked to.  The phase fits the    *)
(* place of every thread, one thread at most works for the intent, and the *)
(* answer it read of a helper tells the state of the work directory.       *)
(***************************************************************************)
EXTENDS OverwriteRestoreProofs

(* Zenon is the default; a leaf that it cannot do names the SMT solver.    *)
USE ZenonT(30)
USE DEF row, fence, docker, volume, process, helpers, release, history, containers

(* How a step of a thread changes where it is headed.                      *)
LEMMA TowardAt ==
    ASSUME NEW t \in Threads, NEW place, At(t, place), place # "release"
    PROVE  Toward(t) = place
  BY DEF At, Toward

(* A plain move heads for its place.                                       *)
LEMMA TowardGoto ==
    ASSUME TypeOK, NEW t \in Threads, NEW place, place # "release", Goto(t, place),
           UNCHANGED then
    PROVE  Toward(t)' = place /\ \A u \in Threads \ {t} : Toward(u)' = Toward(u)
  BY DEF TypeOK, ThreadTypes, Goto, Toward

(* A release heads for where it returns to.                                *)
LEMMA TowardRelease ==
    ASSUME TypeOK, NEW t \in Threads, NEW place, place # "release", releaseFence(t, place)
    PROVE  Toward(t)' = place /\ \A u \in Threads \ {t} : Toward(u)' = Toward(u)
  BY DEF TypeOK, ThreadTypes, releaseFence, Goto, Toward

(* A move that also forgets heads for its place.                           *)
LEMMA TowardForget ==
    ASSUME TypeOK, NEW t \in Threads, NEW place, place # "release", Goto(t, place), Forget(t)
    PROVE  /\ Toward(t)' = place
           /\ \A u \in Threads \ {t} : Toward(u)' = Toward(u) /\ intent'[u] = intent[u]
  BY DEF TypeOK, ThreadTypes, Goto, Forget, Toward

(* The end of a release goes where the thread was headed.                  *)
LEMMA TowardReleaseEnd ==
    ASSUME TypeOK, TakeTurns, NEW t \in Threads, ReleaseEnd(t)
    PROVE  \A u \in Threads : Toward(u)' = Toward(u)
  <1>1. then[t] # "release" /\ pc[t] = "release"
    BY ReleaseReturns DEF ReleaseEnd, At
  <1>2. pc' = [pc EXCEPT ![t] = then[t]] /\ UNCHANGED then
    BY DEF ReleaseEnd, Goto
  <1> QED BY <1>1, <1>2 DEF TypeOK, ThreadTypes, Toward

(* While one thread is active the others rest.                             *)
LEMMA OthersRest ==
    ASSUME OneAtATime, TypeOK, TakeTurns, NEW t \in Threads, Toward(t) \notin {"off", "done"}
    PROVE  /\ \A u \in Threads \ {t} :
              Toward(u) \in {"off", "done"} /\ pc[u] \in {"off", "done"}
           /\ pc["boot"] # "off" /\ up
  <1>1. pc[t] \notin {"off", "done"}
    BY DEF Toward
  <1>2. pc[t] # "release" \/ then[t] # "off"
    BY ReleaseReturns
  <1>3. \A u \in Threads \ {t} : pc[u] \in {"off", "done"}
    BY <1>1, ThreadAssumption DEF TakeTurns, Turns, Threads, OneAtATime
  <1>4. pc["boot"] # "off" /\ up
    BY <1>1, ThreadAssumption DEF TakeTurns, Turns, Threads, TypeOK, FlagTypes
  <1> QED BY <1>3, <1>4 DEF Toward

(* What holds at a place of a reconciliation.                              *)
LEMMA PhaseRead ==
    ASSUME Phased, NEW t \in Reconcilers, NEW place, At(t, place), place # "release"
    PROVE  ReconcilePhase(place, phase) /\ (place \in SnapshotPlaces => intent[t].phase = phase)
  BY TowardAt, PlaceNames DEF Phased

(* A thread at rest asks nothing of the phase.                             *)
LEMMA RestingPhase ==
    \A place \in {"off", "done"} : \A p :
        RunPhase(place, p) /\ ReconcilePhase(place, p) /\ place \notin SnapshotPlaces
  BY DEF RunPhase, ReconcilePhase, SnapshotPlaces

(* A step of the pipeline keeps the phases if the phase it leaves fits the *)
(* place it goes to, since every other thread rests.                       *)
LEMMA PhasedRun ==
    ASSUME OneAtATime, TypeOK, TakeTurns, NEW from, NEW to,
           At("run", from), from \notin {"off", "done", "release"}, to # "release",
           (Goto("run", to) /\ UNCHANGED then) \/ releaseFence("run", to),
           RunPhase(to, phase')
    PROVE  Phased'
  <1>1. \A u \in Threads \ {"run"} : Toward(u) \in {"off", "done"}
    BY TowardAt, OthersRest, PlaceNames
  <1>2. Toward("run")' = to /\ \A u \in Threads \ {"run"} : Toward(u)' = Toward(u)
    BY TowardGoto, TowardRelease, PlaceNames
  <1>3. \A u \in Reconcilers : Toward(u)' \in {"off", "done"}
    BY <1>1, <1>2, PlaceNames, ThreadAssumption DEF Reconcilers
  <1> QED BY <1>2, <1>3, RestingPhase DEF Phased

(* A thread goes to a place, or to a release that returns there, and the   *)
(* phase it leaves fits the place.                                         *)
Heads(t, to) == (Goto(t, to) /\ UNCHANGED then) \/ releaseFence(t, to)
Fits(t, to) ==
    ReconcilePhase(to, phase') /\ (to \in SnapshotPlaces => intent'[t].phase = phase')

(* And so does a step of a reconciliation, if in addition the row it has   *)
(* read is still the row where that matters.                               *)
LEMMA PhasedReconcile ==
    ASSUME OneAtATime, TypeOK, TakeTurns, NEW t \in Reconcilers, NEW from, NEW to,
           At(t, from), from \notin {"off", "done", "release"}, to # "release",
           Heads(t, to), Fits(t, to)
    PROVE  Phased'
  <1>1. t \in Threads /\ t # "run"
    BY PlaceNames, ThreadAssumption DEF Reconcilers
  <1>2. \A u \in Threads \ {t} : Toward(u) \in {"off", "done"}
    BY <1>1, TowardAt, OthersRest
  <1>3. Toward(t)' = to /\ \A u \in Threads \ {t} : Toward(u)' = Toward(u)
    BY <1>1, TowardGoto, TowardRelease DEF Heads
  <1>4. \A u \in Threads \ {t} : Toward(u)' \in {"off", "done"}
    BY <1>2, <1>3
  <1>5. RunPhase(Toward("run")', phase')
    BY <1>1, <1>4, RestingPhase, PlaceNames
  <1>6. \A u \in Reconcilers \ {t} :
           ReconcilePhase(Toward(u)', phase') /\ Toward(u)' \notin SnapshotPlaces
    BY <1>4, RestingPhase, PlaceNames
  <1> QED BY <1>3, <1>5, <1>6 DEF Phased, Fits

(* The recorded phase follows the pipeline and every reconciliation from   *)
(* place to place, and the row a reconciliation has read is still the row. *)
LEMMA PhasedStep ==
    ASSUME OneAtATime, TypeOK, TakeTurns, Unrecorded, Phased, [Next]_vars
    PROVE  Phased'
  <1>1. CASE prepareOverwriteAdmission
    <2>1. Goto("run", "admit") /\ UNCHANGED <<phase, intent, then>>
      BY <1>1 DEF prepareOverwriteAdmission
    <2>2. Toward("run")' = "admit" /\ \A u \in Threads \ {"run"} : Toward(u)' = Toward(u)
      BY <2>1, TowardGoto, PlaceNames
    <2>3. RunPhase("admit", phase)
      BY DEF RunPhase
    <2> QED BY <2>1, <2>2, <2>3, PlaceNames, ThreadAssumption DEF Phased, Reconcilers
  <1>2. CASE admitOverwrite
    <2>1. At("run", "admit") /\ UNCHANGED then
      BY <1>2 DEF admitOverwrite
    <2>2. \/ Goto("run", "stage") /\ phase' = "recorded"
          \/ Goto("run", "off") /\ phase' = phase
      BY <1>2 DEF admitOverwrite
    <2>3. PICK to \in {"stage", "off"} : Goto("run", to) /\ RunPhase(to, phase')
      BY <2>2 DEF RunPhase
    <2> QED BY <2>1, <2>3, PhasedRun
  <1>3. CASE stagePoint
    <2>1. At("run", "stage") /\ UNCHANGED then
      BY <1>3 DEF stagePoint
    <2>2. phase = "recorded"
      BY <2>1, TowardAt, PlaceNames DEF Phased, RunPhase
    <2>3. Goto("run", "create") /\ phase' = "staging"
      BY <1>3, <2>2, Transitions, RowNames DEF stagePoint, advance
    <2>4. PICK to \in {"create"} : Goto("run", to) /\ RunPhase(to, phase')
      BY <2>2, <2>3 DEF RunPhase
    <2> QED BY <2>1, <2>4, PhasedRun
  <1>4. CASE createLabelledVolume
    <2>1. At("run", "create") /\ UNCHANGED then
      BY <1>4 DEF createLabelledVolume
    <2>2. phase = "staging"
      BY <2>1, TowardAt, PlaceNames DEF Phased, RunPhase
    <2>3. \/ Goto("run", "copy") /\ phase' = phase
          \/ Goto("run", "unstage") /\ phase' = phase
          \/ Goto("run", "rollback") /\ phase' = phase
      BY <1>4 DEF createLabelledVolume, settleRollback
    <2>4. PICK to \in {"copy", "unstage", "rollback"} :
                  Goto("run", to) /\ RunPhase(to, phase')
      BY <2>2, <2>3 DEF RunPhase, PRE_FENCE_PHASES, FENCED_PHASES
    <2> QED BY <2>1, <2>4, PhasedRun
  <1>5. CASE RestoreStaging
    <2>1. At("run", "copy") /\ UNCHANGED then
      BY <1>5 DEF RestoreStaging
    <2>2. phase = "staging"
      BY <2>1, TowardAt, PlaceNames DEF Phased, RunPhase
    <2>3. \/ Goto("run", "remove") /\ phase' = "staged_verified"
          \/ Goto("run", "unstage") /\ phase' = phase
      BY <1>5, <2>2, Transitions, RowNames DEF RestoreStaging, advance
    <2>4. PICK to \in {"remove", "unstage"} : Goto("run", to) /\ RunPhase(to, phase')
      BY <2>2, <2>3 DEF RunPhase
    <2> QED BY <2>1, <2>4, PhasedRun
  <1>6. CASE Unstage
    <2>1. At("run", "unstage") /\ UNCHANGED then
      BY <1>6 DEF Unstage
    <2>2. Goto("run", "return")
      BY <1>6 DEF Unstage, Finish
    <2>3. PICK to \in {"return"} : Goto("run", to) /\ RunPhase(to, phase')
      BY <2>2 DEF RunPhase
    <2> QED BY <2>1, <2>3, PhasedRun
  <1>7. CASE removeStaging
    <2>1. At("run", "remove") /\ UNCHANGED then
      BY <1>7 DEF removeStaging
    <2>2. phase = "staged_verified"
      BY <2>1, TowardAt, PlaceNames DEF Phased, RunPhase
    <2>3. \/ Goto("run", "recheck") /\ phase' = phase
          \/ Goto("run", "return")
      BY <1>7 DEF removeStaging, Finish
    <2>4. PICK to \in {"recheck", "return"} : Goto("run", to) /\ RunPhase(to, phase')
      BY <2>2, <2>3 DEF RunPhase
    <2> QED BY <2>1, <2>4, PhasedRun
  <1>8. CASE fenceWorkloads
    <2>1. At("run", "recheck") /\ UNCHANGED then
      BY <1>8 DEF fenceWorkloads
    <2>2. phase = "staged_verified"
      BY <2>1, TowardAt, PlaceNames DEF Phased, RunPhase
    <2>3. \/ Goto("run", "drain") /\ phase' = "fenced"
          \/ Goto("run", "rollback") /\ phase' = phase
          \/ Goto("run", "return")
      BY <1>8, <2>2, Transitions, RowNames DEF fenceWorkloads, advance, settleRollback,
        Finish
    <2>4. PICK to \in {"drain", "rollback", "return"} :
                  Goto("run", to) /\ RunPhase(to, phase')
      BY <2>2, <2>3 DEF RunPhase, PRE_FENCE_PHASES, FENCED_PHASES
    <2> QED BY <2>1, <2>4, PhasedRun
  <1>9. CASE waitForStartsInFlight
    <2>1. At("run", "drain") /\ UNCHANGED then
      BY <1>9 DEF waitForStartsInFlight
    <2>2. phase = "fenced"
      BY <2>1, TowardAt, PlaceNames DEF Phased, RunPhase
    <2>3. \/ Goto("run", "observe") /\ phase' = phase
          \/ Goto("run", "rollback") /\ phase' = phase
      BY <1>9 DEF waitForStartsInFlight, settleRollback
    <2>4. PICK to \in {"observe", "rollback"} : Goto("run", to) /\ RunPhase(to, phase')
      BY <2>2, <2>3 DEF RunPhase, PRE_FENCE_PHASES, FENCED_PHASES
    <2> QED BY <2>1, <2>4, PhasedRun
  <1>10. CASE recordMembers
    <2>1. At("run", "observe") /\ UNCHANGED then
      BY <1>10 DEF recordMembers
    <2>2. phase = "fenced"
      BY <2>1, TowardAt, PlaceNames DEF Phased, RunPhase
    <2>3. \/ Goto("run", "fence") /\ phase' = phase
          \/ Goto("run", "rollback") /\ phase' = phase
          \/ Goto("run", "return")
      BY <1>10 DEF recordMembers, settleRollback, Finish
    <2>4. PICK to \in {"fence", "rollback", "return"} :
                  Goto("run", to) /\ RunPhase(to, phase')
      BY <2>2, <2>3 DEF RunPhase, PRE_FENCE_PHASES, FENCED_PHASES
    <2> QED BY <2>1, <2>4, PhasedRun
  <1>11. ASSUME NEW c \in Containers, Pin(c) PROVE Phased'
    BY <1>11 DEF Pin, Phased, Toward
  <1>12. ASSUME NEW c \in Containers, Stop(c) PROVE Phased'
    BY <1>12 DEF Stop, Phased, Toward
  <1>13. CASE FenceEnd
    <2>1. At("run", "fence") /\ UNCHANGED then
      BY <1>13 DEF FenceEnd
    <2>2. phase = "fenced"
      BY <2>1, TowardAt, PlaceNames DEF Phased, RunPhase
    <2>3. \/ Goto("run", "protect") /\ phase' = "protecting"
          \/ Goto("run", "rollback") /\ phase' = phase
      BY <1>13, <2>2, Transitions, RowNames DEF FenceEnd, advance, settleRollback
    <2>4. PICK to \in {"protect", "rollback"} : Goto("run", to) /\ RunPhase(to, phase')
      BY <2>2, <2>3 DEF RunPhase, PRE_FENCE_PHASES, FENCED_PHASES
    <2> QED BY <2>1, <2>4, PhasedRun
  <1>14. CASE RecheckBeforePoint
    <2>1. At("run", "protect") /\ UNCHANGED then
      BY <1>14 DEF RecheckBeforePoint
    <2>2. phase = "protecting"
      BY <2>1, TowardAt, PlaceNames DEF Phased, RunPhase
    <2>3. \/ Goto("run", "begin") /\ phase' = phase
          \/ Goto("run", "rollback") /\ phase' = phase
      BY <1>14 DEF RecheckBeforePoint, settleRollback
    <2>4. PICK to \in {"begin", "rollback"} : Goto("run", to) /\ RunPhase(to, phase')
      BY <2>2, <2>3 DEF RunPhase, PRE_FENCE_PHASES, FENCED_PHASES
    <2> QED BY <2>1, <2>4, PhasedRun
  <1>15. CASE BeginPoint
    <2>1. At("run", "begin") /\ UNCHANGED then
      BY <1>15 DEF BeginPoint
    <2>2. phase = "protecting"
      BY <2>1, TowardAt, PlaceNames DEF Phased, RunPhase
    <2>3. \/ Goto("run", "capture") /\ phase' = phase
          \/ Goto("run", "rollback") /\ phase' = phase
      BY <1>15 DEF BeginPoint, settleRollback
    <2>4. PICK to \in {"capture", "rollback"} : Goto("run", to) /\ RunPhase(to, phase')
      BY <2>2, <2>3 DEF RunPhase, PRE_FENCE_PHASES, FENCED_PHASES
    <2> QED BY <2>1, <2>4, PhasedRun
  <1>16. CASE takePreRestorePoint
    <2>1. At("run", "capture") /\ UNCHANGED then
      BY <1>16 DEF takePreRestorePoint
    <2>2. phase = "protecting"
      BY <2>1, TowardAt, PlaceNames DEF Phased, RunPhase
    <2>3. \/ Goto("run", "materialize") /\ phase' = phase
          \/ Goto("run", "rollback") /\ phase' = phase
      BY <1>16 DEF takePreRestorePoint, settleRollback
    <2>4. PICK to \in {"materialize", "rollback"} :
                  Goto("run", to) /\ RunPhase(to, phase')
      BY <2>2, <2>3 DEF RunPhase, PRE_FENCE_PHASES, FENCED_PHASES
    <2> QED BY <2>1, <2>4, PhasedRun
  <1>17. CASE materializePoint
    <2>1. At("run", "materialize") /\ UNCHANGED then
      BY <1>17 DEF materializePoint
    <2>2. phase = "protecting"
      BY <2>1, TowardAt, PlaceNames DEF Phased, RunPhase
    <2>3. Goto("run", "materialized") /\ phase' = "materializing"
      BY <1>17, <2>2, Transitions, RowNames DEF materializePoint, advance, Call
    <2>4. PICK to \in {"materialized"} : Goto("run", to) /\ RunPhase(to, phase')
      BY <2>2, <2>3 DEF RunPhase
    <2> QED BY <2>1, <2>4, PhasedRun
  <1>18. CASE Materialized
    <2>1. At("run", "materialized") /\ UNCHANGED then
      BY <1>18 DEF Materialized
    <2>2. phase = "materializing"
      BY <2>1, TowardAt, PlaceNames DEF Phased, RunPhase
    <2>3. \/ Goto("run", "prepared") /\ phase' = phase
          \/ Goto("run", "rollback") /\ phase' = phase
      BY <1>18 DEF Materialized, Call, settleRollback
    <2>4. PICK to \in {"prepared", "rollback"} : Goto("run", to) /\ RunPhase(to, phase')
      BY <2>2, <2>3 DEF RunPhase, PRE_FENCE_PHASES, FENCED_PHASES
    <2> QED BY <2>1, <2>4, PhasedRun
  <1>19. CASE Prepared
    <2>1. At("run", "prepared") /\ UNCHANGED then
      BY <1>19 DEF Prepared
    <2>2. phase = "materializing"
      BY <2>1, TowardAt, PlaceNames DEF Phased, RunPhase
    <2>3. \/ Goto("run", "recheck_swap") /\ phase' = "swapping"
          \/ Goto("run", "rollback") /\ phase' = phase
      BY <1>19, <2>2, Transitions, RowNames DEF Prepared, advance, settleRollback
    <2>4. PICK to \in {"recheck_swap", "rollback"} :
                  Goto("run", to) /\ RunPhase(to, phase')
      BY <2>2, <2>3 DEF RunPhase, PRE_FENCE_PHASES, FENCED_PHASES
    <2> QED BY <2>1, <2>4, PhasedRun
  <1>20. CASE RecheckBeforeSwap
    <2>1. At("run", "recheck_swap") /\ UNCHANGED then
      BY <1>20 DEF RecheckBeforeSwap
    <2>2. phase = "swapping"
      BY <2>1, TowardAt, PlaceNames DEF Phased, RunPhase
    <2>3. \/ Goto("run", "commit") /\ phase' = phase
          \/ Goto("run", "rollback") /\ phase' = phase
      BY <1>20 DEF RecheckBeforeSwap, settleRollback
    <2>4. PICK to \in {"commit", "rollback"} : Goto("run", to) /\ RunPhase(to, phase')
      BY <2>2, <2>3 DEF RunPhase, PRE_FENCE_PHASES, FENCED_PHASES
    <2> QED BY <2>1, <2>4, PhasedRun
  <1>21. CASE Commit
    <2>1. PICK place \in {"commit", "committed", "recommitted"} : At("run", place)
      BY <1>21 DEF Commit
    <2>2. phase = "swapping"
      BY <2>1, TowardAt, PlaceNames DEF Phased, RunPhase
    <2>3. PICK next \in {"committed", "confirm_reported", "confirm", "confirm_last"} :
             Goto("run", next)
      BY <1>21 DEF Commit, Call
    <2>4. UNCHANGED <<phase, then>>
      BY <1>21 DEF Commit
    <2>5. RunPhase(next, "swapping")
      BY <2>3 DEF RunPhase
    <2> QED BY <2>1, <2>2, <2>3, <2>4, <2>5, PhasedRun
  <1>22. CASE swapAndCleanup
    <2>1. PICK place \in {"confirm", "confirm_reported", "confirm_last"} :
                  At("run", place)
      BY <1>22 DEF swapAndCleanup
    <2>2. phase = "swapping"
      BY <2>1, TowardAt, PlaceNames DEF Phased, RunPhase
    <2>3. \/ Goto("run", "cleaned") /\ advance("swapped", outcomeClass)
          \/ Goto("run", "recommitted") /\ UNCHANGED phase
          \/ Goto("run", "return")
          \/ Goto("run", "rollback") /\ UNCHANGED phase
      BY <1>22 DEF swapAndCleanup, Call, Finish, settleRollback
    <2>4. advance("swapped", outcomeClass) => phase' = "swapped"
      BY <2>2, Transitions, RowNames DEF advance
    <2>5. UNCHANGED then
      BY <1>22 DEF swapAndCleanup
    <2>6. PICK to \in {"cleaned", "recommitted", "return", "rollback"} :
             Goto("run", to) /\ RunPhase(to, phase')
      BY <2>2, <2>3, <2>4 DEF RunPhase
    <2> QED BY <2>1, <2>5, <2>6, PhasedRun
  <1>23. CASE releaseAfterCommit
    <2>1. At("run", "cleaned")
      BY <1>23 DEF releaseAfterCommit
    <2>2. phase = "swapped"
      BY <2>1, TowardAt, PlaceNames DEF Phased, RunPhase
    <2>3. \/ releaseFence("run", "commit_settle") /\ UNCHANGED phase
          \/ Goto("run", "return") /\ UNCHANGED then
      BY <1>23 DEF releaseAfterCommit, Finish
    <2>4. RunPhase("return", phase') /\ (UNCHANGED phase => RunPhase("commit_settle", phase'))
      BY <2>2 DEF RunPhase
    <2> QED BY <2>1, <2>3, <2>4, PhasedRun
  <1>24. CASE CommitSettle
    <2>1. At("run", "commit_settle") /\ UNCHANGED then
      BY <1>24 DEF CommitSettle
    <2>2. Goto("run", "return")
      BY <1>24 DEF CommitSettle, Finish
    <2>3. PICK to \in {"return"} : Goto("run", to) /\ RunPhase(to, phase')
      BY <2>2 DEF RunPhase
    <2> QED BY <2>1, <2>3, PhasedRun
  <1>25. CASE RollbackBegin
    <2>1. At("run", "rollback") /\ UNCHANGED then
      BY <1>25 DEF RollbackBegin
    <2>2. RunPhase("rollback", phase)
      BY <2>1, TowardAt, PlaceNames DEF Phased
    <2>3. \/ Goto("run", "rollback_done") /\ phase \in {"materializing", "swapping"}
                /\ phase' = phase
          \/ Goto("run", "rollback_staging") /\ phase' = phase
      BY <1>25, <2>2 DEF RollbackBegin, Call, RunPhase, PRE_FENCE_PHASES, FENCED_PHASES
    <2>4. PICK to \in {"rollback_done", "rollback_staging"} :
                  Goto("run", to) /\ RunPhase(to, phase')
      BY <2>2, <2>3 DEF RunPhase, PRE_FENCE_PHASES, FENCED_PHASES
    <2> QED BY <2>1, <2>4, PhasedRun
  <1>26. CASE RollbackDone
    <2>1. At("run", "rollback_done") /\ UNCHANGED then
      BY <1>26 DEF RollbackDone
    <2>2. RunPhase("rollback_done", phase)
      BY <2>1, TowardAt, PlaceNames DEF Phased
    <2>3. \/ Goto("run", "rollback_staging") /\ phase' = phase
          \/ Goto("run", "return")
      BY <1>26, <2>2 DEF RollbackDone, Finish
    <2>4. PICK to \in {"rollback_staging", "return"} :
                  Goto("run", to) /\ RunPhase(to, phase')
      BY <2>2, <2>3 DEF RunPhase, PRE_FENCE_PHASES, FENCED_PHASES
    <2> QED BY <2>1, <2>4, PhasedRun
  <1>27. CASE RollbackStaging
    <2>1. At("run", "rollback_staging") /\ releaseFence("run", "rollback_settle")
             /\ UNCHANGED phase
      BY <1>27 DEF RollbackStaging
    <2>2. RunPhase("rollback_staging", phase)
      BY <2>1, TowardAt, PlaceNames DEF Phased
    <2>3. RunPhase("rollback_settle", phase)
      BY <2>2 DEF RunPhase
    <2> QED BY <2>1, <2>3, PhasedRun
  <1>28. CASE rollbackIntent
    <2>1. At("run", "rollback_settle") /\ UNCHANGED then
      BY <1>28 DEF rollbackIntent
    <2>2. Goto("run", "return")
      BY <1>28 DEF rollbackIntent, Finish
    <2>3. PICK to \in {"return"} : Goto("run", to) /\ RunPhase(to, phase')
      BY <2>2 DEF RunPhase
    <2> QED BY <2>1, <2>3, PhasedRun
  <1>29. CASE releaseStacks
    <2>1. Goto("run", "off") /\ Forget("run") /\ UNCHANGED phase
      BY <1>29 DEF releaseStacks
    <2>2. /\ Toward("run")' = "off"
          /\ \A u \in Threads \ {"run"} : Toward(u)' = Toward(u) /\ intent'[u] = intent[u]
      BY <2>1, TowardForget, PlaceNames
    <2> QED
      BY <2>1, <2>2, PlaceNames, ThreadAssumption DEF Phased, RunPhase, Reconcilers
  <1>30. CASE Boot
    <2>1. Goto("boot", "helpers") /\ UNCHANGED then
      BY <1>30 DEF Boot
    <2>2. \A u \in Threads \ {"boot"} : Toward(u) = "off"
      BY <1>30 DEF Boot, TakeTurns, Turns, Toward
    <2>3. Toward("boot")' = "helpers" /\ \A u \in Threads \ {"boot"} : Toward(u)' = "off"
      BY <2>1, <2>2, TowardGoto, PlaceNames
    <2>4. ReconcilePhase("helpers", phase') /\ "helpers" \notin SnapshotPlaces
      BY DEF ReconcilePhase, SnapshotPlaces
    <2> QED BY <2>3, <2>4, RestingPhase, PlaceNames DEF Phased
  <1>31. CASE removeForeignEpochHelpers
    <2>1. At("boot", "helpers") /\ UNCHANGED <<phase, then>>
      BY <1>31 DEF removeForeignEpochHelpers
    <2>2. \/ Unsettled /\ Snapshot("boot") /\ Goto("boot", "reconcile")
          \/ Goto("boot", "fences") \/ Goto("boot", "settle") \/ Goto("boot", "failed")
      BY <1>31 DEF removeForeignEpochHelpers
    <2>3. Snapshot("boot") => intent'["boot"].phase = phase
      BY SMTT(30) DEF Snapshot, TypeOK, ThreadTypes, Threads
    <2>4. Unsettled => phase \in Phases \ Settled
      BY DEF Unsettled, TypeOK, RowTypes
    <2>5. PICK to \in {"reconcile", "fences", "settle", "failed"} :
                  Heads("boot", to) /\ Fits("boot", to)
      BY <2>1, <2>2, <2>3, <2>4 DEF Heads, Fits, ReconcilePhase, SnapshotPlaces
    <2> QED BY <2>1, <2>5, PhasedReconcile DEF Reconcilers
  <1>32. CASE reconcileOverwriteIntentsAtStartup
    <2>1. At("boot", "fences") /\ UNCHANGED phase
      BY <1>32 DEF reconcileOverwriteIntentsAtStartup
    <2>2. \/ phase \in Settled /\ releaseFence("boot", "clear")
          \/ Goto("boot", "settle") /\ UNCHANGED then
      BY <1>32 DEF reconcileOverwriteIntentsAtStartup
    <2>3. PICK to \in {"clear", "settle"} : Heads("boot", to) /\ Fits("boot", to)
      BY <2>1, <2>2 DEF Heads, Fits, ReconcilePhase, SnapshotPlaces
    <2> QED BY <2>1, <2>3, PhasedReconcile DEF Reconcilers
  <1>33. ASSUME NEW t \in Reconcilers, reconcileOverwriteIntent(t) PROVE Phased'
    <2>1. At(t, "reconcile") /\ UNCHANGED <<phase, intent, then>>
      BY <1>33 DEF reconcileOverwriteIntent
    <2>2. phase \in Phases \ Settled /\ intent[t].phase = phase
      BY <2>1, PhaseRead DEF ReconcilePhase, SnapshotPlaces
    <2>3. \/ Goto(t, "unstage") /\ phase \in PRE_FENCE_PHASES
          \/ Goto(t, "read") /\ phase \in FENCED_PHASES
          \/ Goto(t, "undone") /\ phase \in FENCED_PHASES
          \/ Goto(t, "decide") /\ phase \notin PRE_FENCE_PHASES \cup FENCED_PHASES
      BY <1>33, <2>2 DEF reconcileOverwriteIntent, Call
    <2>4. phase \notin PRE_FENCE_PHASES \cup FENCED_PHASES => phase \in Undecided
      BY <2>2 DEF Phases, Undecided, Settled
    <2>5. PICK to \in {"unstage", "read", "undone", "decide"} :
                  Heads(t, to) /\ Fits(t, to)
      BY <2>1, <2>2, <2>3, <2>4 DEF Heads, Fits, ReconcilePhase, SnapshotPlaces
    <2> QED BY <2>1, <2>5, PhasedReconcile
  <1>34. ASSUME NEW t \in Reconcilers, ReadUnderWorkloads(t) PROVE Phased'
    <2>1. At(t, "read") /\ UNCHANGED <<intent, then>>
      BY <1>34 DEF ReadUnderWorkloads
    <2>2. phase \in FENCED_PHASES /\ intent[t].phase = phase
      BY <2>1, PhaseRead DEF ReconcilePhase, SnapshotPlaces
    <2>3. \/ Goto(t, "fences") \/ Goto(t, "answer")
          \/ Goto(t, "unstage") /\ UNCHANGED phase
      BY <1>34 DEF ReadUnderWorkloads, Reconciled
    <2>4. PICK to \in {"fences", "answer", "unstage"} : Heads(t, to) /\ Fits(t, to)
      BY <2>1, <2>2, <2>3 DEF Heads, Fits, ReconcilePhase, SnapshotPlaces
    <2> QED BY <2>1, <2>4, PhasedReconcile
  <1>35. ASSUME NEW t \in Reconcilers, Undone(t) PROVE Phased'
    <2>1. At(t, "undone") /\ UNCHANGED intent
      BY <1>35 DEF Undone
    <2>2. phase \in FENCED_PHASES \cup Undecided /\ intent[t].phase = phase
      BY <2>1, PhaseRead DEF ReconcilePhase, SnapshotPlaces
    <2>3. \/ (Goto(t, "fences") \/ Goto(t, "answer")) /\ UNCHANGED then
          \/ Goto(t, "unstage") /\ UNCHANGED <<phase, then>> /\ phase \in FENCED_PHASES
          \/ releaseFence(t, "settle_rolled_back") /\ UNCHANGED phase
      BY <1>35, <2>2 DEF Undone, Reconciled
    <2>4. phase \in Phases \ Settled
      BY <2>2 DEF Phases, Undecided, Settled, FENCED_PHASES
    <2>5. PICK to \in {"fences", "answer", "unstage", "settle_rolled_back"} :
                  Heads(t, to) /\ Fits(t, to)
      BY <2>1, <2>2, <2>3, <2>4 DEF Heads, Fits, ReconcilePhase, SnapshotPlaces
    <2> QED BY <2>1, <2>5, PhasedReconcile
  <1>36. ASSUME NEW t \in Reconcilers, ReconcileStaging(t) PROVE Phased'
    <2>1. At(t, "unstage") /\ releaseFence(t, "settle_rolled_back") /\ UNCHANGED phase
      BY <1>36 DEF ReconcileStaging
    <2>2. phase \in PRE_FENCE_PHASES \cup FENCED_PHASES
      BY <2>1, PhaseRead DEF ReconcilePhase
    <2>3. phase \in Phases \ Settled
      BY <2>2 DEF Phases, Settled, FENCED_PHASES, PRE_FENCE_PHASES
    <2>4. PICK to \in {"settle_rolled_back"} : Heads(t, to) /\ Fits(t, to)
      BY <2>1, <2>3 DEF Heads, Fits, ReconcilePhase, SnapshotPlaces
    <2> QED BY <2>1, <2>4, PhasedReconcile
  <1>37. ASSUME NEW t \in Reconcilers, JournalDecides(t) PROVE Phased'
    <2>1. At(t, "decide") /\ UNCHANGED intent
      BY <1>37 DEF JournalDecides
    <2>2. phase \in Undecided /\ intent[t].phase = phase
      BY <2>1, PhaseRead DEF ReconcilePhase, SnapshotPlaces
    <2>3. \/ releaseFence(t, "settle_committed") /\ UNCHANGED phase /\ phase = "swapped"
          \/ (Goto(t, "fences") \/ Goto(t, "answer")) /\ UNCHANGED then
          \/ /\ Goto(t, "finish") \/ Goto(t, "forward") \/ Goto(t, "undone")
             /\ UNCHANGED <<phase, then>>
      BY <1>37, <2>2 DEF JournalDecides, Reconciled, Call
    <2>4. PICK to \in {"settle_committed", "fences", "answer", "finish", "forward", "undone"} :
             Heads(t, to) /\ Fits(t, to)
      BY <2>1, <2>2, <2>3 DEF Heads, Fits, ReconcilePhase, SnapshotPlaces
    <2> QED BY <2>1, <2>4, PhasedReconcile
  <1>38. ASSUME NEW t \in Reconcilers, CommitFinished(t) PROVE Phased'
    <2>1. At(t, "finish") /\ UNCHANGED <<intent, then>>
      BY <1>38 DEF CommitFinished
    <2>2. phase \in Undecided /\ intent[t].phase = phase
      BY <2>1, PhaseRead DEF ReconcilePhase, SnapshotPlaces
    <2>3. \/ Goto(t, "forward") /\ UNCHANGED phase
          \/ Goto(t, "fences") \/ Goto(t, "answer")
      BY <1>38 DEF CommitFinished, Reconciled
    <2>4. PICK to \in {"forward", "fences", "answer"} : Heads(t, to) /\ Fits(t, to)
      BY <2>1, <2>2, <2>3 DEF Heads, Fits, ReconcilePhase, SnapshotPlaces
    <2> QED BY <2>1, <2>4, PhasedReconcile
  <1>39. ASSUME NEW t \in Reconcilers, RollForward(t) PROVE Phased'
    <2>1. At(t, "forward") /\ UNCHANGED then
      BY <1>39 DEF RollForward
    <2>2. phase \in Undecided /\ intent[t].phase = phase
      BY <2>1, PhaseRead DEF ReconcilePhase, SnapshotPlaces
    <2>3. \/ Goto(t, "fences") \/ Goto(t, "answer")
          \/ Goto(t, "forwarded") /\ phase = "swapping" /\ advance("swapped", outcomeClass)
          \/ Goto(t, "forwarded") /\ phase # "swapping" /\ UNCHANGED phase
      BY <1>39, <2>2 DEF RollForward, Reconciled, Call
    <2>4. phase = "swapping" /\ advance("swapped", outcomeClass) => phase' = "swapped"
      BY Transitions, RowNames DEF advance
    <2>5. PICK to \in {"fences", "answer", "forwarded"} : Heads(t, to) /\ Fits(t, to)
      BY <2>1, <2>2, <2>3, <2>4 DEF Heads, Fits, ReconcilePhase, SnapshotPlaces, Undecided
    <2> QED BY <2>1, <2>5, PhasedReconcile
  <1>40. ASSUME NEW t \in Reconcilers, ForwardCleaned(t) PROVE Phased'
    <2>1. At(t, "forwarded") /\ UNCHANGED phase
      BY <1>40 DEF ForwardCleaned, update
    <2>2. phase \in {"swapped", "completion_unknown"}
      BY <2>1, PhaseRead DEF ReconcilePhase
    <2>3. \/ releaseFence(t, "settle_forward")
          \/ (Goto(t, "fences") \/ Goto(t, "answer")) /\ UNCHANGED then
      BY <1>40 DEF ForwardCleaned, Reconciled
    <2>4. PICK to \in {"settle_forward", "fences", "answer"} : Heads(t, to) /\ Fits(t, to)
      BY <2>1, <2>2, <2>3 DEF Heads, Fits, ReconcilePhase, SnapshotPlaces
    <2> QED BY <2>1, <2>4, PhasedReconcile
  <1>41. ASSUME NEW t \in Reconcilers, SettleForward(t) PROVE Phased'
    <2>1. At(t, "settle_forward") /\ UNCHANGED then
      BY <1>41 DEF SettleForward
    <2>2. Goto(t, "fences") \/ Goto(t, "answer")
      BY <1>41 DEF SettleForward, Reconciled
    <2>3. PICK to \in {"fences", "answer"} : Heads(t, to) /\ Fits(t, to)
      BY <2>1, <2>2 DEF Heads, Fits, ReconcilePhase, SnapshotPlaces
    <2> QED BY <2>1, <2>3, PhasedReconcile
  <1>42. ASSUME NEW t \in Reconcilers, clearFenceOutcome(t) PROVE Phased'
    <2>1. At(t, "clear") /\ UNCHANGED then
      BY <1>42 DEF clearFenceOutcome
    <2>2. Goto(t, "settle") \/ Goto(t, "answer")
      BY <1>42 DEF clearFenceOutcome
    <2>3. PICK to \in {"settle", "answer"} : Heads(t, to) /\ Fits(t, to)
      BY <2>1, <2>2 DEF Heads, Fits, ReconcilePhase, SnapshotPlaces
    <2> QED BY <2>1, <2>3, PhasedReconcile
  <1>43. ASSUME NEW t \in Reconcilers, settleInterruptedOverwriteOperations(t)
         PROVE Phased'
    <2>1. (Goto(t, "done") \/ Goto(t, "off")) /\ Forget(t) /\ UNCHANGED phase
      BY <1>43 DEF settleInterruptedOverwriteOperations
    <2>2. /\ Toward(t)' \in {"done", "off"}
          /\ \A u \in Threads \ {t} : Toward(u)' = Toward(u) /\ intent'[u] = intent[u]
      BY <2>1, TowardForget, PlaceNames
    <2>3. ReconcilePhase(Toward(t)', phase') /\ Toward(t)' \notin SnapshotPlaces
      BY <2>2 DEF ReconcilePhase, SnapshotPlaces
    <2> QED BY <2>1, <2>2, <2>3, PlaceNames, ThreadAssumption DEF Phased, Reconcilers
  <1>44. ASSUME NEW t \in Reconcilers, NEW to \in Settled, settleProven(t, to)
         PROVE Phased'
    <2>1. PICK place \in {"settle_committed", "settle_rolled_back"} : At(t, place)
      BY <1>44 DEF settleProven
    <2>2. (Goto(t, "fences") \/ Goto(t, "answer")) /\ UNCHANGED then
      BY <1>44 DEF settleProven, Reconciled
    <2>3. PICK next \in {"fences", "answer"} : Heads(t, next) /\ Fits(t, next)
      BY <2>1, <2>2 DEF Heads, Fits, ReconcilePhase, SnapshotPlaces
    <2> QED BY <2>1, <2>3, PhasedReconcile
  <1>45. ASSUME NEW t \in Threads, ReleaseEnd(t) PROVE Phased'
    BY <1>45, TowardReleaseEnd, PlaceNames DEF ReleaseEnd, Phased
  <1>46. ASSUME NEW t \in Threads, NEW c \in Containers, ReleaseMember(t, c) PROVE Phased'
    BY <1>46 DEF ReleaseMember, Started, Phased, Toward
  <1>47. ASSUME NEW t \in Threads, NEW c \in Containers, ReleaseMemberFails(t, c)
         PROVE Phased'
    BY <1>47 DEF ReleaseMemberFails, Phased, Toward
  <1>48. ASSUME NEW t \in Resolvers, Retry(t) PROVE Phased'
    <2>1. t \in Threads /\ t \in Reconcilers /\ t # "run" /\ UNCHANGED phase
      BY <1>48, PlaceNames, ThreadAssumption DEF Retry, Reconcilers
    <2>2. intent'[t].phase = phase /\ \A u \in Threads \ {t} : intent'[u] = intent[u]
      BY <1>48, <2>1 DEF Retry, Snapshot, TypeOK, ThreadTypes
    <2>3. \/ phase \in Settled /\ releaseFence(t, "clear")
          \/ Goto(t, "answer") /\ UNCHANGED then
          \/ phase \in Phases \ Settled /\ Goto(t, "reconcile") /\ UNCHANGED then
      BY <1>48 DEF Retry, TypeOK, RowTypes
    <2>4. \/ phase \in Settled /\ Toward(t)' = "clear"
          \/ Toward(t)' = "answer"
          \/ phase \in Phases \ Settled /\ Toward(t)' = "reconcile"
      BY <2>1, <2>3, TowardGoto, TowardRelease
    <2>5. \A u \in Threads \ {t} : Toward(u)' = Toward(u)
      BY <2>1, <2>3, TowardGoto, TowardRelease
    <2>6. ReconcilePhase(Toward(t)', phase)
      BY <2>4 DEF ReconcilePhase
    <2> QED BY <2>1, <2>2, <2>5, <2>6, PlaceNames DEF Phased
  <1>49. ASSUME NEW t \in Resolvers, ReleaseFenceRequest(t) PROVE Phased'
    <2>1. t \in Threads /\ t \in Reconcilers /\ t # "run" /\ UNCHANGED phase
      BY <1>49, PlaceNames, ThreadAssumption DEF ReleaseFenceRequest, Reconcilers
    <2>2. Toward(t)' = "accept_released" /\ \A u \in Threads \ {t} :
             Toward(u)' = Toward(u)
      BY <1>49, <2>1, TowardRelease DEF ReleaseFenceRequest
    <2>3. intent'[t].phase = phase /\ \A u \in Threads \ {t} : intent'[u] = intent[u]
      BY <1>49, <2>1 DEF ReleaseFenceRequest, Snapshot, TypeOK, ThreadTypes
    <2>4. ReconcilePhase("accept_released", phase)
      BY <1>49, RowNames DEF ReleaseFenceRequest, ReconcilePhase, TypeOK, RowTypes
    <2> QED BY <2>1, <2>2, <2>3, <2>4, PlaceNames DEF Phased
  <1>50. ASSUME NEW t \in Resolvers, AcceptReleased(t) PROVE Phased'
    <2>1. At(t, "accept_released") /\ UNCHANGED <<phase, intent, then>> /\ t \in Threads
          /\ t \in Reconcilers /\ t # "run"
      BY <1>50, PlaceNames, ThreadAssumption DEF AcceptReleased, Reconcilers
    <2>2. PICK place \in {"answer", "accept_status"} : Goto(t, place)
      BY <1>50 DEF AcceptReleased, Call
    <2>3. Toward(t)' = place /\ \A u \in Threads \ {t} : Toward(u)' = Toward(u)
      BY <2>1, <2>2, TowardGoto
    <2>4. ReconcilePhase("accept_released", phase) /\ intent[t].phase = phase
      BY <2>1, TowardAt DEF Phased, SnapshotPlaces
    <2>5. ReconcilePhase(place, phase)
      BY <2>2, <2>4 DEF ReconcilePhase
    <2> QED BY <2>1, <2>3, <2>4, <2>5, PlaceNames DEF Phased
  <1>51. ASSUME NEW t \in Resolvers, AcceptStatus(t) PROVE Phased'
    <2>1. At(t, "accept_status") /\ UNCHANGED <<intent, then>> /\ t \in Reconcilers
      BY <1>51 DEF AcceptStatus, Reconcilers
    <2>2. intent[t].phase = phase
      BY <2>1, PhaseRead DEF SnapshotPlaces
    <2>3. \/ Goto(t, "accept_cleaned") /\ UNCHANGED phase /\ phase = "swapped"
          \/ Goto(t, "answer")
      BY <1>51, <2>2 DEF AcceptStatus, Call
    <2>4. PICK to \in {"accept_cleaned", "answer"} : Heads(t, to) /\ Fits(t, to)
      BY <2>1, <2>3 DEF Heads, Fits, ReconcilePhase, SnapshotPlaces
    <2> QED BY <2>1, <2>4, PhasedReconcile
  <1>52. ASSUME NEW t \in Resolvers, AcceptCleaned(t) PROVE Phased'
    <2>1. At(t, "accept_cleaned") /\ UNCHANGED then
      BY <1>52 DEF AcceptCleaned
    <2>2. Goto(t, "answer")
      BY <1>52 DEF AcceptCleaned
    <2>3. PICK to \in {"answer"} : Heads(t, to) /\ Fits(t, to)
      BY <2>1, <2>2 DEF Heads, Fits, ReconcilePhase, SnapshotPlaces
    <2> QED BY <2>1, <2>3, PhasedReconcile DEF Reconcilers
  <1>53. ASSUME NEW t \in Threads, runSwapStep(t) PROVE Phased'
    BY <1>53 DEF runSwapStep, Phased, Toward
  <1>54. CASE Outsiders
    BY <1>54, OutsidersMove DEF Phased, Toward
  <1>55. CASE WorkloadWrites
    BY <1>55 DEF WorkloadWrites, Phased, Toward
  <1>56. CASE Crash
    BY SMTT(30), <1>56 DEF Crash, Phased, Toward, RunPhase, ReconcilePhase,
      SnapshotPlaces, Threads, Reconcilers
  <1>57. ASSUME NEW g \in Commands, Ghost(g) PROVE Phased'
    BY <1>57 DEF Ghost, Phased, Toward
  <1>58. CASE UNCHANGED vars
    BY <1>58 DEF vars, Phased, Toward
  <1> QED
    BY ZenonT(60), <1>1, <1>2, <1>3, <1>4, <1>5, <1>6, <1>7, <1>8, <1>9, <1>10, <1>11,
      <1>12, <1>13, <1>14, <1>15, <1>16, <1>17, <1>18, <1>19, <1>20, <1>21, <1>22,
      <1>23, <1>24, <1>25, <1>26, <1>27, <1>28, <1>29, <1>30, <1>31, <1>32, <1>33,
      <1>34, <1>35, <1>36, <1>37, <1>38, <1>39, <1>40, <1>41, <1>42, <1>43, <1>44,
      <1>45, <1>46, <1>47, <1>48, <1>49, <1>50, <1>51, <1>52, <1>53, <1>54, <1>55,
      <1>56, <1>57, <1>58 DEF Next, Pipeline, BootSequence, Environment, Reconcile,
      Accept, Releases, Reconcilers, Threads, Outsiders

(* A thread moves only when the dead process's helpers are gone.           *)
LEMMA NoGhosts ==
    ASSUME TypeOK, TakeTurns, Alone, NEW t \in Threads,
           pc[t] \notin {"off", "helpers", "failed"}
    PROVE  ghosts = {}
  BY PlaceNames DEF TakeTurns, Turns, Alone, Threads

(* A helper runs in a phase that may ask for it.                           *)
LEMMA HelperPhase ==
    ASSUME TypeOK, TakeTurns, Phased, NEW t \in Threads, helper[t] # "idle"
    PROVE  CommandPhase(helper[t], phase)
  <1>1. pc[t] \in CallsOf(t) /\ helper[t] = CommandAt(pc[t])
    BY DEF TakeTurns, AtPlaces
  <1>2. Toward(t) = pc[t]
    BY <1>1 DEF Toward, CallsOf, RunCalls, ReconcileCalls, AcceptCalls
  <1>3. CASE t = "run"
    <2>1. RunPhase(pc[t], phase) /\ pc[t] \in RunCalls
      BY <1>1, <1>2, <1>3 DEF Phased, CallsOf
    <2> QED
      BY <1>1, <2>1 DEF RunPhase, RunCalls, CommandAt, CommandPhase, FENCED_PHASES,
        Undecided
  <1>4. CASE t # "run"
    <2>1. ReconcilePhase(pc[t], phase) /\ pc[t] \in ReconcileCalls \cup AcceptCalls
      BY <1>1, <1>2, <1>4 DEF Phased, CallsOf, Threads, Reconcilers
    <2> QED
      BY <1>1, <2>1 DEF ReconcilePhase, ReconcileCalls, AcceptCalls, CommandAt,
        CommandPhase, FENCED_PHASES, Undecided
  <1> QED BY <1>3, <1>4

(* Nothing moves beside a helper of a dead process, and a helper runs in a *)
(* phase that may ask for it.                                              *)
LEMMA AloneStep ==
    ASSUME OneAtATime, TypeOK, TakeTurns, Phased, Alone, [Next]_vars
    PROVE  Alone'
  <1>1. CASE prepareOverwriteAdmission
    BY <1>1, PlaceNames DEF prepareOverwriteAdmission, Goto, At, Alone
  <1>2. CASE admitOverwrite
    BY <1>2, NoGhosts, PlaceNames DEF admitOverwrite, At, Alone
  <1>3. CASE stagePoint
    BY <1>3, NoGhosts, PlaceNames DEF stagePoint, At, Alone
  <1>4. CASE createLabelledVolume
    BY <1>4, NoGhosts, PlaceNames DEF createLabelledVolume, At, Alone
  <1>5. CASE RestoreStaging
    BY <1>5, NoGhosts, PlaceNames DEF RestoreStaging, At, Alone
  <1>6. CASE Unstage
    BY <1>6, NoGhosts, PlaceNames DEF Unstage, At, Alone
  <1>7. CASE removeStaging
    BY <1>7, NoGhosts, PlaceNames DEF removeStaging, At, Alone
  <1>8. CASE fenceWorkloads
    BY <1>8, NoGhosts, PlaceNames DEF fenceWorkloads, At, Alone
  <1>9. CASE waitForStartsInFlight
    BY <1>9, NoGhosts, PlaceNames DEF waitForStartsInFlight, At, Alone
  <1>10. CASE recordMembers
    BY <1>10, NoGhosts, PlaceNames DEF recordMembers, At, Alone
  <1>11. ASSUME NEW c \in Containers, Pin(c) PROVE Alone'
    BY <1>11 DEF Pin, Alone
  <1>12. ASSUME NEW c \in Containers, Stop(c) PROVE Alone'
    BY <1>12 DEF Stop, Alone
  <1>13. CASE FenceEnd
    BY <1>13, NoGhosts, PlaceNames DEF FenceEnd, At, Alone
  <1>14. CASE RecheckBeforePoint
    BY <1>14, NoGhosts, PlaceNames DEF RecheckBeforePoint, At, Alone
  <1>15. CASE BeginPoint
    BY <1>15, NoGhosts, PlaceNames DEF BeginPoint, At, Alone
  <1>16. CASE takePreRestorePoint
    BY <1>16, NoGhosts, PlaceNames DEF takePreRestorePoint, At, Alone
  <1>17. CASE materializePoint
    BY <1>17, NoGhosts, PlaceNames DEF materializePoint, At, Alone
  <1>18. CASE Materialized
    BY <1>18, NoGhosts, PlaceNames DEF Materialized, At, Alone
  <1>19. CASE Prepared
    BY <1>19, NoGhosts, PlaceNames DEF Prepared, At, Alone
  <1>20. CASE RecheckBeforeSwap
    BY <1>20, NoGhosts, PlaceNames DEF RecheckBeforeSwap, At, Alone
  <1>21. CASE Commit
    BY <1>21, NoGhosts, PlaceNames DEF Commit, At, Alone
  <1>22. CASE swapAndCleanup
    BY <1>22, NoGhosts, PlaceNames DEF swapAndCleanup, At, Alone
  <1>23. CASE releaseAfterCommit
    BY <1>23, NoGhosts, PlaceNames DEF releaseAfterCommit, At, Alone
  <1>24. CASE CommitSettle
    BY <1>24, NoGhosts, PlaceNames DEF CommitSettle, At, Alone
  <1>25. CASE RollbackBegin
    BY <1>25, NoGhosts, PlaceNames DEF RollbackBegin, At, Alone
  <1>26. CASE RollbackDone
    BY <1>26, NoGhosts, PlaceNames DEF RollbackDone, At, Alone
  <1>27. CASE RollbackStaging
    BY <1>27, NoGhosts, PlaceNames DEF RollbackStaging, At, Alone
  <1>28. CASE rollbackIntent
    BY <1>28, NoGhosts, PlaceNames DEF rollbackIntent, At, Alone
  <1>29. CASE releaseStacks
    BY <1>29, NoGhosts, PlaceNames DEF releaseStacks, At, Alone
  <1>30. CASE Boot
    BY <1>30, PlaceNames DEF Boot, Goto, Alone, TypeOK, ThreadTypes
  <1>31. CASE removeForeignEpochHelpers
    BY <1>31, PlaceNames DEF removeForeignEpochHelpers, Goto, Alone, TypeOK,
      ThreadTypes, OneAtATime
  <1>32. CASE reconcileOverwriteIntentsAtStartup
    BY <1>32, NoGhosts, PlaceNames DEF reconcileOverwriteIntentsAtStartup, At, Alone
  <1>33. ASSUME NEW t \in Reconcilers, reconcileOverwriteIntent(t) PROVE Alone'
    BY <1>33, NoGhosts, PlaceNames DEF reconcileOverwriteIntent, At, Alone
  <1>34. ASSUME NEW t \in Reconcilers, ReadUnderWorkloads(t) PROVE Alone'
    BY <1>34, NoGhosts, PlaceNames DEF ReadUnderWorkloads, At, Alone
  <1>35. ASSUME NEW t \in Reconcilers, Undone(t) PROVE Alone'
    BY <1>35, NoGhosts, PlaceNames DEF Undone, At, Alone
  <1>36. ASSUME NEW t \in Reconcilers, ReconcileStaging(t) PROVE Alone'
    BY <1>36, NoGhosts, PlaceNames DEF ReconcileStaging, At, Alone
  <1>37. ASSUME NEW t \in Reconcilers, JournalDecides(t) PROVE Alone'
    BY <1>37, NoGhosts, PlaceNames DEF JournalDecides, At, Alone
  <1>38. ASSUME NEW t \in Reconcilers, CommitFinished(t) PROVE Alone'
    BY <1>38, NoGhosts, PlaceNames DEF CommitFinished, At, Alone
  <1>39. ASSUME NEW t \in Reconcilers, RollForward(t) PROVE Alone'
    BY <1>39, NoGhosts, PlaceNames DEF RollForward, At, Alone
  <1>40. ASSUME NEW t \in Reconcilers, ForwardCleaned(t) PROVE Alone'
    BY <1>40, NoGhosts, PlaceNames DEF ForwardCleaned, At, Alone
  <1>41. ASSUME NEW t \in Reconcilers, SettleForward(t) PROVE Alone'
    BY <1>41, NoGhosts, PlaceNames DEF SettleForward, At, Alone
  <1>42. ASSUME NEW t \in Reconcilers, clearFenceOutcome(t) PROVE Alone'
    BY <1>42, NoGhosts, PlaceNames DEF clearFenceOutcome, At, Alone
  <1>43. ASSUME NEW t \in Reconcilers, settleInterruptedOverwriteOperations(t)
         PROVE Alone'
    BY <1>43, NoGhosts, PlaceNames DEF settleInterruptedOverwriteOperations, At, Alone
  <1>44. ASSUME NEW t \in Reconcilers, NEW to \in Settled, settleProven(t, to)
         PROVE Alone'
    BY <1>44, NoGhosts, PlaceNames DEF settleProven, At, Alone
  <1>45. ASSUME NEW t \in Threads, ReleaseEnd(t) PROVE Alone'
    BY <1>45, NoGhosts, PlaceNames DEF ReleaseEnd, At, Alone
  <1>46. ASSUME NEW t \in Threads, NEW c \in Containers, ReleaseMember(t, c) PROVE Alone'
    BY <1>46 DEF ReleaseMember, Started, Alone
  <1>47. ASSUME NEW t \in Threads, NEW c \in Containers, ReleaseMemberFails(t, c)
         PROVE Alone'
    BY <1>47 DEF ReleaseMemberFails, Alone
  <1>48. ASSUME NEW t \in Resolvers, Retry(t) PROVE Alone'
    BY <1>48 DEF Retry, Ready, Alone
  <1>49. ASSUME NEW t \in Resolvers, ReleaseFenceRequest(t) PROVE Alone'
    BY <1>49 DEF ReleaseFenceRequest, Ready, Alone
  <1>50. ASSUME NEW t \in Resolvers, AcceptReleased(t) PROVE Alone'
    BY <1>50, NoGhosts, PlaceNames DEF AcceptReleased, At, Alone
  <1>51. ASSUME NEW t \in Resolvers, AcceptStatus(t) PROVE Alone'
    BY <1>51, NoGhosts, PlaceNames DEF AcceptStatus, At, Alone
  <1>52. ASSUME NEW t \in Resolvers, AcceptCleaned(t) PROVE Alone'
    BY <1>52, NoGhosts, PlaceNames DEF AcceptCleaned, At, Alone
  <1>53. ASSUME NEW t \in Threads, runSwapStep(t) PROVE Alone'
    BY <1>53 DEF runSwapStep, Alone
  <1>54. CASE Outsiders
    BY <1>54, OutsidersMove DEF Alone
  <1>55. CASE WorkloadWrites
    BY <1>55 DEF WorkloadWrites, Alone
  <1>56. CASE Crash
    <2>1. pc'["boot"] = "off" /\ UNCHANGED phase
      BY <1>56, PlaceNames DEF Crash
    <2>2. \A g \in ghosts' :
             g \in ghosts \/ \E t \in Threads : helper[t] # "idle" /\ g = helper[t]
      BY <1>56 DEF Crash
    <2> QED BY <2>1, <2>2, HelperPhase DEF Alone
  <1>57. ASSUME NEW g \in Commands, Ghost(g) PROVE Alone'
    BY <1>57 DEF Ghost, Alone
  <1>58. CASE UNCHANGED vars
    BY <1>58 DEF vars, Alone
  <1> QED
    BY ZenonT(60), <1>1, <1>2, <1>3, <1>4, <1>5, <1>6, <1>7, <1>8, <1>9, <1>10, <1>11,
      <1>12, <1>13, <1>14, <1>15, <1>16, <1>17, <1>18, <1>19, <1>20, <1>21, <1>22,
      <1>23, <1>24, <1>25, <1>26, <1>27, <1>28, <1>29, <1>30, <1>31, <1>32, <1>33,
      <1>34, <1>35, <1>36, <1>37, <1>38, <1>39, <1>40, <1>41, <1>42, <1>43, <1>44,
      <1>45, <1>46, <1>47, <1>48, <1>49, <1>50, <1>51, <1>52, <1>53, <1>54, <1>55,
      <1>56, <1>57, <1>58 DEF Next, Pipeline, BootSequence, Environment, Reconcile,
      Accept, Releases, Reconcilers, Threads, Outsiders

(* What a helper may leave behind fits the phase it runs in, and the place *)
(* of the thread that waits for it; its answer tells the truth.            *)
LEMMA ReachKeepsPhase ==
    ASSUME NEW command \in Commands, NEW p, NEW w \in Works, NEW v \in Reach(command, w),
           CommandPhase(command, p), PhaseWork(p, w)
    PROVE  PhaseWork(p, v)
  <1>1. v = w \/ command \in {"restore", "prepare", "commit", "rollback", "cleanup"}
    BY DEF Reach, Commands
  <1>2. CASE v = w
    BY <1>2
  <1>3. CASE command \in {"restore", "prepare"}
    BY <1>3 DEF CommandPhase, PhaseWork, Reach, Works
  <1>4. CASE command = "commit"
    BY <1>4 DEF CommandPhase, PhaseWork, Reach, Works, Undoable, Done, Undecided
  <1>5. CASE command = "rollback"
    BY <1>5 DEF CommandPhase, PhaseWork, Reach, Works, Undoable, Done, Undecided,
      FENCED_PHASES
  <1>6. CASE command = "cleanup"
    BY <1>6 DEF CommandPhase, PhaseWork, Reach, Works, Undoable, Done
  <1> QED BY <1>1, <1>2, <1>3, <1>4, <1>5, <1>6

(* A helper called at a place keeps what the place says of the volume, and *)
(* its answer tells what the volume holds.                                 *)
LEMMA AnswerTellsWork ==
    ASSUME NEW t \in Threads, NEW place \in CallsOf(t), NEW w \in Works,
           NEW v \in Reach(CommandAt(place), w), NEW a \in Answers(CommandAt(place), v),
           PlaceWork(place, w)
    PROVE  PlaceWork(place, v) /\ AnswerWork(place, a, v)
  <1>1. place \in {"materialized", "prepared", "committed", "recommitted", "confirm",
                  "confirm_reported", "confirm_last", "cleaned", "rollback_done", "read",
                  "undone", "decide", "finish", "forwarded", "accept_status",
                  "accept_cleaned"}
    BY DEF CallsOf, RunCalls, ReconcileCalls, AcceptCalls
  <1>2. CASE place \in {"materialized", "prepared", "recommitted"}
    BY <1>2 DEF PlaceWork, AnswerWork
  <1>3. CASE place \in {"rollback_done", "undone"}
    <2>1. CommandAt(place) = "rollback"
      BY <1>3 DEF CommandAt
    <2> QED BY <1>3, <2>1 DEF PlaceWork, AnswerWork, Reach, Answers, Undoable, Works
  <1>4. CASE place \in {"cleaned", "forwarded", "accept_cleaned"}
    <2>1. CommandAt(place) = "cleanup"
      BY <1>4 DEF CommandAt
    <2> QED BY <1>4, <2>1 DEF PlaceWork, AnswerWork, Reach, Answers, Done, Works
  <1>5. CASE place \in {"committed", "finish"}
    <2>1. CommandAt(place) = "commit"
      BY <1>5 DEF CommandAt
    <2> QED BY <1>5, <2>1 DEF PlaceWork, AnswerWork, Answers, Works
  <1>6. CASE place \in {"confirm", "confirm_reported", "confirm_last", "read", "decide",
                       "accept_status"}
    <2>1. CommandAt(place) = "status"
      BY <1>6 DEF CommandAt
    <2>2. v = w
      BY <2>1 DEF Reach
    <2>3. a \in StatusOf(v) \cup {"error", "killed"}
      BY <2>1 DEF Answers, StatusOf
    <2> QED BY <1>6, <2>2, <2>3 DEF AnswerWork, PlaceWork
  <1> QED BY <1>1, <1>2, <1>3, <1>4, <1>5, <1>6

(* A step of one thread that leaves the volume alone.                      *)
LEMMA TruthMove ==
    ASSUME TypeOK, Truth, NEW t \in Threads, UNCHANGED work,
           \A u \in Threads \ {t} : /\ pc'[u] = pc[u] /\ then'[u] = then[u]
                                    /\ helper'[u] = helper[u] /\ answer'[u] = answer[u],
           PhaseWork(phase', work), PlaceWork(Toward(t)', work),
           helper'[t] = "idle" => AnswerWork(pc'[t], answer'[t], work)
    PROVE  Truth'
  <1>1. \A u \in Threads \ {t} : Toward(u)' = Toward(u)
    BY DEF Toward
  <1> QED BY <1>1 DEF Truth

(* Places at which nothing is said of the volume, or of an answer.         *)
LEMMA FreePlaces ==
    /\ \A place \in {"off", "done", "stage", "helpers", "failed", "fences", "settle", "answer",
                     "reconcile", "clear", "accept_released", "release", "read", "decide",
                     "finish", "accept_status", "return", "materialized", "prepared",
                     "committed", "confirm", "recommitted", "confirm_last"} :
          \A w : PlaceWork(place, w)
    /\ \A place \in {"off", "done", "stage", "helpers", "failed", "fences", "settle", "answer",
                     "reconcile", "clear", "accept_released", "release", "unstage",
                     "forward", "rollback_settle", "settle_rolled_back",
                     "settle_committed", "settle_forward", "return", "rollback",
                     "rollback_staging", "commit_settle", "commit", "recheck_swap"} :
          \A a, w : AnswerWork(place, a, w)
  BY SMTT(30) DEF PlaceWork, AnswerWork

(* A thread goes to a place of which what is true of the volume may be     *)
(* said, and leaves the volume and its answer alone.                       *)
LEMMA TruthGo ==
    ASSUME TypeOK, Truth, NEW t \in Threads, NEW to, to # "release", Heads(t, to),
           UNCHANGED <<work, helper, answer>>, PhaseWork(phase', work),
           PlaceWork(to, work), AnswerWork(to, answer[t], work)
    PROVE  Truth'
  <1>1. Toward(t)' = to
    BY TowardGoto, TowardRelease DEF Heads
  <1>2. pc'[t] \in {to, "release"}
    BY DEF Heads, Goto, releaseFence, TypeOK, ThreadTypes
  <1>3. \A u \in Threads \ {t} : pc'[u] = pc[u] /\ then'[u] = then[u]
    BY DEF Heads, Goto, releaseFence, TypeOK, ThreadTypes
  <1>4. AnswerWork(pc'[t], answer'[t], work)
    BY <1>2, FreePlaces
  <1> QED BY <1>1, <1>3, <1>4, TruthMove

(* A thread calls a helper and waits for it.                               *)
LEMMA TruthCall ==
    ASSUME TypeOK, Truth, NEW t \in Threads, NEW to, to # "release",
           NEW command \in Commands, Call(t, command, to),
           UNCHANGED <<work, then>>, PhaseWork(phase', work), PlaceWork(to, work)
    PROVE  Truth'
  <1>1. Toward(t)' = to
    BY TowardGoto DEF Call
  <1>2. helper'[t] # "idle"
    BY DEF Call, Commands, TypeOK, ThreadTypes
  <1>3. \A u \in Threads \ {t} : /\ pc'[u] = pc[u] /\ helper'[u] = helper[u]
                                 /\ answer'[u] = answer[u]
    BY DEF Call, Goto, TypeOK, ThreadTypes
  <1> QED BY <1>1, <1>2, <1>3, TruthMove

(* Until the safety copy is taken the pipeline moves over an untouched     *)
(* volume.                                                                 *)
Early == {"none", "recorded", "staging", "staged_verified", "fenced", "protecting"}
EarlyPlaces == {"admit", "create", "copy", "unstage", "remove", "recheck", "drain", "observe",
                "fence", "protect", "begin", "capture", "materialize", "rollback", "return"}
LEMMA TruthEarly ==
    ASSUME TypeOK, Truth, phase \in Early, phase' \in Early \cup {"rolled_back"},
           NEW to \in EarlyPlaces, Goto("run", to), UNCHANGED <<work, helper, answer, then>>
    PROVE  Truth'
  <1>1. work = "none"
    BY DEF Truth, PhaseWork, Early
  <1>2. PhaseWork(phase', "none")
    BY DEF PhaseWork, Early
  <1>3. PlaceWork(to, "none") /\ \A a : AnswerWork(to, a, "none")
    BY DEF PlaceWork, AnswerWork, EarlyPlaces, Undoable
  <1>4. to # "release"
    BY DEF EarlyPlaces
  <1> QED BY <1>1, <1>2, <1>3, <1>4, TruthGo, PlaceNames DEF Heads

(* What the phase, the place of a thread and the answer it read say of the *)
(* work directory stays true, whatever a helper does and wherever it dies. *)
LEMMA TruthStep ==
    ASSUME OneAtATime, TypeOK, TakeTurns, Unrecorded, Phased, Alone, Truth,
           [Next]_vars
    PROVE  Truth'
  <1>1. CASE prepareOverwriteAdmission
    <2>1. phase \in Early
      BY <1>1 DEF prepareOverwriteAdmission, Early
    <2>2. phase' \in Early \cup {"rolled_back"}
             /\ UNCHANGED <<work, helper, answer, then>>
      BY <1>1, <2>1 DEF prepareOverwriteAdmission, Early
    <2>3. PICK to \in {"admit"} : Goto("run", to)
      BY <1>1 DEF prepareOverwriteAdmission
    <2> QED BY <2>1, <2>2, <2>3, TruthEarly DEF EarlyPlaces
  <1>2. CASE admitOverwrite
    <2>1. /\ "run" \in Threads /\ UNCHANGED work
          /\ \A u \in Threads \ {"run"} : /\ pc'[u] = pc[u] /\ then'[u] = then[u]
                                    /\ helper'[u] = helper[u] /\ answer'[u] = answer[u]
      BY <1>2, PlaceNames DEF admitOverwrite, Goto, TypeOK, ThreadTypes
    <2>2. PhaseWork(phase', work)
      BY <1>2 DEF admitOverwrite, At, Unrecorded, PhaseWork, Truth
    <2>3. PlaceWork(Toward("run")', work) /\ AnswerWork(pc'["run"], answer'["run"], work)
      <3>1. Toward("run")' \in {"stage", "off"} /\ pc'["run"] \in {"stage", "off"} \cup {"release"}
        BY <1>2, <2>1 DEF admitOverwrite, Goto, Toward, TypeOK, ThreadTypes
      <3> QED BY <3>1, FreePlaces
    <2> QED BY <2>1, <2>2, <2>3, TruthMove
  <1>3. CASE stagePoint
    <2>1. phase \in Early
      BY <1>3, TowardAt, PlaceNames DEF stagePoint, Phased, RunPhase, Early
    <2>2. phase' \in Early \cup {"rolled_back"}
             /\ UNCHANGED <<work, helper, answer, then>>
      BY <1>3, <2>1 DEF stagePoint, advance, Early
    <2>3. PICK to \in {"create"} : Goto("run", to)
      BY <1>3 DEF stagePoint
    <2> QED BY <2>1, <2>2, <2>3, TruthEarly DEF EarlyPlaces
  <1>4. CASE createLabelledVolume
    <2>1. phase \in Early
      BY <1>4, TowardAt, PlaceNames DEF createLabelledVolume, Phased, RunPhase, Early
    <2>2. phase' \in Early \cup {"rolled_back"}
             /\ UNCHANGED <<work, helper, answer, then>>
      BY <1>4, <2>1 DEF createLabelledVolume, Early
    <2>3. PICK to \in {"copy", "unstage", "rollback"} : Goto("run", to)
      BY <1>4 DEF createLabelledVolume, settleRollback
    <2> QED BY <2>1, <2>2, <2>3, TruthEarly DEF EarlyPlaces
  <1>5. CASE RestoreStaging
    <2>1. phase \in Early
      BY <1>5, TowardAt, PlaceNames DEF RestoreStaging, Phased, RunPhase, Early
    <2>2. phase' \in Early \cup {"rolled_back"}
             /\ UNCHANGED <<work, helper, answer, then>>
      BY <1>5, <2>1 DEF RestoreStaging, advance, Early
    <2>3. PICK to \in {"remove", "unstage"} : Goto("run", to)
      BY <1>5 DEF RestoreStaging
    <2> QED BY <2>1, <2>2, <2>3, TruthEarly DEF EarlyPlaces
  <1>6. CASE Unstage
    <2>1. phase \in Early
      BY <1>6, TowardAt, PlaceNames DEF Unstage, Phased, RunPhase, Early
    <2>2. phase' \in Early \cup {"rolled_back"}
             /\ UNCHANGED <<work, helper, answer, then>>
      BY <1>6, <2>1 DEF Unstage, advance, update, Early
    <2>3. PICK to \in {"return"} : Goto("run", to)
      BY <1>6 DEF Unstage, Finish
    <2> QED BY <2>1, <2>2, <2>3, TruthEarly DEF EarlyPlaces
  <1>7. CASE removeStaging
    <2>1. phase \in Early
      BY <1>7, TowardAt, PlaceNames DEF removeStaging, Phased, RunPhase, Early
    <2>2. phase' \in Early \cup {"rolled_back"}
             /\ UNCHANGED <<work, helper, answer, then>>
      BY <1>7, <2>1 DEF removeStaging, update, Early
    <2>3. PICK to \in {"recheck", "return"} : Goto("run", to)
      BY <1>7 DEF removeStaging, Finish
    <2> QED BY <2>1, <2>2, <2>3, TruthEarly DEF EarlyPlaces
  <1>8. CASE fenceWorkloads
    <2>1. phase \in Early
      BY <1>8, TowardAt, PlaceNames DEF fenceWorkloads, Phased, RunPhase, Early
    <2>2. phase' \in Early \cup {"rolled_back"}
             /\ UNCHANGED <<work, helper, answer, then>>
      BY <1>8, <2>1 DEF fenceWorkloads, advance, Early
    <2>3. PICK to \in {"drain", "rollback", "return"} : Goto("run", to)
      BY <1>8 DEF fenceWorkloads, settleRollback, Finish
    <2> QED BY <2>1, <2>2, <2>3, TruthEarly DEF EarlyPlaces
  <1>9. CASE waitForStartsInFlight
    <2>1. phase \in Early
      BY <1>9, TowardAt, PlaceNames DEF waitForStartsInFlight, Phased, RunPhase, Early
    <2>2. phase' \in Early \cup {"rolled_back"}
             /\ UNCHANGED <<work, helper, answer, then>>
      BY <1>9, <2>1 DEF waitForStartsInFlight, Early
    <2>3. PICK to \in {"observe", "rollback"} : Goto("run", to)
      BY <1>9 DEF waitForStartsInFlight, settleRollback
    <2> QED BY <2>1, <2>2, <2>3, TruthEarly DEF EarlyPlaces
  <1>10. CASE recordMembers
    <2>1. phase \in Early
      BY <1>10, TowardAt, PlaceNames DEF recordMembers, Phased, RunPhase, Early
    <2>2. phase' \in Early \cup {"rolled_back"}
             /\ UNCHANGED <<work, helper, answer, then>>
      BY <1>10, <2>1 DEF recordMembers, Early
    <2>3. PICK to \in {"fence", "rollback", "return"} : Goto("run", to)
      BY <1>10 DEF recordMembers, settleRollback, Finish
    <2> QED BY <2>1, <2>2, <2>3, TruthEarly DEF EarlyPlaces
  <1>11. ASSUME NEW c \in Containers, Pin(c) PROVE Truth'
    BY <1>11 DEF Pin, Truth, Toward
  <1>12. ASSUME NEW c \in Containers, Stop(c) PROVE Truth'
    BY <1>12 DEF Stop, Truth, Toward
  <1>13. CASE FenceEnd
    <2>1. phase \in Early
      BY <1>13, TowardAt, PlaceNames DEF FenceEnd, Phased, RunPhase, Early
    <2>2. phase' \in Early \cup {"rolled_back"}
             /\ UNCHANGED <<work, helper, answer, then>>
      BY <1>13, <2>1 DEF FenceEnd, advance, Early
    <2>3. PICK to \in {"protect", "rollback"} : Goto("run", to)
      BY <1>13 DEF FenceEnd, settleRollback
    <2> QED BY <2>1, <2>2, <2>3, TruthEarly DEF EarlyPlaces
  <1>14. CASE RecheckBeforePoint
    <2>1. phase \in Early
      BY <1>14, TowardAt, PlaceNames DEF RecheckBeforePoint, Phased, RunPhase, Early
    <2>2. phase' \in Early \cup {"rolled_back"}
             /\ UNCHANGED <<work, helper, answer, then>>
      BY <1>14, <2>1 DEF RecheckBeforePoint, Early
    <2>3. PICK to \in {"begin", "rollback"} : Goto("run", to)
      BY <1>14 DEF RecheckBeforePoint, settleRollback
    <2> QED BY <2>1, <2>2, <2>3, TruthEarly DEF EarlyPlaces
  <1>15. CASE BeginPoint
    <2>1. phase \in Early
      BY <1>15, TowardAt, PlaceNames DEF BeginPoint, Phased, RunPhase, Early
    <2>2. phase' \in Early \cup {"rolled_back"}
             /\ UNCHANGED <<work, helper, answer, then>>
      BY <1>15, <2>1 DEF BeginPoint, Early
    <2>3. PICK to \in {"capture", "rollback"} : Goto("run", to)
      BY <1>15 DEF BeginPoint, settleRollback
    <2> QED BY <2>1, <2>2, <2>3, TruthEarly DEF EarlyPlaces
  <1>16. CASE takePreRestorePoint
    <2>1. phase \in Early
      BY <1>16, TowardAt, PlaceNames DEF takePreRestorePoint, Phased, RunPhase, Early
    <2>2. phase' \in Early \cup {"rolled_back"}
             /\ UNCHANGED <<work, helper, answer, then>>
      BY <1>16, <2>1 DEF takePreRestorePoint, Early
    <2>3. PICK to \in {"materialize", "rollback"} : Goto("run", to)
      BY <1>16 DEF takePreRestorePoint, settleRollback
    <2> QED BY <2>1, <2>2, <2>3, TruthEarly DEF EarlyPlaces
  <1>17. CASE materializePoint
    <2>1. phase = "protecting" /\ Call("run", "restore", "materialized")
             /\ UNCHANGED <<work, then>>
      BY <1>17, TowardAt, PlaceNames DEF materializePoint, Phased, RunPhase
    <2>2. phase' \in {"protecting", "materializing"}
      BY <1>17, <2>1 DEF materializePoint, advance
    <2>3. PhaseWork(phase', work)
      BY <2>1, <2>2 DEF Truth, PhaseWork
    <2> QED BY <2>1, <2>3, TruthCall, FreePlaces, PlaceNames DEF Commands
  <1>18. CASE Materialized
    <2>1. phase = "materializing" /\ UNCHANGED <<phase, work, then>>
      BY <1>18, TowardAt, PlaceNames DEF Materialized, Phased, RunPhase
    <2>2. PhaseWork(phase', work) /\ PlaceWork("rollback", work)
      BY <2>1 DEF Truth, PhaseWork, PlaceWork, Undoable
    <2>3. \/ Call("run", "prepare", "prepared")
          \/ Goto("run", "rollback") /\ UNCHANGED <<helper, answer>>
      BY <1>18 DEF Materialized, settleRollback
    <2> QED
      BY <2>1, <2>2, <2>3, TruthCall, TruthGo, FreePlaces, PlaceNames DEF Commands, Heads
  <1>19. CASE Prepared
    <2>1. phase = "materializing" /\ UNCHANGED <<work, helper, answer, then>>
      BY <1>19, TowardAt, PlaceNames DEF Prepared, Phased, RunPhase
    <2>2. phase' \in {"materializing", "swapping"}
      BY <1>19, <2>1 DEF Prepared, advance
    <2>3. /\ PhaseWork(phase', work)
          /\ PlaceWork("recheck_swap", work) /\ PlaceWork("rollback", work)
      BY <2>1, <2>2 DEF Truth, PhaseWork, PlaceWork, Undoable
    <2>4. PICK to \in {"recheck_swap", "rollback"} : Goto("run", to)
      BY <1>19 DEF Prepared, settleRollback
    <2> QED BY <2>1, <2>3, <2>4, TruthGo, FreePlaces, PlaceNames DEF Heads
  <1>20. CASE RecheckBeforeSwap
    <2>1. At("run", "recheck_swap") /\ UNCHANGED <<phase, work, helper, answer, then>>
      BY <1>20 DEF RecheckBeforeSwap
    <2>2. PlaceWork("recheck_swap", work)
      BY <2>1, TowardAt, PlaceNames DEF Truth
    <2>3. PhaseWork(phase', work) /\ PlaceWork("commit", work) /\ PlaceWork("rollback", work)
      BY <2>1, <2>2 DEF Truth, PlaceWork
    <2>4. PICK to \in {"commit", "rollback"} : Goto("run", to)
      BY <1>20 DEF RecheckBeforeSwap, settleRollback
    <2> QED BY <2>1, <2>3, <2>4, TruthGo, FreePlaces, PlaceNames DEF Heads
  <1>21. CASE Commit
    <2>1. PhaseWork(phase', work) /\ UNCHANGED <<work, then>>
      BY <1>21 DEF Commit, Truth
    <2>2. At("run", "committed") => AnswerWork("committed", answer["run"], work)
      BY PlaceNames DEF At, Truth
    <2>3. \/ Call("run", "commit", "committed")
          \/ /\ At("run", "committed") /\ answer["run"] = "swapped"
             /\ Call("run", "status", "confirm_reported")
          \/ Call("run", "status", "confirm") \/ Call("run", "status", "confirm_last")
      BY <1>21 DEF Commit
    <2>4. At("run", "committed") /\ answer["run"] = "swapped" => PlaceWork("confirm_reported", work)
      BY <2>2 DEF AnswerWork, PlaceWork
    <2> QED BY <2>1, <2>3, <2>4, TruthCall, FreePlaces, PlaceNames DEF Commands
  <1>22. CASE swapAndCleanup
    <2>1. PICK place \in {"confirm", "confirm_reported", "confirm_last"} :
                  At("run", place)
      BY <1>22 DEF swapAndCleanup
    <2>2. /\ phase = "swapping" /\ work \in Undoable \cup {"marked"}
          /\ PlaceWork(place, work) /\ AnswerWork(place, answer["run"], work)
      BY <2>1, TowardAt, PlaceNames DEF Phased, RunPhase, Truth, PhaseWork, At
    <2>3. answer["run"] \in StatusOf(work) \cup {"error", "killed", "inconsistent"}
      BY <2>2 DEF AnswerWork
    <2>4. readSwapStatus = "swapped" => work \in {"marked", "torn"}
      <3>1. CASE answer["run"] = "swapped"
        BY <2>2, <2>3, <3>1 DEF StatusOf, Undoable
      <3>2. CASE answer["run"] # "swapped"
        BY <2>1, <2>2, <3>2 DEF readSwapStatus, At, PlaceWork
      <3> QED BY <3>1, <3>2
    <2>5. readSwapStatus \notin {"swapped", "inconsistent"} => work \in Undoable
      BY <2>2, <2>3 DEF readSwapStatus, StatusOf, Reports
    <2>6. UNCHANGED <<work, then>>
      BY <1>22 DEF swapAndCleanup
    <2>7. \/ /\ readSwapStatus = "swapped" /\ phase' \in {phase, "swapped"}
             /\ Call("run", "cleanup", "cleaned")
          \/ Call("run", "commit", "recommitted") /\ UNCHANGED phase
          \/ /\ phase' \in {phase, "completion_unknown"} /\ Goto("run", "return")
             /\ UNCHANGED <<helper, answer>>
          \/ /\ readSwapStatus \notin {"swapped", "inconsistent"}
             /\ Goto("run", "rollback") /\ UNCHANGED <<phase, helper, answer>>
      BY <1>22 DEF swapAndCleanup, Finish, settleRollback, advance
    <2>8. PhaseWork(phase, work) /\ PhaseWork("completion_unknown", work)
      BY DEF Truth, PhaseWork
    <2>9. work \in {"marked", "torn"} => PhaseWork("swapped", work) /\ PlaceWork("cleaned", work)
      BY DEF PhaseWork, PlaceWork, Done
    <2>10. work \in Undoable => PlaceWork("rollback", work)
      BY DEF PlaceWork
    <2>11. CASE Call("run", "cleanup", "cleaned") /\ readSwapStatus = "swapped"
      BY <2>4, <2>6, <2>7, <2>8, <2>9, <2>11, TruthCall, PlaceNames DEF Commands, Call
    <2>12. CASE Call("run", "commit", "recommitted") /\ UNCHANGED phase
      BY <2>6, <2>8, <2>12, TruthCall, FreePlaces, PlaceNames DEF Commands
    <2>13. CASE /\ phase' \in {phase, "completion_unknown"} /\ Goto("run", "return")
                /\ UNCHANGED <<helper, answer>>
      BY <2>6, <2>8, <2>13, TruthGo, FreePlaces, PlaceNames DEF Heads
    <2>14. CASE /\ readSwapStatus \notin {"swapped", "inconsistent"}
                /\ Goto("run", "rollback") /\ UNCHANGED <<phase, helper, answer>>
      BY <2>5, <2>6, <2>8, <2>10, <2>14, TruthGo, FreePlaces, PlaceNames DEF Heads
    <2> QED BY <2>7, <2>11, <2>12, <2>13, <2>14
  <1>23. CASE releaseAfterCommit
    <2>1. At("run", "cleaned") /\ UNCHANGED <<phase, work, helper, answer>>
      BY <1>23 DEF releaseAfterCommit, update
    <2>2. AnswerWork("cleaned", answer["run"], work) /\ PhaseWork(phase', work)
      BY <2>1, PlaceNames DEF At, Truth
    <2>3. ok("run") => PlaceWork("commit_settle", work)
      BY <2>2 DEF AnswerWork, PlaceWork, ok
    <2>4. \/ ok("run") /\ Heads("run", "commit_settle")
          \/ Heads("run", "return")
      BY <1>23 DEF releaseAfterCommit, Finish, Heads
    <2> QED BY <2>1, <2>2, <2>3, <2>4, TruthGo, FreePlaces, PlaceNames
  <1>24. CASE CommitSettle
    <2>1. At("run", "commit_settle")
             /\ UNCHANGED <<work, helper, answer, then>> /\ Goto("run", "return")
      BY <1>24 DEF CommitSettle, Finish
    <2>2. PlaceWork("commit_settle", work)
      BY <2>1, TowardAt, PlaceNames DEF Truth
    <2>3. phase' \in {phase, "committed"}
      BY <1>24 DEF CommitSettle, advance
    <2>4. PhaseWork(phase', work)
      BY <2>2, <2>3 DEF Truth, PhaseWork, PlaceWork
    <2> QED BY <2>1, <2>4, TruthGo, FreePlaces, PlaceNames DEF Heads
  <1>25. CASE RollbackBegin
    <2>1. At("run", "rollback")
             /\ UNCHANGED <<phase, work, then>> /\ PhaseWork(phase', work)
      BY <1>25 DEF RollbackBegin, Truth
    <2>2. PlaceWork("rollback", work) /\ RunPhase("rollback", phase)
      BY <2>1, TowardAt, PlaceNames DEF Truth, Phased
    <2>3. PlaceWork("rollback_done", work)
      BY <2>2 DEF PlaceWork
    <2>4. phase \notin {"materializing", "swapping", "swapped"} => work = "none"
      BY <2>1, <2>2 DEF RunPhase, PRE_FENCE_PHASES, FENCED_PHASES, PhaseWork
    <2>5. PlaceWork("rollback_staging", "none")
      BY DEF PlaceWork
    <2>6. \/ Call("run", "rollback", "rollback_done")
          \/ /\ phase \notin {"materializing", "swapping", "swapped"}
             /\ Goto("run", "rollback_staging") /\ UNCHANGED <<helper, answer>>
      BY <1>25 DEF RollbackBegin
    <2> QED
      BY <2>1, <2>3, <2>4, <2>5, <2>6, TruthCall, TruthGo, FreePlaces, PlaceNames DEF
        Commands, Heads
  <1>26. CASE RollbackDone
    <2>1. At("run", "rollback_done") /\ UNCHANGED <<work, helper, answer, then>>
      BY <1>26 DEF RollbackDone
    <2>2. AnswerWork("rollback_done", answer["run"], work)
      BY <2>1, PlaceNames DEF At, Truth
    <2>3. ok("run") => PlaceWork("rollback_staging", work)
      BY <2>2 DEF AnswerWork, PlaceWork, ok
    <2>4. phase' \in {phase, "completion_unknown"}
      BY <1>26 DEF RollbackDone, advance
    <2>5. PhaseWork(phase', work)
      BY <2>4 DEF Truth, PhaseWork
    <2>6. (ok("run") /\ Goto("run", "rollback_staging")) \/ Goto("run", "return")
      BY <1>26 DEF RollbackDone, Finish
    <2> QED BY <2>1, <2>3, <2>5, <2>6, TruthGo, FreePlaces, PlaceNames DEF Heads
  <1>27. CASE RollbackStaging
    <2>1. /\ "run" \in Threads /\ UNCHANGED work
          /\ \A u \in Threads \ {"run"} : /\ pc'[u] = pc[u] /\ then'[u] = then[u]
                                    /\ helper'[u] = helper[u] /\ answer'[u] = answer[u]
      BY <1>27, PlaceNames DEF RollbackStaging, releaseFence, Goto, TypeOK, ThreadTypes
    <2>2. PhaseWork(phase', work)
      BY <1>27 DEF RollbackStaging, Truth
    <2>3. PlaceWork(Toward("run")', work) /\ AnswerWork(pc'["run"], answer'["run"], work)
      <3>1. Toward("run")' = "rollback_settle" /\ pc'["run"] \in {"release", "rollback_settle"}
        BY <1>27, <2>1 DEF RollbackStaging, releaseFence, Goto, Toward, TypeOK,
          ThreadTypes
      <3>2. PlaceWork("rollback_staging", work)
        BY <1>27, <2>1, TowardAt DEF RollbackStaging, Truth
      <3>3. PlaceWork("rollback_settle", work)
        BY <3>2 DEF PlaceWork
      <3> QED BY <3>1, <3>3, FreePlaces
    <2> QED BY <2>1, <2>2, <2>3, TruthMove
  <1>28. CASE rollbackIntent
    <2>1. At("run", "rollback_settle")
             /\ UNCHANGED <<work, helper, answer, then>> /\ Goto("run", "return")
      BY <1>28 DEF rollbackIntent, Finish
    <2>2. PlaceWork("rollback_settle", work)
      BY <2>1, TowardAt, PlaceNames DEF Truth
    <2>3. phase' \in {phase, "rolled_back"}
      BY <1>28 DEF rollbackIntent, update, advance
    <2>4. PhaseWork(phase', work)
      BY <2>2, <2>3 DEF Truth, PhaseWork, PlaceWork
    <2> QED BY <2>1, <2>4, TruthGo, FreePlaces, PlaceNames DEF Heads
  <1>29. CASE releaseStacks
    <2>1. /\ "run" \in Threads /\ UNCHANGED work
          /\ \A u \in Threads \ {"run"} : /\ pc'[u] = pc[u] /\ then'[u] = then[u]
                                    /\ helper'[u] = helper[u] /\ answer'[u] = answer[u]
      BY <1>29, PlaceNames DEF releaseStacks, Forget, Goto, TypeOK, ThreadTypes
    <2>2. PhaseWork(phase', work)
      BY <1>29 DEF releaseStacks, Truth
    <2>3. PlaceWork(Toward("run")', work) /\ AnswerWork(pc'["run"], answer'["run"], work)
      <3>1. Toward("run")' \in {"off"} /\ pc'["run"] \in {"off"} \cup {"release"}
        BY <1>29, <2>1 DEF releaseStacks, Forget, Goto, Toward, TypeOK, ThreadTypes
      <3> QED BY <3>1, FreePlaces
    <2> QED BY <2>1, <2>2, <2>3, TruthMove
  <1>30. CASE Boot
    <2>1. /\ "boot" \in Threads /\ UNCHANGED work
          /\ \A u \in Threads \ {"boot"} : /\ pc'[u] = pc[u] /\ then'[u] = then[u]
                                    /\ helper'[u] = helper[u] /\ answer'[u] = answer[u]
      BY <1>30, PlaceNames DEF Boot, Goto, TypeOK, ThreadTypes
    <2>2. PhaseWork(phase', work)
      BY <1>30 DEF Boot, Truth
    <2>3. PlaceWork(Toward("boot")', work) /\ AnswerWork(pc'["boot"], answer'["boot"], work)
      <3>1. Toward("boot")' \in {"helpers"} /\ pc'["boot"] \in {"helpers"} \cup {"release"}
        BY <1>30, <2>1 DEF Boot, Goto, Toward, TypeOK, ThreadTypes
      <3> QED BY <3>1, FreePlaces
    <2> QED BY <2>1, <2>2, <2>3, TruthMove
  <1>31. CASE removeForeignEpochHelpers
    <2>1. /\ "boot" \in Threads /\ UNCHANGED work
          /\ \A u \in Threads \ {"boot"} : /\ pc'[u] = pc[u] /\ then'[u] = then[u]
                                    /\ helper'[u] = helper[u] /\ answer'[u] = answer[u]
      BY <1>31, PlaceNames DEF removeForeignEpochHelpers, Goto, TypeOK, ThreadTypes
    <2>2. PhaseWork(phase', work)
      BY <1>31 DEF removeForeignEpochHelpers, Truth
    <2>3. PlaceWork(Toward("boot")', work) /\ AnswerWork(pc'["boot"], answer'["boot"], work)
      <3>1. Toward("boot")' \in {"reconcile", "fences", "settle", "failed"}
               /\ pc'["boot"] \in {"reconcile", "fences", "settle", "failed"} \cup {"release"}
        BY <1>31, <2>1 DEF removeForeignEpochHelpers, Goto, Toward, TypeOK, ThreadTypes
      <3> QED BY <3>1, FreePlaces
    <2> QED BY <2>1, <2>2, <2>3, TruthMove
  <1>32. CASE reconcileOverwriteIntentsAtStartup
    <2>1. UNCHANGED <<phase, work, helper, answer>> /\ PhaseWork(phase', work)
      BY <1>32 DEF reconcileOverwriteIntentsAtStartup, Truth
    <2>2. Heads("boot", "clear") \/ Heads("boot", "settle")
      BY <1>32 DEF reconcileOverwriteIntentsAtStartup, Heads
    <2> QED BY <2>1, <2>2, TruthGo, FreePlaces, PlaceNames
  <1>33. ASSUME NEW t \in Reconcilers, reconcileOverwriteIntent(t) PROVE Truth'
    <2>1. /\ t \in Threads /\ At(t, "reconcile") /\ UNCHANGED <<phase, work, then>>
          /\ PhaseWork(phase, work)
      BY <1>33, PlaceNames DEF reconcileOverwriteIntent, Truth
    <2>2. intent[t].phase = phase
      BY <2>1, PhaseRead DEF SnapshotPlaces
    <2>3. \/ Goto(t, "unstage")
                /\ UNCHANGED <<helper, answer>> /\ phase \in PRE_FENCE_PHASES
          \/ Call(t, "status", "read")
          \/ Call(t, "rollback", "undone") /\ phase \in FENCED_PHASES
          \/ Call(t, "status", "decide")
      BY <1>33, <2>2 DEF reconcileOverwriteIntent
    <2>4. phase \in PRE_FENCE_PHASES => PlaceWork("unstage", work)
      BY <2>1 DEF PhaseWork, PlaceWork, PRE_FENCE_PHASES
    <2>5. phase \in FENCED_PHASES => PlaceWork("undone", work)
      BY <2>1 DEF PhaseWork, PlaceWork, FENCED_PHASES, Undoable
    <2> QED
      BY <2>1, <2>3, <2>4, <2>5, TruthCall, TruthGo, FreePlaces DEF Commands, Heads
  <1>34. ASSUME NEW t \in Reconcilers, ReadUnderWorkloads(t) PROVE Truth'
    <2>1. t \in Threads /\ At(t, "read") /\ UNCHANGED <<work, helper, answer, then>>
      BY <1>34, PlaceNames DEF ReadUnderWorkloads
    <2>2. phase \in FENCED_PHASES /\ PhaseWork(phase, work) /\ AnswerWork("read", answer[t], work)
      BY <2>1, PhaseRead DEF ReconcilePhase, Truth, At
    <2>3. answer[t] = "absent" => PlaceWork("unstage", work)
      BY <2>2 DEF AnswerWork, StatusOf, PhaseWork, PlaceWork, FENCED_PHASES
    <2>4. phase' \in {phase, "completion_unknown"}
      BY <1>34 DEF ReadUnderWorkloads, markUnknown, update, advance
    <2>5. PhaseWork(phase', work)
      BY <2>2, <2>4 DEF PhaseWork
    <2>6. \/ answer[t] = "absent" /\ Goto(t, "unstage")
          \/ Goto(t, "fences") \/ Goto(t, "answer")
      BY <1>34 DEF ReadUnderWorkloads, Reconciled
    <2> QED BY <2>1, <2>3, <2>5, <2>6, TruthGo, FreePlaces DEF Heads
  <1>35. ASSUME NEW t \in Reconcilers, Undone(t) PROVE Truth'
    <2>1. t \in Threads /\ At(t, "undone") /\ UNCHANGED <<work, helper, answer>>
      BY <1>35, PlaceNames DEF Undone
    <2>2. AnswerWork("undone", answer[t], work)
      BY <2>1 DEF Truth, At
    <2>3. ok(t) => PlaceWork("unstage", work) /\ PlaceWork("settle_rolled_back", work)
      BY <2>2 DEF AnswerWork, PlaceWork, ok
    <2>4. phase' \in {phase, "completion_unknown"}
      BY <1>35 DEF Undone, markUnknown, update, advance
    <2>5. PhaseWork(phase', work)
      BY <2>4 DEF Truth, PhaseWork
    <2>6. \/ Heads(t, "fences") \/ Heads(t, "answer")
          \/ ok(t) /\ (Heads(t, "unstage") \/ Heads(t, "settle_rolled_back"))
      BY <1>35 DEF Undone, Reconciled, Heads
    <2> QED BY <2>1, <2>3, <2>5, <2>6, TruthGo, FreePlaces
  <1>36. ASSUME NEW t \in Reconcilers, ReconcileStaging(t) PROVE Truth'
    <2>1. /\ t \in Threads /\ UNCHANGED work
          /\ \A u \in Threads \ {t} : /\ pc'[u] = pc[u] /\ then'[u] = then[u]
                                    /\ helper'[u] = helper[u] /\ answer'[u] = answer[u]
      BY <1>36, PlaceNames DEF ReconcileStaging, releaseFence, Goto, TypeOK, ThreadTypes
    <2>2. PhaseWork(phase', work)
      BY <1>36 DEF ReconcileStaging, Truth
    <2>3. PlaceWork(Toward(t)', work) /\ AnswerWork(pc'[t], answer'[t], work)
      <3>1. Toward(t)' = "settle_rolled_back" /\ pc'[t] \in {"release", "settle_rolled_back"}
        BY <1>36, <2>1 DEF ReconcileStaging, releaseFence, Goto, Toward, TypeOK,
          ThreadTypes
      <3>2. PlaceWork("unstage", work)
        BY <1>36, <2>1, TowardAt DEF ReconcileStaging, Truth
      <3>3. PlaceWork("settle_rolled_back", work)
        BY <3>2 DEF PlaceWork
      <3> QED BY <3>1, <3>3, FreePlaces
    <2> QED BY <2>1, <2>2, <2>3, TruthMove
  <1>37. ASSUME NEW t \in Reconcilers, JournalDecides(t) PROVE Truth'
    <2>1. t \in Threads /\ At(t, "decide") /\ UNCHANGED work
      BY <1>37, PlaceNames DEF JournalDecides
    <2>2. intent[t].phase = phase /\ PhaseWork(phase, work) /\ AnswerWork("decide", answer[t], work)
      BY <2>1, PhaseRead DEF SnapshotPlaces, Truth, At
    <2>3. /\ answer[t] = "absent" => work \in {"none", "gone", "torn"}
          /\ answer[t] = "swapped" => work \in {"marked", "torn"}
          /\ answer[t] \in Reports \ {"absent", "inconsistent", "swapped"} =>
                work \in {"planned", "moving", "moved", "torn"}
      BY <2>2 DEF AnswerWork, StatusOf, Reports, Works, TypeOK, RowTypes
    <2>4. phase' \in {phase, "completion_unknown"}
      BY <1>37 DEF JournalDecides, markUnknown, update, advance
    <2>5. PhaseWork(phase', work)
      BY <2>2, <2>4 DEF PhaseWork
    <2>6. phase = "swapped" /\ answer[t] = "absent" => PlaceWork("settle_committed", work)
      BY <2>2, <2>3 DEF PhaseWork, PlaceWork, Done
    <2>7. answer[t] = "swapped" => PlaceWork("forward", work)
      BY <2>3 DEF PlaceWork
    <2>8. work \in {"planned", "moving", "moved", "torn"} => PlaceWork("undone", work)
      BY DEF PlaceWork, Undoable
    <2>9. \/ /\ Heads(t, "settle_committed") /\ UNCHANGED <<helper, answer>>
             /\ answer[t] = "absent" /\ phase = "swapped"
          \/ (Heads(t, "fences") \/ Heads(t, "answer")) /\ UNCHANGED <<helper, answer>>
          \/ Call(t, "commit", "finish") /\ UNCHANGED then
          \/ Heads(t, "forward") /\ answer[t] = "swapped" /\ UNCHANGED <<helper, answer>>
          \/ /\ Call(t, "rollback", "undone") /\ UNCHANGED then
             /\ answer[t] \in Reports \ {"absent", "inconsistent", "swapped"}
      BY <1>37, <2>2 DEF JournalDecides, Reconciled, Heads
    <2>10. CASE \E to \in {"settle_committed", "fences", "answer", "forward"} :
                   /\ Heads(t, to) /\ UNCHANGED <<helper, answer>> /\ PlaceWork(to, work)
      BY <2>1, <2>5, <2>10, TruthGo, FreePlaces
    <2>11. CASE \/ Call(t, "commit", "finish") /\ UNCHANGED then
                \/ /\ Call(t, "rollback", "undone") /\ UNCHANGED then
                   /\ PlaceWork("undone", work)
      BY <2>1, <2>5, <2>11, TruthCall, FreePlaces DEF Commands
    <2> QED BY <2>3, <2>6, <2>7, <2>8, <2>9, <2>10, <2>11, FreePlaces
  <1>38. ASSUME NEW t \in Reconcilers, CommitFinished(t) PROVE Truth'
    <2>1. /\ t \in Threads /\ UNCHANGED work
          /\ \A u \in Threads \ {t} : /\ pc'[u] = pc[u] /\ then'[u] = then[u]
                                    /\ helper'[u] = helper[u] /\ answer'[u] = answer[u]
      BY <1>38, PlaceNames DEF CommitFinished, Reconciled, markUnknown, update, advance,
        Goto, TypeOK, ThreadTypes
    <2>2. PhaseWork(phase', work)
      <3>1. phase' \in {phase, "completion_unknown"}
        BY <1>38 DEF CommitFinished, markUnknown, update, advance
      <3> QED BY <3>1 DEF Truth, PhaseWork
    <2>3. PlaceWork(Toward(t)', work) /\ (helper'[t] = "idle"
             => AnswerWork(pc'[t], answer'[t], work))
      <3>1. AnswerWork("finish", answer[t], work)
        BY <1>38, <2>1 DEF CommitFinished, Truth, At
      <3>2. ok(t) => PlaceWork("forward", work)
        BY <3>1 DEF AnswerWork, PlaceWork, ok
      <3>3. \/ ok(t) /\ Toward(t)' = "forward" /\ pc'[t] = "forward"
            \/ Toward(t)' \in {"fences", "answer"} /\ pc'[t] \in {"fences", "answer"}
        BY <1>38, <2>1 DEF CommitFinished, Reconciled, Goto, Toward, TypeOK, ThreadTypes
      <3> QED BY <3>2, <3>3, FreePlaces
    <2> QED BY <2>1, <2>2, <2>3, TruthMove
  <1>39. ASSUME NEW t \in Reconcilers, RollForward(t) PROVE Truth'
    <2>1. t \in Threads /\ At(t, "forward") /\ UNCHANGED <<work, then>>
      BY <1>39, PlaceNames DEF RollForward
    <2>2. PlaceWork("forward", work)
      BY <2>1, TowardAt DEF Truth
    <2>3. work \in {"marked", "torn"} /\ PlaceWork("forwarded", work)
      BY <2>2 DEF PlaceWork, Done
    <2>4. phase' \in {phase, "swapped"}
      BY <1>39 DEF RollForward, advance
    <2>5. PhaseWork(phase', work)
      BY <2>3, <2>4 DEF Truth, PhaseWork, Done
    <2>6. \/ (Goto(t, "fences") \/ Goto(t, "answer")) /\ UNCHANGED <<helper, answer>>
          \/ Call(t, "cleanup", "forwarded")
      BY <1>39 DEF RollForward, Reconciled
    <2> QED
      BY <2>1, <2>3, <2>5, <2>6, TruthGo, TruthCall, FreePlaces DEF Commands, Heads
  <1>40. ASSUME NEW t \in Reconcilers, ForwardCleaned(t) PROVE Truth'
    <2>1. /\ t \in Threads /\ At(t, "forwarded")
                /\ UNCHANGED <<phase, work, helper, answer>>
          /\ PhaseWork(phase', work)
      BY <1>40, PlaceNames DEF ForwardCleaned, update, Truth
    <2>2. AnswerWork("forwarded", answer[t], work)
      BY <2>1 DEF Truth, At
    <2>3. ok(t) => PlaceWork("settle_forward", work)
      BY <2>2 DEF AnswerWork, PlaceWork, ok
    <2>4. \/ ok(t) /\ Heads(t, "settle_forward")
          \/ Heads(t, "fences") \/ Heads(t, "answer")
      BY <1>40 DEF ForwardCleaned, Reconciled, Heads
    <2> QED BY <2>1, <2>3, <2>4, TruthGo, FreePlaces
  <1>41. ASSUME NEW t \in Reconcilers, SettleForward(t) PROVE Truth'
    <2>1. t \in Threads /\ At(t, "settle_forward")
             /\ UNCHANGED <<work, helper, answer, then>>
      BY <1>41, PlaceNames DEF SettleForward
    <2>2. PlaceWork("settle_forward", work)
      BY <2>1, TowardAt DEF Truth
    <2>3. phase' \in {phase, "committed", "completion_unknown"}
      BY <1>41 DEF SettleForward, advance, update, markUnknown
    <2>4. PhaseWork(phase', work)
      BY <2>2, <2>3 DEF Truth, PhaseWork, PlaceWork
    <2>5. Goto(t, "fences") \/ Goto(t, "answer")
      BY <1>41 DEF SettleForward, Reconciled
    <2> QED BY <2>1, <2>4, <2>5, TruthGo, FreePlaces DEF Heads
  <1>42. ASSUME NEW t \in Reconcilers, clearFenceOutcome(t) PROVE Truth'
    <2>1. /\ t \in Threads /\ UNCHANGED <<phase, work, helper, answer, then>>
          /\ PhaseWork(phase', work)
      BY <1>42, PlaceNames DEF clearFenceOutcome, update, Truth
    <2>2. Goto(t, "settle") \/ Goto(t, "answer")
      BY <1>42 DEF clearFenceOutcome
    <2> QED BY <2>1, <2>2, TruthGo, FreePlaces DEF Heads
  <1>43. ASSUME NEW t \in Reconcilers, settleInterruptedOverwriteOperations(t)
         PROVE Truth'
    <2>1. /\ t \in Threads /\ UNCHANGED work
          /\ \A u \in Threads \ {t} : /\ pc'[u] = pc[u] /\ then'[u] = then[u]
                                    /\ helper'[u] = helper[u] /\ answer'[u] = answer[u]
      BY <1>43, PlaceNames DEF settleInterruptedOverwriteOperations, Forget, Goto,
        TypeOK, ThreadTypes
    <2>2. PhaseWork(phase', work)
      BY <1>43 DEF settleInterruptedOverwriteOperations, Truth
    <2>3. PlaceWork(Toward(t)', work) /\ AnswerWork(pc'[t], answer'[t], work)
      <3>1. Toward(t)' \in {"done", "off"} /\ pc'[t] \in {"done", "off"} \cup {"release"}
        BY <1>43, <2>1 DEF settleInterruptedOverwriteOperations, Forget, Goto, Toward,
          TypeOK, ThreadTypes
      <3> QED BY <3>1, FreePlaces
    <2> QED BY <2>1, <2>2, <2>3, TruthMove
  <1>44. ASSUME NEW t \in Reconcilers, NEW to \in Settled, settleProven(t, to)
         PROVE Truth'
    <2>1. t \in Threads /\ UNCHANGED <<work, helper, answer, then>>
      BY <1>44, PlaceNames DEF settleProven
    <2>2. to \in {"committed", "rolled_back"}
      BY DEF Settled
    <2>3. PhaseWork(to, work)
      <3>1. CASE to = "committed"
        <4>1. PlaceWork("settle_committed", work)
          BY <1>44, <2>1, <3>1, TowardAt DEF settleProven, Truth
        <4> QED BY <3>1, <4>1 DEF PlaceWork, PhaseWork
      <3>2. CASE to = "rolled_back"
        <4>1. PlaceWork("settle_rolled_back", work)
          BY <1>44, <2>1, <3>2, TowardAt DEF settleProven, Truth
        <4> QED BY <3>2, <4>1 DEF PlaceWork, PhaseWork
      <3> QED BY <2>2, <3>1, <3>2
    <2>4. phase' \in {phase, to}
      BY <1>44 DEF settleProven, update, advance
    <2>5. PhaseWork(phase', work)
      BY <2>3, <2>4 DEF Truth
    <2>6. Goto(t, "fences") \/ Goto(t, "answer")
      BY <1>44 DEF settleProven, Reconciled
    <2> QED BY <2>1, <2>5, <2>6, TruthGo, FreePlaces DEF Heads
  <1>45. ASSUME NEW t \in Threads, ReleaseEnd(t) PROVE Truth'
    <2>1. then[t] \notin {"rollback_done", "undone", "cleaned", "forwarded", "accept_cleaned",
                         "committed", "finish", "confirm", "confirm_reported",
                         "confirm_last", "read", "decide", "accept_status"}
      BY <1>45, ReleaseReturns DEF ReleaseEnd, At
    <2>2. /\ pc'[t] = then[t] /\ \A u \in Threads \ {t} : pc'[u] = pc[u]
          /\ UNCHANGED <<phase, work, helper, answer>>
      BY <1>45 DEF ReleaseEnd, Goto, TypeOK, ThreadTypes
    <2>3. \A u \in Threads : Toward(u)' = Toward(u)
      BY <1>45, TowardReleaseEnd
    <2>4. \A a, w : AnswerWork(then[t], a, w)
      BY <2>1 DEF AnswerWork
    <2> QED BY <2>2, <2>3, <2>4 DEF Truth
  <1>46. ASSUME NEW t \in Threads, NEW c \in Containers, ReleaseMember(t, c) PROVE Truth'
    BY <1>46 DEF ReleaseMember, Started, Truth, Toward
  <1>47. ASSUME NEW t \in Threads, NEW c \in Containers, ReleaseMemberFails(t, c)
         PROVE Truth'
    BY <1>47 DEF ReleaseMemberFails, Truth, Toward
  <1>48. ASSUME NEW t \in Resolvers, Retry(t) PROVE Truth'
    <2>1. /\ t \in Threads /\ UNCHANGED <<phase, work, helper, answer>>
          /\ PhaseWork(phase', work)
      BY <1>48, PlaceNames DEF Retry, Truth
    <2>2. Heads(t, "clear") \/ Heads(t, "answer") \/ Heads(t, "reconcile")
      BY <1>48 DEF Retry, Heads
    <2> QED BY <2>1, <2>2, TruthGo, FreePlaces
  <1>49. ASSUME NEW t \in Resolvers, ReleaseFenceRequest(t) PROVE Truth'
    <2>1. /\ t \in Threads /\ UNCHANGED work
          /\ \A u \in Threads \ {t} : /\ pc'[u] = pc[u] /\ then'[u] = then[u]
                                    /\ helper'[u] = helper[u] /\ answer'[u] = answer[u]
      BY <1>49, PlaceNames DEF ReleaseFenceRequest, releaseFence, Goto, TypeOK,
        ThreadTypes
    <2>2. PhaseWork(phase', work)
      BY <1>49 DEF ReleaseFenceRequest, Truth
    <2>3. PlaceWork(Toward(t)', work) /\ AnswerWork(pc'[t], answer'[t], work)
      <3>1. Toward(t)' \in {"accept_released"} /\ pc'[t] \in {"accept_released"} \cup {"release"}
        BY <1>49, <2>1 DEF ReleaseFenceRequest, releaseFence, Goto, Toward, TypeOK,
          ThreadTypes
      <3> QED BY <3>1, FreePlaces
    <2> QED BY <2>1, <2>2, <2>3, TruthMove
  <1>50. ASSUME NEW t \in Resolvers, AcceptReleased(t) PROVE Truth'
    <2>1. t \in Threads /\ UNCHANGED <<phase, work, then>> /\ PhaseWork(phase', work)
      BY <1>50, PlaceNames DEF AcceptReleased, Truth
    <2>2. \/ Goto(t, "answer") /\ UNCHANGED <<helper, answer>>
          \/ Call(t, "status", "accept_status")
      BY <1>50 DEF AcceptReleased
    <2> QED BY <2>1, <2>2, TruthGo, TruthCall, FreePlaces DEF Commands, Heads
  <1>51. ASSUME NEW t \in Resolvers, AcceptStatus(t) PROVE Truth'
    <2>1. t \in Threads /\ t \in Reconcilers /\ At(t, "accept_status")
             /\ UNCHANGED <<work, then>>
      BY <1>51, PlaceNames DEF AcceptStatus, Reconcilers
    <2>2. intent[t].phase = phase /\ PhaseWork(phase, work)
      BY <2>1, PhaseRead DEF SnapshotPlaces, Truth
    <2>3. phase' \in {phase, "completion_unknown"}
      BY <1>51 DEF AcceptStatus, update, advance
    <2>4. PhaseWork(phase', work)
      BY <2>2, <2>3 DEF PhaseWork
    <2>5. \/ Goto(t, "answer") /\ UNCHANGED <<helper, answer>>
          \/ Call(t, "cleanup", "accept_cleaned") /\ phase = "swapped"
      BY <1>51, <2>2 DEF AcceptStatus
    <2>6. phase = "swapped" => PlaceWork("accept_cleaned", work)
      BY <2>2 DEF PhaseWork, PlaceWork, Done
    <2> QED
      BY <2>1, <2>4, <2>5, <2>6, TruthGo, TruthCall, FreePlaces DEF Commands, Heads
  <1>52. ASSUME NEW t \in Resolvers, AcceptCleaned(t) PROVE Truth'
    <2>1. /\ t \in Threads /\ UNCHANGED work
          /\ \A u \in Threads \ {t} : /\ pc'[u] = pc[u] /\ then'[u] = then[u]
                                    /\ helper'[u] = helper[u] /\ answer'[u] = answer[u]
      BY <1>52, PlaceNames DEF AcceptCleaned, advance, update, Goto, TypeOK, ThreadTypes
    <2>2. PhaseWork(phase', work)
      <3>1. AnswerWork("accept_cleaned", answer[t], work)
        BY <1>52, <2>1 DEF AcceptCleaned, Truth, At
      <3>2. phase' = phase \/ (phase' = "committed" /\ ok(t))
        BY <1>52 DEF AcceptCleaned, update, advance
      <3> QED BY <3>1, <3>2 DEF Truth, PhaseWork, AnswerWork, ok
    <2>3. PlaceWork(Toward(t)', work) /\ AnswerWork(pc'[t], answer'[t], work)
      <3>1. Toward(t)' \in {"answer"} /\ pc'[t] \in {"answer"} \cup {"release"}
        BY <1>52, <2>1 DEF AcceptCleaned, advance, update, Goto, Toward, TypeOK,
          ThreadTypes
      <3> QED BY <3>1, FreePlaces
    <2> QED BY <2>1, <2>2, <2>3, TruthMove
  <1>53. ASSUME NEW t \in Threads, runSwapStep(t) PROVE Truth'
    <2>1. /\ helper[t] \in Commands /\ pc[t] \in CallsOf(t) /\ helper[t] = CommandAt(pc[t])
          /\ UNCHANGED <<phase, pc, then>>
      BY <1>53 DEF runSwapStep, TakeTurns, AtPlaces, TypeOK, ThreadTypes
    <2>2. Toward(t) = pc[t] /\ pc[t] \notin {"off", "done"}
      BY <2>1 DEF Toward, CallsOf, RunCalls, ReconcileCalls, AcceptCalls
    <2>3. PlaceWork(pc[t], work) /\ PhaseWork(phase, work) /\ work \in Works
      BY <2>2 DEF Truth, TypeOK, RowTypes
    <2>4. /\ PhaseWork(phase, work') /\ PlaceWork(pc[t], work')
          /\ AnswerWork(pc[t], answer'[t], work')
      <3>1. CASE answer[t] = "error"
        <4>1. work' = work /\ answer'[t] \in {"error", "killed", "inconsistent"}
          BY <1>53, <3>1 DEF runSwapStep, TypeOK, ThreadTypes
        <4>2. answer'[t] = "inconsistent" => CommandAt(pc[t]) = "status"
          BY <1>53, <2>1, <3>1 DEF runSwapStep, TypeOK, ThreadTypes
        <4>3. AnswerWork(pc[t], answer'[t], work)
          BY <4>1, <4>2 DEF AnswerWork, CommandAt
        <4> QED BY <2>3, <4>1, <4>3
      <3>2. CASE answer[t] # "error"
        <4>1. work' \in Reach(helper[t], work) /\ answer'[t] \in Answers(helper[t], work')
          BY <1>53, <3>2 DEF runSwapStep, TypeOK, ThreadTypes
        <4>2. CommandPhase(helper[t], phase)
          BY <2>1, HelperPhase DEF Commands
        <4> QED BY <2>1, <2>3, <4>1, <4>2, ReachKeepsPhase, AnswerTellsWork
      <3> QED BY <3>1, <3>2
    <2>5. \A u \in Threads \ {t} :
             Toward(u) \in {"off", "done"} /\ pc[u] \in {"off", "done"}
      BY <2>2, OthersRest
    <2>6. \A a, w : /\ PlaceWork("off", w) /\ PlaceWork("done", w)
                   /\ AnswerWork("off", a, w) /\ AnswerWork("done", a, w)
      BY DEF PlaceWork, AnswerWork
    <2>7. \A u \in Threads : Toward(u)' = Toward(u)
      BY <2>1 DEF Toward
    <2> QED BY <2>1, <2>2, <2>4, <2>5, <2>6, <2>7 DEF Truth
  <1>54. CASE Outsiders
    BY <1>54, OutsidersMove DEF Truth, Toward
  <1>55. CASE WorkloadWrites
    BY <1>55 DEF WorkloadWrites, Truth, Toward
  <1>56. CASE Crash
    BY <1>56 DEF Crash, Truth, Toward, PlaceWork, AnswerWork
  <1>57. ASSUME NEW g \in Commands, Ghost(g) PROVE Truth'
    <2>1. /\ g \in ghosts /\ work' \in Reach(g, work)
          /\ UNCHANGED <<phase, pc, then, helper, answer>>
      BY <1>57 DEF Ghost
    <2>2. PhaseWork(phase, work) /\ work \in Works /\ CommandPhase(g, phase)
      BY <2>1 DEF Truth, TypeOK, RowTypes, Alone
    <2>3. PhaseWork(phase, work')
      BY <2>1, <2>2, ReachKeepsPhase
    <2>4. \A u \in Threads : pc[u] \in {"off", "helpers", "failed"}
      BY <2>1, NoGhosts
    <2>5. \A u \in Threads : Toward(u)' = pc[u]
      BY <2>1, <2>4 DEF Toward
    <2> QED BY SMTT(30), <2>1, <2>3, <2>4, <2>5 DEF Truth, PlaceWork, AnswerWork
  <1>58. CASE UNCHANGED vars
    BY <1>58 DEF vars, Truth, Toward
  <1> QED
    BY ZenonT(60), <1>1, <1>2, <1>3, <1>4, <1>5, <1>6, <1>7, <1>8, <1>9, <1>10, <1>11,
      <1>12, <1>13, <1>14, <1>15, <1>16, <1>17, <1>18, <1>19, <1>20, <1>21, <1>22,
      <1>23, <1>24, <1>25, <1>26, <1>27, <1>28, <1>29, <1>30, <1>31, <1>32, <1>33,
      <1>34, <1>35, <1>36, <1>37, <1>38, <1>39, <1>40, <1>41, <1>42, <1>43, <1>44,
      <1>45, <1>46, <1>47, <1>48, <1>49, <1>50, <1>51, <1>52, <1>53, <1>54, <1>55,
      <1>56, <1>57, <1>58 DEF Next, Pipeline, BootSequence, Environment, Reconcile,
      Accept, Releases, Reconcilers, Threads, Outsiders
=============================================================================
