-------------------------- MODULE VolumeSwapRefinement --------------------------
(* The journaled swap implements the contract its callers rely on.         *)
EXTENDS MCVolumeSwap

(* A removal that is still running has not left anything behind yet: it    *)
(* may still take the journal, or the emptied directory, with it.          *)
Removing == pc = "r_remove" /\ RemovedUnderJournal # {}

abstractWork ==
    IF torn \cup touched # {} THEN "torn"
    ELSE IF committed
    THEN IF plan.status # "none" \/ pc = "k_rmdir" THEN "marked"
         ELSE IF workDir THEN "dregs" ELSE "gone"
    ELSE IF plan.status = "none" THEN IF workDir THEN "bare" ELSE "none"
    ELSE IF Removing \/ computeStatus = "planned" THEN "planned"
    ELSE IF computeStatus = "metadata_pending" THEN "moved" ELSE "moving"

abstractCommand ==
    CASE pc = "idle"          -> "none"
      [] pc = "restoring"     -> "restore"
      [] pc \in CommitSteps   -> "commit"
      [] pc \in RollbackSteps -> "rollback"
      [] pc \in CleanupSteps  -> "cleanup"

Service == INSTANCE SwapService
             WITH work <- abstractWork, command <- abstractCommand

(* Every run of the helper, killed or not, does what SwapContract says:    *)
(* its callers may reason about the nine states of a work directory instead *)
(* of renames.                                                             *)
KeepsContract == Service!Spec

(* The states mean what SwapContract says of the volume root: the original *)
(* entries before anything moved, the snapshot's once the marker is        *)
(* written, whatever was killed in between.                                *)
ContentIsTruthful ==
    LET holds(names, entry) ==
            \A n \in Names : root[n] = IF n \in names THEN entry ELSE "none"
    IN  /\ Service!Content(abstractWork) = "original" => holds(volume, "orig")
        /\ Service!Content(abstractWork) = "restored" => holds(snapshot, "new")
=============================================================================
