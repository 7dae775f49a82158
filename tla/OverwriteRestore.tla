--------------------------- MODULE OverwriteRestore ---------------------------
(***************************************************************************)
(* One restore of a point over the volume it was taken from                *)
(* (services/recovery/overwriteRestore.ts), with the durable fence around  *)
(* the volume's workloads (restoreFence.ts), the intent that survives a    *)
(* restart (restoreIntents.ts), the boot sequence and the resolve route    *)
(* (operationRunner.ts), and the stack lock (StackOpLockService.ts).       *)
(*                                                                         *)
(* Sencho is one Node.js process: its threads of control are the restore   *)
(* pipeline ("run"), the boot sequence ("boot") and the operators' resolve *)
(* requests, and they interleave where the code awaits.  One action is the *)
(* code between two awaits.  The process can die before any of them; the   *)
(* volume, the containers and the rows of the database stay.  Any call to  *)
(* Docker, to the engine or to the helper can fail.  What the swap helper  *)
(* does to the volume is the contract of SwapContract.                     *)
(***************************************************************************)
EXTENDS SwapContract

CONSTANTS
    Containers,     \* the containers that mount the volume
    Resolvers,      \* resolve requests that may be open at the same time
    OutsideStarts,  \* may somebody start a container past Sencho
    RemovalFails    \* may Docker refuse to remove a dead process's helper

ASSUME OutsideAssumption == OutsideStarts \in BOOLEAN
ASSUME RemovalAssumption == RemovalFails \in BOOLEAN
ASSUME ThreadAssumption == Resolvers \cap {"run", "boot"} = {}

VARIABLES
    \* the rows: the intent, its fence and fence members, its operation, the
    \* holds on its points, the pre-restore point
    phase, outcomeClass, fenceState, wasRunning, releasedAt, op, holds, point,
    \* Docker: the volume's containers, the staging volume, helpers left behind
    running, policy, staging, ghosts,
    \* the volume: the work directory, and what workloads wrote beside it
    work, written,
    \* the process: alive, starts in flight, the stack lock, its threads
    up, startsInFlight, stackOp,
    pc, helper, answer, intent, kept, then, visited, failed, ending,
    \* what happened: a member started since its start time was read; a
    \* container ran during the capture; ran under the fence; release_fence used
    restarted, dirty, ranFenced, accepted

row == <<phase, outcomeClass>>
fence == <<fenceState, wasRunning, releasedAt>>
docker == <<running, policy>>
volume == <<work, written, ghosts>>
process == <<up, startsInFlight>>
helpers == <<helper, answer>>
release == <<then, visited, failed>>
history == <<restarted, dirty, ranFenced, accepted>>
vars == <<row, fence, op, holds, point, docker, staging, volume, process, stackOp,
          pc, helpers, intent, kept, release, ending, history>>

-----------------------------------------------------------------------------
PRE_FENCE_PHASES == {"recorded", "staging", "staged_verified"}
FENCED_PHASES == {"fenced", "protecting", "materializing"}
Settled == {"committed", "rolled_back"}
Phases == PRE_FENCE_PHASES \cup FENCED_PHASES \cup Settled
            \cup {"swapping", "swapped", "completion_unknown"}

ALLOWED_TRANSITIONS ==
    [p \in Phases |->
        (IF p \in Settled THEN {} ELSE {"rolled_back"}) \cup
        CASE p = "recorded"           -> {"staging", "completion_unknown"}
          [] p = "staging"            -> {"staged_verified", "completion_unknown"}
          [] p = "staged_verified"    -> {"fenced", "committed", "completion_unknown"}
          [] p = "fenced"             -> {"protecting", "completion_unknown"}
          [] p = "protecting"         -> {"materializing", "completion_unknown"}
          [] p = "materializing"      -> {"swapping", "completion_unknown"}
          [] p = "swapping"           -> {"swapped", "completion_unknown"}
          [] p = "swapped"            -> {"committed", "completion_unknown"}
          [] p = "completion_unknown" -> {"committed"}
          [] p \in Settled            -> {}]

(* The failure classes the code tells apart; the others only name a cause. *)
Classes == {"null", "cleanup_failed", "fence_unavailable", "other"}
FenceStates == {"none", "held", "released", "release_failed"}
OpStates == {"none", "running", "succeeded", "partial", "failed", "cancelled",
             "completion_unknown"}

Threads == {"run", "boot"} \cup Resolvers
FenceLive == fenceState \in {"held", "release_failed"}
workloadsMayRunNow == fenceState \in {"released", "release_failed"}
ok(t) == answer[t] \notin {"error", "killed"}

Init ==
    /\ phase = "none" /\ outcomeClass = "null"
    /\ fenceState = "none" /\ wasRunning = {} /\ releasedAt = {}
    /\ op = "none" /\ holds = FALSE /\ point = "none"
    /\ running \in SUBSET Containers
    /\ policy = [c \in Containers |-> "own"]
    /\ staging = FALSE /\ ghosts = {} /\ work = "none" /\ written = "no"
    /\ up = TRUE /\ startsInFlight = {} /\ stackOp = "free"
    /\ pc = [t \in Threads |-> IF t = "boot" THEN "done" ELSE "off"]
    /\ helper = [t \in Threads |-> "idle"]
    /\ answer = [t \in Threads |-> "killed"]
    /\ intent = [t \in Threads |-> [phase |-> "none", class |-> "null"]]
    /\ kept = [t \in Threads |-> FALSE]
    /\ then = [t \in Threads |-> "off"]
    /\ visited = [t \in Threads |-> {}]
    /\ failed = [t \in Threads |-> FALSE]
    /\ ending = "none"
    /\ restarted = FALSE /\ dirty = FALSE /\ ranFenced = {} /\ accepted = FALSE

-----------------------------------------------------------------------------
(* RestoreIntentStore.advance refuses an illegal transition: the request   *)
(* that asked for it ends there.                                           *)
advance(to, class) ==
    IF to \in ALLOWED_TRANSITIONS[phase]
    THEN phase' = to /\ outcomeClass' = class
    ELSE UNCHANGED row

update(class) == outcomeClass' = class /\ UNCHANGED phase

markUnknown(t, class) ==
    IF intent[t].phase = "completion_unknown"
    THEN update(class) ELSE advance("completion_unknown", class)

releaseHolds(to) == holds' = (holds /\ to \notin ALLOWED_TRANSITIONS[phase])

Goto(t, place) == pc' = [pc EXCEPT ![t] = place]

(* A helper run begins and the thread waits for it at the place.  Every    *)
(* run first reads the journal against the volume: an entry a workload put *)
(* at the root makes an uncommitted journal unexplained, and a run that    *)
(* finds it so is going to refuse.                                         *)
Refused == written = "root" /\ work \in Uncommitted
Call(t, command, place) ==
    /\ helper' = [helper EXCEPT ![t] = command]
    /\ answer' = [answer EXCEPT ![t] = IF Refused THEN "error" ELSE "killed"]
    /\ Goto(t, place)

At(t, place) == up /\ pc[t] = place /\ helper[t] = "idle"

(* runSwapStep and the engine's restore: a container works on the volume   *)
(* until it exits or is killed.  A closing step (rollback, cleanup) that   *)
(* failed after it removed the directory counts as done:                   *)
(* runClosingSwapStep reads the status for that, and Answers has the       *)
(* answer "done" for every run that ends without the directory.            *)
runSwapStep(t) ==
    /\ up /\ helper[t] # "idle"
    /\ helper' = [helper EXCEPT ![t] = "idle"]
    /\ IF answer[t] = "error"
       THEN /\ UNCHANGED work
            /\ \E a \in {"error", "killed"} \cup
                        (IF helper[t] = "status" THEN {"inconsistent"} ELSE {}) :
                  answer' = [answer EXCEPT ![t] = a]
       ELSE /\ work' \in Reach(helper[t], work)
            /\ \E a \in Answers(helper[t], work') : answer' = [answer EXCEPT ![t] = a]
    /\ UNCHANGED <<row, fence, op, holds, point, docker, staging, written, ghosts,
                   process, stackOp, pc, intent, kept, release, ending, history>>

-----------------------------------------------------------------------------
(* releaseRestoreFence, member by member, after which the thread goes on   *)
(* at a place; releaseFence has nothing to do unless the fence is live.    *)
releaseFence(t, place) ==
    /\ then' = [then EXCEPT ![t] = place]
    /\ visited' = [visited EXCEPT ![t] = releasedAt]
    /\ failed' = [failed EXCEPT ![t] = FALSE]
    /\ Goto(t, IF FenceLive THEN "release" ELSE place)

(* Containers start: what the daemon and the observers of it will see.     *)
Started(S) ==
    /\ running' = running \cup S
    /\ restarted' = (restarted \/ (S # {} /\ pc["run"] \in {"protect", "begin", "capture"}))
    /\ dirty' = (dirty \/ (S # {} /\ pc["run"] = "capture"))
    /\ ranFenced' = IF FenceLive THEN ranFenced \cup S ELSE ranFenced
    /\ UNCHANGED accepted

ReleaseMember(t, c) ==
    /\ At(t, "release") /\ c \in Containers \ visited[t]
    /\ visited' = [visited EXCEPT ![t] = @ \cup {c}]
    /\ policy' = [policy EXCEPT ![c] = "own"]
    /\ Started(IF then[t] # "accept_released" THEN {c} \cap (wasRunning \ running) ELSE {})
    /\ releasedAt' = releasedAt \cup {c}
    /\ UNCHANGED <<row, fenceState, wasRunning, op, holds, point, staging, volume,
                   process, stackOp, pc, helpers, intent, kept, then, failed, ending>>

ReleaseMemberFails(t, c) ==
    /\ At(t, "release") /\ c \in Containers \ visited[t]
    /\ visited' = [visited EXCEPT ![t] = @ \cup {c}]
    /\ failed' = [failed EXCEPT ![t] = TRUE]
    /\ \E p \in {"own", policy[c]} : policy' = [policy EXCEPT ![c] = p]
    /\ UNCHANGED <<row, fence, op, holds, point, running, staging, volume, process,
                   stackOp, pc, helpers, intent, kept, then, ending, history>>

(* Mutant: a failed release reads released.                                *)
ReleaseEndMutant(t) ==
    /\ At(t, "release") /\ visited[t] = Containers
    /\ fenceState' = "released"
    /\ Goto(t, then[t])
    /\ UNCHANGED <<row, wasRunning, releasedAt, op, holds, point, docker, staging,
                   volume, process, stackOp, helpers, intent, kept, release, ending, history>>

ReleaseEnd(t) ==
    /\ At(t, "release") /\ visited[t] = Containers
    /\ fenceState' = IF failed[t] THEN "release_failed" ELSE "released"
    /\ Goto(t, then[t])
    /\ UNCHANGED <<row, wasRunning, releasedAt, op, holds, point, docker, staging,
                   volume, process, stackOp, helpers, intent, kept, release, ending, history>>

-----------------------------------------------------------------------------
(* The pipeline.  It settles its operation and returns; the stack lock is  *)
(* given back and the work forgotten after that.                           *)
Finish(state) == op' = state /\ Goto("run", "return")

(* The locals of a thread end with it.                                     *)
Forget(t) ==
    /\ answer' = [answer EXCEPT ![t] = "killed"]
    /\ intent' = [intent EXCEPT ![t] = [phase |-> "none", class |-> "null"]]
    /\ kept' = [kept EXCEPT ![t] = FALSE]
    /\ then' = [then EXCEPT ![t] = "off"]
    /\ visited' = [visited EXCEPT ![t] = {}]
    /\ failed' = [failed EXCEPT ![t] = FALSE]
    /\ ending' = IF t = "run" THEN "none" ELSE ending
    /\ UNCHANGED helper

releaseStacks ==
    /\ At("run", "return")
    /\ stackOp' = "free"
    /\ Goto("run", "off") /\ Forget("run")
    /\ UNCHANGED <<row, fence, op, holds, point, docker, staging, volume, process,
                   history>>

(* The engine, Docker or the caller's cancel ended a step.                 *)
settleRollback ==
    /\ ending' \in {"failed", "cancelled"}
    /\ Goto("run", "rollback")

(* The observation an admission rests on comes before the locks it takes.  *)
prepareOverwriteAdmission ==
    /\ At("run", "off") /\ pc["boot"] = "done" /\ phase = "none"
    /\ wasRunning' = running
    /\ Goto("run", "admit")
    /\ UNCHANGED <<row, fenceState, releasedAt, op, holds, point, docker, staging,
                   volume, process, stackOp, helpers, intent, kept, release, ending,
                   history>>

admitOverwrite ==
    /\ At("run", "admit")
    /\ \/ /\ stackOp = "free"
          /\ stackOp' = "data_restore"
          /\ phase' = "recorded" /\ op' = "running" /\ holds' = TRUE
          /\ Goto("run", "stage")
          /\ UNCHANGED <<outcomeClass, wasRunning>>
       \/ /\ wasRunning' = {}
          /\ Goto("run", "off")
          /\ UNCHANGED <<row, op, holds, stackOp>>
    /\ UNCHANGED <<fenceState, releasedAt, point, docker, staging, volume, process,
                   helpers, intent, kept, release, ending, history>>

stagePoint ==
    /\ At("run", "stage")
    /\ advance("staging", outcomeClass)
    /\ Goto("run", "create")
    /\ UNCHANGED <<fence, op, holds, point, docker, staging, volume, process, stackOp,
                   helpers, intent, kept, release, ending, history>>

(* A create can fail after Docker made the volume, and the name can be     *)
(* taken by a volume without the intent's label.                           *)
createLabelledVolume ==
    /\ At("run", "create")
    /\ staging' \in BOOLEAN
    /\ \/ staging' /\ Goto("run", "copy") /\ UNCHANGED ending
       \/ Goto("run", "unstage") /\ UNCHANGED ending
       \/ ~staging' /\ settleRollback
    /\ UNCHANGED <<row, fence, op, holds, point, docker, volume, process, stackOp,
                   helpers, intent, kept, release, history>>

RestoreStaging ==
    /\ At("run", "copy")
    /\ \/ advance("staged_verified", outcomeClass) /\ Goto("run", "remove")
       \/ Goto("run", "unstage") /\ UNCHANGED row
    /\ UNCHANGED <<fence, op, holds, point, docker, staging, volume, process, stackOp,
                   helpers, intent, kept, release, ending, history>>

(* stagingVolumeGone: the volume is removed, or it is still on disk.       *)
stagingVolumeGone == ~staging'
RemoveStagingVolume == staging' \in {FALSE, staging}

Unstage ==
    /\ At("run", "unstage")
    /\ RemoveStagingVolume
    /\ IF stagingVolumeGone
       THEN advance("rolled_back", "other") /\ releaseHolds("rolled_back")
       ELSE update("cleanup_failed") /\ UNCHANGED holds
    /\ \E state \in {"failed", "cancelled"} : Finish(state)
    /\ UNCHANGED <<fence, point, docker, volume, process, stackOp, helpers, intent, kept,
                   release, ending, history>>

removeStaging ==
    /\ At("run", "remove")
    /\ RemoveStagingVolume
    /\ IF stagingVolumeGone
       THEN Goto("run", "recheck") /\ UNCHANGED <<row, op>>
       ELSE update("cleanup_failed") /\ Finish("failed")
    /\ UNCHANGED <<fence, holds, point, docker, volume, process, stackOp, helpers, intent, kept,
                   release, ending, history>>

(* fenceWorkloads up to its first wait.  A recheck that throws escapes the *)
(* pipeline: schedule() ends the operation failed, the intent stays.       *)
fenceWorkloads ==
    /\ At("run", "recheck")
    /\ \/ /\ advance("fenced", outcomeClass)
          /\ fenceState' = "held"
          /\ ranFenced' = running
          /\ Goto("run", "drain")
          /\ UNCHANGED <<op, ending>>
       \/ settleRollback /\ UNCHANGED <<row, fenceState, op, ranFenced>>
       \/ Finish("failed") /\ UNCHANGED <<row, fenceState, ending, ranFenced>>
    /\ UNCHANGED <<wasRunning, releasedAt, holds, point, docker, staging, volume,
                   process, stackOp, helpers, intent, kept, release, restarted, dirty, accepted>>

waitForStartsInFlight ==
    /\ At("run", "drain")
    /\ \/ startsInFlight = {} /\ Goto("run", "observe") /\ UNCHANGED <<fenceState, ending>>
       \/ startsInFlight # {} /\ fenceState' = "none" /\ settleRollback
    /\ UNCHANGED <<row, wasRunning, releasedAt, op, holds, point, docker, staging, volume,
                   process, stackOp, helpers, intent, kept, release, history>>

(* The observation that refreshes the members.  It too can throw, and then *)
(* the fence stays held over containers nobody stopped.                    *)
recordMembers ==
    /\ At("run", "observe")
    /\ \/ /\ wasRunning' = running
          /\ visited' = [visited EXCEPT !["run"] = {}]
          /\ Goto("run", "fence")
          /\ UNCHANGED <<fenceState, op, ending>>
       \/ /\ fenceState' = "none" /\ settleRollback
          /\ UNCHANGED <<wasRunning, visited, op>>
       \/ Finish("failed") /\ UNCHANGED <<wasRunning, visited, fenceState, ending>>
    /\ UNCHANGED <<row, releasedAt, holds, point, docker, staging, volume, process,
                   stackOp, helpers, intent, kept, then, failed, history>>

(* applyRestoreFence: each member is pinned, then stopped.                 *)
Pin(c) ==
    /\ At("run", "fence") /\ c \notin visited["run"] /\ policy[c] = "own"
    /\ \A d \in Containers \ visited["run"] : policy[d] = "own"
    /\ policy' = [policy EXCEPT ![c] = "no"]
    /\ UNCHANGED <<row, fence, op, holds, point, running, staging, volume, process,
                   stackOp, pc, helpers, intent, kept, release, ending, history>>

Stop(c) ==
    /\ At("run", "fence") /\ c \notin visited["run"] /\ policy[c] = "no"
    /\ running' = running \ {c}
    /\ visited' = [visited EXCEPT !["run"] = @ \cup {c}]
    /\ UNCHANGED <<row, fence, op, holds, point, policy, staging, volume, process,
                   stackOp, pc, helpers, intent, kept, then, failed, ending, history>>

(* Every member is stopped and its start time read, or the fence failed.   *)
FenceEnd ==
    /\ At("run", "fence")
    /\ \/ /\ visited["run"] = Containers
          /\ advance("protecting", outcomeClass)
          /\ restarted' = FALSE
          /\ Goto("run", "protect")
          /\ UNCHANGED ending
       \/ settleRollback /\ UNCHANGED <<row, restarted>>
    /\ UNCHANGED <<fence, op, holds, point, docker, staging, volume, process, stackOp,
                   helpers, intent, kept, release, dirty, ranFenced, accepted>>

(* takePreRestorePoint: recheck, begin the point, capture, recheck.        *)
RecheckBeforePoint ==
    /\ At("run", "protect")
    /\ \/ running = {} /\ Goto("run", "begin") /\ UNCHANGED ending
       \/ settleRollback
    /\ UNCHANGED <<row, fence, op, holds, point, docker, staging, volume, process,
                   stackOp, helpers, intent, kept, release, history>>

BeginPoint ==
    /\ At("run", "begin")
    /\ \/ /\ point' = "pending" /\ dirty' = (running # {})
          /\ Goto("run", "capture") /\ UNCHANGED ending
       \/ point' \in {"none", "failed"} /\ settleRollback /\ UNCHANGED dirty
    /\ UNCHANGED <<row, fence, op, holds, docker, staging, volume, process, stackOp,
                   helpers, intent, kept, release, restarted, ranFenced, accepted>>

(* Mutant: the start times are not compared.                               *)
containersStillFencedMutant == running = {}

containersStillFenced == running = {} /\ ~restarted

takePreRestorePoint ==
    /\ At("run", "capture")
    /\ \/ /\ containersStillFenced
          /\ point' = "succeeded"
          /\ Goto("run", "materialize") /\ UNCHANGED ending
       \/ point' = "failed" /\ settleRollback
    /\ UNCHANGED <<row, fence, op, holds, docker, staging, volume, process, stackOp,
                   helpers, intent, kept, release, history>>

materializePoint ==
    /\ At("run", "materialize")
    /\ advance("materializing", outcomeClass)
    /\ Call("run", "restore", "materialized")
    /\ UNCHANGED <<fence, op, holds, point, docker, staging, volume, process, stackOp,
                   intent, kept, release, ending, history>>

Materialized ==
    /\ At("run", "materialized")
    /\ \/ /\ answer["run"] = "restored"
          /\ Call("run", "prepare", "prepared") /\ UNCHANGED ending
       \/ settleRollback /\ UNCHANGED helpers
    /\ UNCHANGED <<row, fence, op, holds, point, docker, staging, volume, process,
                   stackOp, intent, kept, release, history>>

Prepared ==
    /\ At("run", "prepared")
    /\ IF answer["run"] = "planned"
       THEN advance("swapping", outcomeClass) /\ Goto("run", "recheck_swap") /\ UNCHANGED ending
       ELSE settleRollback /\ UNCHANGED row
    /\ UNCHANGED <<fence, op, holds, point, docker, staging, volume, process, stackOp,
                   helpers, intent, kept, release, history>>

RecheckBeforeSwap ==
    /\ At("run", "recheck_swap")
    /\ \/ running = {} /\ Goto("run", "commit") /\ UNCHANGED ending
       \/ settleRollback
    /\ UNCHANGED <<row, fence, op, holds, point, docker, staging, volume, process,
                   stackOp, helpers, intent, kept, release, history>>

(* Each commit is followed by a status, which falls back on what the first *)
(* commit reported.                                                        *)
Commit ==
    /\ \/ At("run", "commit") /\ Call("run", "commit", "committed")
       \/ /\ At("run", "committed")
          /\ Call("run", "status",
                  IF answer["run"] = "swapped" THEN "confirm_reported" ELSE "confirm")
       \/ At("run", "recommitted") /\ Call("run", "status", "confirm_last")
    /\ UNCHANGED <<row, fence, op, holds, point, docker, staging, volume, process,
                   stackOp, intent, kept, release, ending, history>>

readSwapStatus ==
    IF answer["run"] \in Reports THEN answer["run"]
    ELSE IF pc["run"] = "confirm_reported" THEN "swapped" ELSE "inconsistent"

(* Mutant: a swap that did not commit is not rolled back before the fence  *)
(* is released.                                                            *)
swapAndCleanupMutant ==
    /\ \E place \in {"confirm", "confirm_reported", "confirm_last"} : At("run", place)
    /\ CASE readSwapStatus = "swapped" ->
              /\ advance("swapped", outcomeClass)
              /\ Call("run", "cleanup", "cleaned")
              /\ UNCHANGED <<op, ending, release>>
         [] OTHER -> releaseFence("run", "rollback_settle") /\ ending' = "failed"
                       /\ UNCHANGED <<row, op, helpers>>
    /\ UNCHANGED <<fence, holds, point, docker, staging, volume, process, stackOp, intent, kept,
                   history>>

swapAndCleanup ==
    /\ \E place \in {"confirm", "confirm_reported", "confirm_last"} : At("run", place)
    /\ CASE readSwapStatus = "swapped" ->
              /\ advance("swapped", outcomeClass)
              /\ Call("run", "cleanup", "cleaned")
              /\ UNCHANGED <<op, ending>>
         [] readSwapStatus = "metadata_pending" /\ pc["run"] # "confirm_last" ->
              /\ Call("run", "commit", "recommitted")
              /\ UNCHANGED <<row, op, ending>>
         [] readSwapStatus = "inconsistent" ->
              /\ advance("completion_unknown", "other")
              /\ Finish("completion_unknown")
              /\ UNCHANGED <<helpers, ending>>
         [] OTHER -> settleRollback /\ UNCHANGED <<row, op, helpers>>
    /\ UNCHANGED <<fence, holds, point, docker, staging, volume, process, stackOp, intent, kept,
                   release, history>>

(* Mutant: an owed clean-up reads failed.                                  *)
releaseAfterCommitMutant ==
    /\ At("run", "cleaned")
    /\ IF ok("run")
       THEN releaseFence("run", "commit_settle") /\ UNCHANGED <<row, op>>
       ELSE update("cleanup_failed") /\ Finish("failed") /\ UNCHANGED release
    /\ UNCHANGED <<fence, holds, point, docker, staging, volume, process, stackOp, helpers,
                   intent, kept, ending, history>>

releaseAfterCommit ==
    /\ At("run", "cleaned")
    /\ IF ok("run")
       THEN releaseFence("run", "commit_settle") /\ UNCHANGED <<row, op>>
       ELSE update("cleanup_failed") /\ Finish("partial") /\ UNCHANGED release
    /\ UNCHANGED <<fence, holds, point, docker, staging, volume, process, stackOp, helpers,
                   intent, kept, ending, history>>

CommitSettle ==
    /\ At("run", "commit_settle")
    /\ advance("committed", IF failed["run"] THEN "fence_unavailable" ELSE "null")
    /\ releaseHolds("committed")
    /\ Finish(IF failed["run"] THEN "partial" ELSE "succeeded")
    /\ UNCHANGED <<fence, point, docker, staging, volume, process, stackOp, helpers, intent,
                   kept, release, ending, history>>

-----------------------------------------------------------------------------
(* rollbackIntent, and the ending settleRollback gives the operation.      *)
RollbackBegin ==
    /\ At("run", "rollback")
    /\ IF phase \in {"materializing", "swapping", "swapped"}
       THEN Call("run", "rollback", "rollback_done")
       ELSE Goto("run", "rollback_staging") /\ UNCHANGED helpers
    /\ UNCHANGED <<row, fence, op, holds, point, docker, staging, volume, process,
                   stackOp, intent, kept, release, ending, history>>

RollbackDone ==
    /\ At("run", "rollback_done")
    /\ IF ok("run")
       THEN Goto("run", "rollback_staging") /\ UNCHANGED <<row, op>>
       ELSE advance("completion_unknown", "other") /\ Finish("completion_unknown")
    /\ UNCHANGED <<fence, holds, point, docker, staging, volume, process, stackOp, helpers,
                   intent, kept, release, ending, history>>

RollbackStaging ==
    /\ At("run", "rollback_staging")
    /\ RemoveStagingVolume
    /\ kept' = [kept EXCEPT !["run"] = ~stagingVolumeGone /\ phase \in PRE_FENCE_PHASES]
    /\ releaseFence("run", "rollback_settle")
    /\ UNCHANGED <<row, fence, op, holds, point, docker, volume, process, stackOp,
                   helpers, intent, ending, history>>

rollbackIntent ==
    /\ At("run", "rollback_settle")
    /\ IF kept["run"]
       THEN update("cleanup_failed") /\ UNCHANGED holds
       ELSE /\ advance("rolled_back", IF failed["run"] THEN "fence_unavailable" ELSE "null")
            /\ holds' = FALSE
    /\ Finish(IF failed["run"] THEN "completion_unknown" ELSE ending)
    /\ UNCHANGED <<fence, point, docker, staging, volume, process, stackOp, helpers, intent,
                   kept, release, ending, history>>

-----------------------------------------------------------------------------
(* reconcileOverwriteIntent, run by the boot sequence and by a retry.      *)
Reconcilers == {"boot"} \cup Resolvers
Reconciled(t) == Goto(t, IF t = "boot" THEN "fences" ELSE "answer")

reconcileOverwriteIntent(t) ==
    /\ At(t, "reconcile")
    /\ kept' = [kept EXCEPT ![t] = FALSE]
    /\ CASE intent[t].phase \in PRE_FENCE_PHASES ->
              Goto(t, "unstage") /\ UNCHANGED helpers
         [] intent[t].phase \in FENCED_PHASES ->
              IF workloadsMayRunNow THEN Call(t, "status", "read")
                                    ELSE Call(t, "rollback", "undone")
         [] OTHER -> Call(t, "status", "decide")
    /\ UNCHANGED <<row, fence, op, holds, point, docker, staging, volume, process,
                   stackOp, intent, release, ending, history>>

(* The journal of a fenced phase, only read because workloads may run.     *)
ReadUnderWorkloads(t) ==
    /\ At(t, "read")
    /\ CASE answer[t] \notin Reports -> Reconciled(t) /\ UNCHANGED row
         [] answer[t] = "absent"     -> Goto(t, "unstage") /\ UNCHANGED row
         [] OTHER                    -> markUnknown(t, "other") /\ Reconciled(t)
    /\ UNCHANGED <<fence, op, holds, point, docker, staging, volume, process, stackOp,
                   helpers, intent, kept, release, ending, history>>

Undone(t) ==
    /\ At(t, "undone")
    /\ CASE ~ok(t) -> markUnknown(t, "other") /\ Reconciled(t) /\ UNCHANGED release
         [] ok(t) /\ intent[t].phase \in FENCED_PHASES ->
              Goto(t, "unstage") /\ UNCHANGED <<row, release>>
         [] OTHER -> releaseFence(t, "settle_rolled_back") /\ UNCHANGED row
    /\ UNCHANGED <<fence, op, holds, point, docker, staging, volume, process, stackOp,
                   helpers, intent, kept, ending, history>>

ReconcileStaging(t) ==
    /\ t \in Reconcilers /\ At(t, "unstage")
    /\ RemoveStagingVolume
    /\ kept' = [kept EXCEPT ![t] = ~stagingVolumeGone]
    /\ releaseFence(t, "settle_rolled_back")
    /\ UNCHANGED <<row, fence, op, holds, point, docker, volume, process, stackOp,
                   helpers, intent, ending, history>>

settleProven(t, to) ==
    /\ At(t, IF to = "committed" THEN "settle_committed" ELSE "settle_rolled_back")
    /\ IF kept[t]
       THEN update("cleanup_failed") /\ UNCHANGED holds
       ELSE /\ advance(to, IF failed[t] THEN "fence_unavailable" ELSE "null")
            /\ releaseHolds(to)
    /\ Reconciled(t)
    /\ UNCHANGED <<fence, op, point, docker, staging, volume, process, stackOp,
                   helpers, intent, kept, release, ending, history>>

(* swapping, swapped, completion_unknown: the journal decides.             *)
JournalDecides(t) ==
    /\ At(t, "decide")
    /\ LET was == intent[t].phase
           status == IF answer[t] \in Reports THEN answer[t] ELSE "inconsistent"
       IN CASE status = "absent" /\ was = "swapped" ->
                 releaseFence(t, "settle_committed") /\ UNCHANGED <<row, helpers>>
            [] status \in {"absent", "inconsistent"} /\ ~(status = "absent" /\ was = "swapped") ->
                 /\ IF was = "swapped" THEN UNCHANGED row ELSE markUnknown(t, "other")
                 /\ Reconciled(t) /\ UNCHANGED <<helpers, release>>
            [] status \in {"swapped", "metadata_pending"} /\ ~workloadsMayRunNow ->
                 Call(t, "commit", "finish") /\ UNCHANGED <<row, release>>
            [] status = "swapped" /\ workloadsMayRunNow ->
                 Goto(t, "forward") /\ UNCHANGED <<row, helpers, release>>
            [] status \notin {"absent", "inconsistent", "swapped"} /\ workloadsMayRunNow ->
                 Reconciled(t) /\ UNCHANGED <<row, helpers, release>>
            [] OTHER -> Call(t, "rollback", "undone") /\ UNCHANGED <<row, release>>
    /\ UNCHANGED <<fence, op, holds, point, docker, staging, volume, process, stackOp,
                   intent, kept, ending, history>>

CommitFinished(t) ==
    /\ At(t, "finish")
    /\ IF ok(t) THEN Goto(t, "forward") /\ UNCHANGED row
                ELSE markUnknown(t, "other") /\ Reconciled(t)
    /\ UNCHANGED <<fence, op, holds, point, docker, staging, volume, process, stackOp,
                   helpers, intent, kept, release, ending, history>>

(* The transition to swapped is refused when another request moved the     *)
(* phase since, and the refusal ends this one.                             *)
RollForward(t) ==
    /\ At(t, "forward")
    /\ IF intent[t].phase = "swapping" /\ "swapped" \notin ALLOWED_TRANSITIONS[phase]
       THEN Reconciled(t) /\ UNCHANGED <<row, helpers>>
       ELSE /\ IF intent[t].phase = "swapping"
               THEN advance("swapped", outcomeClass) ELSE UNCHANGED row
            /\ Call(t, "cleanup", "forwarded")
    /\ UNCHANGED <<fence, op, holds, point, docker, staging, volume, process, stackOp,
                   intent, kept, release, ending, history>>

(* Mutant: the answer of cleanup is not read.                              *)
ForwardCleanedMutant(t) ==
    /\ At(t, "forwarded")
    /\ IF answer[t] \in Results THEN releaseFence(t, "settle_forward") /\ UNCHANGED row
                ELSE update("cleanup_failed") /\ Reconciled(t) /\ UNCHANGED release
    /\ UNCHANGED <<fence, op, holds, point, docker, staging, volume, process, stackOp,
                   helpers, intent, kept, ending, history>>

ForwardCleaned(t) ==
    /\ At(t, "forwarded")
    /\ IF ok(t) THEN releaseFence(t, "settle_forward") /\ UNCHANGED row
                ELSE update("cleanup_failed") /\ Reconciled(t) /\ UNCHANGED release
    /\ UNCHANGED <<fence, op, holds, point, docker, staging, volume, process, stackOp,
                   helpers, intent, kept, ending, history>>

SettleForward(t) ==
    /\ At(t, "settle_forward")
    /\ IF ~failed[t]
       THEN advance("committed", "null") /\ releaseHolds("committed")
       ELSE /\ IF phase = "swapped" THEN update("fence_unavailable")
                                    ELSE markUnknown(t, "fence_unavailable")
            /\ UNCHANGED holds
    /\ Reconciled(t)
    /\ UNCHANGED <<fence, op, point, docker, staging, volume, process, stackOp,
                   helpers, intent, kept, release, ending, history>>

-----------------------------------------------------------------------------
(* Mutant: the operation is not parked.                                    *)
BootMutant ==
    /\ ~up /\ up' = TRUE
    /\ op' = op
    /\ Goto("boot", "helpers")
    /\ UNCHANGED <<row, fence, holds, point, docker, staging, volume, startsInFlight,
                   stackOp, helpers, intent, kept, release, ending, history>>

(* The boot sequence: park the operation, remove the helpers of the dead   *)
(* process, reconcile what is unsettled, release the fence of what is      *)
(* settled, settle the operation.  Only then are requests accepted.        *)
Boot ==
    /\ ~up /\ up' = TRUE
    /\ op' = IF op = "running" THEN "completion_unknown" ELSE op
    /\ Goto("boot", "helpers")
    /\ UNCHANGED <<row, fence, holds, point, docker, staging, volume, startsInFlight,
                   stackOp, helpers, intent, kept, release, ending, history>>

Snapshot(t) == intent' = [intent EXCEPT ![t] = [phase |-> phase, class |-> outcomeClass]]
Unsettled == phase \notin Settled \cup {"none", "completion_unknown"}

(* Mutant: the helpers of the dead process are left.                       *)
removeForeignEpochHelpersMutant ==
    /\ At("boot", "helpers")
    /\ \/ /\ UNCHANGED ghosts
          /\ \/ Unsettled /\ Snapshot("boot") /\ Goto("boot", "reconcile")
             \/ ~Unsettled /\ Goto("boot", "fences") /\ UNCHANGED intent
             \/ Goto("boot", "settle") /\ UNCHANGED intent
       \/ Goto("boot", "failed") /\ UNCHANGED <<ghosts, intent>>
    /\ UNCHANGED <<row, fence, op, holds, point, docker, staging, work, written, process,
                   stackOp, helpers, kept, release, ending, history>>

removeForeignEpochHelpers ==
    /\ At("boot", "helpers")
    /\ \/ /\ ghosts' \in IF RemovalFails THEN SUBSET ghosts ELSE {{}}
          /\ \/ Unsettled /\ Snapshot("boot") /\ Goto("boot", "reconcile")
             \/ ~Unsettled /\ Goto("boot", "fences") /\ UNCHANGED intent
             \/ Goto("boot", "settle") /\ UNCHANGED intent
       \/ Goto("boot", "failed") /\ UNCHANGED <<ghosts, intent>>
    /\ UNCHANGED <<row, fence, op, holds, point, docker, staging, work, written, process,
                   stackOp, helpers, kept, release, ending, history>>

reconcileOverwriteIntentsAtStartup ==
    /\ At("boot", "fences")
    /\ IF phase \in Settled /\ FenceLive
       THEN releaseFence("boot", "clear")
       ELSE Goto("boot", "settle") /\ UNCHANGED release
    /\ UNCHANGED <<row, fence, op, holds, point, docker, staging, volume, process,
                   stackOp, helpers, intent, kept, ending, history>>

clearFenceOutcome(t) ==
    /\ At(t, "clear")
    /\ IF ~failed[t]
       THEN /\ update(IF outcomeClass = "fence_unavailable" THEN "null" ELSE outcomeClass)
            /\ holds' = (holds /\ t # "boot")
       ELSE UNCHANGED <<row, holds>>
    /\ Goto(t, IF t = "boot" THEN "settle" ELSE "answer")
    /\ UNCHANGED <<fence, op, point, docker, staging, volume, process, stackOp,
                   helpers, intent, kept, release, ending, history>>

overwriteEndingFor ==
    LET fenceOwed == outcomeClass = "fence_unavailable"
    IN  CASE phase = "committed" -> IF fenceOwed THEN "partial" ELSE "succeeded"
          [] phase = "rolled_back" /\ ~fenceOwed -> "failed"
          [] phase = "swapped" /\ (fenceOwed \/ outcomeClass = "cleanup_failed") -> "partial"
          [] OTHER -> "completion_unknown"

settleInterruptedOverwriteOperations(t) ==
    /\ At(t, IF t = "boot" THEN "settle" ELSE "answer")
    /\ op' = IF op = "completion_unknown" THEN overwriteEndingFor ELSE op
    /\ Goto(t, IF t = "boot" THEN "done" ELSE "off") /\ Forget(t)
    /\ UNCHANGED <<row, fence, holds, point, docker, staging, volume, process, stackOp,
                   history>>

-----------------------------------------------------------------------------
(* The operator's answer to a restore that did not settle.                 *)
Ready == pc["boot"] = "done"

Idle == pc["run"] = "off" /\ op # "running"

Retry(t) ==
    /\ t \in Resolvers /\ At(t, "off") /\ Ready /\ Idle /\ phase # "none"
    /\ Snapshot(t)
    /\ CASE phase \in Settled /\ FenceLive -> releaseFence(t, "clear")
         [] phase \in Settled /\ ~FenceLive -> Goto(t, "answer") /\ UNCHANGED release
         [] OTHER -> Goto(t, "reconcile") /\ UNCHANGED release
    /\ UNCHANGED <<row, fence, op, holds, point, docker, staging, volume, process,
                   stackOp, helpers, kept, ending, history>>

ReleaseFenceRequest(t) ==
    /\ t \in Resolvers /\ At(t, "off") /\ Ready /\ Idle
    /\ phase \notin Settled \cup {"none"}
    /\ ~(fenceState = "none" /\ phase \in PRE_FENCE_PHASES \cup FENCED_PHASES)
    /\ fenceState # "released"
    /\ Snapshot(t)
    /\ releaseFence(t, "accept_released")
    /\ accepted' = TRUE
    /\ UNCHANGED <<row, fence, op, holds, point, docker, staging, volume, process,
                   stackOp, helpers, kept, ending, restarted, dirty, ranFenced>>

AcceptReleased(t) ==
    /\ At(t, "accept_released")
    /\ IF failed[t] THEN Goto(t, "answer") /\ UNCHANGED helpers
                    ELSE Call(t, "status", "accept_status")
    /\ UNCHANGED <<row, fence, op, holds, point, docker, staging, volume, process,
                   stackOp, intent, kept, release, ending, history>>

AcceptStatus(t) ==
    /\ At(t, "accept_status")
    /\ LET was == intent[t]
       IN CASE was.phase = "swapped" /\ answer[t] = "swapped" ->
                 Call(t, "cleanup", "accept_cleaned") /\ UNCHANGED row
            [] was.phase = "swapped" /\ answer[t] # "swapped" ->
                 /\ update(IF was.class = "null" THEN "cleanup_failed" ELSE was.class)
                 /\ Goto(t, "answer") /\ UNCHANGED helpers
            [] was.phase = "completion_unknown" ->
                 /\ update(IF was.class = "null" THEN outcomeClass ELSE was.class)
                 /\ Goto(t, "answer") /\ UNCHANGED helpers
            [] OTHER ->
                 /\ advance("completion_unknown", was.class)
                 /\ Goto(t, "answer") /\ UNCHANGED helpers
    /\ UNCHANGED <<fence, op, holds, point, docker, staging, volume, process, stackOp,
                   intent, kept, release, ending, history>>

AcceptCleaned(t) ==
    /\ At(t, "accept_cleaned")
    /\ IF ok(t) THEN advance("committed", "null") /\ releaseHolds("committed")
                ELSE update("cleanup_failed") /\ UNCHANGED holds
    /\ Goto(t, "answer")
    /\ UNCHANGED <<fence, op, point, docker, staging, volume, process, stackOp,
                   helpers, intent, kept, release, ending, history>>

-----------------------------------------------------------------------------
(* Everybody else.  A single container is started under the fence check    *)
(* and registered until the daemon answers; a Compose lifecycle runs under *)
(* the stack lock; Docker restarts what keeps its own policy.              *)
containers == <<row, fence, op, holds, point, policy, staging, volume, pc, helpers,
                intent, kept, release, ending>>

startUnderFence(c) ==
    /\ up /\ ~FenceLive /\ c \notin running \cup startsInFlight
    /\ startsInFlight' = startsInFlight \cup {c}
    /\ UNCHANGED <<containers, running, up, stackOp, history>>

StartAnswered(c) ==
    /\ c \in startsInFlight
    /\ startsInFlight' = startsInFlight \ {c}
    /\ \E S \in {{}, {c} \ running} : Started(S)
    /\ UNCHANGED <<containers, up, stackOp>>

PolicyStart(c) ==
    /\ policy[c] = "own" /\ c \notin running
    /\ Started({c})
    /\ UNCHANGED <<containers, process, stackOp>>

OutsideStart(c) ==
    /\ OutsideStarts /\ c \notin running
    /\ Started({c})
    /\ UNCHANGED <<containers, process, stackOp>>

ContainerStops(c) ==
    /\ c \in running
    /\ running' = running \ {c}
    /\ UNCHANGED <<containers, process, stackOp, history>>

(* Mutant: the stack lock ignores the fence.                               *)
tryAcquireMutant ==
    /\ up /\ stackOp = "free"
    /\ stackOp' = "lifecycle"
    /\ UNCHANGED <<containers, running, process, history>>

tryAcquire ==
    /\ up /\ stackOp = "free" /\ ~FenceLive
    /\ stackOp' = "lifecycle"
    /\ UNCHANGED <<containers, running, process, history>>

LifecycleStart(c) ==
    /\ stackOp = "lifecycle" /\ c \notin running
    /\ Started({c})
    /\ UNCHANGED <<containers, process, stackOp>>

LifecycleEnd ==
    /\ stackOp = "lifecycle" /\ stackOp' = "free"
    /\ UNCHANGED <<containers, running, process, history>>

(* A workload writes inside an entry of the volume, or a new entry at its  *)
(* root, while the journal does not say the swap committed.                *)
WorkloadWrites ==
    /\ running # {} /\ work \in Uncommitted \cup {"torn"} /\ written # "root"
    /\ written' \in {"inside", "root"} \ {written}
    /\ UNCHANGED <<row, fence, op, holds, point, docker, staging, work, ghosts, process,
                   stackOp, pc, helpers, intent, kept, release, ending, history>>

(* The process dies.  A start it had sent lands or does not; a helper goes *)
(* on without it.                                                          *)
Crash ==
    /\ up /\ up' = FALSE
    /\ \E S \in SUBSET (startsInFlight \ running) : Started(S)
    /\ startsInFlight' = {} /\ stackOp' = "free"
    /\ ghosts' = ghosts \cup {helper[t] : t \in {u \in Threads :
                        helper[u] \notin {"idle", "status"} /\ answer[u] # "error"}}
    /\ wasRunning' = IF phase = "none" THEN {} ELSE wasRunning
    /\ pc' = [t \in Threads |-> "off"]
    /\ helper' = [t \in Threads |-> "idle"]
    /\ answer' = [t \in Threads |-> "killed"]
    /\ intent' = [t \in Threads |-> [phase |-> "none", class |-> "null"]]
    /\ kept' = [t \in Threads |-> FALSE]
    /\ then' = [t \in Threads |-> "off"]
    /\ visited' = [t \in Threads |-> {}]
    /\ failed' = [t \in Threads |-> FALSE]
    /\ ending' = "none"
    /\ UNCHANGED <<row, fenceState, releasedAt, op, holds, point, policy, staging,
                   work, written>>

Ghost(g) ==
    /\ g \in ghosts
    /\ work' \in Reach(g, work)
    /\ ghosts' \in {ghosts, ghosts \ {g}}
    /\ UNCHANGED <<row, fence, op, holds, point, docker, staging, written, process,
                   stackOp, pc, helpers, intent, kept, release, ending, history>>

-----------------------------------------------------------------------------
Releases(t) ==
    ReleaseEnd(t) \/ \E c \in Containers : ReleaseMember(t, c) \/ ReleaseMemberFails(t, c)

Pipeline ==
    \/ prepareOverwriteAdmission \/ admitOverwrite \/ stagePoint \/ createLabelledVolume
    \/ RestoreStaging \/ Unstage \/ removeStaging \/ fenceWorkloads
    \/ waitForStartsInFlight \/ recordMembers \/ FenceEnd
    \/ \E c \in Containers : Pin(c) \/ Stop(c)
    \/ RecheckBeforePoint \/ BeginPoint \/ takePreRestorePoint \/ materializePoint
    \/ Materialized \/ Prepared \/ RecheckBeforeSwap \/ Commit \/ swapAndCleanup
    \/ releaseAfterCommit \/ CommitSettle \/ RollbackBegin \/ RollbackDone
    \/ RollbackStaging \/ rollbackIntent \/ releaseStacks \/ Releases("run")

Reconcile(t) ==
    \/ reconcileOverwriteIntent(t) \/ ReadUnderWorkloads(t) \/ Undone(t)
    \/ ReconcileStaging(t) \/ JournalDecides(t) \/ CommitFinished(t) \/ RollForward(t)
    \/ ForwardCleaned(t) \/ SettleForward(t) \/ clearFenceOutcome(t)
    \/ settleInterruptedOverwriteOperations(t) \/ Releases(t)
    \/ \E to \in Settled : settleProven(t, to)

BootSequence ==
    \/ Boot \/ removeForeignEpochHelpers \/ reconcileOverwriteIntentsAtStartup
    \/ Reconcile("boot")

Accept(t) == AcceptReleased(t) \/ AcceptStatus(t) \/ AcceptCleaned(t)

Environment ==
    \/ \E c \in Containers :
          \/ startUnderFence(c) \/ StartAnswered(c) \/ PolicyStart(c) \/ OutsideStart(c)
          \/ ContainerStops(c) \/ LifecycleStart(c)
    \/ tryAcquire \/ LifecycleEnd \/ WorkloadWrites \/ Crash
    \/ \E g \in Commands : Ghost(g)

Next ==
    \/ Pipeline \/ BootSequence \/ Environment
    \/ \E t \in Threads : runSwapStep(t)
    \/ \E t \in Resolvers : Retry(t) \/ ReleaseFenceRequest(t) \/ Reconcile(t) \/ Accept(t)

Spec == Init /\ [][Next]_vars

(* The pipeline waits for a helper container: the restore of the staging   *)
(* volume, the capture of the safety copy, the restore into the work       *)
(* directory or a step of the swap.  Their profiles have no deadline       *)
(* (timeoutMs null), so nothing in the code ends such a wait by itself.    *)
AwaitsHelper ==
    up /\ (pc["run"] \in {"copy", "capture"} \/ helper["run"] # "idle")

(* The steps of the pipeline that wait for no helper.                      *)
Unaided == Pipeline /\ pc["run"] # "off" /\ ~AwaitsHelper

(* The event loop runs and the daemon answers, so the pipeline goes on     *)
(* wherever it does not wait for a helper; Sencho is restarted after a     *)
(* crash and boots.  Nothing is assumed of helpers, of who asks for a      *)
(* restore, or of the environment.                                         *)
FairSpec == Spec /\ WF_vars(Unaided) /\ WF_vars(Boot)

-----------------------------------------------------------------------------
(* The places of each thread, those where it waits for a helper, and those *)
(* a release of the fence returns to.                                      *)
RunSettles == {"commit_settle", "rollback_settle"}
ReconcileSettles == {"settle_committed", "settle_rolled_back", "settle_forward", "clear"}
BeforeFence == {"stage", "create", "copy", "unstage", "remove", "recheck", "drain", "observe"}
BeforeCopy == BeforeFence \cup {"fence", "protect", "begin", "capture"}
RunCalls == {"materialized", "prepared", "committed", "confirm", "confirm_reported",
             "recommitted", "confirm_last", "cleaned", "rollback_done"}
ReconcileCalls == {"read", "undone", "decide", "finish", "forwarded"}
AcceptCalls == {"accept_status", "accept_cleaned"}
RunPlaces == {"off", "admit", "materialize", "recheck_swap", "commit", "rollback",
              "rollback_staging", "return", "release"}
                \cup BeforeCopy \cup RunCalls \cup RunSettles
ReconcilePlaces == {"reconcile", "unstage", "forward", "release"}
                      \cup ReconcileCalls \cup ReconcileSettles
BootPlaces == {"off", "helpers", "failed", "fences", "settle", "done"} \cup ReconcilePlaces
ResolvePlaces == {"off", "answer", "accept_released"} \cup AcceptCalls \cup ReconcilePlaces
PlacesOf(t) == IF t = "run" THEN RunPlaces
               ELSE IF t = "boot" THEN BootPlaces ELSE ResolvePlaces
CallsOf(t) == IF t = "run" THEN RunCalls
               ELSE IF t = "boot" THEN ReconcileCalls ELSE ReconcileCalls \cup AcceptCalls
ReturnsOf(t) == IF t = "run" THEN RunSettles
               ELSE IF t = "boot" THEN ReconcileSettles ELSE ReconcileSettles \cup {"accept_released"}
Places == RunPlaces \cup BootPlaces \cup ResolvePlaces
CommandAt(place) ==
    CASE place = "materialized" -> "restore"
      [] place = "prepared" -> "prepare"
      [] place \in {"committed", "recommitted", "finish"} -> "commit"
      [] place \in {"rollback_done", "undone"} -> "rollback"
      [] place \in {"cleaned", "forwarded", "accept_cleaned"} -> "cleanup"
      [] OTHER -> "status"

(* Every variable holds a value its column, Docker or the process can      *)
(* hold, at every await of the pipeline, the boot sequence and resolve.    *)
RowTypes ==
    /\ phase \in Phases \cup {"none"} /\ outcomeClass \in Classes
    /\ fenceState \in FenceStates /\ op \in OpStates
    /\ wasRunning \subseteq Containers /\ releasedAt \subseteq Containers
    /\ point \in {"none", "pending", "failed", "succeeded"}
    /\ running \subseteq Containers /\ policy \in [Containers -> {"own", "no"}]
    /\ ghosts \subseteq Commands
    /\ work \in Works /\ written \in {"no", "inside", "root"}
    /\ startsInFlight \subseteq Containers
    /\ stackOp \in {"free", "lifecycle", "data_restore"}
    /\ ending \in {"none", "failed", "cancelled"} /\ ranFenced \subseteq Containers
FlagTypes ==
    /\ holds \in BOOLEAN /\ staging \in BOOLEAN /\ up \in BOOLEAN
    /\ restarted \in BOOLEAN /\ dirty \in BOOLEAN /\ accepted \in BOOLEAN
ThreadTypes ==
    /\ pc \in [Threads -> Places] /\ then \in [Threads -> Places]
    /\ helper \in [Threads -> Commands \cup {"idle"}] /\ answer \in [Threads -> Results]
    /\ intent \in [Threads -> [phase : Phases \cup {"none"}, class : Classes]]
    /\ kept \in [Threads -> BOOLEAN] /\ failed \in [Threads -> BOOLEAN]
    /\ visited \in [Threads -> SUBSET Containers]
TypeOK == RowTypes /\ FlagTypes /\ ThreadTypes

(* The rule of the fence: until an operator accepts the volume as it is,   *)
(* no workload runs while the volume is between the old and the new data,  *)
(* whichever start, restart, lifecycle, crash or boot comes in between.    *)
NoWorkloadOnUnprovenData ==
    running # {} /\ Content(work) = "mixed" => accepted

(* While a workload runs, no step of a pipeline, a boot or a retry moves   *)
(* the volume's data, as long as nobody used release_fence.                *)
NothingMovesUnderWorkloadsStep ==
    running # {} /\ ~accepted => Content(work') = Content(work)
NothingMovesUnderWorkloads == [][NothingMovesUnderWorkloadsStep]_vars

(* A settled intent says what the volume holds, and nothing is left of the *)
(* work directory.  (The helper promises nothing about a torn one.)        *)
SettledIsTrue ==
    /\ phase = "committed" => work \in {"gone", "torn"}
    /\ phase = "rolled_back" => work \in {"none", "torn"}

(* Nothing replaces the live data before a complete point of it exists     *)
(* that was taken with no workload running, and the point stays held until *)
(* the intent is settled.                                                  *)
SafetyCopyFirst ==
    Content(work) # "original" =>
        point = "succeeded" /\ ~dirty /\ (phase \notin Settled => holds)

(* The operation's ending is true of the volume and of its workloads.      *)
EndingIsTrue ==
    /\ op = "succeeded" => phase = "committed" /\ fenceState \in {"none", "released"}
    /\ op = "partial" => Content(work) \in {"restored", "unknown"}
    /\ op \in {"failed", "cancelled"} => Content(work) \in {"original", "unknown"}

(* A container whose restart policy is pinned is under a live fence, which *)
(* a boot or a retry will find and release: none is left pinned for good.  *)
PinnedMeansFenced ==
    (\E c \in Containers : policy[c] = "no") => FenceLive

(* One writer: no two helpers work on the volume at the same time, whether *)
(* the pipeline's, a boot's, a retry's or one a dead process left behind.  *)
Writers == {t \in Threads : helper[t] \notin {"idle", "status"}}
OneWriter ==
    /\ \A t, u \in Writers : t = u
    /\ Writers # {} => ghosts = {}

-----------------------------------------------------------------------------
(* The inductive invariant.  Every thread is at a place of its own, a      *)
(* helper runs only for a thread that waits for it, and the pipeline, the  *)
(* boot sequence and the resolve requests take turns: nothing but the boot *)
(* sequence moves until it is done, and no request is open while the       *)
(* pipeline is.                                                            *)
AtPlaces ==
    \A t \in Threads :
       /\ pc[t] \in PlacesOf(t)
       /\ pc[t] = "release" => then[t] \in ReturnsOf(t)
       /\ helper[t] # "idle" => pc[t] \in CallsOf(t) /\ helper[t] = CommandAt(pc[t])
Turns ==
    /\ ~up => \A t \in Threads : pc[t] = "off"
    /\ pc["boot"] # "done" => \A t \in Threads \ {"boot"} : pc[t] = "off"
    /\ \A r \in Resolvers : pc[r] # "off" => pc["run"] = "off" /\ phase # "none"
TakeTurns == AtPlaces /\ Turns

(* Where a thread is, or will be when it has released the fence.           *)
Toward(t) == IF pc[t] = "release" THEN then[t] ELSE pc[t]

(* Before the intent is recorded nothing but the admission has happened.   *)
Unrecorded ==
    /\ phase = "none" =>
          /\ pc["run"] \in {"off", "admit"}
          /\ pc["boot"] \in {"off", "helpers", "failed", "fences", "settle", "done"}
          /\ fenceState = "none" /\ releasedAt = {} /\ work = "none" /\ ghosts = {}
          /\ \A c \in Containers : policy[c] = "own"
    /\ pc["run"] = "admit" => phase = "none"

(* No container is pinned before the fence is recorded, and a release that *)
(* has met no failure has unpinned every member it visited.                *)
Pins ==
    /\ pc["run"] \in BeforeFence =>
          releasedAt = {} /\ \A c \in Containers : policy[c] = "own"
    /\ pc["run"] = "fence" => releasedAt = {}
    /\ pc["run"] \in {"drain", "observe", "fence"} => fenceState = "held"
    /\ \A c \in releasedAt : policy[c] = "own"
    /\ \A t \in Threads : pc[t] = "release" /\ ~failed[t] =>
          \A c \in visited[t] : policy[c] = "own"
    /\ PinnedMeansFenced

(* The volume is untouched until the safety copy is complete, and the      *)
(* points are held until the intent settles.                               *)
Touched ==
    \/ work # "none" \/ "restore" \in ghosts \/ pc["run"] = "materialize"
    \/ \E t \in Threads : helper[t] = "restore"
Copies ==
    /\ pc["run"] \in BeforeCopy => work = "none" /\ ghosts = {}
    /\ Touched => point = "succeeded" /\ ~dirty
    /\ pc["run"] = "begin" /\ running # {} => restarted
    /\ pc["run"] = "capture" /\ dirty => restarted
    /\ phase \notin Settled \cup {"none"} => holds
    /\ \A t \in Threads : Toward(t) = "clear" => phase \in Settled

(* What follows takes one resolve request at a time, and helpers that      *)
(* Docker does remove: the configurations OverwriteTwoResolves and         *)
(* OverwriteHelperRemains are about the others.                            *)
OneAtATime == ~RemovalFails /\ \A r, s \in Resolvers : r = s

(* The phase at each place of the pipeline and of a reconciliation.        *)
Undecided == {"swapping", "swapped", "completion_unknown"}
RunPhase(place, p) ==
    /\ place = "stage" => p = "recorded"
    /\ place \in {"create", "copy", "unstage"} => p = "staging"
    /\ place \in {"remove", "recheck"} => p = "staged_verified"
    /\ place \in {"drain", "observe", "fence"} => p = "fenced"
    /\ place \in {"protect", "begin", "capture", "materialize"} => p = "protecting"
    /\ place \in {"materialized", "prepared"} => p = "materializing"
    /\ place \in {"recheck_swap", "commit", "committed", "confirm", "confirm_reported",
                  "recommitted", "confirm_last"} => p = "swapping"
    /\ place \in {"cleaned", "commit_settle"} => p = "swapped"
    /\ place = "rollback_done" => p \in {"materializing", "swapping"}
    /\ place \in {"rollback", "rollback_staging", "rollback_settle"} =>
          p \in PRE_FENCE_PHASES \cup FENCED_PHASES \cup {"swapping"}
ReconcilePhase(place, p) ==
    /\ place \in {"reconcile", "settle_rolled_back", "accept_released", "accept_status"} =>
          p \in Phases \ Settled
    /\ place = "unstage" => p \in PRE_FENCE_PHASES \cup FENCED_PHASES
    /\ place = "read" => p \in FENCED_PHASES
    /\ place = "undone" => p \in FENCED_PHASES \cup Undecided
    /\ place \in {"decide", "finish", "forward"} => p \in Undecided
    /\ place \in {"forwarded", "settle_forward"} => p \in {"swapped", "completion_unknown"}
    /\ place \in {"settle_committed", "accept_cleaned"} => p = "swapped"
    /\ place = "clear" => p \in Settled
SnapshotPlaces == {"reconcile", "read", "undone", "decide", "finish", "forward", "unstage",
                   "accept_released", "accept_status"}
Phased ==
    /\ RunPhase(Toward("run"), phase)
    /\ \A t \in Reconcilers :
          /\ ReconcilePhase(Toward(t), phase)
          /\ Toward(t) \in SnapshotPlaces => intent[t].phase = phase

(* A dead process's helper is gone before anything else moves, and each    *)
(* command runs in the phases that may ask for it.                         *)
CommandPhase(command, p) ==
    /\ command \in {"restore", "prepare"} => p = "materializing"
    /\ command = "commit" => p \in Undecided
    /\ command = "cleanup" => p \in {"swapped", "completion_unknown"}
    /\ command = "rollback" => p \in FENCED_PHASES \cup Undecided
Alone ==
    /\ pc["boot"] \notin {"off", "helpers", "failed"} => ghosts = {}
    /\ \A g \in ghosts : CommandPhase(g, phase)

(* What the work directory can be in each phase and at each place, and     *)
(* what an answer that was just read says of it.                           *)
Undoable == {"none", "bare", "planned", "moving", "moved", "torn"}
Done == {"marked", "dregs", "gone", "torn"}
PhaseWork(p, w) ==
    /\ p \in {"none", "recorded", "staging", "staged_verified", "fenced", "protecting"} =>
          w = "none"
    /\ p = "materializing" => w \in {"none", "bare", "planned", "torn"}
    /\ p = "swapping" => w \in Undoable \cup {"marked"}
    /\ p = "swapped" => w \in Done
    /\ p = "committed" => w \in {"gone", "torn"}
    /\ p = "rolled_back" => w \in {"none", "torn"}
PlaceWork(place, w) ==
    /\ place \in {"rollback_staging", "rollback_settle", "settle_rolled_back", "unstage"} =>
          w \in {"none", "torn"}
    /\ place \in {"commit_settle", "settle_committed", "settle_forward"} => w \in {"gone", "torn"}
    /\ place \in {"confirm_reported", "forward"} => w \in {"marked", "torn"}
    /\ place \in {"cleaned", "forwarded", "accept_cleaned"} => w \in Done
    /\ place \in {"recheck_swap", "commit", "rollback", "rollback_done", "undone"} =>
          w \in Undoable
AnswerWork(place, a, w) ==
    /\ place \in {"rollback_done", "undone"} /\ a \notin {"error", "killed"} =>
          w \in {"none", "torn"}
    /\ place \in {"cleaned", "forwarded", "accept_cleaned"} /\ a \notin {"error", "killed"} =>
          w \in {"gone", "torn"}
    /\ place = "committed" /\ a = "swapped" => w \in {"marked", "torn"}
    /\ place = "finish" /\ a \notin {"error", "killed"} => w \in {"marked", "torn"}
    /\ place \in {"confirm", "confirm_reported", "confirm_last", "read", "decide",
                  "accept_status"} =>
          a \in StatusOf(w) \cup {"error", "killed", "inconsistent"}
Truth ==
    /\ PhaseWork(phase, work)
    /\ \A t \in Threads :
          /\ PlaceWork(Toward(t), work)
          /\ helper[t] = "idle" => AnswerWork(pc[t], answer[t], work)

(* What a release of the fence reports, and what a committed intent says   *)
(* of a fence that is still live.                                          *)
FenceReports ==
    /\ phase = "committed" /\ FenceLive => outcomeClass = "fence_unavailable"
    /\ \A t \in Threads :
          /\ pc[t] = "release" => FenceLive
          /\ pc[t] \in ReturnsOf(t) /\ ~failed[t] => ~FenceLive
          /\ pc[t] \in AcceptCalls => ~FenceLive

(* What the ending of the operation rests on.                              *)
Endings ==
    /\ pc["run"] \notin {"off", "admit", "return"} => op = "running"
    /\ "restore" \in ghosts => op \in {"running", "completion_unknown"}
    /\ op \in {"failed", "cancelled"} => work \in {"none", "torn"}
    /\ op = "partial" => work \in Done
    /\ op = "succeeded" => phase = "committed" /\ ~FenceLive

(* Nothing runs on the volume and nothing can start.                       *)
Quiet ==
    /\ running = {} /\ startsInFlight = {} /\ stackOp # "lifecycle" /\ FenceLive
    /\ \A c \in Containers : policy[c] = "no"

(* The volume is quiet from the end of the fence until the work directory  *)
(* is settled, unless an operator released the fence.                      *)
QuietPlaces == {"protect", "begin", "capture", "materialize", "materialized"}
Fenced ==
    /\ pc["run"] \notin {"off", "admit"} => stackOp = "data_restore"
    /\ pc["run"] \in {"observe", "fence"} => startsInFlight = {}
    /\ pc["run"] = "fence" =>
          \A c \in visited["run"] : policy[c] = "no" /\ c \notin running
    /\ pc["run"] \in QuietPlaces => Quiet
    /\ \A t \in Threads : Toward(t) \in {"accept_released", "accept_status", "accept_cleaned"}
          => accepted
    /\ work \notin {"none", "gone", "torn"} \/ "restore" \in ghosts => Quiet \/ accepted

(* What every state keeps of the restore.                                  *)
RestoreInvariant ==
    /\ TypeOK /\ OneWriter /\ TakeTurns /\ Unrecorded /\ Pins /\ Copies
    /\ Phased /\ Alone /\ Truth /\ FenceReports /\ Endings /\ Fenced

(* The operation of a restore does not stay running: the pipeline settles  *)
(* it, or the boot that follows the crash parks it, unless the pipeline    *)
(* waits for ever for a helper (a capture or a restore "runs as long as it *)
(* runs", helperRunner.ts).  No other place of the pipeline is one where   *)
(* the operation can stay.                                                 *)
OperationEnds == (op = "running" ~> op # "running") \/ <>[]AwaitsHelper

(* What the boot sequence says of a helper it could not remove: it may     *)
(* still be writing, so nothing is released while one remains.  No         *)
(* container is given back, and no operation is settled, which frees the   *)
(* volume's storage lock.                                                  *)
NothingReleasedBesideAHelperStep ==
    ghosts # {} =>
        /\ releasedAt' \subseteq releasedAt
        /\ op' \in {op, "completion_unknown"}
NothingReleasedBesideAHelper == [][NothingReleasedBesideAHelperStep]_vars

(* What the fence's release says: it starts only containers that were      *)
(* running when the fence was taken (or that ran under it).                *)
RestartsOnlyWhatRanStep ==
    \A c \in running' \ running : c \in releasedAt' \ releasedAt => c \in ranFenced
RestartsOnlyWhatRan == [][RestartsOnlyWhatRanStep]_vars

(* What reconcileOverwriteIntent and the documentation say: once a release *)
(* of the fence has started, no reconciliation moves data under workloads. *)
DataStillUnderWorkloadsStep ==
    running # {} => Content(work') \in {Content(work), "unknown"}
DataStillUnderWorkloads == [][DataStillUnderWorkloadsStep]_vars
=============================================================================
