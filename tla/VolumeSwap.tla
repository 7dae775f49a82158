------------------------------ MODULE VolumeSwap ------------------------------
(***************************************************************************)
(* The journaled rename swap of the recovery helper                        *)
(* (docker/recovery-helper/probe/swap.go).  A restored snapshot sits in    *)
(* <work>/incoming; `commit` moves every original top-level entry into     *)
(* <work>/original, moves every restored entry up, applies the root        *)
(* metadata and then writes the commit marker into the journal             *)
(* (<work>/plan.json).  `rollback` undoes an uncommitted swap, `cleanup`   *)
(* removes the work directory of a committed one.                          *)
(*                                                                         *)
(* Every file-system call is one step, and the helper can die between any  *)
(* two of them (a killed container, or a call that fails).  The top-level  *)
(* entries are abstracted to who wrote them: the original application      *)
(* ("orig"), the snapshot ("new"), or somebody outside the swap ("app").   *)
(* The order of the entries inside one loop is left open.                  *)
(***************************************************************************)
EXTENDS Naturals

CONSTANTS
    Names,        \* top-level entry names
    MaxCrashes,   \* how often the helper dies in a behaviour
    MaxForeign    \* how many changes somebody else makes to the volume root

ASSUME BoundsAssumption == MaxCrashes \in Nat /\ MaxForeign \in Nat

VARIABLES
    volume,      \* the names the volume held before the restore
    snapshot,    \* the names of the snapshot, without work directories
    otherWork,   \* a work directory of another restore is in the volume
    root,        \* [Names -> Entry]: the volume root
    original,    \* [Names -> Entry]: <work>/original
    incoming,    \* [Names -> Entry]: <work>/incoming/data
    workDir,     \* does <work> exist
    originalDir, \* does <work>/original exist
    stage,       \* "fresh" until the engine's restore, "restored" when prepare is due, then "past"
    plan,        \* the journal, <work>/plan.json
    rootMeta,    \* whose owner and mode the volume root carries
    pc,          \* where the helper is; "idle" when none is running
    answer,      \* the last answer of a helper
    committed,   \* history: the commit marker was written
    torn,        \* history: names a rollback died on inside its last removal (see Kill)
    touched,     \* history: names somebody else created or removed at the root
    crashes,     \* counts Kill, up to MaxCrashes
    foreign      \* counts the changes of somebody else, up to MaxForeign

given == <<volume, snapshot, otherWork>>
dirs == <<root, original, incoming, workDir, originalDir>>
outside == <<touched, torn, crashes, foreign>>
vars == <<given, dirs, stage, plan, rootMeta, pc, answer, committed, outside>>

-----------------------------------------------------------------------------
Entry == {"none", "orig", "new", "app"}

PlanStatus == {"none", "planned", "moving_originals", "moving_incoming", "swapped"}

SwapStatus == {"absent", "planned", "moving_originals", "moving_incoming",
               "metadata_pending", "swapped", "inconsistent"}

Answers == SwapStatus \cup {"restored", "rolled_back", "cleaned", "error", "killed"}

CommitSteps == {"c_mkdir", "c_mark", "c_originals", "c_sync", "c_incoming",
                "c_owner", "c_mode", "c_marker"}
RollbackSteps == {"r_incoming", "r_originals", "r_owner", "r_mode", "r_remove"}
CleanupSteps == {"k_original", "k_incoming", "k_journal", "k_rmdir"}
Steps == {"idle", "restoring"} \cup CommitSteps \cup RollbackSteps \cup CleanupSteps

Plans == [status : PlanStatus, originals : SUBSET Names, incoming : SUBSET Names]
(* There is no journal.  One that is there is whole and of this version:   *)
(* writePlan puts it in place by a rename.                                 *)
NoPlan == [status |-> "none", originals |-> {}, incoming |-> {}]

Init ==
    /\ volume \in SUBSET Names
    /\ snapshot \in SUBSET Names
    /\ otherWork \in BOOLEAN
    /\ root = [n \in Names |-> IF n \in volume THEN "orig" ELSE "none"]
    /\ original = [n \in Names |-> "none"]
    /\ incoming = [n \in Names |-> "none"]
    /\ workDir = FALSE
    /\ originalDir = FALSE
    /\ stage = "fresh"
    /\ plan = NoPlan
    /\ rootMeta = "orig"
    /\ pc = "idle"
    /\ answer = "absent"
    /\ committed = FALSE
    /\ touched = {}
    /\ torn = {}
    /\ crashes = 0
    /\ foreign = 0

-----------------------------------------------------------------------------
(* The state the journal and the directories mean.  It is read from the    *)
(* directories, never from a progress counter, except for the commit       *)
(* marker, which decides on its own.                                       *)
OriginalsMoved == {n \in plan.originals : original[n] # "none"}
IncomingMoved == {n \in plan.incoming : incoming[n] = "none" /\ root[n] # "none"}

(* Mutant: an overlapping name at both places counts as unexplained.       *)
UnexplainedMutant ==
    \/ otherWork
    \/ \E n \in plan.originals : original[n] = "none" /\ root[n] = "none"
    \/ \E n \in plan.incoming : incoming[n] # "none" /\ root[n] # "none"
    \/ \E n \in plan.incoming : incoming[n] = "none" /\ root[n] = "none"

Unexplained ==
    \/ otherWork
    \/ \E n \in plan.originals : original[n] = "none" /\ root[n] = "none"
    \/ \E n \in plan.incoming \ plan.originals : incoming[n] # "none" /\ root[n] # "none"
    \/ \E n \in plan.incoming : incoming[n] = "none" /\ root[n] = "none"
    \/ \E n \in Names \ (plan.originals \cup plan.incoming) : root[n] # "none"

computeStatus ==
    IF plan.status = "swapped" THEN "swapped"
    ELSE IF Unexplained THEN "inconsistent"
    ELSE IF OriginalsMoved = {} /\ IncomingMoved = {} THEN "planned"
    ELSE IF OriginalsMoved # plan.originals THEN "moving_originals"
    ELSE IF IncomingMoved # plan.incoming THEN "moving_incoming"
    ELSE "metadata_pending"

swapStatus ==
    IF plan.status # "none" THEN computeStatus
    ELSE IF workDir THEN "inconsistent" ELSE "absent"

-----------------------------------------------------------------------------
Goto(step) == pc' = step /\ UNCHANGED answer
Report(status) == pc' = "idle" /\ answer' = status

(* External: the engine restores the snapshot into <work>/incoming, entry  *)
(* by entry, under the fence and before any prepare.                       *)
RestoreBegin ==
    /\ pc = "idle" /\ stage = "fresh"
    /\ stage' = "past"
    /\ workDir' = TRUE
    /\ Goto("restoring")
    /\ UNCHANGED <<given, root, original, incoming, originalDir, plan,
                   rootMeta, committed, outside>>

RestoreEntry ==
    /\ pc = "restoring"
    /\ \E n \in snapshot :
         /\ incoming[n] = "none"
         /\ incoming' = [incoming EXCEPT ![n] = "new"]
    /\ UNCHANGED <<given, root, original, workDir, originalDir, stage, plan,
                   rootMeta, pc, answer, committed, outside>>

RestoreEnd ==
    /\ pc = "restoring"
    /\ \A n \in snapshot : incoming[n] # "none"
    /\ stage' = "restored"
    /\ Report("restored")
    /\ UNCHANGED <<given, dirs, plan, rootMeta, committed, outside>>

(* prepare records the plan and nothing else, once, after the restore.     *)
swapPrepare ==
    /\ pc = "idle" /\ stage = "restored"
    /\ stage' = "past"
    /\ IF otherWork
       THEN UNCHANGED plan /\ Report("error")
       ELSE /\ plan' = [status    |-> "planned",
                        originals |-> {n \in Names : root[n] # "none"},
                        incoming  |-> {n \in Names : incoming[n] # "none"}]
            /\ Report("planned")
    /\ UNCHANGED <<given, dirs, rootMeta, committed, outside>>

(* A repeated prepare answers what a journal says, and refuses when there  *)
(* is no restored copy or when <work>/original has no journal.             *)
PrepareAgain ==
    /\ pc = "idle" /\ stage = "past"
    /\ \/ plan.status # "none" /\ Report(computeStatus)
       \/ plan.status = "none" /\ (originalDir \/ ~workDir) /\ Report("error")
    /\ UNCHANGED <<given, dirs, stage, plan, rootMeta, committed, outside>>

-----------------------------------------------------------------------------
(* commit: originals away, incoming up, root metadata, commit marker.      *)
CommitStart ==
    /\ pc = "idle" /\ stage = "past"
    /\ IF plan.status = "none" \/ swapStatus = "inconsistent" THEN Report("error")
       ELSE IF plan.status = "swapped" THEN Report("swapped")
       ELSE Goto("c_mkdir")
    /\ UNCHANGED <<given, dirs, stage, plan, rootMeta, committed, outside>>

CommitMkdir ==
    /\ pc = "c_mkdir"
    /\ originalDir' = TRUE
    /\ Goto("c_mark")
    /\ UNCHANGED <<given, root, original, incoming, workDir, stage, plan,
                   rootMeta, committed, outside>>

CommitMark ==
    /\ pc = "c_mark"
    /\ plan' = [plan EXCEPT !.status = IF @ = "planned" THEN "moving_originals" ELSE @]
    /\ Goto("c_originals")
    /\ UNCHANGED <<given, dirs, stage, rootMeta, committed, outside>>

(* Mutant: a missing original is waited for instead of refused.            *)
MoveOriginalMutant ==
    /\ pc = "c_originals"
    /\ \E n \in plan.originals :
         /\ original[n] = "none" /\ root[n] # "none"
         /\ original' = [original EXCEPT ![n] = root[n]]
         /\ root' = [root EXCEPT ![n] = "none"]
    /\ Goto("c_originals")
    /\ UNCHANGED <<given, incoming, workDir, originalDir, stage, plan,
                   rootMeta, committed, outside>>

MoveOriginal ==
    /\ pc = "c_originals"
    /\ \E n \in plan.originals :
         /\ original[n] = "none"
         /\ IF root[n] = "none"
            THEN Report("error") /\ UNCHANGED <<root, original>>
            ELSE /\ original' = [original EXCEPT ![n] = root[n]]
                 /\ root' = [root EXCEPT ![n] = "none"]
                 /\ Goto("c_originals")
    /\ UNCHANGED <<given, incoming, workDir, originalDir, stage, plan,
                   rootMeta, committed, outside>>

(* Mutant: restored entries go up before every original is away.           *)
OriginalsDoneMutant ==
    /\ pc = "c_originals"
    /\ Goto("c_sync")
    /\ UNCHANGED <<given, dirs, stage, plan, rootMeta, committed, outside>>

OriginalsDone ==
    /\ pc = "c_originals"
    /\ \A n \in plan.originals : original[n] # "none"
    /\ Goto("c_sync")
    /\ UNCHANGED <<given, dirs, stage, plan, rootMeta, committed, outside>>

MarkIncoming ==
    /\ pc = "c_sync"
    /\ plan' = [plan EXCEPT !.status = "moving_incoming"]
    /\ Goto("c_incoming")
    /\ UNCHANGED <<given, dirs, stage, rootMeta, committed, outside>>

MoveIncoming ==
    /\ pc = "c_incoming"
    /\ \E n \in plan.incoming :
         /\ incoming[n] # "none"
         /\ root' = [root EXCEPT ![n] = incoming[n]]
         /\ incoming' = [incoming EXCEPT ![n] = "none"]
    /\ UNCHANGED <<given, original, workDir, originalDir, stage, plan,
                   rootMeta, pc, answer, committed, outside>>

(* Mutant: the marker does not wait for the last restored entry.           *)
IncomingDoneMutant ==
    /\ pc = "c_incoming"
    /\ Goto("c_owner")
    /\ UNCHANGED <<given, dirs, stage, plan, rootMeta, committed, outside>>

IncomingDone ==
    /\ pc = "c_incoming"
    /\ \A n \in plan.incoming : incoming[n] = "none"
    /\ Goto("c_owner")
    /\ UNCHANGED <<given, dirs, stage, plan, rootMeta, committed, outside>>

(* applyRootMeta is a chown, a chmod and a set of the times: a failure     *)
(* between them leaves the root with part of the new metadata.             *)
ApplyRootMeta ==
    /\ \/ pc = "c_owner" /\ rootMeta' = (IF rootMeta = "new" THEN "new" ELSE "part")
                         /\ Goto("c_mode")
       \/ pc = "c_mode" /\ rootMeta' = "new" /\ Goto("c_marker")
    /\ UNCHANGED <<given, dirs, stage, plan, committed, outside>>

(* Mutant: commit answers before the marker is in the journal.             *)
WriteMarkerMutant ==
    /\ pc = "c_marker"
    /\ Report("swapped")
    /\ UNCHANGED <<given, dirs, stage, plan, rootMeta, committed, outside>>

WriteMarker ==
    /\ pc = "c_marker"
    /\ plan' = [plan EXCEPT !.status = "swapped"]
    /\ committed' = TRUE
    /\ Report("swapped")
    /\ UNCHANGED <<given, dirs, stage, rootMeta, outside>>

-----------------------------------------------------------------------------
(* Mutant: a committed swap is rolled back like any other.                 *)
RollbackStartMutant ==
    /\ pc = "idle" /\ stage # "fresh"
    /\ stage' = "past"
    /\ IF plan.status = "none"
       THEN IF workDir THEN Goto("r_remove") ELSE Report("rolled_back")
       ELSE IF swapStatus = "inconsistent" THEN Report("error") ELSE Goto("r_incoming")
    /\ UNCHANGED <<given, dirs, plan, rootMeta, committed, outside>>

(* rollback: refused once the marker is written; incoming back first, then *)
(* originals, then the root's own metadata, then the whole work directory. *)
RollbackStart ==
    /\ pc = "idle" /\ stage # "fresh"
    /\ stage' = "past"
    /\ IF plan.status = "none"
       THEN IF workDir THEN Goto("r_remove") ELSE Report("rolled_back")
       ELSE IF swapStatus \in {"swapped", "inconsistent"} THEN Report("error")
       ELSE Goto("r_incoming")
    /\ UNCHANGED <<given, dirs, plan, rootMeta, committed, outside>>

ReturnIncoming ==
    /\ pc = "r_incoming"
    /\ \E n \in plan.incoming :
         /\ root[n] # "none" /\ incoming[n] = "none"
         /\ incoming' = [incoming EXCEPT ![n] = root[n]]
         /\ root' = [root EXCEPT ![n] = "none"]
    /\ UNCHANGED <<given, original, workDir, originalDir, stage, plan,
                   rootMeta, pc, answer, committed, outside>>

ReturnIncomingDone ==
    /\ pc = "r_incoming"
    /\ \A n \in plan.incoming : root[n] = "none" \/ incoming[n] # "none"
    /\ Goto("r_originals")
    /\ UNCHANGED <<given, dirs, stage, plan, rootMeta, committed, outside>>

ReturnOriginal ==
    /\ pc = "r_originals"
    /\ \E n \in plan.originals :
         /\ original[n] # "none"
         /\ root' = [root EXCEPT ![n] = original[n]]
         /\ original' = [original EXCEPT ![n] = "none"]
    /\ UNCHANGED <<given, incoming, workDir, originalDir, stage, plan,
                   rootMeta, pc, answer, committed, outside>>

ReturnOriginalDone ==
    /\ pc = "r_originals"
    /\ \A n \in plan.originals : original[n] = "none"
    /\ Goto("r_owner")
    /\ UNCHANGED <<given, dirs, stage, plan, rootMeta, committed, outside>>

RestoreRootMeta ==
    /\ \/ pc = "r_owner" /\ rootMeta' = (IF rootMeta = "orig" THEN "orig" ELSE "part")
                         /\ Goto("r_mode")
       \/ pc = "r_mode" /\ rootMeta' = "orig" /\ Goto("r_remove")
    /\ UNCHANGED <<given, dirs, stage, plan, committed, outside>>

(* os.RemoveAll takes the members of the work directory, the journal among *)
(* them, in directory order, which the file system chooses.                *)
RemoveAllStep ==
    /\ pc = "r_remove"
    /\ \/ /\ \E n \in Names : /\ incoming[n] # "none"
                              /\ incoming' = [incoming EXCEPT ![n] = "none"]
          /\ UNCHANGED <<original, originalDir, plan>>
       \/ /\ \E n \in Names : /\ original[n] # "none"
                              /\ original' = [original EXCEPT ![n] = "none"]
          /\ UNCHANGED <<incoming, originalDir, plan>>
       \/ /\ originalDir /\ \A n \in Names : original[n] = "none"
          /\ originalDir' = FALSE
          /\ UNCHANGED <<original, incoming, plan>>
       \/ /\ plan.status # "none"
          /\ plan' = NoPlan
          /\ UNCHANGED <<original, incoming, originalDir>>
    /\ UNCHANGED <<given, root, workDir, stage, rootMeta, pc, answer, committed, outside>>

RemoveAllDone ==
    /\ pc = "r_remove"
    /\ plan.status = "none" /\ ~originalDir
    /\ \A n \in Names : incoming[n] = "none" /\ original[n] = "none"
    /\ workDir' = FALSE
    /\ Report("rolled_back")
    /\ UNCHANGED <<given, root, original, incoming, originalDir, stage, plan,
                   rootMeta, committed, outside>>

-----------------------------------------------------------------------------
(* cleanup: only the journal's commit marker allows it, and the journal    *)
(* goes after everything it describes.                                     *)
CleanupStart ==
    /\ pc = "idle" /\ stage = "past"
    /\ IF plan.status = "none"
       THEN Report(IF workDir THEN "error" ELSE "cleaned")
       ELSE IF plan.status # "swapped" THEN Report("error")
       ELSE Goto("k_original")
    /\ UNCHANGED <<given, dirs, stage, plan, rootMeta, committed, outside>>

CleanupOriginal ==
    /\ pc = "k_original"
    /\ \/ /\ \E n \in Names : /\ original[n] # "none"
                              /\ original' = [original EXCEPT ![n] = "none"]
          /\ UNCHANGED originalDir /\ Goto("k_original")
       \/ /\ \A n \in Names : original[n] = "none"
          /\ originalDir' = FALSE
          /\ UNCHANGED original /\ Goto("k_incoming")
    /\ UNCHANGED <<given, root, incoming, workDir, stage, plan, rootMeta,
                   committed, outside>>

CleanupIncoming ==
    /\ pc = "k_incoming"
    /\ incoming' = [n \in Names |-> "none"]
    /\ Goto("k_journal")
    /\ UNCHANGED <<given, root, original, workDir, originalDir, stage, plan,
                   rootMeta, committed, outside>>

CleanupJournal ==
    /\ pc = "k_journal"
    /\ plan' = NoPlan
    /\ Goto("k_rmdir")
    /\ UNCHANGED <<given, dirs, stage, rootMeta, committed, outside>>

CleanupRmdir ==
    /\ pc = "k_rmdir"
    /\ workDir' = FALSE
    /\ Report("cleaned")
    /\ UNCHANGED <<given, root, original, incoming, originalDir, stage, plan,
                   rootMeta, committed, outside>>

(* status answers the computed state without changing anything.            *)
Status ==
    /\ pc = "idle"
    /\ Report(swapStatus)
    /\ UNCHANGED <<given, dirs, stage, plan, rootMeta, committed, outside>>

-----------------------------------------------------------------------------
(* The restored copies that are gone while the journal still names them.   *)
(* A later rollback takes the original entry of such a name for the        *)
(* restored one, and a later status finds a restored-only name nowhere.    *)
RemovedUnderJournal ==
    IF pc = "r_remove" /\ plan.status # "none"
    THEN {n \in plan.incoming : incoming[n] = "none"}
    ELSE {}

(* The helper stops where it is: its container is killed, or a file-system *)
(* call fails and it exits with an error.                                  *)
Kill ==
    /\ pc # "idle" /\ crashes < MaxCrashes
    /\ crashes' = crashes + 1
    /\ torn' = torn \cup RemovedUnderJournal
    /\ Report("killed")
    /\ UNCHANGED <<given, dirs, stage, plan, rootMeta, committed, touched, foreign>>

(* External: something other than the helper creates or removes a root     *)
(* entry: a container outside Sencho's control, or, after the commit, the  *)
(* restarted workload.                                                     *)
ForeignWrite ==
    /\ foreign < MaxForeign
    /\ foreign' = foreign + 1
    /\ \E n \in Names :
         /\ root' = [root EXCEPT ![n] = IF @ = "none" THEN "app" ELSE "none"]
         /\ touched' = touched \cup {n}
    /\ UNCHANGED <<given, original, incoming, workDir, originalDir, stage, plan,
                   rootMeta, pc, answer, committed, torn, crashes>>

Restore == RestoreBegin \/ RestoreEntry \/ RestoreEnd
Prepare == swapPrepare \/ PrepareAgain
Commit == CommitMkdir \/ CommitMark \/ MoveOriginal \/ OriginalsDone \/ MarkIncoming
            \/ MoveIncoming \/ IncomingDone \/ ApplyRootMeta \/ WriteMarker
Rollback == ReturnIncoming \/ ReturnIncomingDone \/ ReturnOriginal \/ ReturnOriginalDone
            \/ RestoreRootMeta \/ RemoveAllStep \/ RemoveAllDone
Cleanup == CleanupOriginal \/ CleanupIncoming \/ CleanupJournal \/ CleanupRmdir

HelperStep == RestoreEntry \/ RestoreEnd \/ Commit \/ Rollback \/ Cleanup

Next == \/ Restore \/ Prepare \/ CommitStart \/ Commit \/ RollbackStart \/ Rollback
        \/ CleanupStart \/ Cleanup \/ Status \/ Kill \/ ForeignWrite

Spec == Init /\ [][Next]_vars

(* A running helper container is scheduled; nothing obliges a caller to    *)
(* start one, and nothing obliges anything to fail.                        *)
FairSpec == Spec /\ WF_vars(HelperStep)

-----------------------------------------------------------------------------
TypeOK ==
    /\ volume \in SUBSET Names /\ snapshot \in SUBSET Names /\ otherWork \in BOOLEAN
    /\ root \in [Names -> Entry]
    /\ original \in [Names -> Entry]
    /\ incoming \in [Names -> Entry]
    /\ workDir \in BOOLEAN /\ originalDir \in BOOLEAN /\ committed \in BOOLEAN
    /\ stage \in {"fresh", "restored", "past"}
    /\ plan \in Plans
    /\ rootMeta \in {"orig", "part", "new"}
    /\ pc \in Steps /\ answer \in Answers
    /\ touched \in SUBSET Names /\ torn \in SUBSET Names
    /\ crashes \in 0..MaxCrashes /\ foreign \in 0..MaxForeign

(* Until the commit marker is written, every entry the volume held is at   *)
(* the root or in <work>/original, wherever the helper was killed and      *)
(* whichever of commit, rollback and cleanup were tried since.  Excepted   *)
(* are names somebody else changed, and names a rollback died on inside    *)
(* its last os.RemoveAll (run swap_originals_survive shows those lost).    *)
OriginalsKept ==
    ~committed => \A n \in volume \ (touched \cup torn) :
                     root[n] = "orig" \/ original[n] = "orig"

(* A work directory without a journal never holds an original entry of an  *)
(* uncommitted swap: swapRollback deletes such a directory unread.         *)
JournalGuardsOriginals ==
    plan.status = "none" /\ ~committed =>
        \A n \in volume \ (touched \cup torn) : root[n] = "orig" /\ original[n] = "none"

(* The commit marker means the swap is complete: the root holds exactly    *)
(* the snapshot's entries and metadata, and the originals are out of it.   *)
MarkerMeansRestored ==
    plan.status = "swapped" =>
        /\ rootMeta = "new"
        /\ \A n \in Names \ (touched \cup torn) :
              root[n] = IF n \in snapshot THEN "new" ELSE "none"

(* A rollback that answers `rolled_back` on a swap that never committed    *)
(* has put back every original entry and the root metadata, and has left   *)
(* nothing of the restore behind.                                          *)
RolledBackMeansOriginal ==
    answer = "rolled_back" /\ pc = "idle" /\ ~committed =>
        /\ ~workDir /\ rootMeta = "orig"
        /\ \A n \in Names \ (touched \cup torn) :
              root[n] = IF n \in volume THEN "orig" ELSE "none"

(* Whatever step of prepare, commit or rollback the helper died in, the    *)
(* directories still spell a status that can be resumed, unless somebody   *)
(* else changed the root or a rollback died in its last removal.           *)
Resumable ==
    pc = "idle" /\ plan.status # "none" /\ touched = {} /\ torn = {} =>
        swapStatus # "inconsistent"

(* Once the marker is written no request moves a root entry again: the     *)
(* workload may be running on it.                                          *)
CommitIsFinal ==
    [][committed => \A n \in Names \ touched' : root'[n] = root[n]]_vars

(* A helper that runs ends: no loop waits for an entry nothing will move.  *)
HelperEnds == (pc # "idle") ~> (pc = "idle")

-----------------------------------------------------------------------------
(* The inductive invariant behind the five state properties.  `Control`    *)
(* ties the helper's place to the journal; `Whereabouts(n)` says where the *)
(* two versions of an entry nobody else touched are.                       *)
Control ==
    /\ plan.status = "swapped" => committed
    /\ committed => plan.status \in {"swapped", "none"}
    /\ plan.status # "none" => ~otherWork /\ plan.incoming = snapshot /\ stage = "past"
    /\ pc \in CommitSteps \cup (RollbackSteps \ {"r_remove"}) =>
          plan.status # "none" /\ ~committed
    /\ pc = "r_remove" => plan.status # "swapped"
    /\ pc \in CleanupSteps => committed
    /\ pc = "restoring" \/ stage # "past" =>
          plan.status = "none" /\ ~committed /\ answer # "rolled_back"
    /\ pc # "idle" => stage = "past"
    /\ stage = "restored" => \A n \in Names : (incoming[n] # "none") <=> (n \in snapshot)
    /\ pc = "restoring" \/ stage = "fresh" =>
          \A n \in Names : incoming[n] # "none" => n \in snapshot
    /\ pc = "c_marker" \/ plan.status = "swapped" => rootMeta = "new"
    /\ (pc = "r_remove" \/ plan.status = "none") /\ ~committed => rootMeta = "orig"
    /\ answer = "rolled_back" /\ pc = "idle" /\ ~committed => plan.status = "none" /\ ~workDir
    /\ stage = "fresh" => ~workDir
    /\ plan.status # "none" \/ stage = "restored" \/ pc = "restoring" => workDir
    /\ pc = "k_rmdir" => plan.status = "none"
    /\ pc \in {"k_original", "k_incoming", "k_journal"} => plan.status = "swapped"

Whereabouts(n) ==
    /\ incoming[n] \in {"none", "new"}
    /\ plan.status = "none" =>
          original[n] = "none" /\ root[n] = IF n \in volume THEN "orig" ELSE "none"
    /\ plan.status # "none" =>
          /\ (n \in plan.originals) <=> (n \in volume)
          /\ \/ n \in volume /\ root[n] = "orig" /\ original[n] = "none"
             \/ n \in volume /\ original[n] = "orig" /\ root[n] \in {"none", "new"}
             \/ n \notin volume /\ original[n] = "none" /\ root[n] \in {"none", "new"}
          /\ root[n] = "new" => n \in plan.incoming /\ incoming[n] = "none"
          /\ n \in plan.incoming /\ pc # "r_remove" => incoming[n] = "new" \/ root[n] = "new"
          /\ pc \in {"c_sync", "c_incoming", "c_owner", "c_mode", "c_marker"} /\ n \in volume
                => original[n] = "orig"
          /\ pc \in {"c_owner", "c_mode", "c_marker"} /\ n \in plan.incoming
                => incoming[n] = "none"
          /\ pc \in {"r_originals", "r_owner", "r_mode", "r_remove"} => root[n] # "new"
          /\ pc \in {"r_owner", "r_mode", "r_remove"} => original[n] = "none"

(* Every reachable state is one in which the journal explains where each   *)
(* entry nobody else touched is, for every place the helper can be at.     *)
SwapInvariant ==
    /\ TypeOK
    /\ Control
    /\ ~committed => \A n \in Names \ (touched \cup torn) : Whereabouts(n)
    /\ MarkerMeansRestored
    /\ committed => \A n \in Names \ (touched \cup torn) :
                       root[n] = IF n \in snapshot THEN "new" ELSE "none"

-----------------------------------------------------------------------------
(* What swap.go:10-13 says of every interruption, without the exception of *)
(* OriginalsKept for a rollback that died in its last removal.             *)
OriginalsSurvive ==
    ~committed => \A n \in volume \ touched :
                     \E dir \in {root, original, incoming} : dir[n] = "orig"

(* What swap.go:189-192 says of an interrupted clean-up: it is repeated,   *)
(* not parked, because the journal explains whatever is left.              *)
CleanupRepeatable ==
    pc = "idle" /\ committed /\ workDir => swapStatus = "swapped"
=============================================================================
