----------------------------- MODULE SwapContract -----------------------------
(***************************************************************************)
(* What the callers of the swap helper may rely on, as the states of one   *)
(* work directory and what a run of each helper command does to them.      *)
(* VolumeSwapRefinement shows that the helper keeps this contract;         *)
(* OverwriteRestore is written against it.                                 *)
(*                                                                         *)
(*   none     no work directory, nothing of this restore in the volume     *)
(*   bare     a work directory without a journal, originals at the root    *)
(*   planned  a journal, originals at the root                             *)
(*   moving   some entries moved                                           *)
(*   moved    every entry moved, no commit marker                          *)
(*   marked   the commit marker is written                                 *)
(*   dregs    committed, the journal gone, the directory not               *)
(*   gone     committed and cleaned up                                     *)
(*   torn     a rollback died while it removed the work directory, with    *)
(*            restored copies gone and the journal still there: a later    *)
(*            run may take an original for a restored copy, so nothing is  *)
(*            promised any more (run swap_originals_survive); nor is it    *)
(*            once somebody else has changed the entries of the volume     *)
(***************************************************************************)

Works == {"none", "bare", "planned", "moving", "moved", "marked", "dregs",
          "gone", "torn"}

Commands == {"restore", "prepare", "commit", "status", "rollback", "cleanup"}

Reports == {"absent", "planned", "moving_originals", "moving_incoming",
            "metadata_pending", "swapped", "inconsistent", "rolled_back",
            "cleaned"}

(* "killed" and "error" are the runs without an answer a caller may use.   *)
Results == Reports \cup {"restored", "error", "killed"}

(* What the volume root holds.                                             *)
Content(w) ==
    CASE w \in {"none", "bare", "planned"} -> "original"
      [] w \in {"marked", "dregs", "gone"} -> "restored"
      [] w \in {"moving", "moved"}         -> "mixed"
      [] w = "torn"                        -> "unknown"

(* A journal that still explains originals outside the root.               *)
Uncommitted == {"planned", "moving", "moved"}

(* The states a run of a command can leave behind, wherever it is killed.  *)
Reach(command, w) ==
    CASE command = "restore" /\ w = "none"     -> {"none", "bare"}
           [] command = "prepare" /\ w = "bare"     -> {"bare", "planned"}
           [] command = "commit" /\ w = "planned"   -> {"planned", "moving", "moved", "marked"}
           [] command = "commit" /\ w = "moving"    -> {"moving", "moved", "marked"}
           [] command = "commit" /\ w = "moved"     -> {"moved", "marked"}
           [] command = "rollback" /\ w = "moved"   ->
            {"moved", "moving", "planned", "torn", "bare", "none"}
           [] command = "rollback" /\ w = "moving"  -> {"moving", "planned", "torn", "bare", "none"}
           [] command = "rollback" /\ w = "planned" -> {"planned", "torn", "bare", "none"}
           [] command = "rollback" /\ w = "bare"    -> {"bare", "none"}
           [] command = "rollback" /\ w = "dregs"   -> {"dregs", "gone"}
           [] command = "cleanup" /\ w = "marked"   -> {"marked", "dregs", "gone"}
      [] OTHER                                 -> {w}

(* What status reads from the journal and the directories.                 *)
StatusOf(w) ==
    CASE w \in {"none", "gone"}  -> {"absent"}
      [] w \in {"bare", "dregs"} -> {"inconsistent"}
      [] w = "planned"           -> {"planned"}
      [] w = "moving"            -> {"moving_originals", "moving_incoming"}
      [] w = "moved"             -> {"metadata_pending"}
      [] w = "marked"            -> {"swapped"}
      [] w = "torn"              -> Reports

(* The answers of a run that ends with the directory in state w.           *)
Answers(command, w) ==
    {"error", "killed"} \cup
    IF w = "torn" THEN IF command = "restore" THEN {"restored"} ELSE Reports
    ELSE CASE command = "restore"  -> IF w = "bare" THEN {"restored"} ELSE {}
           [] command = "prepare"  -> IF w \in {"bare", "none", "gone"} THEN {} ELSE StatusOf(w)
           [] command = "commit"   -> IF w = "marked" THEN {"swapped"} ELSE {}
           [] command = "status"   -> StatusOf(w)
           [] command = "rollback" -> IF w \in {"none", "gone"} THEN {"rolled_back"} ELSE {}
           [] command = "cleanup"  -> IF w \in {"none", "gone"} THEN {"cleaned"} ELSE {}
=============================================================================
