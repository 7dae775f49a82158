----------------------- MODULE VolumeSwapRefinementProofs -----------------------
(* The swap helper implements its contract, for every set of names and     *)
(* every number of kills and outside writes.                               *)
EXTENDS VolumeSwapRefinement, VolumeSwapProofs

(* Zenon is the default; a leaf that it cannot do names the SMT solver.    *)
USE ZenonT(30)

Sane == touched \cup torn = {}

(* The steps of the helper, by what a caller can tell of them.             *)
LEMMA ServiceSteps ==
  ASSUME NEW c \in Service!Commands, abstractWork' \in Service!Reach(c, abstractWork),
         \/ abstractCommand = "none" /\ abstractCommand' = c /\ answer' = answer
         \/ abstractCommand = c /\ abstractCommand' = c /\ answer' = answer
         \/ /\ abstractCommand = c /\ abstractCommand' = "none"
            /\ answer' \in Service!Answers(c, abstractWork')
         \/ /\ abstractCommand = "none" /\ abstractCommand' = "none"
            /\ answer' \in Service!Answers(c, abstractWork')
  PROVE  Service!Next
  BY DEF Service!Commands, Service!Next, Service!Begin, Service!Move, Service!End, Service!Run

(* A run may leave the work directory as it found it.                      *)
LEMMA ReachSelf == \A c \in Service!Commands, w \in Service!Works : w \in Service!Reach(c, w)
  BY SMTT(30) DEF Service!Commands, Service!Works, Service!Reach

(* The answers a run may give, by the state it ends in.                    *)
LEMMA AnswerFacts ==
  /\ \A c \in Service!Commands, w \in Service!Works :
        "error" \in Service!Answers(c, w) /\ "killed" \in Service!Answers(c, w)
  /\ \A c \in Service!Commands \ {"restore"}, r \in Service!Reports : r \in Service!Answers(c, "torn")
  /\ \A w \in {"bare", "torn"} : "restored" \in Service!Answers("restore", w)
  /\ \A w \in {"planned", "moving", "moved", "marked", "dregs"} :
        \A r \in Service!StatusOf(w) : r \in Service!Answers("prepare", w)
  /\ "swapped" \in Service!Answers("commit", "marked")
  /\ \A w \in Service!Works : \A r \in Service!StatusOf(w) : r \in Service!Answers("status", w)
  /\ \A w \in {"none", "gone"} : /\ "rolled_back" \in Service!Answers("rollback", w)
                                /\ "cleaned" \in Service!Answers("cleanup", w)
  <1>1. \A c \in Service!Commands, w \in Service!Works :
          "error" \in Service!Answers(c, w) /\ "killed" \in Service!Answers(c, w)
    BY DEF Service!Answers
  <1>2. \A c \in Service!Commands \ {"restore"}, r \in Service!Reports :
          r \in Service!Answers(c, "torn")
    BY DEF Service!Answers
  <1>3. \A w \in {"bare", "torn"} : "restored" \in Service!Answers("restore", w)
    BY DEF Service!Answers
  <1>4. \A w \in {"planned", "moving", "moved", "marked", "dregs"} :
          \A r \in Service!StatusOf(w) : r \in Service!Answers("prepare", w)
    BY DEF Service!Answers
  <1>5. "swapped" \in Service!Answers("commit", "marked")
    BY DEF Service!Answers
  <1>6. \A w \in Service!Works : \A r \in Service!StatusOf(w) : r \in Service!Answers("status", w)
    BY DEF Service!Answers, Service!StatusOf
  <1>7. \A w \in {"none", "gone"} : /\ "rolled_back" \in Service!Answers("rollback", w)
                                  /\ "cleaned" \in Service!Answers("cleanup", w)
    BY DEF Service!Answers
  <1> QED
    BY <1>1, <1>2, <1>3, <1>4, <1>5, <1>6, <1>7

(* Nothing is promised of a volume somebody else changed.                  *)
LEMMA WorkTorn == ~Sane => abstractWork = "torn"
  BY DEF Sane, abstractWork

(* The same of the next state.                                             *)
LEMMA WorkTornNext == (~Sane => abstractWork = "torn")'
  BY WorkTorn, PTL

(* The abstract state is one of the contract's.                            *)
LEMMA WorkType == abstractWork \in Service!Works
  BY DEF abstractWork, Service!Works

(* The same of the next state.                                             *)
LEMMA WorkTypeNext == (abstractWork \in Service!Works)'
  BY WorkType, PTL

(* The running command is told by the helper's place.                      *)
CommandIsPlace ==
    /\ pc = "idle" => abstractCommand = "none"
    /\ pc = "restoring" => abstractCommand = "restore"
    /\ pc \in CommitSteps => abstractCommand = "commit"
    /\ pc \in RollbackSteps => abstractCommand = "rollback"
    /\ pc \in CleanupSteps => abstractCommand = "cleanup"

(* Its place tells the command in every state.                             *)
LEMMA Commands == CommandIsPlace
  BY DEF CommandIsPlace, abstractCommand, CommitSteps, RollbackSteps, CleanupSteps

(* The same of the next state.                                             *)
LEMMA CommandsNext == CommandIsPlace'
  BY Commands, PTL

(* With an uncommitted journal the abstract state says which entries moved. *)
Unfinished == SwapInvariant /\ Sane /\ plan.status \notin {"none", "swapped"}
ProgressIsWork ==
    /\ ~committed
    /\ pc = "r_remove" => abstractWork = "planned"
    /\ pc # "r_remove" =>
          /\ ~Unexplained
          /\ abstractWork = IF OriginalsMoved = {} /\ IncomingMoved = {} THEN "planned"
                            ELSE IF OriginalsMoved = plan.originals /\ IncomingMoved = plan.incoming
                            THEN "moved" ELSE "moving"

(* The journal and the directories explain every entry then.               *)
LEMMA Progress == Unfinished => ProgressIsWork
  <1> SUFFICES ASSUME SwapInvariant, Sane, plan.status \notin {"none", "swapped"}
               PROVE  ProgressIsWork
    BY DEF Unfinished
  <1> USE DEF ProgressIsWork
  <1>1. ~committed /\ TypeOK /\ Control
    BY DEF SwapInvariant, Control
  <1>2. touched = {} /\ torn = {}
    BY DEF Sane
  <1>3. \A n \in Names : Whereabouts(n)
    BY <1>1, <1>2 DEF SwapInvariant
  <1>4. plan.originals \subseteq Names /\ plan.incoming \subseteq Names /\ ~otherWork
    BY <1>1 DEF TypeOK, Plans, Control
  <1>5. CASE pc = "r_remove"
    <2>1. CASE RemovedUnderJournal # {}
      BY <1>1, <1>2, <1>5, <2>1 DEF abstractWork, Removing
    <2>2. CASE RemovedUnderJournal = {}
      <3>1. \A n \in plan.incoming : incoming[n] # "none"
        BY <1>5, <2>2 DEF RemovedUnderJournal
      <3>2. \A n \in Names : root[n] # "new" /\ original[n] = "none"
        BY <1>3, <1>5 DEF Whereabouts
      <3>3. ~Unexplained
        BY <1>3, <1>4, <3>1, <3>2 DEF Unexplained, Whereabouts
      <3>4. OriginalsMoved = {} /\ IncomingMoved = {}
        BY <1>4, <3>1, <3>2 DEF OriginalsMoved, IncomingMoved
      <3>5. computeStatus = "planned"
        BY <3>3, <3>4 DEF computeStatus
      <3> QED
        BY <1>1, <1>2, <1>5, <3>5 DEF abstractWork
    <2> QED BY <2>1, <2>2, <1>1, <1>5
  <1>6. CASE pc # "r_remove"
    <2>1. ~Unexplained
      BY <1>3, <1>4, <1>6 DEF Unexplained, Whereabouts
    <2>2. ~Removing
      BY <1>6 DEF Removing
    <2>3. OriginalsMoved = {} /\ IncomingMoved = {} => computeStatus = "planned"
      BY <2>1 DEF computeStatus
    <2>4. ~(OriginalsMoved = {} /\ IncomingMoved = {}) =>
            computeStatus = IF OriginalsMoved # plan.originals THEN "moving_originals"
                            ELSE IF IncomingMoved # plan.incoming THEN "moving_incoming"
                            ELSE "metadata_pending"
      BY <2>1 DEF computeStatus
    <2> QED
      BY <1>1, <1>2, <1>6, <2>1, <2>2, <2>3, <2>4 DEF abstractWork
  <1> QED
    BY <1>5, <1>6

(* The same of the next state.                                             *)
LEMMA ProgressNext == Unfinished' => ProgressIsWork'
  BY Progress, PTL

(* Without an uncommitted journal it is read from the marker and the       *)
(* directory.                                                              *)
SettledWork ==
    IF committed THEN IF plan.status # "none" \/ pc = "k_rmdir" THEN "marked"
                      ELSE IF workDir THEN "dregs" ELSE "gone"
    ELSE IF workDir THEN "bare" ELSE "none"

(* The three parts of the mapping that need no journal.                    *)
LEMMA Settled == Sane /\ (committed \/ plan.status = "none") => abstractWork = SettledWork
  BY DEF Sane, abstractWork, SettledWork

(* The same of the next state.                                             *)
LEMMA SettledNext ==
  (Sane /\ (committed \/ plan.status = "none") => abstractWork = SettledWork)'
  BY Settled, PTL

(* A step that only moves the helper's place leaves the abstract state.     *)
LEMMA SameWork ==
  ASSUME UNCHANGED <<plan, root, original, incoming, otherWork, committed, workDir, torn, touched>>,
         pc # "k_rmdir" /\ pc' # "k_rmdir", ~Removing /\ ~Removing'
  PROVE  abstractWork' = abstractWork
  BY SMTT(30) DEF abstractWork, computeStatus, Unexplained, OriginalsMoved, IncomingMoved

(* A step no caller can tell from none.                                    *)
Silent == UNCHANGED <<abstractWork, abstractCommand, answer>>

(* The initial states are initial states of the contract.                  *)
LEMMA InitContract == Init => Service!Init
  <1> SUFFICES ASSUME Init PROVE Service!Init
    OBVIOUS
  <1>1. pc = "idle" /\ answer = "absent" /\ plan.status = "none" /\ ~committed /\ ~workDir
          /\ torn = {} /\ touched = {}
    BY DEF Init, NoPlan
  <1>2. abstractWork = "none"
    BY <1>1 DEF abstractWork
  <1>3. abstractCommand = "none"
    BY <1>1, Commands DEF CommandIsPlace
  <1> QED
    BY <1>1, <1>2, <1>3 DEF Service!Init

(* The engine's restore: from no work directory to a bare one.             *)
LEMMA RestoreContract == ASSUME SwapInvariant, Restore PROVE Service!Next \/ Silent
  <1> USE Commands, CommandsNext DEF CommandIsPlace, given, dirs, outside, Goto, Report
  <1>a. Control
    BY DEF SwapInvariant
  <1>b. UNCHANGED <<touched, torn, committed, plan>>
    BY DEF Restore, RestoreBegin, RestoreEntry, RestoreEnd
  <1>c. plan.status = "none" /\ ~committed
    BY <1>a DEF Restore, RestoreBegin, RestoreEntry, RestoreEnd, Control
  <1>d. Sane' = Sane
    BY <1>b DEF Sane
  <1>e. Sane => abstractWork = SettledWork /\ abstractWork' = SettledWork'
    BY <1>b, <1>c, <1>d, Settled, SettledNext
  <1>1. CASE RestoreBegin
    <2>1. abstractCommand = "none" /\ abstractCommand' = "restore" /\ answer' = answer
      BY <1>1 DEF RestoreBegin
    <2>2. ~workDir /\ workDir'
      BY <1>1, <1>a DEF RestoreBegin, Control
    <2>3. abstractWork' \in Service!Reach("restore", abstractWork)
      <3>1. CASE Sane
        <4>1. abstractWork = "none" /\ abstractWork' = "bare"
          BY <1>b, <1>c, <1>e, <2>2, <3>1 DEF SettledWork
        <4> QED BY <4>1 DEF Service!Reach
      <3>2. CASE ~Sane
        BY <3>2, <1>d, WorkTorn, WorkTornNext DEF Service!Reach
      <3> QED BY <3>1, <3>2
    <2> QED
      BY <2>1, <2>3, ServiceSteps DEF Service!Commands
  <1>2. CASE RestoreEntry
    <2>1. UNCHANGED <<abstractCommand, answer>>
      BY <1>2 DEF RestoreEntry
    <2>2. UNCHANGED <<workDir, pc>>
      BY <1>2 DEF RestoreEntry
    <2>3. abstractWork' = abstractWork
      BY SMTT(30), <1>b, <1>d, <1>e, <2>2, WorkTorn, WorkTornNext DEF SettledWork
    <2> QED
      BY <2>1, <2>3 DEF Silent
  <1>3. CASE RestoreEnd
    <2>1. abstractCommand = "restore" /\ abstractCommand' = "none" /\ answer' = "restored"
      BY <1>3 DEF RestoreEnd
    <2>2. workDir /\ workDir'
      BY <1>3, <1>a DEF RestoreEnd, Control
    <2>3. \/ abstractWork = "bare" /\ abstractWork' = "bare"
          \/ abstractWork = "torn" /\ abstractWork' = "torn"
      BY <1>b, <1>c, <1>d, <1>e, <2>2, WorkTorn, WorkTornNext DEF SettledWork
    <2>4. /\ abstractWork' \in Service!Reach("restore", abstractWork)
          /\ answer' \in Service!Answers("restore", abstractWork')
      BY <2>1, <2>3, AnswerFacts DEF Service!Reach
    <2> QED
      BY <2>1, <2>4, ServiceSteps DEF Service!Commands
  <1> QED
    BY <1>1, <1>2, <1>3 DEF Restore

(* What a helper that is not running would answer is what the contract     *)
(* reads from the state.                                                   *)
LEMMA StatusIsTold ==
  ASSUME SwapInvariant, pc = "idle"
  PROVE  /\ swapStatus \in Service!StatusOf(abstractWork)
         /\ plan.status # "none" =>
              /\ computeStatus \in Service!StatusOf(abstractWork)
              /\ abstractWork \in {"planned", "moving", "moved", "marked", "torn"}
         /\ plan.status = "swapped" => abstractWork \in {"marked", "torn"}
         /\ plan.status = "none" /\ ~workDir => abstractWork \in {"none", "gone", "torn"}
  <1>1. Control
    BY DEF SwapInvariant
  <1>2. swapStatus \in Service!Reports /\ computeStatus \in Service!Reports
    BY DEF swapStatus, computeStatus, Service!Reports
  <1>3. CASE ~Sane
    BY <1>2, <1>3, WorkTorn DEF Service!StatusOf
  <1>4. CASE Sane /\ plan.status = "none"
    <2>1. abstractWork = SettledWork
      BY <1>4, Settled
    <2>2. swapStatus = IF workDir THEN "inconsistent" ELSE "absent"
      BY <1>4 DEF swapStatus
    <2>3. abstractWork \in IF workDir THEN {"bare", "dregs"} ELSE {"none", "gone"}
      BY <1>4, <2>1 DEF SettledWork
    <2> QED
      BY <1>4, <2>2, <2>3 DEF Service!StatusOf
  <1>5. CASE Sane /\ plan.status = "swapped"
    <2>1. abstractWork = "marked"
      BY <1>1, <1>5, Settled DEF SettledWork, Control
    <2>2. computeStatus = "swapped" /\ swapStatus = "swapped"
      BY <1>5 DEF computeStatus, swapStatus
    <2> QED
      BY <1>5, <2>1, <2>2 DEF Service!StatusOf
  <1>6. CASE Sane /\ plan.status \notin {"none", "swapped"}
    <2>1. ProgressIsWork
      BY <1>6, Progress DEF Unfinished
    <2>2. swapStatus = computeStatus
      BY <1>6 DEF swapStatus
    <2>3. computeStatus = IF OriginalsMoved = {} /\ IncomingMoved = {} THEN "planned"
                          ELSE IF OriginalsMoved # plan.originals THEN "moving_originals"
                          ELSE IF IncomingMoved # plan.incoming THEN "moving_incoming"
                          ELSE "metadata_pending"
      BY <1>6, <2>1 DEF computeStatus, ProgressIsWork
    <2>4. \/ abstractWork = "planned" /\ computeStatus = "planned"
          \/ abstractWork = "moving" /\ computeStatus \in {"moving_originals", "moving_incoming"}
          \/ abstractWork = "moved" /\ computeStatus = "metadata_pending"
      BY <2>1, <2>3 DEF ProgressIsWork
    <2> QED
      BY <1>6, <2>2, <2>4 DEF Service!StatusOf
  <1> QED
    BY <1>3, <1>4, <1>5, <1>6

(* A request that finds no helper running: it answers at once, or starts a *)
(* run, and leaves the work directory as it is.                            *)
LEMMA RequestContract ==
  ASSUME SwapInvariant, PrepareAgain \/ CommitStart \/ RollbackStart \/ CleanupStart \/ Status
  PROVE  Service!Next
  <1> USE Commands, CommandsNext, AnswerFacts DEF CommandIsPlace, given, dirs, outside, Goto, Report
  <1>a. pc = "idle" /\ abstractCommand = "none"
    BY DEF PrepareAgain, CommitStart, RollbackStart, CleanupStart, Status
  <1>b. UNCHANGED <<plan, root, original, incoming, otherWork, committed, workDir, torn, touched>>
    BY DEF PrepareAgain, CommitStart, RollbackStart, CleanupStart, Status
  <1>c. \/ pc' \in {"idle", "c_mkdir", "r_incoming", "k_original"}
        \/ pc' = "r_remove" /\ plan.status = "none"
    BY DEF PrepareAgain, CommitStart, RollbackStart, CleanupStart, Status
  <1>d. abstractWork' = abstractWork
    BY <1>a, <1>b, <1>c, SameWork DEF Removing, RemovedUnderJournal
  <1>e. \A c \in Service!Commands : abstractWork' \in Service!Reach(c, abstractWork)
    BY <1>d, ReachSelf, WorkType
  <1>f. abstractWork \in Service!Works
    BY WorkType
  <1>1. CASE PrepareAgain
    <2>1. answer' \in Service!Answers("prepare", abstractWork')
      <3>1. CASE plan.status # "none" /\ answer' = computeStatus
        <4>1. computeStatus \in Service!Reports
          BY DEF computeStatus, Service!Reports
        <4> QED BY <1>a, <1>d, <3>1, <4>1, StatusIsTold DEF Service!Commands
      <3>2. CASE answer' = "error"
        BY <1>d, <1>f, <3>2 DEF Service!Commands
      <3> QED BY <1>1, <3>1, <3>2 DEF PrepareAgain
    <2>2. abstractCommand' = "none"
      BY <1>1 DEF PrepareAgain
    <2> QED
      BY <1>a, <1>e, <2>1, <2>2, ServiceSteps DEF Service!Commands
  <1>2. CASE CommitStart
    <2>1. CASE answer' = "error" /\ pc' = "idle"
      BY <1>a, <1>d, <1>e, <1>f, <2>1, ServiceSteps DEF Service!Commands
    <2>2. CASE plan.status = "swapped" /\ answer' = "swapped" /\ pc' = "idle"
      <3>1. answer' \in Service!Answers("commit", abstractWork')
        BY <1>a, <1>d, <2>2, StatusIsTold DEF Service!Commands, Service!Reports
      <3> QED BY <1>a, <1>e, <2>2, <3>1, ServiceSteps DEF Service!Commands
    <2>3. CASE pc' = "c_mkdir" /\ answer' = answer
      <3>1. abstractCommand' = "commit"
        BY <2>3 DEF CommitSteps
      <3> QED BY <1>a, <1>e, <2>3, <3>1, ServiceSteps DEF Service!Commands
    <2> QED
      BY <1>2, <2>1, <2>2, <2>3 DEF CommitStart
  <1>3. CASE RollbackStart
    <2>1. CASE answer' = "error" /\ pc' = "idle"
      BY <1>a, <1>d, <1>e, <1>f, <2>1, ServiceSteps DEF Service!Commands
    <2>2. CASE plan.status = "none" /\ ~workDir /\ answer' = "rolled_back" /\ pc' = "idle"
      <3>1. answer' \in Service!Answers("rollback", abstractWork')
        BY <1>a, <1>d, <2>2, StatusIsTold DEF Service!Commands, Service!Reports
      <3> QED BY <1>a, <1>e, <2>2, <3>1, ServiceSteps DEF Service!Commands
    <2>3. CASE pc' \in {"r_incoming", "r_remove"} /\ answer' = answer
      <3>1. abstractCommand' = "rollback"
        BY <2>3 DEF RollbackSteps
      <3> QED BY <1>a, <1>e, <2>3, <3>1, ServiceSteps DEF Service!Commands
    <2> QED
      BY <1>3, <2>1, <2>2, <2>3 DEF RollbackStart
  <1>4. CASE CleanupStart
    <2>1. CASE answer' = "error" /\ pc' = "idle"
      BY <1>a, <1>d, <1>e, <1>f, <2>1, ServiceSteps DEF Service!Commands
    <2>2. CASE plan.status = "none" /\ ~workDir /\ answer' = "cleaned" /\ pc' = "idle"
      <3>1. answer' \in Service!Answers("cleanup", abstractWork')
        BY <1>a, <1>d, <2>2, StatusIsTold DEF Service!Commands, Service!Reports
      <3> QED BY <1>a, <1>e, <2>2, <3>1, ServiceSteps DEF Service!Commands
    <2>3. CASE pc' = "k_original" /\ answer' = answer
      <3>1. abstractCommand' = "cleanup"
        BY <2>3 DEF CleanupSteps
      <3> QED BY <1>a, <1>e, <2>3, <3>1, ServiceSteps DEF Service!Commands
    <2> QED
      BY <1>4, <2>1, <2>2, <2>3 DEF CleanupStart
  <1>5. CASE Status
    <2>1. answer' \in Service!Answers("status", abstractWork') /\ abstractCommand' = "none"
      BY <1>a, <1>d, <1>f, <1>5, StatusIsTold DEF Status
    <2> QED
      BY <1>a, <1>e, <2>1, ServiceSteps DEF Service!Commands
  <1> QED
    BY <1>1, <1>2, <1>3, <1>4, <1>5

(* prepare: a bare work directory gets its journal, or an error.           *)
LEMMA PrepareContract == ASSUME SwapInvariant, SwapInvariant', swapPrepare PROVE Service!Next
  <1> USE Commands, CommandsNext, AnswerFacts DEF CommandIsPlace, given, dirs, outside, Goto, Report
  <1>a. TypeOK /\ Control
    BY DEF SwapInvariant
  <1>b. pc = "idle" /\ pc' = "idle" /\ plan.status = "none" /\ ~committed /\ workDir
    BY <1>a DEF swapPrepare, Control
  <1>c. UNCHANGED <<root, original, incoming, committed, workDir, otherWork, torn, touched>>
    BY DEF swapPrepare
  <1>d. Sane' = Sane
    BY <1>c DEF Sane
  <1>1. CASE otherWork
    <2>1. UNCHANGED plan /\ answer' = "error"
      BY <1>1 DEF swapPrepare
    <2>2. abstractWork' = abstractWork
      BY <1>b, <1>c, <2>1, SameWork DEF Removing
    <2> QED
      BY <1>b, <2>1, <2>2, ReachSelf, WorkType, ServiceSteps DEF Service!Commands
  <1>2. CASE ~otherWork /\ ~Sane
    <2>1. answer' = "planned" /\ abstractWork = "torn" /\ abstractWork' = "torn"
      BY <1>2, <1>d, WorkTorn, WorkTornNext DEF swapPrepare
    <2> QED
      BY <1>b, <2>1, ReachSelf, WorkType, ServiceSteps DEF Service!Commands, Service!Reports
  <1>3. CASE ~otherWork /\ Sane
    <2>1. /\ answer' = "planned" /\ plan'.status = "planned"
          /\ plan'.originals = {n \in Names : root[n] # "none"}
          /\ plan'.incoming = {n \in Names : incoming[n] # "none"}
      BY SMTT(30), <1>3 DEF swapPrepare
    <2>2. abstractWork = "bare"
      BY <1>b, <1>3, Settled DEF SettledWork
    <2>3. \A n \in Names : original[n] = "none"
      BY <1>b, <1>3 DEF SwapInvariant, Whereabouts, Sane
    <2>4. OriginalsMoved' = {} /\ IncomingMoved' = {}
      BY <1>c, <2>1, <2>3 DEF OriginalsMoved, IncomingMoved
    <2>5. abstractWork' = "planned"
      BY <1>b, <1>d, <1>3, <2>1, <2>4, ProgressNext DEF Unfinished, ProgressIsWork
    <2>6. /\ abstractWork' \in Service!Reach("prepare", abstractWork)
          /\ answer' \in Service!Answers("prepare", abstractWork')
      BY <2>1, <2>2, <2>5 DEF Service!Reach, Service!StatusOf
    <2> QED
      BY <1>b, <2>6, ServiceSteps DEF Service!Commands
  <1> QED
    BY <1>1, <1>2, <1>3

(* commit: entries move away and up until the marker is written.           *)
LEMMA CommitContract == ASSUME SwapInvariant, SwapInvariant', Commit PROVE Service!Next \/ Silent
  <1> USE Commands, CommandsNext, AnswerFacts DEF CommandIsPlace, given, dirs, outside, Goto, Report
  <1>a. TypeOK /\ Control /\ TypeOK' /\ Control'
    BY DEF SwapInvariant
  <1>b. pc \in CommitSteps /\ pc' \in CommitSteps \cup {"idle"}
    BY DEF Commit, CommitMkdir, CommitMark, MoveOriginal, OriginalsDone, MarkIncoming,
           MoveIncoming, IncomingDone, ApplyRootMeta, WriteMarker, CommitSteps
  <1>c. UNCHANGED <<otherWork, workDir, torn, touched>>
    BY DEF Commit, CommitMkdir, CommitMark, MoveOriginal, OriginalsDone, MarkIncoming,
           MoveIncoming, IncomingDone, ApplyRootMeta, WriteMarker
  <1>d. Sane' = Sane /\ abstractCommand = "commit"
    BY <1>b, <1>c DEF Sane
  <1>e. plan.status \notin {"none", "swapped"} /\ ~committed
    BY <1>a, <1>b DEF Control
  <1>f. pc \notin {"r_remove", "k_rmdir"} /\ pc' \notin {"r_remove", "k_rmdir"}
    BY <1>b DEF CommitSteps
  <1>g. ~Removing /\ ~Removing'
    BY <1>f DEF Removing
  <1>h. Sane => ProgressIsWork
    BY <1>e, Progress DEF Unfinished
  <1>i. Sane /\ plan'.status \notin {"none", "swapped"} => ProgressIsWork'
    BY <1>d, ProgressNext DEF Unfinished
  <1>1. CASE CommitMkdir \/ OriginalsDone \/ IncomingDone \/ ApplyRootMeta
    <2>1. UNCHANGED <<plan, root, original, incoming, committed, answer>> /\ pc' \in CommitSteps
      BY <1>1 DEF CommitMkdir, OriginalsDone, IncomingDone, ApplyRootMeta, CommitSteps
    <2> QED
      BY <1>c, <1>d, <1>f, <1>g, <2>1, SameWork DEF Silent
  <1>2. CASE CommitMark \/ MarkIncoming
    <2>1. UNCHANGED <<root, original, incoming, committed, answer>> /\ pc' \in CommitSteps
      BY <1>2 DEF CommitMark, MarkIncoming, CommitSteps
    <2>2. /\ plan'.originals = plan.originals /\ plan'.incoming = plan.incoming
          /\ plan'.status \notin {"none", "swapped"}
      BY <1>2, <1>a, <1>e DEF CommitMark, MarkIncoming, TypeOK, Plans
    <2>3. OriginalsMoved' = OriginalsMoved /\ IncomingMoved' = IncomingMoved
      BY <2>1, <2>2 DEF OriginalsMoved, IncomingMoved
    <2>4. abstractWork' = abstractWork
      BY <1>d, <1>f, <1>h, <1>i, <2>2, <2>3, WorkTorn, WorkTornNext DEF ProgressIsWork
    <2> QED
      BY <1>d, <2>1, <2>4 DEF Silent
  <1>3. CASE MoveOriginal
    <2>1. UNCHANGED <<plan, incoming, committed>>
      BY <1>3 DEF MoveOriginal
    <2>2. PICK n \in plan.originals :
            /\ original[n] = "none"
            /\ IF root[n] = "none"
               THEN pc' = "idle" /\ answer' = "error" /\ UNCHANGED <<root, original>>
               ELSE /\ original' = [original EXCEPT ![n] = root[n]]
                    /\ root' = [root EXCEPT ![n] = "none"]
                    /\ pc' = "c_originals" /\ UNCHANGED answer
      BY <1>3 DEF MoveOriginal
    <2>3. CASE root[n] = "none"
      <3>1. abstractWork' = abstractWork
        BY <1>c, <1>f, <1>g, <2>1, <2>2, <2>3, SameWork
      <3>2. answer' \in Service!Answers("commit", abstractWork') /\ abstractCommand' = "none"
        BY <2>2, <2>3, <3>1, WorkType DEF Service!Commands
      <3> QED
        BY <1>d, <3>1, <3>2, ReachSelf, WorkType, ServiceSteps DEF Service!Commands
    <2>4. CASE root[n] # "none"
      <3>1. abstractCommand' = "commit" /\ answer' = answer
        BY <2>2, <2>4 DEF CommitSteps
      <3>2. CASE ~Sane
        BY <1>d, <3>1, <3>2, WorkTorn, WorkTornNext DEF Silent
      <3>3. CASE Sane
        <4>1. n \in Names /\ n \in OriginalsMoved' /\ n \notin OriginalsMoved
          BY <1>a, <2>1, <2>2, <2>4 DEF OriginalsMoved, TypeOK, Plans
        <4>2. abstractWork \in {"planned", "moving"}
          BY <1>f, <1>h, <2>2, <3>3, <4>1 DEF ProgressIsWork
        <4>3. abstractWork' \in {"moving", "moved"}
          BY <1>e, <1>f, <1>i, <2>1, <3>3, <4>1 DEF ProgressIsWork
        <4>4. abstractWork' \in Service!Reach("commit", abstractWork)
          BY <4>2, <4>3 DEF Service!Reach
        <4> QED
          BY <1>d, <3>1, <4>4, ServiceSteps DEF Service!Commands
      <3> QED BY <3>2, <3>3
    <2> QED BY <2>3, <2>4
  <1>4. CASE MoveIncoming
    <2>1. UNCHANGED <<plan, original, committed, pc, answer>>
      BY <1>4 DEF MoveIncoming
    <2>2. PICK n \in plan.incoming :
            /\ incoming[n] # "none"
            /\ root' = [root EXCEPT ![n] = incoming[n]]
            /\ incoming' = [incoming EXCEPT ![n] = "none"]
      BY <1>4 DEF MoveIncoming
    <2>3. abstractCommand' = "commit"
      BY <1>b, <2>1
    <2>4. CASE ~Sane
      BY <1>d, <2>1, <2>3, <2>4, WorkTorn, WorkTornNext DEF Silent
    <2>5. CASE Sane
      <3>1. n \in Names /\ n \in IncomingMoved' /\ n \notin IncomingMoved
        BY <1>a, <2>1, <2>2 DEF IncomingMoved, TypeOK, Plans
      <3>2. abstractWork \in {"planned", "moving"}
        BY <1>f, <1>h, <2>2, <2>5, <3>1 DEF ProgressIsWork
      <3>3. abstractWork' \in {"moving", "moved"}
        BY <1>e, <1>f, <1>i, <2>1, <2>5, <3>1 DEF ProgressIsWork
      <3>4. abstractWork' \in Service!Reach("commit", abstractWork)
        BY <3>2, <3>3 DEF Service!Reach
      <3> QED
        BY <1>d, <2>1, <2>3, <3>4, ServiceSteps DEF Service!Commands
    <2> QED BY <2>4, <2>5
  <1>5. CASE WriteMarker
    <2>1. answer' = "swapped" /\ abstractCommand' = "none" /\ committed' /\ plan'.status = "swapped"
      BY <1>5, <1>a DEF WriteMarker, TypeOK, Plans
    <2>2. CASE ~Sane
      <3>1. abstractWork = "torn" /\ abstractWork' = "torn"
        BY <1>d, <2>2, WorkTorn, WorkTornNext
      <3> QED
        BY <1>d, <2>1, <3>1, ReachSelf, ServiceSteps DEF Service!Commands, Service!Reports, Service!Works
    <2>3. CASE Sane
      <3>1. abstractWork' = "marked"
        BY <1>d, <2>1, <2>3, SettledNext DEF SettledWork
      <3>2. abstractWork \in {"planned", "moving", "moved"}
        BY <1>f, <1>h, <2>3 DEF ProgressIsWork
      <3>3. abstractWork' \in Service!Reach("commit", abstractWork)
        BY <3>1, <3>2 DEF Service!Reach
      <3> QED
        BY <1>d, <2>1, <3>1, <3>3, ServiceSteps DEF Service!Commands
    <2> QED BY <2>2, <2>3
  <1> QED
    BY <1>1, <1>2, <1>3, <1>4, <1>5 DEF Commit

(* rollback: entries move back, then the work directory goes.              *)
LEMMA RollbackContract == ASSUME SwapInvariant, SwapInvariant', Rollback PROVE Service!Next \/ Silent
  <1> USE Commands, CommandsNext, AnswerFacts DEF CommandIsPlace, given, dirs, outside, Goto, Report
  <1>a. TypeOK /\ Control
    BY DEF SwapInvariant
  <1>b. pc \in RollbackSteps /\ pc' \in RollbackSteps \cup {"idle"}
    BY DEF Rollback, ReturnIncoming, ReturnIncomingDone, ReturnOriginal, ReturnOriginalDone,
           RestoreRootMeta, RemoveAllStep, RemoveAllDone, RollbackSteps
  <1>c. UNCHANGED <<otherWork, committed, torn, touched>>
    BY DEF Rollback, ReturnIncoming, ReturnIncomingDone, ReturnOriginal, ReturnOriginalDone,
           RestoreRootMeta, RemoveAllStep, RemoveAllDone
  <1>d. Sane' = Sane /\ abstractCommand = "rollback"
    BY <1>b, <1>c DEF Sane
  <1>e. pc # "k_rmdir" /\ pc' # "k_rmdir"
    BY <1>b DEF RollbackSteps
  <1>f. ~Sane => abstractWork = "torn" /\ abstractWork' = "torn"
    BY <1>d, WorkTorn, WorkTornNext
  <1>g. ASSUME pc # "r_remove", UNCHANGED plan
        PROVE  plan.status # "none" /\ (Sane => ProgressIsWork /\ ProgressIsWork')
    <2>1. plan.status \notin {"none", "swapped"}
      BY <1>a, <1>b, <1>g DEF Control
    <2> QED
      BY <1>d, <1>g, <2>1, Progress, ProgressNext DEF Unfinished
  <1>1. CASE ReturnIncoming
    <2>1. UNCHANGED <<plan, original, pc, answer>> /\ pc = "r_incoming"
      BY <1>1 DEF ReturnIncoming
    <2>2. PICK n \in plan.incoming :
            /\ root[n] # "none" /\ incoming[n] = "none"
            /\ incoming' = [incoming EXCEPT ![n] = root[n]]
            /\ root' = [root EXCEPT ![n] = "none"]
      BY <1>1 DEF ReturnIncoming
    <2>3. abstractCommand' = "rollback"
      BY <1>b, <2>1
    <2>4. CASE Sane
      <3>1. n \in Names /\ n \in IncomingMoved /\ n \notin IncomingMoved'
        BY <1>a, <2>1, <2>2 DEF IncomingMoved, TypeOK, Plans
      <3>2. abstractWork \in {"moving", "moved"}
        BY <1>g, <2>1, <2>4, <3>1 DEF ProgressIsWork
      <3>3. abstractWork' \in {"planned", "moving"}
        BY <1>g, <2>1, <2>2, <2>4, <3>1 DEF ProgressIsWork
      <3>4. abstractWork' \in Service!Reach("rollback", abstractWork)
        BY <3>2, <3>3 DEF Service!Reach
      <3> QED
        BY <1>d, <2>1, <2>3, <3>4, ServiceSteps DEF Service!Commands
    <2> QED BY <1>d, <1>f, <2>1, <2>3, <2>4 DEF Silent
  <1>2. CASE ReturnOriginal
    <2>1. UNCHANGED <<plan, incoming, pc, answer>> /\ pc = "r_originals"
      BY <1>2 DEF ReturnOriginal
    <2>2. PICK n \in plan.originals :
            /\ original[n] # "none"
            /\ root' = [root EXCEPT ![n] = original[n]]
            /\ original' = [original EXCEPT ![n] = "none"]
      BY <1>2 DEF ReturnOriginal
    <2>3. abstractCommand' = "rollback"
      BY <1>b, <2>1
    <2>4. CASE Sane
      <3>1. n \in Names /\ n \in OriginalsMoved /\ n \notin OriginalsMoved'
        BY <1>a, <2>1, <2>2 DEF OriginalsMoved, TypeOK, Plans
      <3>2. abstractWork \in {"moving", "moved"}
        BY <1>g, <2>1, <2>4, <3>1 DEF ProgressIsWork
      <3>3. abstractWork' \in {"planned", "moving"}
        BY <1>g, <2>1, <2>2, <2>4, <3>1 DEF ProgressIsWork
      <3>4. abstractWork' \in Service!Reach("rollback", abstractWork)
        BY <3>2, <3>3 DEF Service!Reach
      <3> QED
        BY <1>d, <2>1, <2>3, <3>4, ServiceSteps DEF Service!Commands
    <2> QED BY <1>d, <1>f, <2>1, <2>3, <2>4 DEF Silent
  <1>3. CASE ReturnIncomingDone \/ ReturnOriginalDone \/ (RestoreRootMeta /\ pc = "r_owner")
    <2>1. /\ UNCHANGED <<plan, root, original, incoming, workDir, answer>>
          /\ pc # "r_remove" /\ pc' # "r_remove" /\ pc' \in RollbackSteps
      BY <1>3 DEF ReturnIncomingDone, ReturnOriginalDone, RestoreRootMeta, RollbackSteps
    <2>2. abstractWork' = abstractWork
      BY <1>c, <1>e, <2>1, SameWork DEF Removing
    <2> QED
      BY <1>d, <2>1, <2>2 DEF Silent
  <1>4. CASE RestoreRootMeta /\ pc = "r_mode"
    <2>1. /\ UNCHANGED <<plan, root, original, incoming, workDir, answer>>
          /\ pc' = "r_remove" /\ abstractCommand' = "rollback"
      BY <1>4 DEF RestoreRootMeta, RollbackSteps
    <2>2. CASE Sane
      <3>1. ~committed /\ touched = {} /\ torn = {}
        BY <1>a, <1>4, <2>2 DEF Control, RollbackSteps, Sane
      <3>2. \A n \in Names : Whereabouts(n)
        BY <3>1 DEF SwapInvariant
      <3>3. OriginalsMoved = {} /\ IncomingMoved = {}
        <4>1. plan.originals \subseteq Names /\ plan.incoming \subseteq Names /\ plan.status # "none"
          BY <1>a, <1>g, <1>4, <2>1 DEF TypeOK, Plans
        <4> QED
          BY <1>4, <3>2, <4>1 DEF Whereabouts, OriginalsMoved, IncomingMoved
      <3>4. abstractWork = "planned" /\ abstractWork' = "planned"
        BY <1>g, <1>4, <2>1, <2>2, <3>3 DEF ProgressIsWork
      <3> QED
        BY <1>d, <2>1, <3>4 DEF Silent
    <2> QED BY <1>d, <1>f, <2>1, <2>2 DEF Silent
  <1>5. CASE RemoveAllStep
    <2>1. /\ UNCHANGED <<workDir, pc, answer>> /\ pc = "r_remove" /\ abstractCommand' = "rollback"
          /\ plan' = plan \/ (plan.status # "none" /\ plan' = NoPlan)
      BY <1>5, <1>b DEF RemoveAllStep
    <2>2. CASE Sane /\ plan.status = "none"
      <3>1. plan' = plan
        BY <2>1, <2>2
      <3>2. abstractWork' = abstractWork
        BY SMTT(30), <1>c, <1>d, <2>1, <2>2, <3>1, Settled, SettledNext DEF SettledWork
      <3> QED
        BY <1>d, <2>1, <3>2 DEF Silent
    <2>3. CASE Sane /\ plan.status # "none"
      <3>1. plan.status \notin {"none", "swapped"} /\ ~committed /\ workDir
        BY <1>a, <2>1, <2>3 DEF Control
      <3>2. abstractWork = "planned"
        BY <2>1, <2>3, <3>1, Progress DEF Unfinished, ProgressIsWork
      <3>3. CASE plan' = plan
        <4>1. abstractWork' = "planned"
          BY <1>d, <2>1, <2>3, <3>1, <3>3, ProgressNext DEF Unfinished, ProgressIsWork
        <4> QED BY <1>d, <2>1, <3>2, <4>1 DEF Silent
      <3>4. CASE plan' = NoPlan
        <4>1. abstractWork' = "bare"
          BY <1>c, <1>d, <2>1, <2>3, <3>1, <3>4, NoPlanType, SettledNext DEF SettledWork
        <4>2. abstractWork' \in Service!Reach("rollback", abstractWork)
          BY <3>2, <4>1 DEF Service!Reach
        <4> QED
          BY <1>d, <2>1, <4>2, ServiceSteps DEF Service!Commands
      <3> QED BY <2>1, <3>3, <3>4
    <2> QED BY <1>d, <1>f, <2>1, <2>2, <2>3 DEF Silent
  <1>6. CASE RemoveAllDone
    <2>1. /\ plan.status = "none" /\ UNCHANGED plan /\ ~workDir' /\ pc = "r_remove" /\ pc' = "idle"
          /\ answer' = "rolled_back" /\ abstractCommand' = "none"
      BY <1>6 DEF RemoveAllDone
    <2>2. CASE Sane
      <3>1. abstractWork = SettledWork /\ abstractWork' = SettledWork'
        BY <1>d, <2>1, <2>2, Settled, SettledNext
      <3>2. \/ abstractWork \in {"dregs", "gone"} /\ abstractWork' = "gone"
            \/ abstractWork \in {"bare", "none"} /\ abstractWork' = "none"
        BY <1>c, <2>1, <3>1 DEF SettledWork
      <3>3. /\ abstractWork' \in Service!Reach("rollback", abstractWork)
            /\ answer' \in Service!Answers("rollback", abstractWork')
        BY <2>1, <3>2 DEF Service!Reach
      <3> QED
        BY <1>d, <2>1, <3>3, ServiceSteps DEF Service!Commands
    <2>3. CASE ~Sane
      BY <1>d, <1>f, <2>1, <2>3, ReachSelf, ServiceSteps DEF Service!Commands, Service!Reports, Service!Works
    <2> QED BY <2>2, <2>3
  <1> QED
    <2>1. RestoreRootMeta => pc \in {"r_owner", "r_mode"}
      BY DEF RestoreRootMeta
    <2> QED
      BY <2>1, <1>1, <1>2, <1>3, <1>4, <1>5, <1>6 DEF Rollback

(* cleanup: the marked work directory goes, its journal last but one.      *)
LEMMA CleanupContract == ASSUME SwapInvariant, SwapInvariant', Cleanup PROVE Service!Next \/ Silent
  <1> USE Commands, CommandsNext, AnswerFacts DEF CommandIsPlace, given, dirs, outside, Goto, Report
  <1>a. TypeOK /\ Control
    BY DEF SwapInvariant
  <1>b. pc \in CleanupSteps /\ pc' \in CleanupSteps \cup {"idle"}
    BY DEF Cleanup, CleanupOriginal, CleanupIncoming, CleanupJournal, CleanupRmdir, CleanupSteps
  <1>c. UNCHANGED <<committed, torn, touched>> /\ committed
    BY <1>a, <1>b DEF Cleanup, CleanupOriginal, CleanupIncoming, CleanupJournal, CleanupRmdir, Control
  <1>d. Sane' = Sane /\ abstractCommand = "cleanup"
    BY <1>b, <1>c DEF Sane
  <1>e. ~Sane => abstractWork = "torn" /\ abstractWork' = "torn"
    BY <1>d, WorkTorn, WorkTornNext
  <1>f. Sane => abstractWork = SettledWork /\ abstractWork' = SettledWork'
    BY <1>c, <1>d, Settled, SettledNext
  <1>g. Sane => abstractWork = "marked"
    BY <1>a, <1>b, <1>c, <1>f DEF SettledWork, Control, CleanupSteps
  <1>1. CASE CleanupOriginal \/ CleanupIncoming \/ CleanupJournal
    <2>1. UNCHANGED answer /\ pc' \in CleanupSteps /\ (UNCHANGED plan \/ pc' = "k_rmdir")
      BY <1>1 DEF CleanupOriginal, CleanupIncoming, CleanupJournal, CleanupSteps
    <2>2. pc # "k_rmdir"
      BY <1>1 DEF CleanupOriginal, CleanupIncoming, CleanupJournal
    <2>3. Sane => abstractWork' = "marked"
      BY <1>a, <1>b, <1>c, <1>f, <2>1, <2>2 DEF SettledWork, Control, CleanupSteps
    <2> QED
      BY <1>d, <1>e, <1>g, <2>1, <2>3 DEF Silent
  <1>2. CASE CleanupRmdir
    <2>1. /\ answer' = "cleaned" /\ pc' = "idle" /\ abstractCommand' = "none"
          /\ ~workDir' /\ plan'.status = "none"
      BY <1>2, <1>a DEF CleanupRmdir, Control
    <2>2. Sane => abstractWork' = "gone"
      BY <1>c, <1>f, <2>1 DEF SettledWork
    <2>3. CASE Sane
      <3>1. abstractWork' \in Service!Reach("cleanup", abstractWork)
        BY <1>g, <2>2, <2>3 DEF Service!Reach
      <3> QED
        BY <1>d, <2>1, <2>2, <2>3, <3>1, ServiceSteps DEF Service!Commands
    <2>4. CASE ~Sane
      BY <1>d, <1>e, <2>1, <2>4, ReachSelf, ServiceSteps DEF Service!Commands, Service!Reports, Service!Works
    <2> QED BY <2>3, <2>4
  <1> QED
    BY <1>1, <1>2 DEF Cleanup

(* A kill ends the run where it is; in the last removal of a rollback it   *)
(* may tear the work directory.                                            *)
LEMMA KillContract == ASSUME SwapInvariant, Kill PROVE Service!Next
  <1> USE Commands, CommandsNext, AnswerFacts DEF CommandIsPlace, given, dirs, outside, Goto, Report
  <1>a. TypeOK /\ Control
    BY DEF SwapInvariant
  <1>b. pc' = "idle" /\ abstractCommand' = "none" /\ answer' = "killed"
    BY DEF Kill
  <1>c. /\ UNCHANGED <<plan, root, original, incoming, otherWork, committed, workDir, touched>>
        /\ torn' = torn \cup RemovedUnderJournal /\ pc # "idle"
    BY DEF Kill
  <1>d. abstractCommand \in Service!Commands
    BY <1>a, <1>c DEF TypeOK, Steps, Service!Commands
  <1>e. answer' \in Service!Answers(abstractCommand, abstractWork')
    <2>1. abstractWork' \in Service!Works
      BY WorkTypeNext
    <2> QED BY <1>b, <1>d, <2>1
  <1>1. abstractWork' \in Service!Reach(abstractCommand, abstractWork)
    <2>1. CASE ~Sane
      <3>1. abstractWork = "torn" /\ abstractWork' = "torn"
        BY <1>c, <2>1, WorkTorn, WorkTornNext DEF Sane
      <3> QED BY <1>d, <3>1, ReachSelf, WorkType
    <2>2. CASE Sane /\ RemovedUnderJournal # {}
      <3>1. pc = "r_remove" /\ plan.status # "none"
        BY <2>2 DEF RemovedUnderJournal
      <3>2. abstractWork = "planned" /\ abstractCommand = "rollback"
        BY <1>a, <2>2, <3>1, Progress DEF Unfinished, ProgressIsWork, Control, RollbackSteps
      <3>3. abstractWork' = "torn"
        BY <1>c, <2>2, WorkTornNext DEF Sane
      <3> QED BY <3>2, <3>3 DEF Service!Reach
    <2>3. CASE Sane /\ RemovedUnderJournal = {} /\ pc = "k_rmdir"
      <3>1. committed /\ plan.status = "none" /\ abstractCommand = "cleanup"
        BY <1>a, <2>3 DEF Control, CleanupSteps
      <3>2. Sane'
        BY <1>c, <2>3 DEF Sane
      <3>3. abstractWork = "marked" /\ abstractWork' \in {"dregs", "gone"}
        BY <1>b, <1>c, <2>3, <3>1, <3>2, Settled, SettledNext DEF SettledWork
      <3> QED BY <3>1, <3>3 DEF Service!Reach
    <2>4. CASE Sane /\ RemovedUnderJournal = {} /\ pc # "k_rmdir"
      <3>1. torn' = torn
        BY <1>c, <2>4
      <3>2. abstractWork' = abstractWork
        BY <1>b, <1>c, <2>4, <3>1, SameWork DEF Removing
      <3> QED BY <1>d, <3>2, ReachSelf, WorkType
    <2> QED BY <2>1, <2>2, <2>3, <2>4
  <1> QED
    BY <1>1, <1>b, <1>d, <1>e, ServiceSteps

(* A write from outside disturbs the work directory.                       *)
LEMMA ForeignContract == ForeignWrite => Service!Disturb
  <1> SUFFICES ASSUME ForeignWrite PROVE Service!Disturb
    OBVIOUS
  <1>1. UNCHANGED <<pc, answer>> /\ \E n \in Names : touched' = touched \cup {n}
    BY DEF ForeignWrite
  <1>2. abstractWork' = "torn"
    BY <1>1 DEF abstractWork
  <1>3. abstractCommand' = abstractCommand
    BY <1>1 DEF abstractCommand
  <1> QED
    BY <1>1, <1>2, <1>3 DEF Service!Disturb

(* Every step of the helper is a step of the contract, or none.            *)
LEMMA ContractStep == SwapInvariant /\ [Next]_vars => Service!Next \/ Silent
  <1> SUFFICES ASSUME SwapInvariant, [Next]_vars PROVE Service!Next \/ Silent
    OBVIOUS
  <1>a. SwapInvariant'
    BY SwapStep
  <1>1. CASE Restore BY <1>1, RestoreContract
  <1>2. CASE Prepare
    BY <1>2, <1>a, PrepareContract, RequestContract DEF Prepare
  <1>3. CASE CommitStart \/ RollbackStart \/ CleanupStart \/ Status
    BY <1>3, RequestContract
  <1>4. CASE Commit BY <1>4, <1>a, CommitContract
  <1>5. CASE Rollback BY <1>5, <1>a, RollbackContract
  <1>6. CASE Cleanup BY <1>6, <1>a, CleanupContract
  <1>7. CASE Kill BY <1>7, KillContract
  <1>8. CASE ForeignWrite
    BY <1>8, ForeignContract DEF Service!Next
  <1>9. CASE UNCHANGED vars
    <2>1. UNCHANGED <<torn, touched, committed, plan, pc, workDir, answer, root, original, incoming, otherWork>>
      BY <1>9 DEF vars, given, dirs, outside
    <2>2. abstractWork' = abstractWork
      <3>1. computeStatus' = computeStatus
        BY SMTT(30), <2>1 DEF computeStatus, Unexplained, OriginalsMoved, IncomingMoved
      <3>2. Removing' = Removing
        BY <2>1 DEF Removing, RemovedUnderJournal
      <3> QED
        BY <2>1, <3>1, <3>2 DEF abstractWork
    <2>3. abstractCommand' = abstractCommand
      BY <2>1 DEF abstractCommand
    <2> QED
      BY <2>1, <2>2, <2>3 DEF Silent
  <1> QED
    BY <1>1, <1>2, <1>3, <1>4, <1>5, <1>6, <1>7, <1>8, <1>9 DEF Next

(* The helper of swap.go implements the contract its callers are written   *)
(* against: for every set of entries, however often it is killed and       *)
(* whatever else writes to the volume, each of its steps is a step of      *)
(* SwapService under the refinement mapping, or changes nothing there.     *)
THEOREM RefinesContract == Spec => KeepsContract
  <1>1. SwapInvariant /\ [Next]_vars
          => [Service!Next]_<<abstractWork, abstractCommand, answer>>
    BY ContractStep DEF Silent
  <1> QED
    BY <1>1, InitContract, SwapInvariantHolds, PTL DEF Spec, KeepsContract, Service!Spec

(* The contract's states are true of the volume root: the originals before *)
(* anything moved, the snapshot after the marker, with or without its      *)
(* journal.                                                                *)
THEOREM ContractIsTruthful == Spec => []ContentIsTruthful
  <1>1. SwapInvariant => ContentIsTruthful
    <2> SUFFICES ASSUME SwapInvariant PROVE ContentIsTruthful
      OBVIOUS
    <2>a. Service!Content(abstractWork) # "unknown" => Sane
      BY WorkTorn DEF Service!Content
    <2>b. TypeOK /\ Control
      BY DEF SwapInvariant
    <2>1. ASSUME Service!Content(abstractWork) = "original", NEW n \in Names
          PROVE  root[n] = IF n \in volume THEN "orig" ELSE "none"
      <3>1. Sane /\ abstractWork \in {"none", "bare", "planned"}
        BY <2>1, <2>a, WorkType DEF Service!Content, Service!Works
      <3>2. ~committed
        BY <3>1, Settled DEF SettledWork
      <3>3. Whereabouts(n)
        BY <3>1, <3>2 DEF SwapInvariant, Sane
      <3>4. CASE plan.status = "none"
        BY <3>3, <3>4 DEF Whereabouts
      <3>5. CASE plan.status # "none" /\ pc = "r_remove"
        BY <3>3, <3>5 DEF Whereabouts
      <3>6. CASE plan.status # "none" /\ pc # "r_remove"
        <4>1. plan.status # "swapped"
          BY <2>b, <3>2 DEF Control
        <4>2. OriginalsMoved = {} /\ IncomingMoved = {}
          BY <3>1, <3>6, <4>1, Progress DEF Unfinished, ProgressIsWork
        <4> QED
          BY <3>3, <3>6, <4>2 DEF Whereabouts, OriginalsMoved, IncomingMoved
      <3> QED BY <3>4, <3>5, <3>6
    <2>2. ASSUME Service!Content(abstractWork) = "restored", NEW n \in Names
          PROVE  root[n] = IF n \in snapshot THEN "new" ELSE "none"
      <3>1. Sane /\ abstractWork \in {"marked", "dregs", "gone"}
        BY <2>2, <2>a, WorkType DEF Service!Content, Service!Works
      <3>2. committed
        BY <3>1 DEF abstractWork
      <3> QED
        BY <3>1, <3>2 DEF SwapInvariant, Sane
    <2> QED
      BY <2>1, <2>2 DEF ContentIsTruthful
  <1> QED
    BY <1>1, SwapInvariantHolds, PTL
=============================================================================
