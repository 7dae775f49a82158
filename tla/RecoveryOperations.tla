-------------------------- MODULE RecoveryOperations --------------------------
(***************************************************************************)
(* The durable records of recovery work: operations, the points they       *)
(* capture, and the storage and repository locks they hold                 *)
(* (backend/src/services/recovery/operations.ts and recoveryPoints.ts).    *)
(* Each store method is one SQLite transaction and so one action.  The     *)
(* caller is the most general one: any living process may call any method  *)
(* with any arguments, in any order.                                       *)
(*                                                                         *)
(* A process is named by its epoch.  Processes crash, and a new one can    *)
(* start while an old one still runs, so late calls of an old process meet *)
(* the new one's boot reconciliation.  A table is one function per column. *)
(***************************************************************************)
EXTENDS Naturals

CONSTANTS
    Ops,           \* operation ids
    Keys,          \* idempotency keys
    Requests,      \* what a request asks, who asks, and over which transport
    KindOf,        \* [Requests -> Kinds]
    Points,        \* recovery point ids
    Storages,      \* storage keys
    Repositories,  \* repository ids
    None,          \* SQL NULL
    MaxEpochs      \* how many processes start in a behaviour

Kinds == {"create_point", "verify_point", "restore", "repository_init"}
Resources == Storages \cup Repositories

ASSUME KindAssumption == KindOf \in [Requests -> Kinds]
ASSUME NoneAssumption == None \notin Ops \cup Keys \cup Requests \cup Points \cup Resources
ASSUME EpochAssumption == MaxEpochs \in Nat
ASSUME ScopeAssumption == Storages \cap Repositories = {}

VARIABLES
    started,     \* the last epoch that started
    alive,       \* the epochs whose process runs
    reconciled,  \* the epochs whose process ran reconcileAtStartup
    state,       \* recovery_operations.state, or "none" when there is no row
    opEpoch,     \* recovery_operations.process_epoch
    key,         \* recovery_operations.idempotency_key
    request,     \* recovery_operations: kind, storage, point, actor, transport, digest
    status,      \* recovery_points.status, or "none" when there is no row
    source,      \* recovery_points.source_operation_id
    holder,      \* recovery_locks.owner_operation_id, or None when there is no row
    lockEpoch,   \* recovery_locks.process_epoch
    stale,       \* the resources whose lock has stale_since set
    late         \* history: the points begun after their operation had ended

processes == <<started, alive, reconciled>>
opRows == <<state, opEpoch, key, request>>
pointRows == <<status, source>>
lockRows == <<holder, lockEpoch, stale>>
vars == <<processes, opRows, pointRows, lockRows, late>>

-----------------------------------------------------------------------------
LiveStates == {"queued", "running"}
KnownEndings == {"succeeded", "partial", "failed", "cancelled"}
TERMINAL_OPERATION_STATES == KnownEndings \cup {"completion_unknown"}
PointStatus == {"none", "pending", "succeeded", "partial", "failed", "completion_unknown"}
Epochs == 1..MaxEpochs

isTerminal(o) == state[o] \in TERMINAL_OPERATION_STATES
Live(o) == state[o] \in LiveStates
PendingOf(o) == {p \in Points : status[p] = "pending" /\ source[p] = o}
LocksOf(o) == {r \in Resources : holder[r] = o}

Init ==
    /\ started = 0 /\ alive = {} /\ reconciled = {}
    /\ state = [o \in Ops |-> "none"]
    /\ opEpoch = [o \in Ops |-> 0]
    /\ key = [o \in Ops |-> None]
    /\ request = [o \in Ops |-> None]
    /\ status = [p \in Points |-> "none"]
    /\ source = [p \in Points |-> None]
    /\ holder = [r \in Resources |-> None]
    /\ lockEpoch = [r \in Resources |-> 0]
    /\ stale = {}
    /\ late = {}

-----------------------------------------------------------------------------
(* A process starts with a fresh epoch; a process stops where it is.       *)
Boot ==
    /\ started < MaxEpochs
    /\ started' = started + 1
    /\ alive' = alive \cup {started + 1}
    /\ UNCHANGED <<reconciled, opRows, pointRows, lockRows, late>>

Crash(e) ==
    /\ alive' = alive \ {e}
    /\ UNCHANGED <<started, reconciled, opRows, pointRows, lockRows, late>>

-----------------------------------------------------------------------------

(* A key that already names an operation creates nothing: the answer is    *)
(* that operation when the request is the same, and a refusal otherwise.   *)
NewRow(e, o, k, r, st) ==
    /\ state[o] = "none"
    /\ \A x \in Ops : key[x] # k
    /\ state' = [state EXCEPT ![o] = st]
    /\ opEpoch' = [opEpoch EXCEPT ![o] = e]
    /\ key' = [key EXCEPT ![o] = k]
    /\ request' = [request EXCEPT ![o] = r]

start(e, o, k, r) ==
    /\ NewRow(e, o, k, r, "queued")
    /\ UNCHANGED <<processes, pointRows, lockRows, late>>

(* The row, every lock and the pending point, together or not at all: a    *)
(* lock that anybody holds, live or stale, refuses the whole admission.    *)
admit(e, o, k, r, locks) ==
    /\ NewRow(e, o, k, r, "running")
    /\ \A l \in locks : holder[l] = None
    /\ holder' = [l \in Resources |-> IF l \in locks THEN o ELSE holder[l]]
    /\ lockEpoch' = [l \in Resources |-> IF l \in locks THEN e ELSE lockEpoch[l]]
    /\ \/ UNCHANGED pointRows
       \/ \E p \in Points : /\ status[p] = "none"
                            /\ status' = [status EXCEPT ![p] = "pending"]
                            /\ source' = [source EXCEPT ![p] = o]
    /\ UNCHANGED <<processes, stale, late>>

(* Mutant: a process resumes what another one queued.                      *)
markRunningMutant(e, o) ==
    /\ state[o] = "queued"
    /\ state' = [state EXCEPT ![o] = "running"]
    /\ UNCHANGED <<processes, opEpoch, key, request, pointRows, lockRows, late>>

markRunning(e, o) ==
    /\ state[o] = "queued" /\ opEpoch[o] = e
    /\ state' = [state EXCEPT ![o] = "running"]
    /\ UNCHANGED <<processes, opEpoch, key, request, pointRows, lockRows, late>>

acquireLock(e, l, o) ==
    /\ Live(o) /\ opEpoch[o] = e
    /\ holder[l] = None
    /\ holder' = [holder EXCEPT ![l] = o]
    /\ lockEpoch' = [lockEpoch EXCEPT ![l] = e]
    /\ UNCHANGED <<processes, opRows, pointRows, stale, late>>

-----------------------------------------------------------------------------

(* What an ending that does not need finalized points makes of them.       *)
SettledPoint(ending) == IF ending = "failed" THEN "failed" ELSE "completion_unknown"

(* Mutant: a success does not wait for its points.                         *)
finishMutant(e, o, ending) ==
    /\ Live(o) /\ opEpoch[o] = e
    /\ state' = [state EXCEPT ![o] = ending]
    /\ status' = [p \in Points |->
                    IF p \in PendingOf(o) /\ ending \notin {"succeeded", "partial"}
                    THEN SettledPoint(ending) ELSE status[p]]
    /\ IF ending = "completion_unknown"
       THEN /\ stale' = stale \cup LocksOf(o)
            /\ UNCHANGED <<holder, lockEpoch>>
       ELSE /\ holder' = [l \in Resources |-> IF holder[l] = o THEN None ELSE holder[l]]
            /\ lockEpoch' = [l \in Resources |-> IF holder[l] = o THEN 0 ELSE lockEpoch[l]]
            /\ stale' = stale \ LocksOf(o)
    /\ UNCHANGED <<processes, opEpoch, key, request, source, late>>

(* finish writes the one terminal state of an operation this process owns, *)
(* settles its pending points, and releases its locks, or turns them stale *)
(* when the outcome is unknown.                                            *)
finish(e, o, ending) ==
    /\ Live(o) /\ opEpoch[o] = e
    /\ ending \in {"succeeded", "partial"} => PendingOf(o) = {}
    /\ state' = [state EXCEPT ![o] = ending]
    /\ status' = [p \in Points |-> IF p \in PendingOf(o) THEN SettledPoint(ending) ELSE status[p]]
    /\ IF ending = "completion_unknown"
       THEN /\ stale' = stale \cup LocksOf(o)
            /\ UNCHANGED <<holder, lockEpoch>>
       ELSE /\ holder' = [l \in Resources |-> IF holder[l] = o THEN None ELSE holder[l]]
            /\ lockEpoch' = [l \in Resources |-> IF holder[l] = o THEN 0 ELSE lockEpoch[l]]
            /\ stale' = stale \ LocksOf(o)
    /\ UNCHANGED <<processes, opEpoch, key, request, source, late>>

Release(locks) ==
    /\ holder' = [l \in Resources |-> IF l \in locks THEN None ELSE holder[l]]
    /\ lockEpoch' = [l \in Resources |-> IF l \in locks THEN 0 ELSE lockEpoch[l]]
    /\ stale' = stale \ locks

(* Mutant: the storage lock is deleted whoever owns it now.                *)
settleReconciledMutant(o, ending) ==
    /\ state[o] = "completion_unknown"
    /\ state' = [state EXCEPT ![o] = ending]
    /\ Release(Storages)
    /\ UNCHANGED <<processes, opEpoch, key, request, pointRows, late>>

(* The ending a restore's own reconciler has proven replaces an unknown    *)
(* one and releases the storage; the repository lock stays.                *)
settleReconciled(o, ending) ==
    /\ state[o] = "completion_unknown"
    /\ state' = [state EXCEPT ![o] = ending]
    /\ Release(LocksOf(o) \cap Storages)
    /\ UNCHANGED <<processes, opEpoch, key, request, pointRows, late>>

(* An operator who reviewed the interrupted operation releases its lock.   *)
releaseStaleLock(l) ==
    /\ l \in stale
    /\ Release({l})
    /\ UNCHANGED <<processes, opRows, pointRows, late>>

(* Mutant: the scope of the lock is not looked at.                         *)
releaseInterruptedRepositoryLocksMutant(activeId) ==
    /\ Release({l \in stale :
                  \/ KindOf[request[holder[l]]] = "repository_init"
                  \/ l = activeId /\ KindOf[request[holder[l]]] # "repository_init"})
    /\ UNCHANGED <<processes, opRows, pointRows, late>>

(* Boot releases the repository locks of interrupted work.  activeId is    *)
(* None when restic's own locks could not be cleared.                      *)
releaseInterruptedRepositoryLocks(activeId) ==
    /\ Release({l \in stale \cap Repositories :
                  \/ KindOf[request[holder[l]]] = "repository_init"
                  \/ l = activeId /\ KindOf[request[holder[l]]] # "repository_init"})
    /\ UNCHANGED <<processes, opRows, pointRows, late>>

(* Everything live under another epoch was interrupted.                    *)
reconcileAtStartup(e) ==
    /\ e \notin reconciled
    /\ reconciled' = reconciled \cup {e}
    /\ state' = [o \in Ops |-> IF Live(o) /\ opEpoch[o] # e THEN "completion_unknown" ELSE state[o]]
    /\ status' = [p \in Points |->
                    IF status[p] = "pending" /\ ~(\E o \in Ops : source[p] = o /\ Live(o) /\ opEpoch[o] = e)
                    THEN "completion_unknown" ELSE status[p]]
    /\ stale' = stale \cup {l \in Resources : holder[l] # None /\ lockEpoch[l] # e}
    /\ UNCHANGED <<started, alive, opEpoch, key, request, source, holder, lockEpoch, late>>

-----------------------------------------------------------------------------
(* A running operation records another point (the safety point of an       *)
(* overwrite).  Nothing asks whether the operation still runs: the process *)
(* may have been declared dead in the meantime.                            *)
begin(e, p, o) ==
    /\ status[p] = "none" /\ opEpoch[o] = e
    /\ status' = [status EXCEPT ![p] = "pending"]
    /\ source' = [source EXCEPT ![p] = o]
    /\ late' = IF isTerminal(o) THEN late \cup {p} ELSE late
    /\ UNCHANGED <<processes, opRows, lockRows>>

(* Mutant: a late completion overwrites the settled status.                *)
finalizeMutant(p, final) ==
    /\ status[p] # "none"
    /\ status' = [status EXCEPT ![p] = final]
    /\ UNCHANGED <<processes, opRows, source, lockRows, late>>

(* The one final status; a completion that arrives after it is refused.    *)
finalize(p, final) ==
    /\ status[p] = "pending"
    /\ status' = [status EXCEPT ![p] = final]
    /\ UNCHANGED <<processes, opRows, source, lockRows, late>>

-----------------------------------------------------------------------------
OperationCall(e) ==
    \E o \in Ops :
        \/ \E k \in Keys, r \in Requests :
              start(e, o, k, r) \/ \E locks \in SUBSET Resources : admit(e, o, k, r, locks)
        \/ markRunning(e, o)
        \/ \E l \in Resources : acquireLock(e, l, o)
        \/ \E ending \in TERMINAL_OPERATION_STATES : finish(e, o, ending)
        \/ \E ending \in KnownEndings : settleReconciled(o, ending)

LockCall ==
    \/ \E l \in Resources : releaseStaleLock(l)
    \/ \E activeId \in Repositories \cup {None} : releaseInterruptedRepositoryLocks(activeId)

PointCall(e) ==
    \E p \in Points :
        \/ \E o \in Ops : begin(e, p, o)
        \/ \E final \in PointStatus \ {"none", "pending"} : finalize(p, final)

Next ==
    \/ Boot
    \/ \E e \in alive : \/ Crash(e) \/ reconcileAtStartup(e) \/ OperationCall(e)
                        \/ LockCall \/ PointCall(e)

Spec == Init /\ [][Next]_vars

-----------------------------------------------------------------------------
TypeOK ==
    /\ started \in 0..MaxEpochs /\ alive \in SUBSET (1..started) /\ reconciled \in SUBSET (1..started)
    /\ state \in [Ops -> LiveStates \cup TERMINAL_OPERATION_STATES \cup {"none"}]
    /\ opEpoch \in [Ops -> 0..started]
    /\ key \in [Ops -> Keys \cup {None}]
    /\ request \in [Ops -> Requests \cup {None}]
    /\ status \in [Points -> PointStatus]
    /\ source \in [Points -> Ops \cup {None}]
    /\ holder \in [Resources -> Ops \cup {None}]
    /\ lockEpoch \in [Resources -> 0..started]
    /\ stale \in SUBSET Resources
    /\ late \in SUBSET Points

(* A lock always matches the operation that holds it: a live operation's   *)
(* lock is never stale, and an ended operation's lock always is, so no     *)
(* storage is left closed by a lock that neither its owner nor a review    *)
(* can release, and none is reviewed away under a running operation.       *)
LocksFollowOperations ==
    \A l \in Resources : holder[l] # None =>
        /\ lockEpoch[l] = opEpoch[holder[l]]
        /\ IF l \in stale THEN isTerminal(holder[l]) ELSE Live(holder[l])

(* A pending point always has a live operation that will settle it, so an  *)
(* operation that ended `succeeded` or `partial` has its evidence.         *)
(* Excepted are points begun after the operation had ended, which the next *)
(* boot settles.                                                           *)
PendingHasOwner ==
    \A p \in Points \ late : status[p] = "pending" => source[p] # None /\ Live(source[p])

(* An idempotency key never names two operations: a request retried after  *)
(* a lost answer does not run twice.                                       *)
KeyNamesOneOperation ==
    \A o, x \in Ops : o # x /\ key[o] = key[x] => key[o] = None

(* The inductive invariant: the properties above, and that a row      *)
(* exists exactly when a process wrote it and a stale mark sits on a lock. *)
OperationsInvariant ==
    /\ TypeOK
    /\ \A o \in Ops : (state[o] = "none") <=> (opEpoch[o] = 0)
    /\ \A l \in stale : holder[l] # None
    /\ LocksFollowOperations
    /\ PendingHasOwner
    /\ KeyNamesOneOperation

DeadWorkStep ==
    \A o \in Ops : Live(o) /\ opEpoch[o] \notin alive =>
       /\ state'[o] \in {state[o], "completion_unknown"}
       /\ \A l \in Resources : holder'[l] = o => holder[l] = o

(* Work left by a dead process is never completed or resumed in place: its *)
(* live operation keeps its state or becomes completion_unknown, and is    *)
(* never given a lock.                                                     *)
DeadWorkStops == [][DeadWorkStep]_vars

KeepsLocksStep ==
    \A o \in Ops, l \in Resources : Live(o) /\ holder[l] = o =>
       holder'[l] = o \/ state'[o] \in TERMINAL_OPERATION_STATES

(* A live operation loses a lock only by ending, whatever is reviewed,     *)
(* reconciled or settled meanwhile, so two live operations never work on   *)
(* one storage or repository.                                              *)
LiveKeepsLocks == [][KeepsLocksStep]_vars

EndingsStep ==
    /\ \A o \in Ops : isTerminal(o) /\ state'[o] # state[o] =>
          state[o] = "completion_unknown" /\ state'[o] \in KnownEndings
    /\ \A p \in Points : status[p] \notin {"none", "pending"} => status'[p] = status[p]

(* What has ended is not rewritten: an operation's ending changes only     *)
(* from unknown to proven, and a final point never changes, however many   *)
(* late completions arrive from however many processes.                    *)
EndingsStand == [][EndingsStep]_vars

StaysClosedStep ==
    \A l \in Storages : l \in stale /\ holder'[l] # holder[l] =>
       /\ holder'[l] = None
       /\ state'[holder[l]] # state[holder[l]] \/ releaseStaleLock(l)

(* A storage whose restore was interrupted stays closed until the restore  *)
(* is proven or an operator releases that lock, and is then free before    *)
(* anybody else gets it.                                                   *)
StorageStaysClosed == [][StaysClosedStep]_vars
=============================================================================
