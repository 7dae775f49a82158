------------------------ MODULE RecoveryOperationsProofs ------------------------
(***************************************************************************)
(* The record invariants and action properties of RecoveryOperations, for  *)
(* any number of processes, operations, points, storages, repositories.    *)
(***************************************************************************)
EXTENDS RecoveryOperations, TLAPS

(* Zenon is the default; a leaf that it cannot do names the SMT solver.    *)
USE ZenonT(30)

(* The first state satisfies the inductive invariant: all tables are empty. *)
LEMMA InitRecords == Init => OperationsInvariant
  BY SMTT(30), NoneAssumption, EpochAssumption
  DEF Init, OperationsInvariant, TypeOK, LocksFollowOperations, PendingHasOwner,
      KeyNamesOneOperation, PointStatus, LiveStates, isTerminal, Live,
      TERMINAL_OPERATION_STATES, KnownEndings

(* Every store call keeps the columns in their domains.                    *)
LEMMA TypeStep ==
    ASSUME TypeOK, [Next]_vars
    PROVE  TypeOK'
<1>1. CASE Boot
  BY SMTT(30), <1>1, KindAssumption, NoneAssumption, EpochAssumption, ScopeAssumption DEF Boot, vars, processes, opRows, pointRows, lockRows, TypeOK, PointStatus, Epochs, Live, LiveStates, TERMINAL_OPERATION_STATES, KnownEndings
<1>2. ASSUME NEW e \in alive,
             Crash(e)
       PROVE  TypeOK'
  BY <1>2, KindAssumption, NoneAssumption, EpochAssumption, ScopeAssumption DEF Crash, vars, processes, opRows, pointRows, lockRows, TypeOK, PointStatus, Epochs, Live, LiveStates, TERMINAL_OPERATION_STATES, KnownEndings
<1>3. ASSUME NEW e \in alive,
             reconcileAtStartup(e)
       PROVE  TypeOK'
  BY <1>3, KindAssumption, NoneAssumption, EpochAssumption, ScopeAssumption DEF reconcileAtStartup, vars, processes, opRows, pointRows, lockRows, TypeOK, PointStatus, Epochs, Live, LiveStates, TERMINAL_OPERATION_STATES, KnownEndings
<1>4. ASSUME NEW e \in alive, NEW o \in Ops, NEW k \in Keys, NEW r \in Requests,
             start(e, o, k, r)
       PROVE  TypeOK'
  BY SMTT(30), <1>4, KindAssumption, NoneAssumption, EpochAssumption, ScopeAssumption DEF start, NewRow, vars, processes, opRows, pointRows, lockRows, TypeOK, PointStatus, Epochs, Live, LiveStates, TERMINAL_OPERATION_STATES, KnownEndings
<1>5. ASSUME NEW e \in alive, NEW o \in Ops, NEW k \in Keys, NEW r \in Requests, NEW locks \in SUBSET Resources,
             admit(e, o, k, r, locks)
       PROVE  TypeOK'
  BY SMTT(30), <1>5, KindAssumption, NoneAssumption, EpochAssumption, ScopeAssumption DEF admit, NewRow, vars, processes, opRows, pointRows, lockRows, TypeOK, PointStatus, Epochs, Live, LiveStates, TERMINAL_OPERATION_STATES, KnownEndings
<1>6. ASSUME NEW e \in alive, NEW o \in Ops,
             markRunning(e, o)
       PROVE  TypeOK'
  BY <1>6, KindAssumption, NoneAssumption, EpochAssumption, ScopeAssumption DEF markRunning, vars, processes, opRows, pointRows, lockRows, TypeOK, PointStatus, Epochs, Live, LiveStates, TERMINAL_OPERATION_STATES, KnownEndings
<1>7. ASSUME NEW e \in alive, NEW o \in Ops, NEW l \in Resources,
             acquireLock(e, l, o)
       PROVE  TypeOK'
  BY <1>7, KindAssumption, NoneAssumption, EpochAssumption, ScopeAssumption DEF acquireLock, vars, processes, opRows, pointRows, lockRows, TypeOK, PointStatus, Epochs, Live, LiveStates, TERMINAL_OPERATION_STATES, KnownEndings
<1>8. ASSUME NEW e \in alive, NEW o \in Ops, NEW ending \in TERMINAL_OPERATION_STATES,
             finish(e, o, ending)
       PROVE  TypeOK'
  BY SMTT(30), <1>8, KindAssumption, NoneAssumption, EpochAssumption, ScopeAssumption DEF finish, SettledPoint, LocksOf, PendingOf, vars, processes, opRows, pointRows, lockRows, TypeOK, PointStatus, Epochs, Live, LiveStates, TERMINAL_OPERATION_STATES, KnownEndings
<1>9. ASSUME NEW e \in alive, NEW o \in Ops, NEW ending \in KnownEndings,
             settleReconciled(o, ending)
       PROVE  TypeOK'
  BY SMTT(30), <1>9, KindAssumption, NoneAssumption, EpochAssumption, ScopeAssumption DEF settleReconciled, Release, LocksOf, vars, processes, opRows, pointRows, lockRows, TypeOK, PointStatus, Epochs, Live, LiveStates, TERMINAL_OPERATION_STATES, KnownEndings
<1>10. ASSUME NEW e \in alive, NEW l \in Resources,
             releaseStaleLock(l)
       PROVE  TypeOK'
  BY SMTT(30), <1>10, KindAssumption, NoneAssumption, EpochAssumption, ScopeAssumption DEF releaseStaleLock, Release, vars, processes, opRows, pointRows, lockRows, TypeOK, PointStatus, Epochs, Live, LiveStates, TERMINAL_OPERATION_STATES, KnownEndings
<1>11. ASSUME NEW e \in alive, NEW a \in Repositories \cup {None},
             releaseInterruptedRepositoryLocks(a)
       PROVE  TypeOK'
  BY SMTT(30), <1>11, KindAssumption, NoneAssumption, EpochAssumption, ScopeAssumption DEF releaseInterruptedRepositoryLocks, Release, vars, processes, opRows, pointRows, lockRows, TypeOK, PointStatus, Epochs, Live, LiveStates, TERMINAL_OPERATION_STATES, KnownEndings
<1>12. ASSUME NEW e \in alive, NEW p \in Points, NEW o \in Ops,
             begin(e, p, o)
       PROVE  TypeOK'
  BY <1>12, KindAssumption, NoneAssumption, EpochAssumption, ScopeAssumption DEF begin, vars, processes, opRows, pointRows, lockRows, TypeOK, PointStatus, Epochs, Live, LiveStates, TERMINAL_OPERATION_STATES, KnownEndings
<1>13. ASSUME NEW e \in alive, NEW p \in Points, NEW final \in PointStatus \ {"none", "pending"},
             finalize(p, final)
       PROVE  TypeOK'
  BY <1>13, KindAssumption, NoneAssumption, EpochAssumption, ScopeAssumption DEF finalize, vars, processes, opRows, pointRows, lockRows, TypeOK, PointStatus, Epochs, Live, LiveStates, TERMINAL_OPERATION_STATES, KnownEndings
<1>14. CASE UNCHANGED vars
  BY <1>14, KindAssumption, NoneAssumption, EpochAssumption, ScopeAssumption DEF vars, processes, opRows, pointRows, lockRows, TypeOK, PointStatus, Epochs, Live, LiveStates, TERMINAL_OPERATION_STATES, KnownEndings
<1>99. QED
  BY <1>1, <1>2, <1>3, <1>4, <1>5, <1>6, <1>7, <1>8, <1>9, <1>10, <1>11, <1>12, <1>13, <1>14 DEF Next, OperationCall, LockCall, PointCall

(* A row exists exactly when a process of some epoch wrote it.             *)
LEMMA RowStep ==
    ASSUME TypeOK, \A x \in Ops : (state[x] = "none") <=> (opEpoch[x] = 0),
           [Next]_vars
    PROVE  \A x \in Ops : (state'[x] = "none") <=> (opEpoch'[x] = 0)
<1>1. CASE Boot
  BY <1>1, EpochAssumption DEF Boot, vars, processes, opRows, pointRows, lockRows, TypeOK, Live, LiveStates, TERMINAL_OPERATION_STATES, KnownEndings
<1>2. ASSUME NEW e \in alive,
             Crash(e)
       PROVE  \A x \in Ops : (state'[x] = "none") <=> (opEpoch'[x] = 0)
  BY <1>2, EpochAssumption DEF Crash, vars, processes, opRows, pointRows, lockRows, TypeOK, Live, LiveStates, TERMINAL_OPERATION_STATES, KnownEndings
<1>3. ASSUME NEW e \in alive,
             reconcileAtStartup(e)
       PROVE  \A x \in Ops : (state'[x] = "none") <=> (opEpoch'[x] = 0)
  BY <1>3, EpochAssumption DEF reconcileAtStartup, vars, processes, opRows, pointRows, lockRows, TypeOK, Live, LiveStates, TERMINAL_OPERATION_STATES, KnownEndings
<1>4. ASSUME NEW e \in alive, NEW o \in Ops, NEW k \in Keys, NEW r \in Requests,
             start(e, o, k, r)
       PROVE  \A x \in Ops : (state'[x] = "none") <=> (opEpoch'[x] = 0)
  BY SMTT(30), <1>4, EpochAssumption DEF start, NewRow, vars, processes, opRows, pointRows, lockRows, TypeOK, Live, LiveStates, TERMINAL_OPERATION_STATES, KnownEndings
<1>5. ASSUME NEW e \in alive, NEW o \in Ops, NEW k \in Keys, NEW r \in Requests, NEW locks \in SUBSET Resources,
             admit(e, o, k, r, locks)
       PROVE  \A x \in Ops : (state'[x] = "none") <=> (opEpoch'[x] = 0)
  BY SMTT(30), <1>5, EpochAssumption DEF admit, NewRow, vars, processes, opRows, pointRows, lockRows, TypeOK, Live, LiveStates, TERMINAL_OPERATION_STATES, KnownEndings
<1>6. ASSUME NEW e \in alive, NEW o \in Ops,
             markRunning(e, o)
       PROVE  \A x \in Ops : (state'[x] = "none") <=> (opEpoch'[x] = 0)
  BY <1>6, EpochAssumption DEF markRunning, vars, processes, opRows, pointRows, lockRows, TypeOK, Live, LiveStates, TERMINAL_OPERATION_STATES, KnownEndings
<1>7. ASSUME NEW e \in alive, NEW o \in Ops, NEW l \in Resources,
             acquireLock(e, l, o)
       PROVE  \A x \in Ops : (state'[x] = "none") <=> (opEpoch'[x] = 0)
  BY <1>7, EpochAssumption DEF acquireLock, vars, processes, opRows, pointRows, lockRows, TypeOK, Live, LiveStates, TERMINAL_OPERATION_STATES, KnownEndings
<1>8. ASSUME NEW e \in alive, NEW o \in Ops, NEW ending \in TERMINAL_OPERATION_STATES,
             finish(e, o, ending)
       PROVE  \A x \in Ops : (state'[x] = "none") <=> (opEpoch'[x] = 0)
  BY <1>8, EpochAssumption DEF finish, SettledPoint, LocksOf, PendingOf, vars, processes, opRows, pointRows, lockRows, TypeOK, Live, LiveStates, TERMINAL_OPERATION_STATES, KnownEndings
<1>9. ASSUME NEW e \in alive, NEW o \in Ops, NEW ending \in KnownEndings,
             settleReconciled(o, ending)
       PROVE  \A x \in Ops : (state'[x] = "none") <=> (opEpoch'[x] = 0)
  BY <1>9, EpochAssumption DEF settleReconciled, Release, LocksOf, vars, processes, opRows, pointRows, lockRows, TypeOK, Live, LiveStates, TERMINAL_OPERATION_STATES, KnownEndings
<1>10. ASSUME NEW e \in alive, NEW l \in Resources,
             releaseStaleLock(l)
       PROVE  \A x \in Ops : (state'[x] = "none") <=> (opEpoch'[x] = 0)
  BY <1>10, EpochAssumption DEF releaseStaleLock, Release, vars, processes, opRows, pointRows, lockRows, TypeOK, Live, LiveStates, TERMINAL_OPERATION_STATES, KnownEndings
<1>11. ASSUME NEW e \in alive, NEW a \in Repositories \cup {None},
             releaseInterruptedRepositoryLocks(a)
       PROVE  \A x \in Ops : (state'[x] = "none") <=> (opEpoch'[x] = 0)
  BY <1>11, EpochAssumption DEF releaseInterruptedRepositoryLocks, Release, vars, processes, opRows, pointRows, lockRows, TypeOK, Live, LiveStates, TERMINAL_OPERATION_STATES, KnownEndings
<1>12. ASSUME NEW e \in alive, NEW p \in Points, NEW o \in Ops,
             begin(e, p, o)
       PROVE  \A x \in Ops : (state'[x] = "none") <=> (opEpoch'[x] = 0)
  BY <1>12, EpochAssumption DEF begin, vars, processes, opRows, pointRows, lockRows, TypeOK, Live, LiveStates, TERMINAL_OPERATION_STATES, KnownEndings
<1>13. ASSUME NEW e \in alive, NEW p \in Points, NEW final \in PointStatus \ {"none", "pending"},
             finalize(p, final)
       PROVE  \A x \in Ops : (state'[x] = "none") <=> (opEpoch'[x] = 0)
  BY <1>13, EpochAssumption DEF finalize, vars, processes, opRows, pointRows, lockRows, TypeOK, Live, LiveStates, TERMINAL_OPERATION_STATES, KnownEndings
<1>14. CASE UNCHANGED vars
  BY <1>14, EpochAssumption DEF vars, processes, opRows, pointRows, lockRows, TypeOK, Live, LiveStates, TERMINAL_OPERATION_STATES, KnownEndings
<1>99. QED
  BY <1>1, <1>2, <1>3, <1>4, <1>5, <1>6, <1>7, <1>8, <1>9, <1>10, <1>11, <1>12, <1>13, <1>14 DEF Next, OperationCall, LockCall, PointCall

(* A stale mark sits on a lock somebody holds.                             *)
LEMMA StaleStep ==
    ASSUME TypeOK, \A x \in stale : holder[x] # None,
           [Next]_vars
    PROVE  \A x \in stale' : holder'[x] # None
<1>1. CASE Boot
  BY <1>1, NoneAssumption DEF Boot, vars, processes, opRows, pointRows, lockRows, TypeOK
<1>2. ASSUME NEW e \in alive,
             Crash(e)
       PROVE  \A x \in stale' : holder'[x] # None
  BY <1>2, NoneAssumption DEF Crash, vars, processes, opRows, pointRows, lockRows, TypeOK
<1>3. ASSUME NEW e \in alive,
             reconcileAtStartup(e)
       PROVE  \A x \in stale' : holder'[x] # None
  BY <1>3, NoneAssumption DEF reconcileAtStartup, vars, processes, opRows, pointRows, lockRows, TypeOK
<1>4. ASSUME NEW e \in alive, NEW o \in Ops, NEW k \in Keys, NEW r \in Requests,
             start(e, o, k, r)
       PROVE  \A x \in stale' : holder'[x] # None
  BY <1>4, NoneAssumption DEF start, NewRow, vars, processes, opRows, pointRows, lockRows, TypeOK
<1>5. ASSUME NEW e \in alive, NEW o \in Ops, NEW k \in Keys, NEW r \in Requests, NEW locks \in SUBSET Resources,
             admit(e, o, k, r, locks)
       PROVE  \A x \in stale' : holder'[x] # None
  BY <1>5, NoneAssumption DEF admit, NewRow, vars, processes, opRows, pointRows, lockRows, TypeOK
<1>6. ASSUME NEW e \in alive, NEW o \in Ops,
             markRunning(e, o)
       PROVE  \A x \in stale' : holder'[x] # None
  BY <1>6, NoneAssumption DEF markRunning, vars, processes, opRows, pointRows, lockRows, TypeOK
<1>7. ASSUME NEW e \in alive, NEW o \in Ops, NEW l \in Resources,
             acquireLock(e, l, o)
       PROVE  \A x \in stale' : holder'[x] # None
  BY <1>7, NoneAssumption DEF acquireLock, vars, processes, opRows, pointRows, lockRows, TypeOK
<1>8. ASSUME NEW e \in alive, NEW o \in Ops, NEW ending \in TERMINAL_OPERATION_STATES,
             finish(e, o, ending)
       PROVE  \A x \in stale' : holder'[x] # None
  BY SMTT(30), <1>8, NoneAssumption DEF finish, SettledPoint, LocksOf, PendingOf, vars, processes, opRows, pointRows, lockRows, TypeOK
<1>9. ASSUME NEW e \in alive, NEW o \in Ops, NEW ending \in KnownEndings,
             settleReconciled(o, ending)
       PROVE  \A x \in stale' : holder'[x] # None
  BY <1>9, NoneAssumption DEF settleReconciled, Release, LocksOf, vars, processes, opRows, pointRows, lockRows, TypeOK
<1>10. ASSUME NEW e \in alive, NEW l \in Resources,
             releaseStaleLock(l)
       PROVE  \A x \in stale' : holder'[x] # None
  BY <1>10, NoneAssumption DEF releaseStaleLock, Release, vars, processes, opRows, pointRows, lockRows, TypeOK
<1>11. ASSUME NEW e \in alive, NEW a \in Repositories \cup {None},
             releaseInterruptedRepositoryLocks(a)
       PROVE  \A x \in stale' : holder'[x] # None
  BY <1>11, NoneAssumption DEF releaseInterruptedRepositoryLocks, Release, vars, processes, opRows, pointRows, lockRows, TypeOK
<1>12. ASSUME NEW e \in alive, NEW p \in Points, NEW o \in Ops,
             begin(e, p, o)
       PROVE  \A x \in stale' : holder'[x] # None
  BY <1>12, NoneAssumption DEF begin, vars, processes, opRows, pointRows, lockRows, TypeOK
<1>13. ASSUME NEW e \in alive, NEW p \in Points, NEW final \in PointStatus \ {"none", "pending"},
             finalize(p, final)
       PROVE  \A x \in stale' : holder'[x] # None
  BY <1>13, NoneAssumption DEF finalize, vars, processes, opRows, pointRows, lockRows, TypeOK
<1>14. CASE UNCHANGED vars
  BY <1>14, NoneAssumption DEF vars, processes, opRows, pointRows, lockRows, TypeOK
<1>99. QED
  BY <1>1, <1>2, <1>3, <1>4, <1>5, <1>6, <1>7, <1>8, <1>9, <1>10, <1>11, <1>12, <1>13, <1>14 DEF Next, OperationCall, LockCall, PointCall

(* A lock goes on matching the operation that holds it, whichever of its   *)
(* owner, a boot, a review and a proven ending touches either.             *)
LEMMA LockStep ==
    ASSUME OperationsInvariant, [Next]_vars
    PROVE  LocksFollowOperations'
<1>1. CASE Boot
  BY <1>1, KindAssumption, NoneAssumption, EpochAssumption, ScopeAssumption DEF Boot, vars, processes, opRows, pointRows, lockRows, OperationsInvariant, TypeOK, LocksFollowOperations, isTerminal, Live, LiveStates, TERMINAL_OPERATION_STATES, KnownEndings
<1>2. ASSUME NEW e \in alive,
             Crash(e)
       PROVE  LocksFollowOperations'
  BY <1>2, KindAssumption, NoneAssumption, EpochAssumption, ScopeAssumption DEF Crash, vars, processes, opRows, pointRows, lockRows, OperationsInvariant, TypeOK, LocksFollowOperations, isTerminal, Live, LiveStates, TERMINAL_OPERATION_STATES, KnownEndings
<1>3. ASSUME NEW e \in alive,
             reconcileAtStartup(e)
       PROVE  LocksFollowOperations'
  BY SMTT(30), <1>3, KindAssumption, NoneAssumption, EpochAssumption, ScopeAssumption DEF reconcileAtStartup, vars, processes, opRows, pointRows, lockRows, OperationsInvariant, TypeOK, LocksFollowOperations, isTerminal, Live, LiveStates, TERMINAL_OPERATION_STATES, KnownEndings
<1>4. ASSUME NEW e \in alive, NEW o \in Ops, NEW k \in Keys, NEW r \in Requests,
             start(e, o, k, r)
       PROVE  LocksFollowOperations'
  BY SMTT(30), <1>4, KindAssumption, NoneAssumption, EpochAssumption, ScopeAssumption DEF start, NewRow, vars, processes, opRows, pointRows, lockRows, OperationsInvariant, TypeOK, LocksFollowOperations, isTerminal, Live, LiveStates, TERMINAL_OPERATION_STATES, KnownEndings
<1>5. ASSUME NEW e \in alive, NEW o \in Ops, NEW k \in Keys, NEW r \in Requests, NEW locks \in SUBSET Resources,
             admit(e, o, k, r, locks)
       PROVE  LocksFollowOperations'
  BY SMTT(30), <1>5, KindAssumption, NoneAssumption, EpochAssumption, ScopeAssumption DEF admit, NewRow, vars, processes, opRows, pointRows, lockRows, OperationsInvariant, TypeOK, LocksFollowOperations, isTerminal, Live, LiveStates, TERMINAL_OPERATION_STATES, KnownEndings
<1>6. ASSUME NEW e \in alive, NEW o \in Ops,
             markRunning(e, o)
       PROVE  LocksFollowOperations'
  BY SMTT(30), <1>6, KindAssumption, NoneAssumption, EpochAssumption, ScopeAssumption DEF markRunning, vars, processes, opRows, pointRows, lockRows, OperationsInvariant, TypeOK, LocksFollowOperations, isTerminal, Live, LiveStates, TERMINAL_OPERATION_STATES, KnownEndings
<1>7. ASSUME NEW e \in alive, NEW o \in Ops, NEW l \in Resources,
             acquireLock(e, l, o)
       PROVE  LocksFollowOperations'
  BY SMTT(30), <1>7, KindAssumption, NoneAssumption, EpochAssumption, ScopeAssumption DEF acquireLock, vars, processes, opRows, pointRows, lockRows, OperationsInvariant, TypeOK, LocksFollowOperations, isTerminal, Live, LiveStates, TERMINAL_OPERATION_STATES, KnownEndings
<1>8. ASSUME NEW e \in alive, NEW o \in Ops, NEW ending \in TERMINAL_OPERATION_STATES,
             finish(e, o, ending)
       PROVE  LocksFollowOperations'
  BY SMTT(30), <1>8, KindAssumption, NoneAssumption, EpochAssumption, ScopeAssumption DEF finish, SettledPoint, LocksOf, PendingOf, vars, processes, opRows, pointRows, lockRows, OperationsInvariant, TypeOK, LocksFollowOperations, isTerminal, Live, LiveStates, TERMINAL_OPERATION_STATES, KnownEndings
<1>9. ASSUME NEW e \in alive, NEW o \in Ops, NEW ending \in KnownEndings,
             settleReconciled(o, ending)
       PROVE  LocksFollowOperations'
  BY SMTT(30), <1>9, KindAssumption, NoneAssumption, EpochAssumption, ScopeAssumption DEF settleReconciled, Release, LocksOf, vars, processes, opRows, pointRows, lockRows, OperationsInvariant, TypeOK, LocksFollowOperations, isTerminal, Live, LiveStates, TERMINAL_OPERATION_STATES, KnownEndings
<1>10. ASSUME NEW e \in alive, NEW l \in Resources,
             releaseStaleLock(l)
       PROVE  LocksFollowOperations'
  BY <1>10, KindAssumption, NoneAssumption, EpochAssumption, ScopeAssumption DEF releaseStaleLock, Release, vars, processes, opRows, pointRows, lockRows, OperationsInvariant, TypeOK, LocksFollowOperations, isTerminal, Live, LiveStates, TERMINAL_OPERATION_STATES, KnownEndings
<1>11. ASSUME NEW e \in alive, NEW a \in Repositories \cup {None},
             releaseInterruptedRepositoryLocks(a)
       PROVE  LocksFollowOperations'
  BY <1>11, KindAssumption, NoneAssumption, EpochAssumption, ScopeAssumption DEF releaseInterruptedRepositoryLocks, Release, vars, processes, opRows, pointRows, lockRows, OperationsInvariant, TypeOK, LocksFollowOperations, isTerminal, Live, LiveStates, TERMINAL_OPERATION_STATES, KnownEndings
<1>12. ASSUME NEW e \in alive, NEW p \in Points, NEW o \in Ops,
             begin(e, p, o)
       PROVE  LocksFollowOperations'
  BY <1>12, KindAssumption, NoneAssumption, EpochAssumption, ScopeAssumption DEF begin, vars, processes, opRows, pointRows, lockRows, OperationsInvariant, TypeOK, LocksFollowOperations, isTerminal, Live, LiveStates, TERMINAL_OPERATION_STATES, KnownEndings
<1>13. ASSUME NEW e \in alive, NEW p \in Points, NEW final \in PointStatus \ {"none", "pending"},
             finalize(p, final)
       PROVE  LocksFollowOperations'
  BY <1>13, KindAssumption, NoneAssumption, EpochAssumption, ScopeAssumption DEF finalize, vars, processes, opRows, pointRows, lockRows, OperationsInvariant, TypeOK, LocksFollowOperations, isTerminal, Live, LiveStates, TERMINAL_OPERATION_STATES, KnownEndings
<1>14. CASE UNCHANGED vars
  BY <1>14, KindAssumption, NoneAssumption, EpochAssumption, ScopeAssumption DEF vars, processes, opRows, pointRows, lockRows, OperationsInvariant, TypeOK, LocksFollowOperations, isTerminal, Live, LiveStates, TERMINAL_OPERATION_STATES, KnownEndings
<1>99. QED
  BY SMTT(30), <1>1, <1>2, <1>3, <1>4, <1>5, <1>6, <1>7, <1>8, <1>9, <1>10, <1>11, <1>12, <1>13, <1>14 DEF Next, OperationCall, LockCall, PointCall

(* A pending point goes on having a live operation, or is a late one.      *)
LEMMA PointStep ==
    ASSUME OperationsInvariant, [Next]_vars
    PROVE  PendingHasOwner'
<1>1. CASE Boot
  BY <1>1, KindAssumption, NoneAssumption, EpochAssumption, ScopeAssumption DEF Boot, vars, processes, opRows, pointRows, lockRows, OperationsInvariant, TypeOK, PendingHasOwner, PointStatus, isTerminal, Live, LiveStates, TERMINAL_OPERATION_STATES, KnownEndings
<1>2. ASSUME NEW e \in alive,
             Crash(e)
       PROVE  PendingHasOwner'
  BY <1>2, KindAssumption, NoneAssumption, EpochAssumption, ScopeAssumption DEF Crash, vars, processes, opRows, pointRows, lockRows, OperationsInvariant, TypeOK, PendingHasOwner, PointStatus, isTerminal, Live, LiveStates, TERMINAL_OPERATION_STATES, KnownEndings
<1>3. ASSUME NEW e \in alive,
             reconcileAtStartup(e)
       PROVE  PendingHasOwner'
  BY SMTT(30), <1>3, KindAssumption, NoneAssumption, EpochAssumption, ScopeAssumption DEF reconcileAtStartup, vars, processes, opRows, pointRows, lockRows, OperationsInvariant, TypeOK, PendingHasOwner, PointStatus, isTerminal, Live, LiveStates, TERMINAL_OPERATION_STATES, KnownEndings
<1>4. ASSUME NEW e \in alive, NEW o \in Ops, NEW k \in Keys, NEW r \in Requests,
             start(e, o, k, r)
       PROVE  PendingHasOwner'
  BY <1>4, KindAssumption, NoneAssumption, EpochAssumption, ScopeAssumption DEF start, NewRow, vars, processes, opRows, pointRows, lockRows, OperationsInvariant, TypeOK, PendingHasOwner, PointStatus, isTerminal, Live, LiveStates, TERMINAL_OPERATION_STATES, KnownEndings
<1>5. ASSUME NEW e \in alive, NEW o \in Ops, NEW k \in Keys, NEW r \in Requests, NEW locks \in SUBSET Resources,
             admit(e, o, k, r, locks)
       PROVE  PendingHasOwner'
  BY SMTT(30), <1>5, KindAssumption, NoneAssumption, EpochAssumption, ScopeAssumption DEF admit, NewRow, vars, processes, opRows, pointRows, lockRows, OperationsInvariant, TypeOK, PendingHasOwner, PointStatus, isTerminal, Live, LiveStates, TERMINAL_OPERATION_STATES, KnownEndings
<1>6. ASSUME NEW e \in alive, NEW o \in Ops,
             markRunning(e, o)
       PROVE  PendingHasOwner'
  BY <1>6, KindAssumption, NoneAssumption, EpochAssumption, ScopeAssumption DEF markRunning, vars, processes, opRows, pointRows, lockRows, OperationsInvariant, TypeOK, PendingHasOwner, PointStatus, isTerminal, Live, LiveStates, TERMINAL_OPERATION_STATES, KnownEndings
<1>7. ASSUME NEW e \in alive, NEW o \in Ops, NEW l \in Resources,
             acquireLock(e, l, o)
       PROVE  PendingHasOwner'
  BY <1>7, KindAssumption, NoneAssumption, EpochAssumption, ScopeAssumption DEF acquireLock, vars, processes, opRows, pointRows, lockRows, OperationsInvariant, TypeOK, PendingHasOwner, PointStatus, isTerminal, Live, LiveStates, TERMINAL_OPERATION_STATES, KnownEndings
<1>8. ASSUME NEW e \in alive, NEW o \in Ops, NEW ending \in TERMINAL_OPERATION_STATES,
             finish(e, o, ending)
       PROVE  PendingHasOwner'
  BY <1>8, KindAssumption, NoneAssumption, EpochAssumption, ScopeAssumption DEF finish, SettledPoint, LocksOf, PendingOf, vars, processes, opRows, pointRows, lockRows, OperationsInvariant, TypeOK, PendingHasOwner, PointStatus, isTerminal, Live, LiveStates, TERMINAL_OPERATION_STATES, KnownEndings
<1>9. ASSUME NEW e \in alive, NEW o \in Ops, NEW ending \in KnownEndings,
             settleReconciled(o, ending)
       PROVE  PendingHasOwner'
  BY <1>9, KindAssumption, NoneAssumption, EpochAssumption, ScopeAssumption DEF settleReconciled, Release, LocksOf, vars, processes, opRows, pointRows, lockRows, OperationsInvariant, TypeOK, PendingHasOwner, PointStatus, isTerminal, Live, LiveStates, TERMINAL_OPERATION_STATES, KnownEndings
<1>10. ASSUME NEW e \in alive, NEW l \in Resources,
             releaseStaleLock(l)
       PROVE  PendingHasOwner'
  BY <1>10, KindAssumption, NoneAssumption, EpochAssumption, ScopeAssumption DEF releaseStaleLock, Release, vars, processes, opRows, pointRows, lockRows, OperationsInvariant, TypeOK, PendingHasOwner, PointStatus, isTerminal, Live, LiveStates, TERMINAL_OPERATION_STATES, KnownEndings
<1>11. ASSUME NEW e \in alive, NEW a \in Repositories \cup {None},
             releaseInterruptedRepositoryLocks(a)
       PROVE  PendingHasOwner'
  BY <1>11, KindAssumption, NoneAssumption, EpochAssumption, ScopeAssumption DEF releaseInterruptedRepositoryLocks, Release, vars, processes, opRows, pointRows, lockRows, OperationsInvariant, TypeOK, PendingHasOwner, PointStatus, isTerminal, Live, LiveStates, TERMINAL_OPERATION_STATES, KnownEndings
<1>12. ASSUME NEW e \in alive, NEW p \in Points, NEW o \in Ops,
             begin(e, p, o)
       PROVE  PendingHasOwner'
  BY SMTT(30), <1>12, KindAssumption, NoneAssumption, EpochAssumption, ScopeAssumption DEF begin, vars, processes, opRows, pointRows, lockRows, OperationsInvariant, TypeOK, PendingHasOwner, PointStatus, isTerminal, Live, LiveStates, TERMINAL_OPERATION_STATES, KnownEndings
<1>13. ASSUME NEW e \in alive, NEW p \in Points, NEW final \in PointStatus \ {"none", "pending"},
             finalize(p, final)
       PROVE  PendingHasOwner'
  BY <1>13, KindAssumption, NoneAssumption, EpochAssumption, ScopeAssumption DEF finalize, vars, processes, opRows, pointRows, lockRows, OperationsInvariant, TypeOK, PendingHasOwner, PointStatus, isTerminal, Live, LiveStates, TERMINAL_OPERATION_STATES, KnownEndings
<1>14. CASE UNCHANGED vars
  BY <1>14, KindAssumption, NoneAssumption, EpochAssumption, ScopeAssumption DEF vars, processes, opRows, pointRows, lockRows, OperationsInvariant, TypeOK, PendingHasOwner, PointStatus, isTerminal, Live, LiveStates, TERMINAL_OPERATION_STATES, KnownEndings
<1>99. QED
  BY <1>1, <1>2, <1>3, <1>4, <1>5, <1>6, <1>7, <1>8, <1>9, <1>10, <1>11, <1>12, <1>13, <1>14 DEF Next, OperationCall, LockCall, PointCall

(* No store call gives two operations one key.                             *)
LEMMA KeyStep ==
    ASSUME OperationsInvariant, [Next]_vars
    PROVE  KeyNamesOneOperation'
<1>1. CASE Boot
  BY <1>1, KindAssumption, NoneAssumption, EpochAssumption, ScopeAssumption DEF Boot, vars, processes, opRows, pointRows, lockRows, OperationsInvariant, TypeOK, KeyNamesOneOperation
<1>2. ASSUME NEW e \in alive,
             Crash(e)
       PROVE  KeyNamesOneOperation'
  BY <1>2, KindAssumption, NoneAssumption, EpochAssumption, ScopeAssumption DEF Crash, vars, processes, opRows, pointRows, lockRows, OperationsInvariant, TypeOK, KeyNamesOneOperation
<1>3. ASSUME NEW e \in alive,
             reconcileAtStartup(e)
       PROVE  KeyNamesOneOperation'
  BY <1>3, KindAssumption, NoneAssumption, EpochAssumption, ScopeAssumption DEF reconcileAtStartup, vars, processes, opRows, pointRows, lockRows, OperationsInvariant, TypeOK, KeyNamesOneOperation
<1>4. ASSUME NEW e \in alive, NEW o \in Ops, NEW k \in Keys, NEW r \in Requests,
             start(e, o, k, r)
       PROVE  KeyNamesOneOperation'
  BY SMTT(30), <1>4, KindAssumption, NoneAssumption, EpochAssumption, ScopeAssumption DEF start, NewRow, vars, processes, opRows, pointRows, lockRows, OperationsInvariant, TypeOK, KeyNamesOneOperation
<1>5. ASSUME NEW e \in alive, NEW o \in Ops, NEW k \in Keys, NEW r \in Requests, NEW locks \in SUBSET Resources,
             admit(e, o, k, r, locks)
       PROVE  KeyNamesOneOperation'
  BY SMTT(30), <1>5, KindAssumption, NoneAssumption, EpochAssumption, ScopeAssumption DEF admit, NewRow, vars, processes, opRows, pointRows, lockRows, OperationsInvariant, TypeOK, KeyNamesOneOperation
<1>6. ASSUME NEW e \in alive, NEW o \in Ops,
             markRunning(e, o)
       PROVE  KeyNamesOneOperation'
  BY <1>6, KindAssumption, NoneAssumption, EpochAssumption, ScopeAssumption DEF markRunning, vars, processes, opRows, pointRows, lockRows, OperationsInvariant, TypeOK, KeyNamesOneOperation
<1>7. ASSUME NEW e \in alive, NEW o \in Ops, NEW l \in Resources,
             acquireLock(e, l, o)
       PROVE  KeyNamesOneOperation'
  BY <1>7, KindAssumption, NoneAssumption, EpochAssumption, ScopeAssumption DEF acquireLock, vars, processes, opRows, pointRows, lockRows, OperationsInvariant, TypeOK, KeyNamesOneOperation
<1>8. ASSUME NEW e \in alive, NEW o \in Ops, NEW ending \in TERMINAL_OPERATION_STATES,
             finish(e, o, ending)
       PROVE  KeyNamesOneOperation'
  BY <1>8, KindAssumption, NoneAssumption, EpochAssumption, ScopeAssumption DEF finish, SettledPoint, LocksOf, PendingOf, vars, processes, opRows, pointRows, lockRows, OperationsInvariant, TypeOK, KeyNamesOneOperation
<1>9. ASSUME NEW e \in alive, NEW o \in Ops, NEW ending \in KnownEndings,
             settleReconciled(o, ending)
       PROVE  KeyNamesOneOperation'
  BY <1>9, KindAssumption, NoneAssumption, EpochAssumption, ScopeAssumption DEF settleReconciled, Release, LocksOf, vars, processes, opRows, pointRows, lockRows, OperationsInvariant, TypeOK, KeyNamesOneOperation
<1>10. ASSUME NEW e \in alive, NEW l \in Resources,
             releaseStaleLock(l)
       PROVE  KeyNamesOneOperation'
  BY <1>10, KindAssumption, NoneAssumption, EpochAssumption, ScopeAssumption DEF releaseStaleLock, Release, vars, processes, opRows, pointRows, lockRows, OperationsInvariant, TypeOK, KeyNamesOneOperation
<1>11. ASSUME NEW e \in alive, NEW a \in Repositories \cup {None},
             releaseInterruptedRepositoryLocks(a)
       PROVE  KeyNamesOneOperation'
  BY <1>11, KindAssumption, NoneAssumption, EpochAssumption, ScopeAssumption DEF releaseInterruptedRepositoryLocks, Release, vars, processes, opRows, pointRows, lockRows, OperationsInvariant, TypeOK, KeyNamesOneOperation
<1>12. ASSUME NEW e \in alive, NEW p \in Points, NEW o \in Ops,
             begin(e, p, o)
       PROVE  KeyNamesOneOperation'
  BY <1>12, KindAssumption, NoneAssumption, EpochAssumption, ScopeAssumption DEF begin, vars, processes, opRows, pointRows, lockRows, OperationsInvariant, TypeOK, KeyNamesOneOperation
<1>13. ASSUME NEW e \in alive, NEW p \in Points, NEW final \in PointStatus \ {"none", "pending"},
             finalize(p, final)
       PROVE  KeyNamesOneOperation'
  BY <1>13, KindAssumption, NoneAssumption, EpochAssumption, ScopeAssumption DEF finalize, vars, processes, opRows, pointRows, lockRows, OperationsInvariant, TypeOK, KeyNamesOneOperation
<1>14. CASE UNCHANGED vars
  BY <1>14, KindAssumption, NoneAssumption, EpochAssumption, ScopeAssumption DEF vars, processes, opRows, pointRows, lockRows, OperationsInvariant, TypeOK, KeyNamesOneOperation
<1>99. QED
  BY <1>1, <1>2, <1>3, <1>4, <1>5, <1>6, <1>7, <1>8, <1>9, <1>10, <1>11, <1>12, <1>13, <1>14 DEF Next, OperationCall, LockCall, PointCall

(* The inductive invariant of the durable records: a process may crash or  *)
(* be replaced between any two store calls, and the operations, points and *)
(* locks still fit each other.                                             *)
THEOREM RecordsHold == Spec => []OperationsInvariant
<1>1. OperationsInvariant /\ [Next]_vars => OperationsInvariant'
  <2>1. ASSUME OperationsInvariant, [Next]_vars PROVE OperationsInvariant'
    <3>1. TypeOK'
      BY <2>1, TypeStep DEF OperationsInvariant
    <3>2. \A o \in Ops : (state'[o] = "none") <=> (opEpoch'[o] = 0)
      BY <2>1, RowStep DEF OperationsInvariant
    <3>3. \A l \in stale' : holder'[l] # None
      BY <2>1, StaleStep DEF OperationsInvariant
    <3>4. LocksFollowOperations' /\ PendingHasOwner' /\ KeyNamesOneOperation'
      BY <2>1, LockStep, PointStep, KeyStep
    <3>5. QED
      BY <3>1, <3>2, <3>3, <3>4 DEF OperationsInvariant
  <2>2. QED
    BY <2>1
<1>2. QED
  BY <1>1, InitRecords, PTL DEF Spec

(* The rows of operations, points and locks keep their types through every *)
(* store call, crash and start of a process.                               *)
THEOREM RecordTypes == Spec => []TypeOK
<1>1. OperationsInvariant => TypeOK
  BY DEF OperationsInvariant
<1>2. QED
  BY <1>1, RecordsHold, PTL

(* An idempotency key names at most one operation (operations.ts start and *)
(* admit), however many processes retry the request.                       *)
THEOREM KeysAreUnique == Spec => []KeyNamesOneOperation
<1>1. OperationsInvariant => KeyNamesOneOperation
  BY DEF OperationsInvariant
<1>2. QED
  BY <1>1, RecordsHold, PTL

(* A lock is stale exactly when its owner has ended (operations.ts finish  *)
(* and reconcileAtStartup), in every reachable state.                      *)
THEOREM LocksMatchOperations == Spec => []LocksFollowOperations
<1>1. OperationsInvariant => LocksFollowOperations
  BY DEF OperationsInvariant
<1>2. QED
  BY <1>1, RecordsHold, PTL

(* A pending point has a live operation, in every reachable state.         *)
THEOREM PendingPointsAreOwned == Spec => []PendingHasOwner
<1>1. OperationsInvariant => PendingHasOwner
  BY DEF OperationsInvariant
<1>2. QED
  BY <1>1, RecordsHold, PTL

(* No single call completes or resumes an operation whose process is gone. *)
LEMMA DeadStep ==
    ASSUME OperationsInvariant, [Next]_vars
    PROVE  DeadWorkStep
<1>1. CASE Boot
  BY <1>1, KindAssumption, NoneAssumption, EpochAssumption, ScopeAssumption DEF Boot, vars, processes, opRows, pointRows, lockRows, DeadWorkStep, OperationsInvariant, TypeOK, Live, LiveStates, TERMINAL_OPERATION_STATES, KnownEndings
<1>2. ASSUME NEW e \in alive,
             Crash(e)
       PROVE  DeadWorkStep
  BY <1>2, KindAssumption, NoneAssumption, EpochAssumption, ScopeAssumption DEF Crash, vars, processes, opRows, pointRows, lockRows, DeadWorkStep, OperationsInvariant, TypeOK, Live, LiveStates, TERMINAL_OPERATION_STATES, KnownEndings
<1>3. ASSUME NEW e \in alive,
             reconcileAtStartup(e)
       PROVE  DeadWorkStep
  BY <1>3, KindAssumption, NoneAssumption, EpochAssumption, ScopeAssumption DEF reconcileAtStartup, vars, processes, opRows, pointRows, lockRows, DeadWorkStep, OperationsInvariant, TypeOK, Live, LiveStates, TERMINAL_OPERATION_STATES, KnownEndings
<1>4. ASSUME NEW e \in alive, NEW o \in Ops, NEW k \in Keys, NEW r \in Requests,
             start(e, o, k, r)
       PROVE  DeadWorkStep
  BY <1>4, KindAssumption, NoneAssumption, EpochAssumption, ScopeAssumption DEF start, NewRow, vars, processes, opRows, pointRows, lockRows, DeadWorkStep, OperationsInvariant, TypeOK, Live, LiveStates, TERMINAL_OPERATION_STATES, KnownEndings
<1>5. ASSUME NEW e \in alive, NEW o \in Ops, NEW k \in Keys, NEW r \in Requests, NEW locks \in SUBSET Resources,
             admit(e, o, k, r, locks)
       PROVE  DeadWorkStep
  BY SMTT(30), <1>5, KindAssumption, NoneAssumption, EpochAssumption, ScopeAssumption DEF admit, NewRow, vars, processes, opRows, pointRows, lockRows, DeadWorkStep, OperationsInvariant, TypeOK, Live, LiveStates, TERMINAL_OPERATION_STATES, KnownEndings
<1>6. ASSUME NEW e \in alive, NEW o \in Ops,
             markRunning(e, o)
       PROVE  DeadWorkStep
  BY <1>6, KindAssumption, NoneAssumption, EpochAssumption, ScopeAssumption DEF markRunning, vars, processes, opRows, pointRows, lockRows, DeadWorkStep, OperationsInvariant, TypeOK, Live, LiveStates, TERMINAL_OPERATION_STATES, KnownEndings
<1>7. ASSUME NEW e \in alive, NEW o \in Ops, NEW l \in Resources,
             acquireLock(e, l, o)
       PROVE  DeadWorkStep
  BY SMTT(30), <1>7, KindAssumption, NoneAssumption, EpochAssumption, ScopeAssumption DEF acquireLock, vars, processes, opRows, pointRows, lockRows, DeadWorkStep, OperationsInvariant, TypeOK, Live, LiveStates, TERMINAL_OPERATION_STATES, KnownEndings
<1>8. ASSUME NEW e \in alive, NEW o \in Ops, NEW ending \in TERMINAL_OPERATION_STATES,
             finish(e, o, ending)
       PROVE  DeadWorkStep
  BY SMTT(30), <1>8, KindAssumption, NoneAssumption, EpochAssumption, ScopeAssumption DEF finish, SettledPoint, LocksOf, PendingOf, vars, processes, opRows, pointRows, lockRows, DeadWorkStep, OperationsInvariant, TypeOK, Live, LiveStates, TERMINAL_OPERATION_STATES, KnownEndings
<1>9. ASSUME NEW e \in alive, NEW o \in Ops, NEW ending \in KnownEndings,
             settleReconciled(o, ending)
       PROVE  DeadWorkStep
  BY SMTT(30), <1>9, KindAssumption, NoneAssumption, EpochAssumption, ScopeAssumption DEF settleReconciled, Release, LocksOf, vars, processes, opRows, pointRows, lockRows, DeadWorkStep, OperationsInvariant, TypeOK, Live, LiveStates, TERMINAL_OPERATION_STATES, KnownEndings
<1>10. ASSUME NEW e \in alive, NEW l \in Resources,
             releaseStaleLock(l)
       PROVE  DeadWorkStep
  BY SMTT(30), <1>10, KindAssumption, NoneAssumption, EpochAssumption, ScopeAssumption DEF releaseStaleLock, Release, vars, processes, opRows, pointRows, lockRows, DeadWorkStep, OperationsInvariant, TypeOK, Live, LiveStates, TERMINAL_OPERATION_STATES, KnownEndings
<1>11. ASSUME NEW e \in alive, NEW a \in Repositories \cup {None},
             releaseInterruptedRepositoryLocks(a)
       PROVE  DeadWorkStep
  BY SMTT(30), <1>11, KindAssumption, NoneAssumption, EpochAssumption, ScopeAssumption DEF releaseInterruptedRepositoryLocks, Release, vars, processes, opRows, pointRows, lockRows, DeadWorkStep, OperationsInvariant, TypeOK, Live, LiveStates, TERMINAL_OPERATION_STATES, KnownEndings
<1>12. ASSUME NEW e \in alive, NEW p \in Points, NEW o \in Ops,
             begin(e, p, o)
       PROVE  DeadWorkStep
  BY <1>12, KindAssumption, NoneAssumption, EpochAssumption, ScopeAssumption DEF begin, vars, processes, opRows, pointRows, lockRows, DeadWorkStep, OperationsInvariant, TypeOK, Live, LiveStates, TERMINAL_OPERATION_STATES, KnownEndings
<1>13. ASSUME NEW e \in alive, NEW p \in Points, NEW final \in PointStatus \ {"none", "pending"},
             finalize(p, final)
       PROVE  DeadWorkStep
  BY <1>13, KindAssumption, NoneAssumption, EpochAssumption, ScopeAssumption DEF finalize, vars, processes, opRows, pointRows, lockRows, DeadWorkStep, OperationsInvariant, TypeOK, Live, LiveStates, TERMINAL_OPERATION_STATES, KnownEndings
<1>14. CASE UNCHANGED vars
  BY <1>14, KindAssumption, NoneAssumption, EpochAssumption, ScopeAssumption DEF vars, processes, opRows, pointRows, lockRows, DeadWorkStep, OperationsInvariant, TypeOK, Live, LiveStates, TERMINAL_OPERATION_STATES, KnownEndings
<1>99. QED
  BY <1>1, <1>2, <1>3, <1>4, <1>5, <1>6, <1>7, <1>8, <1>9, <1>10, <1>11, <1>12, <1>13, <1>14 DEF Next, OperationCall, LockCall, PointCall

(* No single call takes a lock from an operation that stays live.          *)
LEMMA KeepStep ==
    ASSUME OperationsInvariant, [Next]_vars
    PROVE  KeepsLocksStep
<1>1. CASE Boot
  BY <1>1, KindAssumption, NoneAssumption, EpochAssumption, ScopeAssumption DEF Boot, vars, processes, opRows, pointRows, lockRows, KeepsLocksStep, OperationsInvariant, TypeOK, LocksFollowOperations, isTerminal, Live, LiveStates, TERMINAL_OPERATION_STATES, KnownEndings
<1>2. ASSUME NEW e \in alive,
             Crash(e)
       PROVE  KeepsLocksStep
  BY <1>2, KindAssumption, NoneAssumption, EpochAssumption, ScopeAssumption DEF Crash, vars, processes, opRows, pointRows, lockRows, KeepsLocksStep, OperationsInvariant, TypeOK, LocksFollowOperations, isTerminal, Live, LiveStates, TERMINAL_OPERATION_STATES, KnownEndings
<1>3. ASSUME NEW e \in alive,
             reconcileAtStartup(e)
       PROVE  KeepsLocksStep
  BY <1>3, KindAssumption, NoneAssumption, EpochAssumption, ScopeAssumption DEF reconcileAtStartup, vars, processes, opRows, pointRows, lockRows, KeepsLocksStep, OperationsInvariant, TypeOK, LocksFollowOperations, isTerminal, Live, LiveStates, TERMINAL_OPERATION_STATES, KnownEndings
<1>4. ASSUME NEW e \in alive, NEW o \in Ops, NEW k \in Keys, NEW r \in Requests,
             start(e, o, k, r)
       PROVE  KeepsLocksStep
  BY <1>4, KindAssumption, NoneAssumption, EpochAssumption, ScopeAssumption DEF start, NewRow, vars, processes, opRows, pointRows, lockRows, KeepsLocksStep, OperationsInvariant, TypeOK, LocksFollowOperations, isTerminal, Live, LiveStates, TERMINAL_OPERATION_STATES, KnownEndings
<1>5. ASSUME NEW e \in alive, NEW o \in Ops, NEW k \in Keys, NEW r \in Requests, NEW locks \in SUBSET Resources,
             admit(e, o, k, r, locks)
       PROVE  KeepsLocksStep
  BY SMTT(30), <1>5, KindAssumption, NoneAssumption, EpochAssumption, ScopeAssumption DEF admit, NewRow, vars, processes, opRows, pointRows, lockRows, KeepsLocksStep, OperationsInvariant, TypeOK, LocksFollowOperations, isTerminal, Live, LiveStates, TERMINAL_OPERATION_STATES, KnownEndings
<1>6. ASSUME NEW e \in alive, NEW o \in Ops,
             markRunning(e, o)
       PROVE  KeepsLocksStep
  BY <1>6, KindAssumption, NoneAssumption, EpochAssumption, ScopeAssumption DEF markRunning, vars, processes, opRows, pointRows, lockRows, KeepsLocksStep, OperationsInvariant, TypeOK, LocksFollowOperations, isTerminal, Live, LiveStates, TERMINAL_OPERATION_STATES, KnownEndings
<1>7. ASSUME NEW e \in alive, NEW o \in Ops, NEW l \in Resources,
             acquireLock(e, l, o)
       PROVE  KeepsLocksStep
  BY SMTT(30), <1>7, KindAssumption, NoneAssumption, EpochAssumption, ScopeAssumption DEF acquireLock, vars, processes, opRows, pointRows, lockRows, KeepsLocksStep, OperationsInvariant, TypeOK, LocksFollowOperations, isTerminal, Live, LiveStates, TERMINAL_OPERATION_STATES, KnownEndings
<1>8. ASSUME NEW e \in alive, NEW o \in Ops, NEW ending \in TERMINAL_OPERATION_STATES,
             finish(e, o, ending)
       PROVE  KeepsLocksStep
  BY SMTT(30), <1>8, KindAssumption, NoneAssumption, EpochAssumption, ScopeAssumption DEF finish, SettledPoint, LocksOf, PendingOf, vars, processes, opRows, pointRows, lockRows, KeepsLocksStep, OperationsInvariant, TypeOK, LocksFollowOperations, isTerminal, Live, LiveStates, TERMINAL_OPERATION_STATES, KnownEndings
<1>9. ASSUME NEW e \in alive, NEW o \in Ops, NEW ending \in KnownEndings,
             settleReconciled(o, ending)
       PROVE  KeepsLocksStep
  BY <1>9, KindAssumption, NoneAssumption, EpochAssumption, ScopeAssumption DEF settleReconciled, Release, LocksOf, vars, processes, opRows, pointRows, lockRows, KeepsLocksStep, OperationsInvariant, TypeOK, LocksFollowOperations, isTerminal, Live, LiveStates, TERMINAL_OPERATION_STATES, KnownEndings
<1>10. ASSUME NEW e \in alive, NEW l \in Resources,
             releaseStaleLock(l)
       PROVE  KeepsLocksStep
  BY <1>10, KindAssumption, NoneAssumption, EpochAssumption, ScopeAssumption DEF releaseStaleLock, Release, vars, processes, opRows, pointRows, lockRows, KeepsLocksStep, OperationsInvariant, TypeOK, LocksFollowOperations, isTerminal, Live, LiveStates, TERMINAL_OPERATION_STATES, KnownEndings
<1>11. ASSUME NEW e \in alive, NEW a \in Repositories \cup {None},
             releaseInterruptedRepositoryLocks(a)
       PROVE  KeepsLocksStep
  BY <1>11, KindAssumption, NoneAssumption, EpochAssumption, ScopeAssumption DEF releaseInterruptedRepositoryLocks, Release, vars, processes, opRows, pointRows, lockRows, KeepsLocksStep, OperationsInvariant, TypeOK, LocksFollowOperations, isTerminal, Live, LiveStates, TERMINAL_OPERATION_STATES, KnownEndings
<1>12. ASSUME NEW e \in alive, NEW p \in Points, NEW o \in Ops,
             begin(e, p, o)
       PROVE  KeepsLocksStep
  BY <1>12, KindAssumption, NoneAssumption, EpochAssumption, ScopeAssumption DEF begin, vars, processes, opRows, pointRows, lockRows, KeepsLocksStep, OperationsInvariant, TypeOK, LocksFollowOperations, isTerminal, Live, LiveStates, TERMINAL_OPERATION_STATES, KnownEndings
<1>13. ASSUME NEW e \in alive, NEW p \in Points, NEW final \in PointStatus \ {"none", "pending"},
             finalize(p, final)
       PROVE  KeepsLocksStep
  BY <1>13, KindAssumption, NoneAssumption, EpochAssumption, ScopeAssumption DEF finalize, vars, processes, opRows, pointRows, lockRows, KeepsLocksStep, OperationsInvariant, TypeOK, LocksFollowOperations, isTerminal, Live, LiveStates, TERMINAL_OPERATION_STATES, KnownEndings
<1>14. CASE UNCHANGED vars
  BY <1>14, KindAssumption, NoneAssumption, EpochAssumption, ScopeAssumption DEF vars, processes, opRows, pointRows, lockRows, KeepsLocksStep, OperationsInvariant, TypeOK, LocksFollowOperations, isTerminal, Live, LiveStates, TERMINAL_OPERATION_STATES, KnownEndings
<1>99. QED
  BY <1>1, <1>2, <1>3, <1>4, <1>5, <1>6, <1>7, <1>8, <1>9, <1>10, <1>11, <1>12, <1>13, <1>14 DEF Next, OperationCall, LockCall, PointCall

(* No single call rewrites an ending or a final point.                     *)
LEMMA EndingStep ==
    ASSUME OperationsInvariant, [Next]_vars
    PROVE  EndingsStep
<1>1. CASE Boot
  BY <1>1, KindAssumption, NoneAssumption, EpochAssumption, ScopeAssumption DEF Boot, vars, processes, opRows, pointRows, lockRows, EndingsStep, OperationsInvariant, TypeOK, PointStatus, isTerminal, Live, LiveStates, TERMINAL_OPERATION_STATES, KnownEndings
<1>2. ASSUME NEW e \in alive,
             Crash(e)
       PROVE  EndingsStep
  BY <1>2, KindAssumption, NoneAssumption, EpochAssumption, ScopeAssumption DEF Crash, vars, processes, opRows, pointRows, lockRows, EndingsStep, OperationsInvariant, TypeOK, PointStatus, isTerminal, Live, LiveStates, TERMINAL_OPERATION_STATES, KnownEndings
<1>3. ASSUME NEW e \in alive,
             reconcileAtStartup(e)
       PROVE  EndingsStep
  BY <1>3, KindAssumption, NoneAssumption, EpochAssumption, ScopeAssumption DEF reconcileAtStartup, vars, processes, opRows, pointRows, lockRows, EndingsStep, OperationsInvariant, TypeOK, PointStatus, isTerminal, Live, LiveStates, TERMINAL_OPERATION_STATES, KnownEndings
<1>4. ASSUME NEW e \in alive, NEW o \in Ops, NEW k \in Keys, NEW r \in Requests,
             start(e, o, k, r)
       PROVE  EndingsStep
  BY <1>4, KindAssumption, NoneAssumption, EpochAssumption, ScopeAssumption DEF start, NewRow, vars, processes, opRows, pointRows, lockRows, EndingsStep, OperationsInvariant, TypeOK, PointStatus, isTerminal, Live, LiveStates, TERMINAL_OPERATION_STATES, KnownEndings
<1>5. ASSUME NEW e \in alive, NEW o \in Ops, NEW k \in Keys, NEW r \in Requests, NEW locks \in SUBSET Resources,
             admit(e, o, k, r, locks)
       PROVE  EndingsStep
  BY SMTT(30), <1>5, KindAssumption, NoneAssumption, EpochAssumption, ScopeAssumption DEF admit, NewRow, vars, processes, opRows, pointRows, lockRows, EndingsStep, OperationsInvariant, TypeOK, PointStatus, isTerminal, Live, LiveStates, TERMINAL_OPERATION_STATES, KnownEndings
<1>6. ASSUME NEW e \in alive, NEW o \in Ops,
             markRunning(e, o)
       PROVE  EndingsStep
  BY <1>6, KindAssumption, NoneAssumption, EpochAssumption, ScopeAssumption DEF markRunning, vars, processes, opRows, pointRows, lockRows, EndingsStep, OperationsInvariant, TypeOK, PointStatus, isTerminal, Live, LiveStates, TERMINAL_OPERATION_STATES, KnownEndings
<1>7. ASSUME NEW e \in alive, NEW o \in Ops, NEW l \in Resources,
             acquireLock(e, l, o)
       PROVE  EndingsStep
  BY <1>7, KindAssumption, NoneAssumption, EpochAssumption, ScopeAssumption DEF acquireLock, vars, processes, opRows, pointRows, lockRows, EndingsStep, OperationsInvariant, TypeOK, PointStatus, isTerminal, Live, LiveStates, TERMINAL_OPERATION_STATES, KnownEndings
<1>8. ASSUME NEW e \in alive, NEW o \in Ops, NEW ending \in TERMINAL_OPERATION_STATES,
             finish(e, o, ending)
       PROVE  EndingsStep
  BY <1>8, KindAssumption, NoneAssumption, EpochAssumption, ScopeAssumption DEF finish, SettledPoint, LocksOf, PendingOf, vars, processes, opRows, pointRows, lockRows, EndingsStep, OperationsInvariant, TypeOK, PointStatus, isTerminal, Live, LiveStates, TERMINAL_OPERATION_STATES, KnownEndings
<1>9. ASSUME NEW e \in alive, NEW o \in Ops, NEW ending \in KnownEndings,
             settleReconciled(o, ending)
       PROVE  EndingsStep
  BY <1>9, KindAssumption, NoneAssumption, EpochAssumption, ScopeAssumption DEF settleReconciled, Release, LocksOf, vars, processes, opRows, pointRows, lockRows, EndingsStep, OperationsInvariant, TypeOK, PointStatus, isTerminal, Live, LiveStates, TERMINAL_OPERATION_STATES, KnownEndings
<1>10. ASSUME NEW e \in alive, NEW l \in Resources,
             releaseStaleLock(l)
       PROVE  EndingsStep
  BY <1>10, KindAssumption, NoneAssumption, EpochAssumption, ScopeAssumption DEF releaseStaleLock, Release, vars, processes, opRows, pointRows, lockRows, EndingsStep, OperationsInvariant, TypeOK, PointStatus, isTerminal, Live, LiveStates, TERMINAL_OPERATION_STATES, KnownEndings
<1>11. ASSUME NEW e \in alive, NEW a \in Repositories \cup {None},
             releaseInterruptedRepositoryLocks(a)
       PROVE  EndingsStep
  BY <1>11, KindAssumption, NoneAssumption, EpochAssumption, ScopeAssumption DEF releaseInterruptedRepositoryLocks, Release, vars, processes, opRows, pointRows, lockRows, EndingsStep, OperationsInvariant, TypeOK, PointStatus, isTerminal, Live, LiveStates, TERMINAL_OPERATION_STATES, KnownEndings
<1>12. ASSUME NEW e \in alive, NEW p \in Points, NEW o \in Ops,
             begin(e, p, o)
       PROVE  EndingsStep
  BY <1>12, KindAssumption, NoneAssumption, EpochAssumption, ScopeAssumption DEF begin, vars, processes, opRows, pointRows, lockRows, EndingsStep, OperationsInvariant, TypeOK, PointStatus, isTerminal, Live, LiveStates, TERMINAL_OPERATION_STATES, KnownEndings
<1>13. ASSUME NEW e \in alive, NEW p \in Points, NEW final \in PointStatus \ {"none", "pending"},
             finalize(p, final)
       PROVE  EndingsStep
  BY <1>13, KindAssumption, NoneAssumption, EpochAssumption, ScopeAssumption DEF finalize, vars, processes, opRows, pointRows, lockRows, EndingsStep, OperationsInvariant, TypeOK, PointStatus, isTerminal, Live, LiveStates, TERMINAL_OPERATION_STATES, KnownEndings
<1>14. CASE UNCHANGED vars
  BY <1>14, KindAssumption, NoneAssumption, EpochAssumption, ScopeAssumption DEF vars, processes, opRows, pointRows, lockRows, EndingsStep, OperationsInvariant, TypeOK, PointStatus, isTerminal, Live, LiveStates, TERMINAL_OPERATION_STATES, KnownEndings
<1>99. QED
  BY <1>1, <1>2, <1>3, <1>4, <1>5, <1>6, <1>7, <1>8, <1>9, <1>10, <1>11, <1>12, <1>13, <1>14 DEF Next, OperationCall, LockCall, PointCall

(* No single call opens the storage of an interrupted restore, but a proof *)
(* of its ending or a review of its lock.                                  *)
LEMMA ClosedStep ==
    ASSUME OperationsInvariant, [Next]_vars
    PROVE  StaysClosedStep
<1>1. CASE Boot
  BY <1>1, KindAssumption, NoneAssumption, EpochAssumption, ScopeAssumption DEF Boot, vars, processes, opRows, pointRows, lockRows, StaysClosedStep, OperationsInvariant, TypeOK, LocksFollowOperations, isTerminal, Live, Resources, LiveStates, TERMINAL_OPERATION_STATES, KnownEndings
<1>2. ASSUME NEW e \in alive,
             Crash(e)
       PROVE  StaysClosedStep
  BY <1>2, KindAssumption, NoneAssumption, EpochAssumption, ScopeAssumption DEF Crash, vars, processes, opRows, pointRows, lockRows, StaysClosedStep, OperationsInvariant, TypeOK, LocksFollowOperations, isTerminal, Live, Resources, LiveStates, TERMINAL_OPERATION_STATES, KnownEndings
<1>3. ASSUME NEW e \in alive,
             reconcileAtStartup(e)
       PROVE  StaysClosedStep
  BY <1>3, KindAssumption, NoneAssumption, EpochAssumption, ScopeAssumption DEF reconcileAtStartup, vars, processes, opRows, pointRows, lockRows, StaysClosedStep, OperationsInvariant, TypeOK, LocksFollowOperations, isTerminal, Live, Resources, LiveStates, TERMINAL_OPERATION_STATES, KnownEndings
<1>4. ASSUME NEW e \in alive, NEW o \in Ops, NEW k \in Keys, NEW r \in Requests,
             start(e, o, k, r)
       PROVE  StaysClosedStep
  BY <1>4, KindAssumption, NoneAssumption, EpochAssumption, ScopeAssumption DEF start, NewRow, vars, processes, opRows, pointRows, lockRows, StaysClosedStep, OperationsInvariant, TypeOK, LocksFollowOperations, isTerminal, Live, Resources, LiveStates, TERMINAL_OPERATION_STATES, KnownEndings
<1>5. ASSUME NEW e \in alive, NEW o \in Ops, NEW k \in Keys, NEW r \in Requests, NEW locks \in SUBSET Resources,
             admit(e, o, k, r, locks)
       PROVE  StaysClosedStep
  BY <1>5, KindAssumption, NoneAssumption, EpochAssumption, ScopeAssumption DEF admit, NewRow, vars, processes, opRows, pointRows, lockRows, StaysClosedStep, OperationsInvariant, TypeOK, LocksFollowOperations, isTerminal, Live, Resources, LiveStates, TERMINAL_OPERATION_STATES, KnownEndings
<1>6. ASSUME NEW e \in alive, NEW o \in Ops,
             markRunning(e, o)
       PROVE  StaysClosedStep
  BY <1>6, KindAssumption, NoneAssumption, EpochAssumption, ScopeAssumption DEF markRunning, vars, processes, opRows, pointRows, lockRows, StaysClosedStep, OperationsInvariant, TypeOK, LocksFollowOperations, isTerminal, Live, Resources, LiveStates, TERMINAL_OPERATION_STATES, KnownEndings
<1>7. ASSUME NEW e \in alive, NEW o \in Ops, NEW l \in Resources,
             acquireLock(e, l, o)
       PROVE  StaysClosedStep
  BY <1>7, KindAssumption, NoneAssumption, EpochAssumption, ScopeAssumption DEF acquireLock, vars, processes, opRows, pointRows, lockRows, StaysClosedStep, OperationsInvariant, TypeOK, LocksFollowOperations, isTerminal, Live, Resources, LiveStates, TERMINAL_OPERATION_STATES, KnownEndings
<1>8. ASSUME NEW e \in alive, NEW o \in Ops, NEW ending \in TERMINAL_OPERATION_STATES,
             finish(e, o, ending)
       PROVE  StaysClosedStep
  BY SMTT(30), <1>8, KindAssumption, NoneAssumption, EpochAssumption, ScopeAssumption DEF finish, SettledPoint, LocksOf, PendingOf, vars, processes, opRows, pointRows, lockRows, StaysClosedStep, OperationsInvariant, TypeOK, LocksFollowOperations, isTerminal, Live, Resources, LiveStates, TERMINAL_OPERATION_STATES, KnownEndings
<1>9. ASSUME NEW e \in alive, NEW o \in Ops, NEW ending \in KnownEndings,
             settleReconciled(o, ending)
       PROVE  StaysClosedStep
  BY SMTT(30), <1>9, KindAssumption, NoneAssumption, EpochAssumption, ScopeAssumption DEF settleReconciled, Release, LocksOf, vars, processes, opRows, pointRows, lockRows, StaysClosedStep, OperationsInvariant, TypeOK, LocksFollowOperations, isTerminal, Live, Resources, LiveStates, TERMINAL_OPERATION_STATES, KnownEndings
<1>10. ASSUME NEW e \in alive, NEW l \in Resources,
             releaseStaleLock(l)
       PROVE  StaysClosedStep
  BY SMTT(30), <1>10, KindAssumption, NoneAssumption, EpochAssumption, ScopeAssumption DEF releaseStaleLock, Release, vars, processes, opRows, pointRows, lockRows, StaysClosedStep, OperationsInvariant, TypeOK, LocksFollowOperations, isTerminal, Live, Resources, LiveStates, TERMINAL_OPERATION_STATES, KnownEndings
<1>11. ASSUME NEW e \in alive, NEW a \in Repositories \cup {None},
             releaseInterruptedRepositoryLocks(a)
       PROVE  StaysClosedStep
  BY <1>11, KindAssumption, NoneAssumption, EpochAssumption, ScopeAssumption DEF releaseInterruptedRepositoryLocks, Release, vars, processes, opRows, pointRows, lockRows, StaysClosedStep, OperationsInvariant, TypeOK, LocksFollowOperations, isTerminal, Live, Resources, LiveStates, TERMINAL_OPERATION_STATES, KnownEndings
<1>12. ASSUME NEW e \in alive, NEW p \in Points, NEW o \in Ops,
             begin(e, p, o)
       PROVE  StaysClosedStep
  BY <1>12, KindAssumption, NoneAssumption, EpochAssumption, ScopeAssumption DEF begin, vars, processes, opRows, pointRows, lockRows, StaysClosedStep, OperationsInvariant, TypeOK, LocksFollowOperations, isTerminal, Live, Resources, LiveStates, TERMINAL_OPERATION_STATES, KnownEndings
<1>13. ASSUME NEW e \in alive, NEW p \in Points, NEW final \in PointStatus \ {"none", "pending"},
             finalize(p, final)
       PROVE  StaysClosedStep
  BY <1>13, KindAssumption, NoneAssumption, EpochAssumption, ScopeAssumption DEF finalize, vars, processes, opRows, pointRows, lockRows, StaysClosedStep, OperationsInvariant, TypeOK, LocksFollowOperations, isTerminal, Live, Resources, LiveStates, TERMINAL_OPERATION_STATES, KnownEndings
<1>14. CASE UNCHANGED vars
  BY <1>14, KindAssumption, NoneAssumption, EpochAssumption, ScopeAssumption DEF vars, processes, opRows, pointRows, lockRows, StaysClosedStep, OperationsInvariant, TypeOK, LocksFollowOperations, isTerminal, Live, Resources, LiveStates, TERMINAL_OPERATION_STATES, KnownEndings
<1>99. QED
  BY <1>1, <1>2, <1>3, <1>4, <1>5, <1>6, <1>7, <1>8, <1>9, <1>10, <1>11, <1>12, <1>13, <1>14 DEF Next, OperationCall, LockCall, PointCall

(* markRunning, finish and acquireLock all ask for the caller's own epoch: *)
(* what a dead process left is only ever parked.                           *)
THEOREM DeadWorkNeverResumes == Spec => DeadWorkStops
<1>1. OperationsInvariant /\ [Next]_vars => DeadWorkStep
  BY DeadStep
<1>2. QED
  BY <1>1, RecordsHold, PTL DEF Spec, DeadWorkStops

(* Two live operations never work on one storage or repository: a lock is  *)
(* lost only by ending.                                                    *)
THEOREM LocksLastAsLongAsWork == Spec => LiveKeepsLocks
<1>1. OperationsInvariant /\ [Next]_vars => KeepsLocksStep
  BY KeepStep
<1>2. QED
  BY <1>1, RecordsHold, PTL DEF Spec, LiveKeepsLocks

(* finish, finalize and reconcileAtStartup write an ending once, whichever  *)
(* of them commits first.                                                  *)
THEOREM EndingsAreFinal == Spec => EndingsStand
<1>1. OperationsInvariant /\ [Next]_vars => EndingsStep
  BY EndingStep
<1>2. QED
  BY <1>1, RecordsHold, PTL DEF Spec, EndingsStand

(* releaseInterruptedRepositoryLocks, finish and settleReconciled never    *)
(* open the storage an interrupted restore left half written.              *)
THEOREM InterruptedStorageStaysClosed == Spec => StorageStaysClosed
<1>1. OperationsInvariant /\ [Next]_vars => StaysClosedStep
  BY ClosedStep
<1>2. QED
  BY <1>1, RecordsHold, PTL DEF Spec, StorageStaysClosed

=============================================================================
