# A TLA+ model of Sencho

Sencho is a self-hosted control plane for Docker Compose: a Node.js backend with
a SQLite database, a React frontend, remote nodes reached over tunnels, and a
small Go helper that runs in a container to move the contents of volumes. This
directory models seven parts of it whose failures are hard to reach with a test:

* the **restore of a recovery point over a live volume**, from the renames of the
  Go helper, through the records in the database, to the operator's decision
  after a crash;
* the **health gates** that judge an update, and the **rollout** of a GitOps
  application that acts on their verdicts;
* a **TCP stream** through the mesh's tunnels;
* the **cache** that the rest of the backend reads through.

It model-checks each on small instances. For the restore, the health gates and
the cache it also proves the safety properties for instances of every size.

PROJECT.json lists the components, runs, findings, hazards and theorems, and
maps every definition to the lines it models.

## The system and its parts

| Part | Where (`backend/src/` unless said) | Modules |
|---|---|---|
| Swap helper | `docker/recovery-helper/probe/swap.go` | `VolumeSwap`, `SwapContract`, `SwapService`, `VolumeSwapRefinement` |
| Operations, points, locks | `services/recovery/operations.ts`, `recoveryPoints.ts` | `RecoveryOperations` |
| Overwrite restore, boot, resolve, fence, intents, stack lock | `services/recovery/overwriteRestore.ts`, `operationRunner.ts`, `restoreFence.ts`, `restoreIntents.ts`, `services/StackOpLockService.ts` | `OverwriteRestore` |
| Health gates, Auto-Heal suppression, service updates | `services/HealthGateService.ts`, `AutoHealService.ts`, `StackUpdateOrchestrator.ts` | `HealthGate` |
| GitOps rollout | `services/gitops/handoff.ts`, `transitions.ts`, `healthRolloutExecutor.ts`, `healthPolicy.ts` | `HealthRollout` |
| Mesh and pilot streams | `mesh/tcpStreamSwitchboard.ts`, `services/PilotTunnelBridge.ts`, `services/MeshService.ts`, `MeshProxyTunnelDialer.ts` | `MeshStream` |
| Cache | `services/CacheService.ts` | `Cache` |
| Everything else | listed in PROJECT.json with the reason | not modelled |

How the parts interact. A request to restore in place is *admitted* as an
operation holding the volume's storage lock, and an *intent* row is written. The
pipeline stages the point in a scratch volume, *fences* the workloads (pins each
container's restart policy, stops it, takes the stack lock), captures a
*pre-restore point*, restores into a work directory inside the volume and runs
the *swap helper*. Then it releases the fence and settles the intent and the
operation. The process can die anywhere. The next boot removes leftover helpers,
asks the swap's journal what happened, and rolls forward, rolls back or parks
the intent for an operator, who may `retry` or `release_fence`.

An update of a stack or of a service begins a *gate*, which polls the containers
for a window and records passed, failed or unknown. A GitOps application is
rolled out to its nodes one by one; under a gating health policy each node's
verdict decides whether the next is deployed, or the node is retried, held or
rolled back.

## Modules

**`VolumeSwap`**: the helper. State: three directories as functions from entry
names to who wrote the entry (`root`, `original`, `incoming`), the journal
`plan`, the root's ownership, and `pc`, the step the running command has
reached. Each file-system call of `prepare`, `commit`, `rollback`, `cleanup` is
an action; `computeStatus` is the code's. `Kill` ends the helper between any two
calls, `ForeignWrite` changes root entries from outside. A kill inside the
recursive removal leaves any part of the tree removed.

**`SwapContract`, `SwapService`, `VolumeSwapRefinement`**: what callers of the
helper may rely on. A work directory is in one of nine states; `Reach` gives the
states a command can leave, `Answers` what it may answer. `SwapService` is that
contract as a specification, and the refinement maps the helper's state to it.

**`RecoveryOperations`**: the durable tables. One action per store method, each
one SQLite transaction, under the most general caller: any living process may
call any method with any arguments. Processes crash, and a new one can start
while an old one still runs.

**`OverwriteRestore`**: the pipeline, the boot sequence and the resolve route,
written on `SwapContract`. One action is the code between two awaits (the
backend is single-threaded); a thread that waits for a helper has `helper[t]`
set. Any Docker, engine or helper call may fail, `Crash` is always possible
while the process is up, and a helper outlives the process as a *ghost*.
Containers start by a lifecycle operation, by their restart policy, by a start
already in flight, or (with `OutsideStarts`) past Sencho.

**`HealthGate`**: one stack. State: the containers as Docker would report them
(`box`), the runs (`gate`: the database row and, while it observes, the
`ActiveGate`), the holder of the stack's operation lock (`job`), the prepare
token, the pending part of a fleet label stop and Auto-Heal's suppression
counts. A poll is two actions, the read (`Poll`) and the judgement (`Judge`),
because the code awaits in between; everything else may happen there. `Cycle` is
the decision of `runPollCycle` and `runServicePollCycle`, branch by branch.

**`HealthRollout`**: one Blueprint application and its targets. State: the
application, target, rollout and run rows, what is in memory (armed runs, locks,
running dispatches and restores), what each node really runs, and `tick`, the
rest of the synchronous section that is running: each of its steps is one
transaction, and the process can die between any two.

**`MeshStream`**: one stream from a client's socket to a container's, over one
tunnel or relayed over two. State: the frames under way in both directions, the
entry at each end of each tunnel, the bytes each end holds back, and the two
sockets. A chunk of data is its number.

**`Cache`**: `getOrFetch` with its shared fetch, `set` with the entry cap,
invalidation by key and by namespace, and expiry. A value is the version of the
source it was read from.

**`MC...`** modules give TLC symmetry sets and request sets. **`...Proofs`**
modules hold the theorems.

## What the runs check

Sizes are distinct states; every run ends within three minutes.

| Run | Instance | Shows |
|---|---|---|
| `swap_safety` (136k) | 2 names, 2 kills, 1 outside write | before the commit marker no original is lost, except as in finding 1; the marker and `rolled_back` are proofs; every interruption resumes; nothing moves after the commit; a helper ends; the helper implements `SwapService` |
| `operations_safety` (607k) | 2 operations, 2 keys, 1 point, 1 storage, 1 repository, 2 processes | locks are stale exactly when their owner ended; pending points have an owner; endings are final; dead work is only parked; an interrupted storage stays closed |
| `overwrite_safety` (636k) | 1 container, 1 resolver | no workload on half-swapped data; settled intents and endings are true; one writer; the inductive invariant of the proofs |
| `overwrite_two_containers` (964k) | 2 containers, no resolver | nothing left pinned and nothing moves under a workload, where fence and release can stop half way |
| `overwrite_outside_starts` (171k) | 1 container, starts past Sencho | the safety copy is still clean; the operation ends unless a helper never exits (liveness) |
| `health_gate` (674k) | 2 services, 3 containers, 2 runs, 3 events | passes are earned, failures definite, ambiguity yields, announced operations are not blamed, suppressions are owned, verdicts stand |
| `rollout_safety` (1.46M) | 2 nodes, 2 generations, 2 rollouts, 3 runs, 1 crash, 1 operator request | nobody waits for a verdict nobody will write; a gated rollout is one target deep and in order; a held target is not deployed again; a rollback returns to what ran before |
| `rollout_progress` (81k) | 2 nodes, 3 generations, 7 runs, 1 crash | with automatic authorization a rollout ends with every target settled or fenced out, or held for an operator (liveness) |
| `mesh_stream` (113k) | 3 chunks up, 2 down, buffers of 2, all routes | bytes arrive once and in order; a response arrives before its close; the ends end together, but for a client that leaves while the tunnel is dialled; nothing stays paused or half open (partly liveness) |
| `cache` (267k) | 1 key read, 1 plain key, 3 callers, 3 versions, cap 1 | no caller is given a value older than the last invalidation before its call; one fetch per key; the cap holds |

`RestoreInvariant`, `SwapInvariant`, `OperationsInvariant`, `CacheInvariant` and
`GateInvariant` are the inductive invariants of the proofs, or join with the
other properties of their run to be so. `StreamInvariant` joins typing with
`NothingLost` and `NoOrphan`; `RolloutInvariant` joins it with `PendingIsWatched`
and `RetriedOnce`.

### Disagreements between the code and what it says of itself

Two are runs:

1. `swap_originals_survive`: a rollback killed in its last `os.RemoveAll`, then
   repeated, deletes an original entry that is also in the snapshot
   (`swap.go:742`; the header says any crash can be resumed).
2. `rollout_ack_names_what_runs`: a source acceptance during a deploy makes the
   acknowledgement record the newer generation for a node that runs the older one
   (`transitions.ts:3216`, against the comment at 3189).

The others have a configuration that is run by hand, `tlc -config X.cfg` with
the MC module of its part (`MeshStream` itself for the mesh):

| Configuration | What it shows | Where |
|---|---|---|
| `SwapCleanupRepeatable` | a clean-up killed after removing `plan.json` and before removing the directory cannot be repeated | `swap.go:204` |
| `OverwriteDataStill` | a crash during a fence release leaves the fence row `held`, and the next boot moves data under a running workload | `restoreFence.ts:385` |
| `OverwriteRestartsOnlyWhatRan` | a crash while the fence waits for starts in flight makes the release start a container the operator had stopped | `overwriteRestore.ts:979` |
| `OverwriteTwoResolves` | two resolve requests for one intent run two helpers on the volume | `operationRunner.ts:884` |
| `OverwriteHelperRemains` | when Docker refuses to remove a dead process's helper, boot releases containers and settles beside it | `operationRunner.ts:363` |
| `RolloutEveryTargetReverified` | a target acknowledged under an earlier rollout counts as settled although the later one did not verify it | `handoff.ts:711` against 697 |
| `RolloutPauseStops` | a pause during the probe of a remote target does not stop its deploy | `handoff.ts:1281` against 1222 |
| `RolloutWithdrawnStays` | a dispatch waiting for the registry mints a new authorization of a withdrawn rollout | `handoff.ts:551` against `transitions.ts:2986` |
| `MeshEarlyData` | bytes of a peer that sends before the ack can overtake each other | `tcpStreamSwitchboard.ts:292` against 82 |
| `MeshBridgeIdle` | the bridge announces an idle reverse stream with a frame the agent has no case for | `PilotTunnelBridge.ts:797` against 787 |
| `MeshEarlyOrphan` | a relay over its buffer limit forgets the stream it opened | `PilotTunnelBridge.ts:696` |

The passing properties are stated with these in view. `OriginalsKept` excepts
names a rollback died on (`torn`); `SettledIsTrue` and `EndingIsTrue` promise
nothing of a torn work directory; `NoWorkloadOnUnprovenData` and
`NothingMovesUnderWorkloads` hold until an operator uses `release_fence`;
`OneWriter` needs one resolver at a time and Docker to remove the dead helpers.
The rollout's `InOrder`, `HeldMeansHeld`, `OneTargetDeep` and `RollbackReturns`
are claimed of fleets whose nodes are all local (`LocalFleet`): with a remote
node the probe is awaited between the check of the queue and the reservation,
and all four can fail. `InOrder` of the mesh, upwards, and `NoOrphan` are claimed
of `openCrossNode`, which sends nothing before the ack; `NoHalfOpen` leaves out
the bridge's idle timer.

### Bounds and why they suffice

*Swap, operations.* Two entry names give each name every membership (volume,
snapshot, both, neither) beside a name in another one. Two kills are needed for
an interrupted recovery of an interrupted swap. Two processes are one that died,
or is late, and one that reconciles; two operations are a holder and a
contender.

*Overwrite.* There is no bound on crashes, boots, retries or releases: the state
space is finite. One container reaches every branch of the pipeline; two are
needed for a partial failure of the fence. Each behaviour has one restore of one
volume.

*Health gate.* Two services, one with two containers and one a one-shot, give a
gate siblings, strays and clean exits. Two runs are a gate and the one that
supersedes it or observes beside it. Three events are an update and two changes
under it. A poll may fail once (`MaxErrors` 1; the code allows three), a replica
count is 1 and a recreated container is at once healthy; the proofs drop these
bounds.

*Rollout.* Two nodes are the one being verified and the one that waits; the
second generation arrives while the first is rolled out. The initial states have
every policy on local nodes, a rollout that is authorized by hand, and one
setting with a remote node (the second, under `retry_once`).

*Mesh.* Three chunks are one held, one over the limit of two and one after; two
back are a response and what follows. One tunnel may die. An eager peer's stream
carries no reply.

*Cache.* Three callers are an owner, one who joins and one who comes after an
invalidation.

`CHECK_DEADLOCK FALSE` is used where the bounds end a behaviour: when every
process has crashed and no id is left (`operations_safety`), when the events are
used up and no gate observes (`health_gate`), when the generations and requests
are used up (the rollout's runs), and when the stream has ended (`mesh_stream`).

### Fairness

`VolumeSwap` has weak fairness of the helper's own steps: a running process
takes its next call. `OverwriteRestore` has weak fairness of the boot after a
crash (Sencho is a container with a restart policy) and of the pipeline wherever
it does not wait for a helper: the event loop runs and the Docker daemon answers.
Nothing is assumed of the helpers it waits for. The backup, restore, materialize
and swap profiles have no deadline (`helperRunner.ts:57`, "a capture or a restore
runs as long as it runs"), so `OperationEnds` says that the operation ends or the
pipeline waits for a helper for ever. `HealthRollout` has it of the running synchronous section
and of what the event loop will do by itself: awaits return, runs get their
verdict, the process restarts. `MeshStream` has it of the delivery of frames, of
the answers of `accept` and `connect`, of the dial of a proxy-mode tunnel (its
handshake times out after 15 seconds) and of `drain`; the idle timers are left
out, so nothing waits for them. Nothing is assumed of operators, of clients, of
the environment or of crashes.

## What is proved

TLAPS checks the theorems for every value of the constants. The assumptions are
the named `ASSUME`s (bounds are naturals, NULL is not an id, storages and
repositories are disjoint, every service has a container name, and so on), which
TLC evaluates in the runs.

| Module | About | Results |
|---|---|---|
| `VolumeSwapProofs` | any entries, kills, outside writes | `OriginalsKept`, `JournalGuardsOriginals`, `MarkerMeansRestored`, `RolledBackMeansOriginal`, `Resumable`, `CommitIsFinal` |
| `VolumeSwapRefinementProofs` | the same | the helper implements `SwapService` (`KeepsContract`), and the contract's states are true of the root |
| `RecoveryOperationsProofs` | any operations, keys, points, resources, processes | `LocksFollowOperations`, `PendingHasOwner`, `KeyNamesOneOperation`, `DeadWorkStops`, `LiveKeepsLocks`, `EndingsStand`, `StorageStaysClosed` |
| `OverwriteRestoreProofs` | any containers and resolve requests, starts past Sencho, helpers that Docker does not remove | `TypeOK`, `PinnedMeansFenced`, `SafetyCopyFirst` |
| `OverwriteTruthProofs` | any containers, one resolve request at a time, helpers that Docker removes | the lemmas on phases, threads and answers that the next module rests on |
| `OverwriteFenceProofs` | the same, and for the last three no starts past Sencho | `OneWriter`, `SettledIsTrue`, `EndingIsTrue`; `RestoreInvariant`, `NoWorkloadOnUnprovenData`, `NothingMovesUnderWorkloads` |
| `HealthGateProofs` | any services, containers, replica counts, one-shots, runs | `GateInvariant`, `PassIsEarned`, `FailIsDefinite`, `AmbiguityYields`, `ToldIsNotBlamed`, `MuteIsOwned`, `VerdictStands` |
| `CacheProofs` | any keys, callers, versions | `FreshReads`, `FreshStore`, `OneFetch`, `CapHolds` |

*Swap.* The safety properties are not inductive: that the originals are
somewhere does not say that the next rename leaves them so. `SwapInvariant` adds
`Whereabouts(n)`, which says for each place the helper can be at, and each
journal status, where the entry `n` is, and `Control`, which ties `pc`, the
journal and the directories to each other. The refinement is proved action by
action: each step of the helper maps to a step of the contract or to a stutter.

*Operations.* `OperationsInvariant` joins the three state properties with typing,
"a row exists exactly when a process wrote it" and "a stale mark sits on a lock".
The action properties follow from it.

*Overwrite restore.* The invariant is a stack of layers, each proved with the
ones below it as hypotheses, one step per action:

1. `TypeOK` and `TakeTurns`: who may be where. While the boot sequence works
   neither the pipeline nor a resolver does; a helper belongs to the thread that
   waits for it, and a ghost to no one.
2. `Unrecorded`, `Pins`, `Copies`: what the rows say of containers and copies.
   A container is pinned only under a live fence; the data is replaced only
   after a complete point of it, taken while nothing ran. These give
   `PinnedMeansFenced` and `SafetyCopyFirst` with no further assumption: any
   number of resolvers, containers started past Sencho, and removals that fail.
3. `Phased`, `Alone`, `Truth`, `FenceReports`, `Endings`: what the phase of the
   intent says of the work directory, of the one thread that may touch it, of
   the fence and of the operation. They need `OneAtATime` (at most one resolver,
   and Docker removes dead helpers), without which two of the disagreements above
   refute them. They give `OneWriter`, `SettledIsTrue`, `EndingIsTrue`.
4. `Fenced`: no workload runs while the data is between its two versions. It
   also needs `~OutsideStarts`. It gives `NoWorkloadOnUnprovenData` and the action
   property `NothingMovesUnderWorkloads`.

*Health gate.* A verdict is a function of one reading and of what the gate has
kept from earlier ones, so the proof has two halves. The first is about one
cycle: `Judging` says what a gate about to be judged looks like, `Sound` what it
may look like afterwards (it goes on, or its verdict is one it can answer for),
and `StackVerdict` and `ServiceVerdict` take the branches of the two cycles one
by one. The second is the inductive invariant `Inv`: `RunOK` for every run,
`Prepared` for the update under way, `StackGateAlone`, the cap and `MuteIsOwned`.
Counting the suppressions needs the finiteness of the set of runs and that a step
which ends the gates `done` releases exactly their claims.

*Cache.* `CacheInvariant` says what a fetch under way may still do: one whose
generation is current read its source after the key's last invalidation.

Only model-checked: liveness (`HelperEnds`, `OperationEnds`, `RolloutEnds`,
`EndsTogether`, `PausedResumes`), which needs fairness and ENABLED;
`HealthRollout`, whose invariant would have to follow every synchronous section
step by step; and `MeshStream`, whose properties are about which chunks a
sequence of frames carries, a selection over a sequence that the prover cannot
reason about by induction.

## Abstractions

- The device and inode check of the volume root, a journal that cannot be read
  or that an older helper wrote (without the original root's metadata), the
  root's mtime and the order of fsyncs under power loss are not modelled: a
  rename that returned is durable.
- In `OverwriteRestore` a whole helper run is one step of the contract. What a
  killed run leaves is any state `Reach` allows. The status re-read of a closing
  step is folded into its answer. The set of containers is fixed; a change of the
  set is a recheck that fails. Giving one container back (policy, start, mark) is
  one step; `ReleaseMemberFails` covers a part of it. A helper its own living
  process failed to remove is not modelled. Compose child processes orphaned by a
  crash are not modelled; a start they had sent may land at the crash. Failure
  classes that no branch tells apart are one class, `other`. The helper image is
  pinned: a boot configured without one skips the removal of helpers
  (`operationRunner.ts:351`), which is `OverwriteHelperRemains`.
- In `RecoveryOperations` a point is begun by a process for an operation it
  recorded, as both callers do; the store would accept any id
  (`recoveryPoints.ts:223`).
- In `HealthGate` time is the age of a gate at a judgement: before the grace,
  past it, past the window. The declared intent is loaded or unreadable. The
  fleet label stop takes no stack lock, so a gate begun after its announcement is
  not told; a service update is not announced to sibling gates; both are the
  code's. Left out: the startup sweep of runs a crash left observing, token
  expiry, notifications. That a gate ends is not claimed. (The reads a poll
  awaits are bounded: `renderConfig` kills Compose after 20 seconds,
  `ComposeService.ts:3475`, and a remote read gives up after 10,
  `stackHealthFacts.ts:73`.)
- `HealthRollout` leaves out the pause of a single target, removed nodes, a
  suspended source, source confirmation holds, edits of intent, placement and
  policy during a rollout, the manual rollback route, the pruning of run rows, a
  deploy that lands after a reboot, and the classes of recovery claims.
- `MeshStream`: a full send buffer and the stream cap are choices. A client that
  half-closes is one that closes, as in the code. Idle timers fire on a quiet
  stream only. `Dial` is atomic where a tunnel is there: the code then awaits
  nothing but microtasks. Where central has to dial one (`EnsureBridge`,
  `BridgeReady`) the client's socket has no listener until the dial returned. A
  client that closes meanwhile without having sent anything is not noticed
  (`SrcLeaves`); a reset in that window, an `error` event without a listener, is
  not modelled.
- `Cache` leaves out `flush`, which only tests call, and a fetcher that throws
  synchronously.

## Extent

The map covers about 7,400 lines, comments included: 71% of `swap.go`, about
half of `overwriteRestore.ts`, `handoff.ts`, `healthRolloutExecutor.ts`,
`HealthGateService.ts`, `operations.ts` and `tcpStreamSwitchboard.ts`, a third of
`CacheService.ts`, and a few functions each of the large stores and routes; that
is under a tenth of the sources that `PROJECT.json` lists. Sencho is far larger
than the parts modelled here, and nothing here is claimed of the rest: capture,
verification and repositories of the recovery engine, Git sources and creates,
update recovery and rollback generations, fleet sync, registry delivery, Docker
events, schedulers, the HTTP layer and the frontend.
