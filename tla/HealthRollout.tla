---------------------------- MODULE HealthRollout ----------------------------
(***************************************************************************)
(* A Git-managed Blueprint rolled out to its target nodes under a health   *)
(* policy: the application and target rows and the transitions that write  *)
(* them (services/gitops/transitions.ts), the dispatch that walks the      *)
(* queue of targets (services/gitops/handoff.ts), the producer that        *)
(* acknowledges a deploy, the health-gate runs that observe one            *)
(* (services/HealthGateService.ts), and the executor that carries out what *)
(* a verdict decided (services/gitops/healthRolloutExecutor.ts).           *)
(*                                                                         *)
(* The process is one JavaScript thread over SQLite.  Between two awaits   *)
(* nothing else runs, but the process can die between any two writes.  So  *)
(* `tick' is the rest of the synchronous section that is running: a        *)
(* sequence of steps, each one database transaction, and while it is not   *)
(* empty only its head may happen, or a crash.                             *)
(***************************************************************************)
EXTENDS Naturals, Sequences, FiniteSets

CONSTANTS
    N,             \* target nodes 1..N, in the order of requiredNodeIds
    Settings,      \* what the application may be configured with: its health
                   \* policy, whether rollout_authorization_policy is
                   \* 'automatic', and which of its nodes are remote
    MaxGen,        \* bound: accepted source generations
    MaxRollouts,   \* bound: rollout generations minted
    MaxRuns,       \* bound: health-gate runs reserved
    MaxCrashes,    \* bound: restarts of the process
    MaxOperator,   \* bound: operator's presses of a rollout button
    MaxTasks,      \* bound: dispatches running when an outsider starts one
    Refusals       \* what may go wrong on the way: preflight, compose, probe,
                   \* gate_off, arm, deploy, restore

Nodes == 1..N
Gens == 0..MaxGen               \* 0 is null
Verdicts == {"passed", "failed", "unknown"}

ASSUME BoundsAssumption ==
    /\ N \in Nat \ {0}
    /\ Settings \subseteq [policy : {"observe", "pause", "retry_once", "stop", "rollback"},
                           auto : BOOLEAN, remote : SUBSET Nodes]
    /\ MaxGen \in Nat \ {0} /\ MaxRollouts \in Nat \ {0} /\ MaxRuns \in Nat

VARIABLES
    app,       \* the application row
    target,    \* the target rows
    minted,    \* rollout generations: what they roll out, policy, withdrawn
    run,       \* health_gate_runs rows of trigger 'rollout'
    armed,     \* HealthGateService.active: runs being observed
    lock,      \* nodes whose authorized-deploy lock is held
    task,      \* dispatches in progress, in the order they began
    restore,   \* restores in progress, [node -> generation], 0 when none
    live,      \* the generation each node's containers really run
    past,      \* history: what a node's last successful deploy or restore left
               \* (stable), and what that was when a rollout first deployed (prior)
    tick,      \* the rest of the running synchronous section
    left       \* what is left of the bounds on crashes and operators

vars == <<app, target, minted, run, armed, lock, task, restore, live, past, tick, left>>
rows == <<app, target, minted, run>>
memory == <<armed, lock, task, restore>>

-----------------------------------------------------------------------------
(* What the code reads off the rows. *)

gatesAdvancement(policy) == policy # "observe"

hasTargetOperationInFlight ==
    \E n \in Nodes : target[n].active # "none" \/ target[n].pending # 0

targetAlreadyAcked(t, gen, ref) == t.applied = gen /\ t.ref = ref

(* Mutant: an acknowledged target counts as settled, its verdict unread.   *)
settledForGatedRolloutMutant(t, gen, ref) == targetAlreadyAcked(t, gen, ref)

settledForGatedRollout(t, gen, ref) ==
    /\ targetAlreadyAcked(t, gen, ref)
    /\ t.applied # 0
    /\ \/ t.healthy = t.applied
       \/ t.last.status = "passed" /\ t.last.gen = t.applied

holdableHealthFence(t) == t.stop \notin {"none", "health_retried", "stop_acknowledged"}

fencedOutOfTheQueue(t, rollout) ==
    t.stop \notin {"none", "health_retried"} /\ t.rollout = rollout

targetRestoreInFlight(t) == t.phase = "restoring"

\* clearTargetActive, then markInFlightRestore: a deploy's end hands the marker
\* back to a restore that still moves.
Released(t) == IF targetRestoreInFlight(t) THEN "recovery" ELSE "none"

\* liveRolloutBinding: a reference, and ingredients that still match it.
liveBinding == app.ref # 0

rollbackPending == \E n \in Nodes : target[n].stop = "rollback_pending"

mayRetry(attempts) == attempts < 1

decideHealthRolloutAction(policy, verdict, attempts, recoverable) ==
    CASE policy = "observe"    -> [action |-> "none", reason |-> "none"]
      [] policy # "observe" /\ verdict = "passed"  -> [action |-> "advance", reason |-> "none"]
      [] policy # "observe" /\ verdict = "unknown" -> [action |-> "pause", reason |-> "health_unknown"]
      [] policy = "pause" /\ verdict = "failed"    -> [action |-> "pause", reason |-> "health_failed"]
      [] policy = "retry_once" /\ verdict = "failed" ->
            IF mayRetry(attempts) THEN [action |-> "retry", reason |-> "health_retried"]
            ELSE [action |-> "pause", reason |-> "health_retry_exhausted"]
      [] policy = "stop" /\ verdict = "failed"     -> [action |-> "stop", reason |-> "rollout_stopped"]
      [] policy = "rollback" /\ verdict = "failed" ->
            IF recoverable THEN [action |-> "rollback", reason |-> "health_failed"]
            ELSE [action |-> "pause", reason |-> "rollback_unavailable"]

-----------------------------------------------------------------------------
(* Dispatches.  `gen' is the generation asked for, `ingr' the accepted      *)
(* generation the authorization was evaluated for, `rollout' the rollout of *)
(* the liveApp snapshot the rest of the dispatch reads.                     *)

Dispatch(by, gen) ==
    [pc |-> "queued", by |-> by, gen |-> gen, ingr |-> 0, rollout |-> 0,
     todo |-> <<>>, run |-> 0, fresh |-> FALSE, retry |-> FALSE, recov |-> 0,
     landed |-> FALSE]

Drop(s, i) == [j \in 1..(Len(s) - 1) |-> IF j < i THEN s[j] ELSE s[j + 1]]

policyOf(d) == minted[d.rollout].policy

\* A blocked dispatch answers its caller.  The executor holds every refusal;
\* the others hold one that will not clear by itself, and only a live binding.
Held(by, holdable) ==
    IF by = "executor" \/ holdable
    THEN <<[op |-> "hold", origin |-> "system", live |-> by # "executor"]>>
    ELSE <<>>

Finalize(r, v) == [op |-> "finalize", run |-> r, verdict |-> v]
Begin(by) == [op |-> "begin", by |-> by]
At(op, i) == [op |-> op, task |-> i]

\* abandonTargetHealthRun: finalize the reservation unknown, if still observing.
Abandon(r) == IF r # 0 /\ run[r].status = "observing" THEN <<Finalize(r, "unknown")>> ELSE <<>>

-----------------------------------------------------------------------------
(* The steps of a synchronous section. *)

Running(op) == tick # <<>> /\ Head(tick).op = op
Then(ops) == tick' = ops \o Tail(tick)
Me == Head(tick).task
Next1 == [op |-> "next"]

\* dispatch, up to its first await: refuse while paused, else ask for the
\* rollout's authorization, one evaluation per application at a time.
BeginDispatch ==
    /\ Running("begin")
    /\ IF app.pause # "none"
       THEN UNCHANGED task /\ Then(<<>>)
       ELSE /\ task' = Append(task, Dispatch(Head(tick).by, app.accepted))
            /\ Then(<<Next1>>)
    /\ UNCHANGED <<rows, armed, lock, restore, live, past, left>>

\* withSerializedEvaluation: the oldest waiting evaluation, when none runs.
NextEvaluation ==
    /\ Running("next")
    /\ LET waiting == {i \in DOMAIN task : task[i].pc = "queued"}
       IN IF waiting = {} \/ \E i \in DOMAIN task : task[i].pc = "preflight"
          THEN Then(<<>>)
          ELSE Then(<<At("evaluate", CHOOSE i \in waiting : \A j \in waiting : i <= j)>>)
    /\ UNCHANGED <<rows, memory, live, past, left>>

\* ensureRolloutAuthorization, up to the registry preflight.
EvaluateAuthorization ==
    /\ Running("evaluate")
    /\ LET d == task[Me]
           refused == \/ d.by # "operator" /\ app.pause # "none"
                      \/ ~liveBinding /\ hasTargetOperationInFlight
                      \/ ~liveBinding /\ d.by # "operator" /\ ~app.auto
       IN IF refused
          THEN task' = Drop(task, Me) /\ Then(Held(d.by, FALSE) \o <<Next1>>)
          ELSE /\ task' = [task EXCEPT ![Me].pc = "preflight", ![Me].ingr = app.accepted]
               /\ Then(<<>>)
    /\ UNCHANGED <<rows, armed, lock, restore, live, past, left>>

\* recordPreflightEvaluation, then invalidateAuthorizationOnPreflightDrift.
RecordPreflight ==
    /\ Running("evidence")
    /\ app' = [app EXCEPT !.evidence = Head(tick).found]
    /\ Then(<<>>)
    /\ UNCHANGED <<target, minted, run, memory, live, past, left>>

InvalidateAuthorization ==
    /\ Running("invalidate")
    /\ app' = [app EXCEPT !.ref = 0, !.rollout = 0]
    /\ Then(<<>>)
    /\ UNCHANGED <<target, minted, run, memory, live, past, left>>

\* rolloutAuthorized: a new rollout generation freezes the configured policy.
rolloutAuthorized ==
    /\ Running("mint")
    /\ LET d == task[Me]
           id == Len(minted) + 1
       IN IF d.by # "operator" /\ ~app.auto
          THEN /\ task' = Drop(task, Me)
               /\ Then(Held(d.by, FALSE))
               /\ UNCHANGED <<app, minted>>
          ELSE /\ minted' = Append(minted, [gen |-> app.accepted, policy |-> app.policy,
                                            withdrawn |-> FALSE])
               /\ app' = [app EXCEPT !.ref = id, !.rollout = id]
               /\ Then(<<At("authorized", Me)>>)
               /\ UNCHANGED task
    /\ UNCHANGED <<target, run, armed, lock, restore, live, past, left>>

\* dispatch after the authorization: the liveApp snapshot, then read the compose.
\* An operator's authorization ends here, and the route dispatches.
Authorized ==
    /\ Running("authorized")
    /\ LET d == task[Me]
       IN IF d.by = "operator"
          THEN task' = Drop(task, Me) /\ Then(<<Begin("handoff")>>)
          ELSE IF d.gen # d.ingr \/ app.pause # "none"
          THEN task' = Drop(task, Me) /\ Then(Held(d.by, FALSE))
          ELSE /\ task' = [task EXCEPT ![Me].pc = "compose", ![Me].rollout = app.rollout]
               /\ Then(<<>>)
    /\ UNCHANGED <<rows, armed, lock, restore, live, past, left>>

\* The head of dispatch's loop over its queue: skip, finish, probe or reserve.
DispatchTarget ==
    /\ Running("target")
    /\ LET d == task[Me]
           n == Head(d.todo)
           t == target[n]
           gated == gatesAdvancement(policyOf(d))
           acked == targetAlreadyAcked(t, d.gen, d.rollout)
           skip == \/ gated /\ (fencedOutOfTheQueue(t, d.rollout) \/ t.pending # 0)
                   \/ ~gated /\ acked
       IN IF d.todo = <<>> \/ app.pause # "none"
          THEN task' = Drop(task, Me) /\ Then(<<>>)
          ELSE IF skip
          THEN /\ task' = [task EXCEPT ![Me].todo = Tail(d.todo)]
               /\ Then(<<At("target", Me)>>)
          ELSE /\ task' = [task EXCEPT ![Me].retry = gated /\ acked,
                              ![Me].pc = IF gated /\ n \in app.remote THEN "probe_target" ELSE "running"]
               /\ Then(IF gated /\ n \in app.remote THEN <<>> ELSE <<At("reserve", Me)>>)
    /\ UNCHANGED <<rows, armed, lock, restore, live, past, left>>

\* reserveTargetHealthRun: the row is written, or one still observing replayed.
reserveTargetHealthRun ==
    /\ Running("reserve")
    /\ LET d == task[Me]
           n == Head(d.todo)
           same == {r \in DOMAIN run : /\ run[r].status = "observing"
                                       /\ run[r].node = n /\ run[r].rollout = d.rollout}
       IN \/ /\ "gate_off" \in Refusals
             /\ IF gatesAdvancement(policyOf(d))
                THEN task' = Drop(task, Me) /\ Then(Held(d.by, TRUE))
                ELSE task' = [task EXCEPT ![Me].run = 0, ![Me].fresh = FALSE] /\ Then(<<At("open", Me)>>)
             /\ UNCHANGED run
          \/ /\ same # {}
             /\ task' = [task EXCEPT ![Me].run = CHOOSE r \in same : \A q \in same : r <= q,
                                     ![Me].fresh = FALSE]
             /\ Then(<<At("open", Me)>>)
             /\ UNCHANGED run
          \/ /\ same = {}
             /\ run' = Append(run, [node |-> n, rollout |-> d.rollout, gen |-> d.gen,
                                    status |-> "observing"])
             /\ task' = [task EXCEPT ![Me].run = Len(run) + 1, ![Me].fresh = TRUE]
             /\ Then(<<At("open", Me)>>)
    /\ UNCHANGED <<app, target, minted, armed, lock, restore, live, past, left>>

\* The deploy lock, then blueprintDeployStarted, then the deploy is awaited.
blueprintDeployStarted ==
    /\ Running("open")
    /\ LET d == task[Me]
           n == Head(d.todo)
       IN IF n \in lock \/ target[n].active = "recovery"
          THEN /\ task' = Drop(task, Me)
               /\ Then((IF n \notin lock \/ d.fresh THEN Abandon(d.run) ELSE <<>>) \o Held(d.by, FALSE))
               /\ UNCHANGED <<target, lock, past>>
          ELSE /\ lock' = lock \cup {n}
               /\ past' = IF past[n].rollout = d.rollout THEN past
                          ELSE [past EXCEPT ![n].rollout = d.rollout, ![n].prior = past[n].stable]
               /\ target' = [target EXCEPT ![n].active = "deploy", ![n].pending = d.run]
               /\ task' = [task EXCEPT ![Me].pc = "deploying", ![Me].recov = target[n].applied,
                                       ![Me].landed = FALSE]
               /\ Then(<<>>)
    /\ UNCHANGED <<app, minted, run, armed, restore, live, left>>

\* The producer's blueprintDeployFailed, the reservation, and the answer.
blueprintDeployFailed ==
    /\ Running("deploy_fail")
    /\ LET d == task[Me]
           n == Head(d.todo)
       IN /\ target' = [target EXCEPT ![n].active = Released(target[n]), ![n].pending = 0]
          /\ lock' = lock \ {n}
          /\ task' = Drop(task, Me)
          /\ Then((IF d.fresh THEN Abandon(d.run) ELSE <<>>) \o Held(d.by, TRUE))
    /\ UNCHANGED <<app, minted, run, armed, restore, live, past, left>>

\* The producer's blueprintAckRecorded: the intent has not moved, so the target
\* takes the application's pointers as they are now.
blueprintAckRecorded ==
    /\ Running("ack")
    /\ LET n == Head(task[Me].todo)
           moved == target[n].rollout # app.rollout
       IN target' = [target EXCEPT
              ![n].active = Released(target[n]), ![n].applied = app.accepted, ![n].ref = app.ref,
              ![n].rollout = app.rollout,
              ![n].attempts = IF moved THEN 0 ELSE @,
              ![n].stop = IF moved THEN "none" ELSE @]
    /\ Then(<<At("bind", Me)>>)
    /\ UNCHANGED <<app, minted, run, memory, live, past, left>>

(* Mutant: a retry moves the recovery generation to the one that failed.   *)
BindRecoveryGenerationMutant ==
    /\ Running("bind")
    /\ LET d == task[Me]
       IN target' = [target EXCEPT ![Head(d.todo)].recovery = IF d.recov # 0 THEN d.recov ELSE @]
    /\ Then(<<At("arm", Me)>>)
    /\ UNCHANGED <<app, minted, run, memory, live, past, left>>

\* The adapter's own acknowledgement is already recorded; it adds the recovery
\* generation, unless this was a retry of the same attempt.
BindRecoveryGeneration ==
    /\ Running("bind")
    /\ LET d == task[Me]
           n == Head(d.todo)
       IN target' = [target EXCEPT ![n].recovery = IF ~d.retry /\ d.recov # 0 THEN d.recov ELSE @]
    /\ Then(<<At("arm", Me)>>)
    /\ UNCHANGED <<app, minted, run, memory, live, past, left>>

\* armTargetHealthRun: older gates of the stack are superseded first; a run that
\* cannot be armed is abandoned.  Then the lock goes and the loop continues.
armTargetHealthRun ==
    /\ Running("arm")
    /\ LET d == task[Me]
           n == Head(d.todo)
           others == {r \in armed : run[r].node = n /\ r # d.run}
           watch == d.run # 0 /\ run[d.run].status = "observing" /\ d.run \notin armed
           done == /\ lock' = lock \ {n}
                   /\ task' = [task EXCEPT ![Me].todo = Tail(d.todo), ![Me].pc = "running"]
       IN \/ /\ watch /\ others # {}
             /\ \E r \in others : /\ armed' = armed \ {r}
                                  /\ Then(<<Finalize(r, "unknown"), At("arm", Me)>>)
             /\ UNCHANGED <<lock, task>>
          \/ /\ watch /\ others = {}
             /\ armed' = armed \cup {d.run}
             /\ Then(<<At("target", Me)>>)
             /\ done
          \/ /\ watch /\ others = {} /\ "arm" \in Refusals
             /\ Then(<<Finalize(d.run, "unknown"), At("target", Me)>>)
             /\ UNCHANGED armed
             /\ done
          \/ /\ ~watch
             /\ Then(<<At("target", Me)>>)
             /\ UNCHANGED armed
             /\ done
    /\ UNCHANGED <<rows, restore, live, past, left>>

-----------------------------------------------------------------------------
(* Verdicts and what they decide. *)

finalizeRun ==
    /\ Running("finalize")
    /\ run' = [run EXCEPT ![Head(tick).run].status = Head(tick).verdict]
    /\ Then(<<[op |-> "verdict", run |-> Head(tick).run]>>)
    /\ UNCHANGED <<app, target, minted, memory, live, past, left>>

\* The target row after an attributable verdict: applyHealthGatedDecision, the
\* last recorded health, and the healthy pointer promoted or demoted.
AfterVerdict(t, r, v, decision) ==
    [t EXCEPT
        !.pending = 0,
        !.attempts = IF decision.action = "retry" THEN @ + 1 ELSE @,
        !.stop = CASE decision.action = "none" -> @
                   [] decision.action = "advance" -> "none"
                   [] decision.action = "rollback" -> "rollback_pending"
                   [] OTHER -> decision.reason,
        !.last = IF v # "unknown" \/ @.status = "none" THEN [status |-> v, gen |-> r.gen] ELSE @,
        !.healthy = CASE v = "passed" -> r.gen
                      [] v = "failed" /\ @ = r.gen -> 0
                      [] OTHER -> @]

\* healthFinalized: history only, released and re-driven, or decided.
healthFinalized ==
    /\ Running("verdict")
    /\ LET r == run[Head(tick).run]
           n == r.node
           t == target[n]
           unacked == t.rollout # app.rollout /\ app.rollout = r.rollout
           attributable == /\ app.rollout = r.rollout
                           /\ IF unacked THEN r.status = "unknown"
                              ELSE t.rollout = r.rollout /\ t.applied = r.gen
           decision == decideHealthRolloutAction(minted[r.rollout].policy, r.status,
                                                 t.attempts, t.recovery # 0)
           holds == decision.action \in {"pause", "stop", "rollback"}
       IN IF t.pending # Head(tick).run
          THEN UNCHANGED <<app, target>> /\ Then(<<>>)
          ELSE IF ~attributable
          THEN /\ target' = [target EXCEPT ![n].pending = 0]
               /\ Then(<<Begin("executor")>>)
               /\ UNCHANGED app
          ELSE /\ target' = [target EXCEPT ![n] = AfterVerdict(t, r, r.status, decision)]
               /\ app' = [app EXCEPT !.pause = IF unacked /\ holds /\ @ = "none" THEN "health" ELSE @]
               /\ Then(<<[op |-> "follow", node |-> n, action |-> decision.action]>>)
    /\ UNCHANGED <<minted, run, memory, live, past, left>>

HoldHealth == [op |-> "hold", origin |-> "health", live |-> FALSE]

\* executeHealthRolloutDecision, up to its first await.
executeHealthRolloutDecision ==
    /\ Running("follow")
    /\ LET n == Head(tick).node
           action == Head(tick).action
       IN Then(CASE action = "none" -> <<>>
                 [] action = "advance" -> IF liveBinding THEN <<Begin("executor")>> ELSE <<>>
                 [] action = "retry" -> <<Begin("executor")>>
                 [] action \in {"pause", "stop"} -> <<HoldHealth>>
                 [] action = "rollback" ->
                        IF targetRestoreInFlight(target[n]) THEN <<>>
                        ELSE IF target[n].recovery = 0 THEN <<HoldHealth>>
                        ELSE <<[op |-> "rollback", node |-> n], HoldHealth,
                               [op |-> "restore", node |-> n]>>)
    /\ UNCHANGED <<rows, memory, live, past, left>>

(* Mutant: a health decision holds nothing.                                *)
rolloutPausedMutant ==
    /\ Running("hold")
    /\ app' = IF app.pause # "none" \/ Head(tick).origin = "health" THEN app
              ELSE [app EXCEPT !.pause = Head(tick).origin]
    /\ Then(<<>>)
    /\ UNCHANGED <<target, minted, run, memory, live, past, left>>

\* holdRollout and holdBlockedRolloutDispatch, over rolloutPaused.
rolloutPaused ==
    /\ Running("hold")
    /\ app' = IF app.pause # "none" \/ (Head(tick).live /\ ~liveBinding) THEN app
              ELSE [app EXCEPT !.pause = Head(tick).origin]
    /\ Then(<<>>)
    /\ UNCHANGED <<target, minted, run, memory, live, past, left>>

rollbackInProgress ==
    /\ Running("rollback")
    /\ target' = [target EXCEPT ![Head(tick).node].phase = "restoring",
                      ![Head(tick).node].active = IF @ = "none" THEN "recovery" ELSE @]
    /\ Then(<<>>)
    /\ UNCHANGED <<app, minted, run, memory, live, past, left>>

\* restoreTargetToGeneration is awaited.
StartRestore ==
    /\ Running("restore")
    /\ restore' = [restore EXCEPT ![Head(tick).node] = target[Head(tick).node].recovery]
    /\ Then(<<>>)
    /\ UNCHANGED <<rows, armed, lock, task, live, past, left>>

rollbackCompleted ==
    /\ Running("rollback_completed")
    /\ LET n == Head(tick).node
       IN target' = [target EXCEPT ![n].active = "none", ![n].phase = "over",
                         ![n].applied = target[n].recovery, ![n].healthy = 0,
                         ![n].stop = "rollback_completed"]
    /\ Then(<<>>)
    /\ UNCHANGED <<app, minted, run, memory, live, past, left>>

rollbackPartialFailed ==
    /\ Running("rollback_failed")
    /\ LET n == Head(tick).node
       IN target' = [target EXCEPT ![n].phase = "over",
                         ![n].active = IF @ = "recovery" THEN "none" ELSE @]
    /\ Then(<<>>)
    /\ UNCHANGED <<app, minted, run, memory, live, past, left>>

-----------------------------------------------------------------------------
(* Startup, in the order bootstrap/startup.ts runs it. *)

interruptActiveOperations ==
    /\ Running("interrupt")
    /\ target' = [n \in Nodes |-> [target[n] EXCEPT
                     !.active = "none",
                     !.phase = IF targetRestoreInFlight(target[n]) THEN "over" ELSE @]]
    /\ Then(<<>>)
    /\ UNCHANGED <<app, minted, run, memory, live, past, left>>

(* Mutant: the nodes in the wrong order.                                   *)
AscendingMutant(S) == CHOOSE s \in [1..Cardinality(S) -> S] :
                          \A i, j \in DOMAIN s : i < j => s[i] > s[j]

Ascending(S) == CHOOSE s \in [1..Cardinality(S) -> S] :
                    \A i, j \in DOMAIN s : i < j => s[i] < s[j]

(* Mutant: runs the last process left observing are not swept.             *)
SweepInterruptedRunsMutant ==
    /\ Running("sweep") /\ Then(<<>>)
    /\ UNCHANGED <<rows, memory, live, past, left>>

\* HealthGateService.start: finalize what the last process left observing.
SweepInterruptedRuns ==
    /\ Running("sweep")
    /\ LET open == Ascending({r \in DOMAIN run : run[r].status = "observing"})
       IN Then([i \in DOMAIN open |-> Finalize(open[i], "unknown")])
    /\ UNCHANGED <<rows, memory, live, past, left>>

(* Mutant: a verdict written but never applied is not looked for.          *)
reconcileVerdictsThatNeverArrivedMutant ==
    /\ Running("reconcile") /\ Then(<<>>)
    /\ UNCHANGED <<rows, memory, live, past, left>>

reconcileVerdictsThatNeverArrived ==
    /\ Running("reconcile")
    /\ LET late == Ascending({r \in DOMAIN run : /\ run[r].status # "observing"
                                                 /\ target[run[r].node].pending = r})
       IN Then([i \in DOMAIN late |-> [op |-> "verdict", run |-> late[i]]])
    /\ UNCHANGED <<rows, memory, live, past, left>>

\* What is left of the live rollout.
Unsettled(n) ==
    IF gatesAdvancement(minted[app.rollout].policy)
    THEN ~settledForGatedRollout(target[n], app.accepted, app.ref)
    ELSE ~targetAlreadyAcked(target[n], app.accepted, app.ref)

reconstructBlueprintRolloutQueue ==
    /\ Running("reconstruct")
    /\ LET fenced == \E n \in Nodes : /\ holdableHealthFence(target[n])
                                      /\ target[n].rollout = app.rollout
           remaining == {n \in Nodes : Unsettled(n)}
           awaiting == /\ gatesAdvancement(minted[app.rollout].policy)
                       /\ \E n \in remaining : target[n].pending # 0
       IN Then(IF ~liveBinding \/ app.pause # "none" \/ app.evidence = "blocked" THEN <<>>
               ELSE IF fenced THEN <<HoldHealth>>
               ELSE IF remaining = {} \/ awaiting THEN <<>>
               ELSE <<Begin("handoff")>>)
    /\ UNCHANGED <<rows, memory, live, past, left>>

-----------------------------------------------------------------------------
(* Where a section begins: an awaited call returns, a timer fires, a request *)
(* arrives.                                                                  *)

Idle == tick = <<>>
MayReserve == Len(run) < MaxRuns

\* The registry preflight returns: ensureRolloutAuthorization after its await.
PreflightReturns(i, found) ==
    /\ Idle /\ task[i].pc = "preflight"
    /\ LET d == task[i]
           aborted == d.by # "operator" /\ app.pause # "none"
           drop == IF liveBinding THEN <<[op |-> "invalidate"]>> ELSE <<>>
           evidence == <<[op |-> "evidence", found |-> IF found = "blocked" THEN "blocked" ELSE "ready"]>>
       IN IF aborted \/ app.accepted # d.ingr
          THEN task' = Drop(task, i) /\ tick' = Held(d.by, FALSE) \o <<Next1>>
          ELSE IF found = "blocked"
          THEN task' = Drop(task, i) /\ tick' = evidence \o drop \o Held(d.by, FALSE) \o <<Next1>>
          ELSE /\ task' = [task EXCEPT ![i].pc = "running"]
               /\ IF liveBinding /\ found = "same"
                  THEN tick' = evidence \o <<At("authorized", i), Next1>>
                  ELSE /\ Len(minted) < MaxRollouts
                       /\ tick' = evidence \o drop \o <<At("mint", i), Next1>>
    /\ UNCHANGED <<rows, armed, lock, restore, live, past, left>>

Blocked(i, holdable) == task' = Drop(task, i) /\ tick' = Held(task[i].by, holdable)

\* readAppliedComposeContent returns: the queue, and the unfinished-rollback gate.
ComposeReturns(i, ok) ==
    /\ Idle /\ task[i].pc = "compose" /\ MayReserve
    /\ LET d == task[i]
           gated == gatesAdvancement(policyOf(d))
           open == Ascending({n \in Nodes :
                        /\ ~settledForGatedRollout(target[n], d.gen, d.rollout)
                        /\ ~fencedOutOfTheQueue(target[n], d.rollout)})
           queue == IF ~gated THEN Ascending(Nodes) ELSE IF open = <<>> THEN <<>> ELSE <<open[1]>>
           unfinished == gated /\ \E n \in Nodes : /\ target[n].stop = "rollback_pending"
                                                   /\ target[n].rollout = d.rollout
           probe == gated /\ app.remote # {}
       IN IF ~ok THEN Blocked(i, FALSE)
          ELSE IF unfinished THEN Blocked(i, TRUE)
          ELSE /\ task' = [task EXCEPT ![i].todo = queue, ![i].pc = IF probe THEN "probe" ELSE "running"]
               /\ tick' = IF probe THEN <<>> ELSE <<At("target", i)>>
    /\ UNCHANGED <<rows, armed, lock, restore, live, past, left>>

\* refuseUngatedRemoteTarget returns, first for all nodes, then for the one.
ProbeReturns(i, ok) ==
    /\ Idle /\ task[i].pc \in {"probe", "probe_target"} /\ MayReserve
    /\ IF ~ok THEN Blocked(i, TRUE)
       ELSE /\ task' = [task EXCEPT ![i].pc = "running"]
            /\ tick' = <<At(IF task[i].pc = "probe" THEN "target" ELSE "reserve", i)>>
    /\ UNCHANGED <<rows, armed, lock, restore, live, past, left>>

\* The node's containers become the dispatched generation.
DeployLands(i) ==
    /\ Idle /\ task[i].pc = "deploying" /\ ~task[i].landed
    /\ live' = [live EXCEPT ![Head(task[i].todo)] = task[i].gen]
    /\ task' = [task EXCEPT ![i].landed = TRUE]
    /\ UNCHANGED <<rows, armed, lock, restore, past, tick, left>>

DeployReturns(i, ok) ==
    /\ Idle /\ task[i].pc = "deploying" /\ (ok => task[i].landed) /\ MayReserve
    /\ tick' = <<At(IF ok THEN "ack" ELSE "deploy_fail", i)>>
    /\ past' = IF ok THEN [past EXCEPT ![Head(task[i].todo)].stable = task[i].gen] ELSE past
    /\ UNCHANGED <<rows, memory, live, left>>

RestoreReturns(n, outcome) ==
    /\ Idle /\ restore[n] # 0
    /\ live' = [live EXCEPT ![n] = IF outcome = "pre_mutation" THEN @ ELSE restore[n]]
    /\ restore' = [restore EXCEPT ![n] = 0]
    /\ tick' = <<[op |-> IF outcome = "ok" THEN "rollback_completed" ELSE "rollback_failed", node |-> n]>>
    /\ past' = IF outcome = "ok" THEN [past EXCEPT ![n].stable = restore[n]] ELSE past
    /\ UNCHANGED <<rows, armed, lock, task, left>>

\* An observation ends: its window closes, it fails, or it is superseded.
GateVerdict(r, v) ==
    /\ Idle /\ r \in armed
    /\ armed' = armed \ {r}
    /\ tick' = <<Finalize(r, v)>>
    /\ UNCHANGED <<rows, lock, task, restore, live, past, left>>

\* sourceAccepted: only the application's own operation bars it.  A system hold
\* goes with the generation it was about, and so does the authorization.
sourceAccepted ==
    /\ Idle /\ app.accepted < MaxGen
    /\ app' = [app EXCEPT !.accepted = @ + 1, !.ref = 0, !.rollout = 0,
                   !.pause = IF @ = "system" /\ ~rollbackPending THEN "none" ELSE @]
    /\ UNCHANGED <<target, minted, run, memory, live, past, tick, left>>

latestAuthorization ==
    LET same == {i \in DOMAIN minted : minted[i].gen = app.accepted}
    IN IF same = {} THEN 0 ELSE CHOOSE i \in same : \A j \in same : j <= i

gitManagedDispatchWarranted ==
    /\ \A n \in Nodes : target[n].active = "none"
    /\ latestAuthorization # 0 => ~minted[latestAuthorization].withdrawn
    /\ liveBinding =>
         LET remaining == {n \in Nodes : Unsettled(n) /\ ~fencedOutOfTheQueue(target[n], app.rollout)}
         IN /\ remaining # {}
            /\ gatesAdvancement(minted[app.rollout].policy) =>
                   \A n \in remaining : target[n].pending = 0

\* dispatchPreparedGitManagedGeneration.
PreparedDispatch ==
    IF rollbackPending THEN <<[op |-> "hold", origin |-> "system", live |-> FALSE]>>
    ELSE <<Begin("handoff")>>

\* The acceptance's own handoff, and BlueprintReconciler's re-drive of it.
redriveGitManagedHandoff ==
    /\ Idle /\ app.pause = "none" /\ app.auto /\ gitManagedDispatchWarranted
    /\ Len(task) < MaxTasks
    /\ tick' = PreparedDispatch
    /\ UNCHANGED <<rows, memory, live, past, left>>

Press == Idle /\ left.operator > 0 /\ left' = [left EXCEPT !.operator = @ - 1]

PauseRoute ==
    /\ Press /\ liveBinding
    /\ app' = [app EXCEPT !.pause = "operator"]
    /\ UNCHANGED <<target, minted, run, memory, live, past, tick>>

\* rolloutUnpaused: the fences Resume answers are lifted, the ones it only
\* acknowledges stay out of the queue; then the rollout is dispatched again.
Resumed(t) ==
    [t EXCEPT !.stop =
        CASE @ \in {"health_failed", "health_unknown", "health_retry_exhausted", "rollback_unavailable"} -> "none"
          [] @ \in {"rollout_stopped", "rollback_completed"} /\ t.rollout = app.rollout -> "stop_acknowledged"
          [] OTHER -> @]

ResumeRoute ==
    /\ Press /\ app.pause # "none" /\ Len(task) < MaxTasks
    /\ app' = [app EXCEPT !.pause = "none"]
    /\ target' = [n \in Nodes |-> Resumed(target[n])]
    /\ tick' = <<[op |-> "resume"]>>
    /\ UNCHANGED <<minted, run, memory, live, past>>

ResumeDispatch ==
    /\ Running("resume")
    /\ Then(IF liveBinding THEN <<Begin("handoff")>>
            ELSE IF ~rollbackPending /\ app.auto /\ gitManagedDispatchWarranted THEN PreparedDispatch
            ELSE <<>>)
    /\ UNCHANGED <<rows, memory, live, past, left>>

\* rolloutSuperseded: withdrawn by the operator; the pointer stays.
SupersedeRoute ==
    /\ Press
    /\ LET id == IF app.rollout # 0 THEN app.rollout ELSE latestAuthorization
       IN /\ id # 0
          /\ minted' = [minted EXCEPT ![id].withdrawn = TRUE]
    /\ app' = [app EXCEPT !.ref = 0]
    /\ UNCHANGED <<target, run, memory, live, past, tick>>

AuthorizeRoute ==
    /\ Press /\ Len(task) < MaxTasks
    /\ task' = Append(task, Dispatch("operator", app.accepted))
    /\ tick' = <<Next1>>
    /\ UNCHANGED <<rows, armed, lock, restore, live, past>>

\* The process dies and starts again.  What it had asked of a node may or may
\* not have happened.
Crash ==
    /\ left.crash > 0
    /\ left' = [left EXCEPT !.crash = @ - 1]
    /\ \E asked \in SUBSET {i \in DOMAIN task : task[i].pc = "deploying"},
          restored \in SUBSET {n \in Nodes : restore[n] # 0} :
         live' = [n \in Nodes |->
                     IF \E i \in asked : Head(task[i].todo) = n
                     THEN task[CHOOSE i \in asked : Head(task[i].todo) = n].gen
                     ELSE IF n \in restored THEN restore[n] ELSE live[n]]
    /\ armed' = {} /\ lock' = {} /\ task' = <<>> /\ restore' = [n \in Nodes |-> 0]
    /\ tick' = <<[op |-> "interrupt"], [op |-> "sweep"], [op |-> "reconcile"], [op |-> "reconstruct"]>>
    /\ UNCHANGED <<rows, past>>

\* A Blueprint whose first generation every target has run and passed.
Init ==
    /\ \E s \in Settings :
         /\ app = [accepted |-> 1, ref |-> 1, rollout |-> 1, pause |-> "none", evidence |-> "ready",
                   policy |-> s.policy, auto |-> s.auto, remote |-> s.remote]
         /\ minted = <<[gen |-> 1, policy |-> s.policy, withdrawn |-> FALSE]>>
    /\ target = [n \in Nodes |->
                    [applied |-> 1, ref |-> 1, rollout |-> 1, healthy |-> 1,
                     last |-> [status |-> "passed", gen |-> 1], pending |-> 0, attempts |-> 0,
                     stop |-> "none", recovery |-> 0, phase |-> "over", active |-> "none"]]
    /\ run = <<>> /\ armed = {} /\ lock = {} /\ task = <<>> /\ tick = <<>>
    /\ restore = [n \in Nodes |-> 0]
    /\ live = [n \in Nodes |-> 1]
    /\ past = [n \in Nodes |-> [stable |-> 1, prior |-> 1, rollout |-> 1]]
    /\ left = [crash |-> MaxCrashes, operator |-> MaxOperator]

Outcomes(kind) == IF kind \in Refusals THEN BOOLEAN ELSE {TRUE}

Section ==
    \/ BeginDispatch \/ NextEvaluation \/ EvaluateAuthorization \/ RecordPreflight
    \/ InvalidateAuthorization \/ rolloutAuthorized \/ Authorized \/ DispatchTarget
    \/ reserveTargetHealthRun \/ blueprintDeployStarted \/ blueprintDeployFailed
    \/ blueprintAckRecorded \/ BindRecoveryGeneration \/ armTargetHealthRun
    \/ finalizeRun \/ healthFinalized \/ executeHealthRolloutDecision \/ rolloutPaused
    \/ rollbackInProgress \/ StartRestore \/ rollbackCompleted \/ rollbackPartialFailed
    \/ interruptActiveOperations \/ SweepInterruptedRuns \/ reconcileVerdictsThatNeverArrived
    \/ reconstructBlueprintRolloutQueue \/ ResumeDispatch

Returns(i) ==
    \/ \E found \in {"same"} \cup (IF "preflight" \in Refusals THEN {"drift", "blocked"} ELSE {}) :
           PreflightReturns(i, found)
    \/ \E ok \in Outcomes("compose") : ComposeReturns(i, ok)
    \/ \E ok \in Outcomes("probe") : ProbeReturns(i, ok)
    \/ DeployLands(i)
    \/ \E ok \in Outcomes("deploy") : DeployReturns(i, ok)

Restored(n) ==
    \E outcome \in {"ok"} \cup (IF "restore" \in Refusals THEN {"partial", "pre_mutation"} ELSE {}) :
        RestoreReturns(n, outcome)

Next ==
    \/ Section
    \/ \E i \in DOMAIN task : Returns(i)
    \/ \E n \in Nodes : Restored(n)
    \/ \E r \in armed, v \in Verdicts : GateVerdict(r, v)
    \/ sourceAccepted \/ redriveGitManagedHandoff
    \/ PauseRoute \/ ResumeRoute \/ SupersedeRoute \/ AuthorizeRoute
    \/ Crash

Spec == Init /\ [][Next]_vars

\* The event loop runs every section to its end and every callback queued behind
\* it, so a call that returned or an observation that ended is not overtaken for
\* ever (strong fairness); BlueprintReconciler comes round again.
Fairness ==
    /\ WF_vars(Section)
    /\ \A i \in 1..(MaxTasks + N) : SF_vars(i \in DOMAIN task /\ Returns(i))
    /\ \A n \in Nodes : SF_vars(Restored(n))
    /\ SF_vars(\E r \in armed, v \in Verdicts : GateVerdict(r, v))
    /\ SF_vars(redriveGitManagedHandoff)

FairSpec == Spec /\ Fairness

-----------------------------------------------------------------------------
Stops == {"none", "health_retried", "health_failed", "health_unknown", "health_retry_exhausted",
          "rollout_stopped", "rollback_pending", "rollback_unavailable", "rollback_completed",
          "stop_acknowledged"}

(* The rows hold what their columns may hold; every pointer names a row.   *)
TypeOK ==
    /\ app.accepted \in Gens /\ app.ref \in 0..Len(minted) /\ app.rollout \in 0..Len(minted)
    /\ app.pause \in {"none", "operator", "system", "health"}
    /\ \A n \in Nodes : /\ target[n].applied \in Gens /\ target[n].healthy \in Gens
                        /\ target[n].pending \in 0..Len(run) /\ target[n].stop \in Stops
                        /\ target[n].phase \in {"restoring", "over"}
                        /\ target[n].active \in {"none", "deploy", "recovery"}
    /\ armed \subseteq DOMAIN run /\ lock \subseteq Nodes
    /\ live \in [Nodes -> Gens] /\ restore \in [Nodes -> Gens]

\* A deploy begins on n; the reserved run says for which rollout.
Starts(n) == target[n].active # "deploy" /\ target'[n].active = "deploy" /\ target'[n].pending # 0
Attempt(n) == run[target[n].pending]
Gated(rollout) == gatesAdvancement(minted[rollout].policy)
FirstOf(R) == \A Q \in 1..(R - 1) : minted[Q].gen # minted[R].gen
LocalFleet == app.remote = {}

(* A target never waits for a verdict nobody will bring: whenever no        *)
(* section is running, the run a target's pending_health_run_id names is    *)
(* still observing, and either the gate watches it or the deploy it was     *)
(* reserved for is in flight.  This is what deploy failures, abandoned      *)
(* reservations, superseded gates and the three steps of a restart have to  *)
(* preserve between them.                                                   *)
PendingIsWatched ==
    Idle => \A n \in Nodes : target[n].pending # 0 =>
        LET r == target[n].pending
        IN /\ run[r].status = "observing"
           /\ r \in armed \/ \E i \in DOMAIN task : task[i].pc = "deploying" /\ task[i].run = r

(* No deploy of the live rollout begins while the verdict on some target of *)
(* it stands as a fence an operator has not answered.  The fence and the    *)
(* pause are written by different transactions, and dispatches begun before *)
(* the verdict are still running.  All targets local: see PauseStops.       *)
Fences == Stops \ {"none", "health_retried", "stop_acknowledged", "rollback_completed"}

HeldMeansHeld ==
    [][\A n \in Nodes : LocalFleet /\ Starts(n) /\ Attempt(n)'.rollout = app.rollout =>
          \A m \in Nodes : ~(target[m].stop \in Fences /\ target[m].rollout = app.rollout)]_vars

(* A gated rollout observes one target at a time (handoff.ts cuts the queue *)
(* to one target), whatever dispatches overlap and wherever the process     *)
(* restarts: for the first rollout of a generation, all targets local.      *)
Crowded(R) == \E n, m \in Nodes : /\ n # m /\ target[n].pending # 0 /\ target[m].pending # 0
                                  /\ Attempt(n).rollout = R /\ Attempt(m).rollout = R

OneTargetDeep ==
    LocalFleet => \A R \in DOMAIN minted : Gated(R) /\ FirstOf(R) => ~Crowded(R)

(* A gated rollout reaches a target only after every earlier target passed  *)
(* or was fenced out of this rollout.                                       *)
InOrder ==
    [][\A n \in Nodes : LocalFleet /\ Starts(n) /\ Gated(Attempt(n)'.rollout) =>
          \A m \in 1..(n - 1) :
              \/ settledForGatedRollout(target[m], Attempt(n)'.gen, Attempt(n)'.rollout)
              \/ fencedOutOfTheQueue(target[m], Attempt(n)'.rollout)]_vars

(* retry_once spends one retry per rollout and target, however often the    *)
(* process restarts and however many verdicts arrive.                       *)
RetriedOnce == \A n \in Nodes : target[n].attempts <= 1

(* What every state keeps of the rows: their types, a watched run behind     *)
(* every pending target, and at most one retry spent.                        *)
RolloutInvariant == TypeOK /\ PendingIsWatched /\ RetriedOnce

(* An automatic rollback puts back what the target last ran successfully    *)
(* before this rollout first deployed to it, through retries, failed        *)
(* deploys and restarts: never the generation the verdict just condemned.   *)
(* For the first rollout of a generation, not withdrawn, all targets local. *)
RollbackReturns ==
    LocalFleet => \A n \in Nodes : restore[n] # 0 =>
        LET R == target[n].rollout
        IN FirstOf(R) /\ ~minted[R].withdrawn => restore[n] = past[n].prior

(* With automatic authorization and nobody at the buttons, a rollout never  *)
(* hangs: again and again it is held for an operator, or every target of    *)
(* the accepted generation has settled or been fenced out, whatever the     *)
(* verdicts, however sources are accepted meanwhile, and through a crash    *)
(* between any two writes.                                                  *)
RolloutEnds ==
    []<>(\/ app.pause # "none"
         \/ liveBinding /\ \A n \in Nodes : ~Unsettled(n) \/ fencedOutOfTheQueue(target[n], app.rollout))

(* transitions.ts:3189: an acknowledgement does not "record the target as   *)
(* running the newer generation when the older materialization is what is   *)
(* deployed".                                                               *)
AckNamesWhatRuns ==
    [][\A n \in Nodes : target'[n].applied # target[n].applied => target'[n].applied = live'[n]]_vars

(* handoff.ts:697: after a re-authorization "every target is verified       *)
(* again", so OneTargetDeep holds of every rollout.                         *)
EveryTargetReverified ==
    \A R \in DOMAIN minted : Gated(R) => ~Crowded(R)

(* transitions.ts:2986: the withdrawal marker tells the automatic policy    *)
(* "this was an operator decision, not a system supersede it may re-mint".  *)
WithdrawnStays ==
    [][\A i \in DOMAIN minted' \ DOMAIN minted :
          task[Me].by # "operator" => (latestAuthorization # 0 => ~minted[latestAuthorization].withdrawn)]_vars

(* handoff.ts:1222: a pause that lands while the loop over the queue runs   *)
(* "stops the rollout at the next target".                                  *)
PauseStops == [][\A n \in Nodes : Starts(n) => app.pause = "none"]_vars
==============================================================================
