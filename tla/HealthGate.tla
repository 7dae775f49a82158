------------------------------ MODULE HealthGate ------------------------------
(***************************************************************************)
(* HealthGateService on one stack of one node: after a stack update, or a   *)
(* service update, a gate polls the stack's containers for a window and     *)
(* records passed, failed or unknown.  A poll reads its evidence, awaits,   *)
(* and judges it; updates, deliberate stops and restarts, the fleet label   *)
(* stop and a shutdown come in between.                                     *)
(*                                                                         *)
(* Updates and the operations of the stack routes hold the stack's          *)
(* operation lock (job); the fleet label stop does not (fleet).             *)
(***************************************************************************)
EXTENDS Naturals, FiniteSets, FiniteSetsExt, Functions

CONSTANTS
    Services,      \* the services of the stack
    Names,         \* the container names that may exist
    Main,          \* the names compose creates
    svc,           \* the service of each name
    OneShots,      \* services that declare restart: "no"
    MaxGates,      \* MAX_CONCURRENT_GATES
    MaxErrors,     \* the polls that may fail in a row (3)
    Scales,        \* the replica counts a service may declare
    Boots,         \* the health of a container compose has just recreated
    MaxRuns,       \* bound: runs recorded
    MaxEvents      \* bound: updates, operations and changes of the containers

ASSUME GateAssumption ==
    /\ svc \in [Names -> Services] /\ \A s \in Services: \E n \in Names: svc[n] = s
    /\ Main \subseteq Names /\ OneShots \subseteq Services
    /\ IsFiniteSet(Names) /\ Names # {} /\ {"stack", "none"} \cap Services = {}
    /\ Scales \subseteq Nat /\ Boots \subseteq {"ok", "starting"}
    /\ {MaxGates, MaxRuns, MaxEvents} \subseteq Nat /\ MaxErrors \in Nat \ {0}

VARIABLES
    box,           \* what the node would answer for each container
    events,        \* the updates, operations and changes so far
    up,            \* HealthGateService is started
    gate,          \* the runs: the row and, while it observes, the ActiveGate
    job,           \* the holder of the stack's operation lock
    token,         \* its prepare token
    fleet,         \* containers a fleet label stop has still to stop
    mute           \* AutoHealService.suppressedServices

vars == <<box, events, up, gate, job, token, fleet, mute>>

Runs == 1 .. MaxRuns
Health == {"ok", "starting", "unhealthy"}    \* "ok": healthy, or no healthcheck
Exited == {"done", "crashed"}                \* exit code zero, and any other
Facts == [state: {"running", "restarting", "gone"} \cup Exited,
          health: Health, inc: Nat, img: {"old", "new"}]
Final == {"passed", "failed", "unknown"}

Present(n, obs) == obs[n].state # "gone"
Of(s) == {n \in Names: svc[n] = s}
NoJob == [kind |-> "none"]
NoToken == [at |-> "none"]
NoRun == [scope |-> "none", status |-> "none"]
Observing == {r \in Runs: gate[r].status = "observing"}
NoNames == [n \in {} |-> 0]
Unarmed == [armed |-> FALSE, base |-> NoNames]

(***************************************************************************)
(* Verdicts.  g is a gate, obs the containers a poll read.                  *)
(***************************************************************************)
Tracked(g) == IF g.exp.armed THEN DOMAIN g.exp.base ELSE {}

isDeclaredCleanOneShot(g, n, obs) ==
    g.intent = "loaded" /\ svc[n] \in OneShots /\ obs[n].state = "done"

(* Mutant: a container that is there counts as running.                    *)
isObservedContainerSatisfiedMutant(g, n, obs) == Present(n, obs)

isObservedContainerSatisfied(g, n, obs) ==
    obs[n].state = "running" \/ isDeclaredCleanOneShot(g, n, obs)

(* Mutant: an intent that could not be read counts as one with no entry.   *)
ambiguousCleanExitMutant(g, n, obs) == FALSE

ambiguousCleanExit(g, n, obs) == g.intent = "unreadable" /\ obs[n].state = "done"

Restarts(g, n, obs) ==
    g.exp.base[n].restarts + (IF obs[n].inc # g.exp.base[n].inc THEN 1 ELSE 0)

Ended(g, n, obs) ==
    /\ obs[n].state \in Exited
    /\ Restarts(g, n, obs) = g.exp.base[n].restarts
    /\ ~ isDeclaredCleanOneShot(g, n, obs)

AmbiguousNow(g, obs) ==
    {n \in Tracked(g): Ended(g, n, obs) /\ ambiguousCleanExit(g, n, obs)}

(* Mutant: the first ambiguous exit ends the inspection of the set.        *)
FailedNowMutant(g, obs) ==
    IF AmbiguousNow(g, obs) # {} THEN {}
    ELSE {n \in Tracked(g): \/ ~ Present(n, obs) /\ n \in g.miss
                            \/ Present(n, obs) /\ (Ended(g, n, obs) \/ obs[n].health = "unhealthy")}

FailedNow(g, obs) ==
    {n \in Tracked(g) \ AmbiguousNow(g, obs):
        IF ~ Present(n, obs) THEN n \in g.miss
        ELSE \/ Ended(g, n, obs)
             \/ obs[n].health = "unhealthy" /\ ~ isDeclaredCleanOneShot(g, n, obs)
             \/ Restarts(g, n, obs) >= 2
             \/ obs[n].state = "restarting" /\ n \in g.rest}

Finish(g, status, why, blame) ==
    [g EXCEPT !.status = status, !.why = why, !.blame = blame, !.poll = "off"]

(* The accounting a poll that found nothing wrong leaves to the next one.  *)
Carry(g, obs) ==
    LET here == {n \in Tracked(g): Present(n, obs)} IN
    [g EXCEPT !.miss = Tracked(g) \ here,
              !.rest = {n \in here: obs[n].state = "restarting"} \cup (@ \ here),
              !.exp.base = [n \in Tracked(g) |->
                  IF n \in here THEN [inc |-> obs[n].inc, restarts |-> Restarts(g, n, obs)] ELSE @[n]],
              !.poll = "timer"]

Base(n, obs) == [inc |-> obs[n].inc, restarts |-> 0]
Due(g) == g.age = 2                    \* the window has passed
Graced(g) == g.age >= 1                \* EMPTY_GRACE_MS has: never later than the window

Wait(g) == [g EXCEPT !.poll = "timer"]
Arm(g, base) == [g EXCEPT !.exp = [armed |-> TRUE, base |-> base], !.poll = "timer"]

StackCycle(g, obs) ==
    LET seen == {n \in Names: Present(n, obs)}
        short == {n \in Tracked(g): ~ isObservedContainerSatisfied(g, n, obs)}
        starting == {n \in seen: obs[n].health = "starting" /\ ~ isDeclaredCleanOneShot(g, n, obs)}
    IN
    IF ~ g.exp.armed /\ seen # {} THEN Arm(g, [n \in seen |-> Base(n, obs)])
    ELSE IF ~ g.exp.armed THEN IF Graced(g) THEN Finish(g, "unknown", "empty", {}) ELSE Wait(g)
    ELSE IF FailedNow(g, obs) # {} THEN Finish(g, "failed", "evidence", FailedNow(g, obs))
    ELSE IF ~ Due(g) /\ AmbiguousNow(g, obs) # {} THEN Finish(g, "unknown", "intent", {})
    ELSE IF ~ Due(g) THEN Carry(g, obs)
    ELSE IF \E n \in short: ~ ambiguousCleanExit(g, n, obs) THEN Finish(g, "failed", "short", short)
    ELSE IF short # {} THEN Finish(g, "unknown", "intent", {})
    ELSE IF starting # {} THEN Finish(g, "unknown", "starting", {})
    ELSE Finish(g, "passed", "", {})

ServiceCycle(g, obs) ==
    LET own == {n \in Of(g.scope): Present(n, obs)}
        strays == own \ Tracked(g)
        wrong == {n \in own: g.img # "any" /\ obs[n].img # g.img}
        replicas == IF g.reps = 0 THEN {} ELSE (Tracked(g) \cap Of(g.scope)) \cup strays
        Short(set) == {n \in set: ~ isObservedContainerSatisfied(g, n, obs)}
        Certain(set) == {n \in Short(set): ~ ambiguousCleanExit(g, n, obs)}
        siblings == Tracked(g) \ Of(g.scope)
        good == Cardinality({n \in own: isObservedContainerSatisfied(g, n, obs)})
        starting == {n \in own \cup {m \in DOMAIN g.elig: Present(m, obs)}:
                        obs[n].health = "starting" /\ ~ isDeclaredCleanOneShot(g, n, obs)}
    IN
    IF ~ g.exp.armed /\ g.reps > 0 /\ own = {}
        THEN IF Graced(g) THEN Finish(g, "failed", "no replicas", Of(g.scope)) ELSE Wait(g)
    ELSE IF ~ g.exp.armed
        THEN Arm(g, [n \in own \cup DOMAIN g.elig |->
                        IF Present(n, obs) THEN Base(n, obs) ELSE [inc |-> g.elig[n], restarts |-> 0]])
    ELSE IF wrong # {} THEN Finish(g, "failed", "image", wrong)
    ELSE IF FailedNow(g, obs) # {} THEN Finish(g, "failed", "evidence", FailedNow(g, obs))
    ELSE IF \E n \in strays: obs[n].state = "running" /\ obs[n].health = "unhealthy"
        THEN Finish(g, "failed", "evidence", {n \in strays: obs[n].health = "unhealthy"})
    ELSE IF ~ Due(g) /\ AmbiguousNow(g, obs) # {} THEN Finish(g, "unknown", "intent", {})
    ELSE IF ~ Due(g) THEN Carry(g, obs)
    ELSE IF Certain(replicas) # {} THEN Finish(g, "failed", "short", Certain(replicas))
    ELSE IF Certain(siblings) # {} THEN Finish(g, "failed", "short", Certain(siblings))
    ELSE IF good < g.reps /\ Cardinality(Short(replicas)) >= g.reps - good
        THEN Finish(g, "unknown", "intent", {})
    ELSE IF good # g.reps THEN Finish(g, "failed", "count", Of(g.scope))
    ELSE IF Short(replicas) # {} \/ Short(siblings) # {} THEN Finish(g, "unknown", "intent", {})
    ELSE IF starting # {} THEN Finish(g, "unknown", "starting", {})
    ELSE Finish(g, "passed", "", {})

Cycle(g, obs) == IF g.scope = "stack" THEN StackCycle(g, obs) ELSE ServiceCycle(g, obs)

(***************************************************************************)
(* Gates                                                                    *)
(***************************************************************************)
clearSuppress(m, s) == [m EXCEPT ![s] = IF @ <= 1 THEN 0 ELSE @ - 1]

(* finalize, on every gate of a set: each releases its own suppression.    *)
(* Mutant: a gate that ends leaves its service muted.                      *)
UnmutedMutant(m, done) == m

Unmuted(m, done) ==
    [s \in Services |->
        LET owners == Cardinality({r \in done: gate[r].scope = s})
        IN  IF m[s] <= owners THEN 0 ELSE m[s] - owners]

NewGate(scope, img, reps, elig, told) ==
    [scope |-> scope, status |-> "observing", why |-> "", age |-> 0, exp |-> Unarmed,
     miss |-> {}, rest |-> {}, errs |-> 0, intent |-> "unread", elig |-> elig, img |-> img,
     reps |-> reps, poll |-> "timer", obs |-> NoNames, blame |-> {},
     told |-> told, sick |-> {}]

(* What is left of a finished gate, of which only the verdict matters.      *)
Row(status) == [NewGate("none", "any", 0, NoNames, {}) EXCEPT !.status = status, !.poll = "off"]

Ending(done, why) ==
    [r \in Runs |-> IF r \in done THEN LET g == [gate[r] EXCEPT !.status = "unknown", !.why = why]
                                   IN  IF g.poll = "read" THEN g ELSE Row("unknown")
                    ELSE gate[r]]

(* A finished gate leaves nothing but its row: its last reading is kept for *)
(* the properties until the next update.                                    *)
Rest(g) == IF g.status \in Final /\ g.poll = "off" THEN Row(g.status) ELSE g

Free == {r \in Runs: gate[r].status = "none"}
Slot == CHOOSE r \in Free: TRUE

(* The row is inserted once the gates it replaces have ended: observing,    *)
(* or unknown at the cap.                                                   *)
Insert(ended, new) ==
    [Ending(ended, "superseded") EXCEPT ![Slot] =
        IF Cardinality(Observing \ ended) < MaxGates THEN new
        ELSE Row("unknown")]

(* A gate begun for scope replaces the stack's gate and the service's own;  *)
(* one begun for the stack replaces every gate.                             *)
(* Mutant: a service's gate leaves the stack's observing.                  *)
SupersededByMutant(scope) == {r \in Observing: gate[r].scope = scope}

SupersededBy(scope) == {r \in Observing: scope = "stack" \/ gate[r].scope \in {scope, "stack"}}

Less(f, names) == Restrict(f, DOMAIN f \ names)

(* Mutant: an armed gate keeps the operated service in its expected set.   *)
detachServiceFromGateMutant(g, names) ==
    [g EXCEPT !.elig = Less(@, names), !.told = @ \cup names]

detachServiceFromGate(g, names) ==
    [g EXCEPT !.elig = Less(@, names), !.exp.base = Less(@, names),
              !.miss = @ \ names, !.rest = @ \ names, !.told = @ \cup names]

(* supersedeForContainerOp, for the services S: all of them when the        *)
(* operation is the whole stack's.                                          *)
supersedeForContainerOp(S, mu) ==
    LET names == UNION {Of(s): s \in S}
        ended == {r \in Observing: S = Services \/ gate[r].scope \in S \cup {"stack"}}
    IN  /\ gate' = [r \in Runs |->
                       IF r \in ended THEN Ending(ended, "operation")[r]
                       ELSE IF r \in Observing THEN detachServiceFromGate(gate[r], names) ELSE Rest(gate[r])]
        /\ token' = IF token.at # "ready" THEN token
                    ELSE IF S = Services \/ token.svc \in S THEN [token EXCEPT !.at = "dropped"]
                    ELSE [token EXCEPT !.elig = Less(@, names), !.told = @ \cup names]
        /\ mute' = Unmuted(mu, ended)

(***************************************************************************)
(* Polls                                                                    *)
(***************************************************************************)
(* The timer fires and the node answers.  The judgement follows an await.   *)
Poll(r) ==
    /\ r \in Observing /\ gate[r].poll = "timer"
    /\ gate' = [gate EXCEPT ![r].poll = "read", ![r].obs = box, ![r].errs = 0]
    /\ UNCHANGED <<box, events, up, job, token, fleet, mute>>

(* The read failed or timed out.                                           *)
countPollError(r) ==
    /\ r \in Observing /\ gate[r].poll = "timer"
    /\ LET g == [gate[r] EXCEPT !.errs = @ + 1] IN
       IF g.errs < MaxErrors THEN gate' = [gate EXCEPT ![r] = g] /\ mute' = mute
       ELSE gate' = [gate EXCEPT ![r] = Row("unknown")] /\ mute' = Unmuted(mute, {r})
    /\ UNCHANGED <<box, events, up, job, token, fleet>>

(* The node does not serve observations.                                   *)
Unsupported(r) ==
    /\ r \in Observing /\ gate[r].poll = "timer"
    /\ gate' = [gate EXCEPT ![r] = Row("unknown")]
    /\ mute' = Unmuted(mute, {r})
    /\ UNCHANGED <<box, events, up, job, token, fleet>>

Sick(g, obs) ==
    IF ~ g.exp.armed THEN {}
    ELSE {n \in Tracked(g) \cup Of(g.scope): obs[n].state = "running" /\ obs[n].health = "unhealthy"}

(* Mutant: the gate is not looked at again after the awaits.               *)
JudgeMutant(r, age) ==
    /\ gate[r].status # "none" /\ gate[r].poll = "read" /\ age >= gate[r].age
    /\ \E intent \in {"loaded", "unreadable"}:
          /\ gate[r].intent \in {"unread", intent}
          /\ gate' = [gate EXCEPT ![r] = Cycle([gate[r] EXCEPT !.intent = intent, !.age = age], gate[r].obs)]
    /\ UNCHANGED <<box, events, up, job, token, fleet, mute>>

(* A gate that ended during the awaits is left alone.  The declared restart *)
(* intent is read once, by the gate's first judged poll.  age is the time    *)
(* since the gate began: past EMPTY_GRACE_MS from 1, past the window at 2.   *)
(* A gate that goes on has no more use for the grace.                       *)
Judge(r, age) ==
    /\ gate[r].status # "none" /\ gate[r].poll = "read" /\ age >= gate[r].age
    /\ IF r \notin Observing
       THEN age = gate[r].age /\ gate' = [gate EXCEPT ![r] = Row(@.status)] /\ mute' = mute
       ELSE \E intent \in {"loaded", "unreadable"}:
            LET obs == gate[r].obs
                g == Cycle([gate[r] EXCEPT !.intent = intent, !.age = age, !.sick = @ \cup Sick(gate[r], obs)], obs)
            IN  /\ gate[r].intent \in {"unread", intent}
                /\ gate' = [gate EXCEPT ![r] = IF g.status = "observing"
                                               THEN [g EXCEPT !.obs = NoNames, !.age = IF Due(g) THEN 2 ELSE 0] ELSE g]
                /\ mute' = IF g.status = "observing" THEN mute ELSE Unmuted(mute, {r})
    /\ UNCHANGED <<box, events, up, job, token, fleet>>

(***************************************************************************)
(* Updates and operations, under the stack's operation lock                 *)
(***************************************************************************)
Recreated(n, health) == [state |-> "running", health |-> health, inc |-> box[n].inc + 1, img |-> "new"]
Removed(n) == [box[n] EXCEPT !.state = "gone", !.health = "ok"]
Stopped(n, state) == IF box[n].state \in {"running", "restarting"} THEN [box[n] EXCEPT !.state = state] ELSE box[n]

Event == events < MaxEvents /\ events' = events + 1

(* deployStack and updateStack end the gates before their compose up.       *)
UpdateStack ==
    /\ Event
    /\ job = NoJob /\ Free # {} /\ up
    /\ supersedeForContainerOp(Services, mute)
    /\ job' = [kind |-> "stack", at |-> "up"]
    /\ UNCHANGED <<box, up, fleet>>

StackUpLands ==
    /\ job.kind = "stack" /\ job.at = "up"
    /\ \E health \in Boots:
          box' = [n \in Names |-> IF n \in Main THEN Recreated(n, health) ELSE Removed(n)]
    /\ job' = [job EXCEPT !.at = "landed"]
    /\ UNCHANGED <<events, up, gate, token, fleet, mute>>

beginStack ==
    /\ job.kind = "stack" /\ job.at = "landed" /\ up
    /\ gate' = Insert(SupersededBy("stack"), NewGate("stack", "any", 0, NoNames, {}))
    /\ mute' = Unmuted(mute, SupersededBy("stack"))
    /\ job' = NoJob
    /\ UNCHANGED <<box, events, up, token, fleet>>

(* The up failed, gating is disabled, or the service is stopped.            *)
StackUngated ==
    /\ job.kind = "stack" /\ job' = NoJob
    /\ UNCHANGED <<box, events, up, gate, token, fleet, mute>>

isRegressionEligibleSibling(n) == box[n].state = "running" /\ box[n].health = "ok"

(* The orchestrator mutes Auto-Heal, and prepare reads its snapshot.        *)
PrepareReads(s, reps) ==
    /\ Event
    /\ job = NoJob /\ Free # {} /\ up
    /\ job' = [kind |-> "service", at |-> "preparing"]
    /\ mute' = [mute EXCEPT ![s] = @ + 1]
    /\ token' = [at |-> "reading", svc |-> s, reps |-> reps, told |-> {},
                 elig |-> [n \in {n \in Names \ Of(s): isRegressionEligibleSibling(n)} |-> box[n].inc]]
    /\ gate' = [r \in Runs |-> Rest(gate[r])]
    /\ UNCHANGED <<box, up, fleet>>

PrepareStores ==
    /\ job.kind = "service" /\ job.at = "preparing"
    /\ token' = [token EXCEPT !.at = "ready"]
    /\ job' = [job EXCEPT !.at = "prepared"]
    /\ UNCHANGED <<box, events, up, gate, fleet, mute>>

(* compose up --force-recreate of the one service.                         *)
ServiceUpRemoves ==
    /\ job.kind = "service" /\ job.at = "prepared"
    /\ box' = [n \in Names |-> IF svc[n] = token.svc THEN Removed(n) ELSE box[n]]
    /\ job' = [job EXCEPT !.at = "recreating"]
    /\ UNCHANGED <<events, up, gate, token, fleet, mute>>

ServiceUpLands ==
    /\ job.kind = "service" /\ job.at = "recreating"
    /\ \E health \in Boots:
          box' = [n \in Names |-> IF n \in Main /\ svc[n] = token.svc /\ token.reps > 0
                                  THEN Recreated(n, health) ELSE box[n]]
    /\ job' = [job EXCEPT !.at = "landed"]
    /\ UNCHANGED <<events, up, gate, token, fleet, mute>>

(* The finally of an update that opened no observing gate.                  *)
Unwatched(m) ==
    /\ mute' = clearSuppress(m, token.svc)
    /\ job' = NoJob /\ token' = NoToken

(* The update failed, its replicas diverge, its snapshot was not read, its  *)
(* token was dropped, gating is disabled, or the service is stopped.        *)
ServiceUngated ==
    /\ job.kind = "service" /\ job.at # "preparing"
    /\ Unwatched(mute)
    /\ UNCHANGED <<box, events, up, gate, fleet>>

Running(s) == {n \in Of(s): box[n].state = "running"}
Images(s) == {box[n].img: n \in Running(s)}

beginPrepared ==
    LET s == token.svc IN
    /\ job.kind = "service" /\ job.at = "landed"
    /\ up /\ token.at = "ready"
    /\ token.reps > 0 => Cardinality(Running(s)) = token.reps /\ Cardinality(Images(s)) = 1
    /\ LET ended == SupersededBy(s)
           img == IF token.reps = 0 THEN "any" ELSE CHOOSE i \in Images(s): TRUE
       IN  /\ gate' = Insert(ended, NewGate(s, img, token.reps, token.elig, token.told))
           /\ IF gate'[Slot].status = "observing"
              THEN mute' = Unmuted(mute, ended) /\ job' = NoJob /\ token' = NoToken
              ELSE Unwatched(Unmuted(mute, ended))
    /\ UNCHANGED <<box, events, up, fleet>>

(* Something looks at the containers, or soon will.                        *)
Busy == up /\ (Observing # {} \/ job # NoJob)

(* A stop or restart of one service or of the stack, announced to the gates *)
(* before the containers are touched.                                      *)
OpBegins(S, act) ==
    /\ Event
    /\ job = NoJob /\ Busy
    /\ \E n \in Names: svc[n] \in S /\ box[n].state # "gone"
    /\ supersedeForContainerOp(S, mute)
    /\ job' = [kind |-> "op", svcs |-> S, act |-> act]
    /\ UNCHANGED <<box, up, fleet>>

OpLands ==
    /\ job.kind = "op"
    /\ LET names == {n \in Names: svc[n] \in job.svcs /\ box[n].state # "gone"} IN
       /\ \E state \in Exited:
             box' = [n \in Names |->
                        IF n \notin names THEN box[n]
                        ELSE IF job.act = "stop" THEN Stopped(n, state)
                        ELSE [box[n] EXCEPT !.state = "running", !.health = "ok", !.inc = @ + 1]]
    /\ job' = NoJob
    /\ UNCHANGED <<events, up, gate, token, fleet, mute>>

(***************************************************************************)
(* The fleet label stop, the containers themselves, and the shutdown        *)
(***************************************************************************)
FleetStop ==
    /\ Event
    /\ fleet = {} /\ Busy
    /\ fleet' = {<<n, box[n].inc>>: n \in {n \in Names: box[n].state # "gone"}}
    /\ fleet' # {}
    /\ supersedeForContainerOp(Services, mute)
    /\ UNCHANGED <<box, up, job>>

(* Each container stops in its own time; one replaced meanwhile is gone.    *)
FleetStops(n, inc) ==
    /\ <<n, inc>> \in fleet
    /\ fleet' = fleet \ {<<n, inc>>}
    /\ IF box[n].inc = inc
       THEN \E state \in Exited: box' = [box EXCEPT ![n] = Stopped(n, state)]
       ELSE UNCHANGED box
    /\ UNCHANGED <<events, up, gate, job, token, mute>>

(* A container exits, restarts, is removed or appears, or its health moves. *)
Changes(n, to) ==
    /\ Event
    /\ Busy
    /\ \/ to \in Health /\ box[n].state = "running" /\ box[n].health # to
          /\ box' = [box EXCEPT ![n].health = to]
       \/ to \in Exited \cup {"restarting"} /\ box[n].state \in {"running", "restarting"} \ {to}
          /\ box' = [box EXCEPT ![n].state = to]
       \/ to = "running" /\ box[n].state # "gone"
          /\ \E health \in {"ok", "starting"}:
                box' = [box EXCEPT ![n] = [box[n] EXCEPT !.state = to, !.inc = @ + 1, !.health = health]]
       \/ to = "running" /\ box[n].state = "gone"
          /\ \E i \in {"old", "new"}:
                box' = [box EXCEPT ![n] = [state |-> to, health |-> "ok", inc |-> @.inc + 1, img |-> i]]
       \/ to = "gone" /\ box[n].state # "gone" /\ box' = [box EXCEPT ![n] = Removed(n)]
    /\ UNCHANGED <<up, gate, job, token, fleet, mute>>

(* The process exits: nothing that was under way resumes.                   *)
stop ==
    /\ Busy /\ up' = FALSE
    /\ gate' = [r \in Runs |-> IF gate[r].status = "none" THEN NoRun
                             ELSE Row(IF r \in Observing THEN "unknown" ELSE gate[r].status)]
    /\ mute' = [s \in Services |-> 0]
    /\ job' = NoJob /\ token' = NoToken /\ fleet' = {}
    /\ UNCHANGED <<box, events>>

Init ==
    /\ box = [n \in Names |->
                 [state |-> IF n \in Main THEN "running" ELSE "gone", health |-> "ok", inc |-> 0, img |-> "old"]]
    /\ events = 0 /\ up = TRUE
    /\ gate = [r \in Runs |-> NoRun]
    /\ job = NoJob /\ token = NoToken /\ fleet = {}
    /\ mute = [s \in Services |-> 0]

Sets == {{s}: s \in Services} \cup {Services}

Next ==
    \/ \E r \in Runs: Poll(r) \/ countPollError(r) \/ Unsupported(r)
    \/ \E r \in Runs, age \in 0 .. 2: Judge(r, age)
    \/ UpdateStack \/ StackUpLands \/ beginStack \/ StackUngated
    \/ \E s \in Services, reps \in Scales: PrepareReads(s, reps)
    \/ PrepareStores \/ ServiceUpRemoves \/ ServiceUpLands \/ beginPrepared \/ ServiceUngated
    \/ \E S \in Sets, act \in {"stop", "restart"}: OpBegins(S, act)
    \/ OpLands \/ FleetStop \/ stop
    \/ \E p \in fleet: FleetStops(p[1], p[2])
    \/ \E n \in Names, to \in {"ok", "unhealthy"} \cup Exited \cup {"restarting", "running", "gone"}: Changes(n, to)

Spec == Init /\ [][Next]_vars

(***************************************************************************)
(* Properties                                                               *)
(***************************************************************************)
(* The runs whose last reading is still at hand. *)
Judged == {r \in Runs: gate[r].status \in Final /\ gate[r].obs # NoNames}

Reasons == {"", "empty", "intent", "evidence", "short", "starting", "image", "no replicas",
            "count", "superseded", "operation"}
IsGate(g) ==
    /\ DOMAIN g.elig \cup DOMAIN g.exp.base \subseteq Names
    /\ g \in [scope: Services \cup {"stack", "none"}, status: Final \cup {"observing"},
              why: Reasons, age: 0 .. 2, exp: [armed: BOOLEAN, base:
              [DOMAIN g.exp.base -> [inc: Nat, restarts: Nat]]], miss: SUBSET Names,
              rest: SUBSET Names, errs: Nat, intent: {"unread", "loaded", "unreadable"},
              elig: [DOMAIN g.elig -> Nat], img: {"any", "old", "new"}, reps: Nat,
              poll: {"timer", "read", "off"}, obs: [Names -> Facts] \cup {NoNames},
              blame: SUBSET Names, told: SUBSET Names, sick: SUBSET Names]
IsToken(k) ==
    /\ DOMAIN k.elig \subseteq Names
    /\ k \in [at: {"reading", "ready", "dropped"}, svc: Services, reps: Nat,
              told: SUBSET Names, elig: [DOMAIN k.elig -> Nat]]
Jobs == [kind: {"stack"}, at: {"up", "landed"}]
        \cup [kind: {"service"}, at: {"preparing", "prepared", "recreating", "landed"}]
        \cup [kind: {"op"}, svcs: SUBSET Services, act: {"stop", "restart"}]

(* The containers, the runs, the lock's holder and the suppressions are     *)
(* what the code keeps.                                                     *)
TypeOK ==
    /\ box \in [Names -> Facts] /\ events \in Nat /\ up \in BOOLEAN
    /\ gate = [r \in Runs |-> gate[r]] /\ \A r \in Runs: gate[r] = NoRun \/ IsGate(gate[r])
    /\ job = NoJob \/ job \in Jobs
    /\ token = NoToken \/ IsToken(token)
    /\ fleet \subseteq Names \X Nat
    /\ mute \in [Services -> Nat]

(* What a gate that observes expects: only containers no operation was       *)
(* announced for, and of its service those it was begun with; it goes on     *)
(* only while nothing it read was evidence against the update.              *)
Expecting(g) ==
    /\ g.scope # "none" /\ g.why = "" /\ g.errs < MaxErrors
    /\ g.miss \cup g.rest \subseteq Tracked(g)
    /\ ~ g.exp.armed => DOMAIN g.exp.base = {}
    /\ g.scope # "stack" => Tracked(g) \subseteq Of(g.scope) \cup DOMAIN g.elig
    /\ g.scope = "stack" => g.told = {}
    /\ g.told \cap (Tracked(g) \cup DOMAIN g.elig \cup Of(g.scope)) = {}
    /\ \A n \in Tracked(g): g.exp.base[n].restarts <= 1

(* It holds a reading between its timer and its judgement only.              *)
Watching(g) ==
    /\ Expecting(g) /\ g.sick = {}
    /\ g.poll = IF g.obs = NoNames THEN "timer" ELSE "read"

(* An update keeps a row to insert and, of a service, its token, which      *)
(* expects no container an operation was announced for.                     *)
Prepared ==
    /\ job.kind = "service" <=> token # NoToken
    /\ job.kind \in {"stack", "service"} => Free # {}
    /\ token # NoToken => token.told \cap (DOMAIN token.elig \cup Of(token.svc)) = {}

(* The gates that observe at once watch different services, and a stack's   *)
(* gate observes alone: supersedeGatesForStack ends the others before a     *)
(* gate begins, whatever operation came between its prepare and its begin.  *)
StackGateAlone ==
    \A r, q \in Observing: r # q => gate[r].scope # gate[q].scope /\ gate[r].scope # "stack"

(* The rows fit each other: their types, what a gate and an update keep,    *)
(* who observes beside whom, and the cap.                                   *)
GateInvariant ==
    /\ TypeOK /\ Prepared /\ StackGateAlone
    /\ \A r \in Observing: Watching(gate[r])
    /\ Cardinality(Observing) <= MaxGates

Good(g, n) == \/ g.obs[n].state = "running" /\ g.obs[n].health = "ok"
              \/ g.obs[n].state = "done" /\ svc[n] \in OneShots /\ g.intent = "loaded"

(* What a service scaled to zero leaves behind is no evidence. *)
LeftBehind(g, n) == svc[n] = g.scope /\ g.reps = 0

Earned(g) ==
    /\ Due(g) /\ g.sick = {}
    /\ \A n \in Tracked(g): Good(g, n) \/ LeftBehind(g, n)
    /\ g.scope # "stack" => Cardinality({n \in Of(g.scope): Good(g, n)}) = g.reps

(* A pass is earned: the last reading was judged after the window, and      *)
(* showed every container the gate tracks running or, by the declared       *)
(* intent, a completed one-shot, none with a healthcheck still starting; no *)
(* reading the gate judged once armed showed one unhealthy; and as many     *)
(* replicas as the service declares were satisfied.                         *)
PassIsEarned ==
    \A r \in Judged: gate[r].status = "passed" => Earned(gate[r])

(* More than a clean exit: another state, or a restart since the last poll. *)
Tells(g, n) ==
    g.obs[n].state # "done" \/ (n \in Tracked(g) /\ g.obs[n].inc # g.exp.base[n].inc)

Definite(g) ==
    /\ g.blame # {}
    /\ g.why \in {"evidence", "short"} /\ g.intent = "unreadable" => \E n \in g.blame: Tells(g, n)

(* A failure names definite evidence: when the declared intent could not be *)
(* read, a container that exited cleanly is not enough, however many of     *)
(* them there are, for a rollback policy acts on the verdict.               *)
FailIsDefinite ==
    \A r \in Judged: gate[r].status = "failed" => Definite(gate[r])

Undecided(g) ==
    \A n \in Tracked(g):
        /\ ~ (g.obs[n].state = "running" /\ g.obs[n].health = "unhealthy")
        /\ \/ LeftBehind(g, n)
           \/ /\ g.obs[n].state = "crashed" => ~ Due(g) /\ g.obs[n].inc # g.exp.base[n].inc
              /\ Due(g) => g.obs[n].state \in {"running", "done"}

(* A definite failure outranks an ambiguity, whichever container Docker     *)
(* listed first: a run that ended unknown for want of the declared intent   *)
(* was not shown an unhealthy container it tracks, nor a crashed one        *)
(* (unless, before the end of the window, it restarted since the last       *)
(* poll), nor, at the end of the window, one missing or restarting (a       *)
(* service scaled to zero has no evidence to give).                         *)
AmbiguityYields ==
    \A r \in Judged: gate[r].status = "unknown" /\ gate[r].why = "intent" => Undecided(gate[r])

(* An operation announced to a gate, or to the prepare token it began from, *)
(* never fails it: a failed run blames some container that no stop or       *)
(* restart announced while the gate or its token existed was to touch.      *)
ToldIsNotBlamed ==
    \A r \in Judged: gate[r].status = "failed" => ~ (gate[r].blame \subseteq gate[r].told)

(* Auto-Heal is muted for a service exactly as often as an update of it or  *)
(* a gate on it is there to unmute it: the orchestrator's finally and       *)
(* finalize between them release every suppression once, at the cap, on a   *)
(* dropped token and on a superseded gate too.                              *)
MuteIsOwned ==
    up => \A s \in Services:
        mute[s] = Cardinality({r \in Observing: gate[r].scope = s})
                  + (IF job.kind = "service" /\ token.svc = s THEN 1 ELSE 0)

(* A verdict stands: a poll that was inside its await when its gate was     *)
(* superseded, stopped or ended never writes another.                       *)
VerdictStands ==
    [][\A r \in Runs: gate[r].status \in Final =>
          gate'[r].status = gate[r].status]_vars
=============================================================================
