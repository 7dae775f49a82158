--------------------------- MODULE HealthGateProofs ---------------------------
(***************************************************************************)
(* Proofs about HealthGate, for any number of services, containers and      *)
(* runs.                                                                   *)
(***************************************************************************)
EXTENDS HealthGate, TLAPS, FiniteSetTheorems

(* Zenon is the default; a leaf that it cannot do names the SMT solver.    *)
USE ZenonT(30)

(* h is g finished: its scope, evidence and accounting are still g's.      *)
Finished(g, h, status, why, blame) ==
    /\ IsGate(h)
    /\ h.status = status /\ h.why = why /\ h.blame = blame /\ h.poll = "off"
    /\ h.scope = g.scope /\ h.age = g.age /\ h.exp = g.exp /\ h.intent = g.intent
    /\ h.reps = g.reps /\ h.obs = g.obs /\ h.told = g.told /\ h.sick = g.sick

(* A verdict changes what finalize writes and nothing else.                 *)
LEMMA FinishIs ==
    ASSUME NEW g, IsGate(g), NEW status \in Final, NEW why \in Reasons, NEW blame \in SUBSET Names
    PROVE  Finished(g, Finish(g, status, why, blame), status, why, blame)
  BY ZenonT(60) DEF Finish, IsGate, Finished

(* A gate that has just begun.                                             *)
Begun(g, scope, elig, told) ==
    /\ IsGate(g) /\ g.status = "observing" /\ g.scope = scope /\ g.elig = elig /\ g.told = told
    /\ g.obs = NoNames /\ g.why = "" /\ g.errs = 0 /\ g.poll = "timer" /\ g.miss = {} /\ g.rest = {}
    /\ g.sick = {} /\ g.exp = Unarmed

(* The gate beginStack or beginPrepared creates has just begun.             *)
LEMMA NewGateIs ==
    ASSUME NEW scope \in Services \cup {"stack", "none"}, NEW img \in {"any", "old", "new"},
           NEW reps \in Nat, NEW told \in SUBSET Names,
           NEW elig, DOMAIN elig \subseteq Names, elig \in [DOMAIN elig -> Nat]
    PROVE  Begun(NewGate(scope, img, reps, elig, told), scope, elig, told)
  BY SMTT(30), GateAssumption DEF NewGate, Unarmed, NoNames, IsGate, Reasons, Final, Begun

(* The row left of a finished run holds its verdict and no reading.         *)
LEMMA RowIs ==
    ASSUME NEW status \in Final
    PROVE  /\ IsGate(Row(status)) /\ Row(status).status = status
           /\ Row(status).obs = NoNames /\ Row(status).poll = "off"
  <1> DEFINE g == NewGate("none", "any", 0, NoNames, {})
  <1>1. DOMAIN NoNames \subseteq Names /\ NoNames \in [DOMAIN NoNames -> Nat]
    BY DEF NoNames
  <1>2. Begun(g, "none", NoNames, {})
    BY <1>1, NewGateIs
  <1> HIDE DEF g
  <1>3. /\ IsGate([g EXCEPT !.status = status, !.poll = "off"])
        /\ [g EXCEPT !.status = status, !.poll = "off"].status = status
        /\ [g EXCEPT !.status = status, !.poll = "off"].obs = NoNames
        /\ [g EXCEPT !.status = status, !.poll = "off"].poll = "off"
    BY ZenonT(60), <1>2 DEF IsGate, Begun
  <1> QED
    BY <1>3 DEF Row, g

(* h is g without what it expected of the containers names.                *)
Detached(g, h, names) ==
    /\ IsGate(h)
    /\ h.status = g.status /\ h.scope = g.scope /\ h.why = g.why /\ h.errs = g.errs
    /\ h.poll = g.poll /\ h.obs = g.obs /\ h.sick = g.sick
    /\ h.miss = g.miss \ names /\ h.rest = g.rest \ names /\ h.told = g.told \cup names
    /\ h.elig = Less(g.elig, names)
    /\ h.exp.armed = g.exp.armed /\ h.exp.base = Less(g.exp.base, names)

(* What detachServiceFromGate takes from a gate and what it leaves.         *)
LEMMA DetachIs ==
    ASSUME NEW g, IsGate(g), NEW names \in SUBSET Names
    PROVE  Detached(g, detachServiceFromGate(g, names), names)
  BY ZenonT(60) DEF detachServiceFromGate, Less, Restrict, IsGate, Detached

(* The facts about the constants, one by one.                              *)
LEMMA Constants ==
    /\ \A n \in Names: svc[n] \in Services
    /\ \A s \in Services: Of(s) # {} /\ Of(s) \subseteq Names
    /\ Of("stack") = {} /\ "stack" \notin Services /\ "none" \notin Services
    /\ MaxErrors \in Nat /\ 0 < MaxErrors
  BY SMTT(30), GateAssumption DEF Of

(* A gate whose reading obs is being judged.                               *)
Judging(g, obs) ==
    /\ IsGate(g) /\ Expecting(g) /\ g.status = "observing"
    /\ obs \in [Names -> Facts] /\ g.obs = obs
    /\ g.intent \in {"loaded", "unreadable"} /\ g.sick = Sick(g, obs)

(* What a judgement leaves: a gate that goes on, or a verdict it can       *)
(* answer for.                                                             *)
Sound(h) ==
    /\ IsGate(h)
    /\ h.status = "observing" => Expecting(h) /\ h.sick = {} /\ h.poll = "timer"
    /\ h.status = "passed" => Earned(h)
    /\ h.status = "failed" => Definite(h) /\ ~ (h.blame \subseteq h.told)
    /\ h.status = "unknown" /\ h.why = "intent" => Undecided(h)

(* The containers a gate tracks have a baseline each.                       *)
LEMMA TrackedIs ==
    ASSUME NEW g, IsGate(g), Expecting(g)
    PROVE  /\ Tracked(g) = DOMAIN g.exp.base /\ Tracked(g) \subseteq Names
           /\ \A n \in Tracked(g): g.exp.base[n] \in [inc: Nat, restarts: 0 .. 1]
  <1>1. Tracked(g) = DOMAIN g.exp.base /\ Tracked(g) \subseteq Names
    BY DEF Tracked, IsGate, Expecting
  <1>2. \A n \in DOMAIN g.exp.base: g.exp.base[n] \in [inc: Nat, restarts: Nat]
    BY DEF IsGate
  <1>3. \A n \in Tracked(g): g.exp.base[n].restarts <= 1
    BY DEF Expecting
  <1> QED
    BY SMTT(30), <1>1, <1>2, <1>3

(* A gate that has read nothing to judge waits for its next poll.          *)
LEMMA WaitIs ==
    ASSUME NEW g, NEW obs, Judging(g, obs), ~ g.exp.armed
    PROVE  Sound(Wait(g))
  <1>1. /\ IsGate(Wait(g)) /\ Wait(g).status = "observing" /\ Wait(g).poll = "timer"
        /\ Wait(g).sick = g.sick /\ Wait(g).scope = g.scope /\ Wait(g).why = g.why
        /\ Wait(g).errs = g.errs /\ Wait(g).miss = g.miss /\ Wait(g).rest = g.rest
        /\ Wait(g).exp = g.exp /\ Wait(g).elig = g.elig /\ Wait(g).told = g.told
    BY SMTT(30) DEF Wait, IsGate, Judging
  <1>2. g.sick = {}
    BY DEF Judging, Sick
  <1>3. Expecting(Wait(g))
    BY <1>1 DEF Judging, Expecting, Tracked
  <1> QED
    BY <1>1, <1>2, <1>3 DEF Sound

(* A gate is armed with the containers it may expect.                      *)
LEMMA ArmIs ==
    ASSUME NEW g, NEW obs, Judging(g, obs), ~ g.exp.armed,
           NEW base, DOMAIN base \subseteq Names,
           base \in [DOMAIN base -> [inc: Nat, restarts: {0}]],
           g.scope # "stack" => DOMAIN base \subseteq Of(g.scope) \cup DOMAIN g.elig
    PROVE  Sound(Arm(g, base))
  <1> DEFINE x == [armed |-> TRUE, base |-> base]
             h == [g EXCEPT !.exp = x, !.poll = "timer"]
  <1>1. base \in [DOMAIN base -> [inc: Nat, restarts: Nat]]
    BY SMTT(30)
  <1>2. x.armed = TRUE /\ x.base = base /\ x \in [armed: BOOLEAN, base: [DOMAIN x.base -> [inc: Nat, restarts: Nat]]]
    BY <1>1
  <1> HIDE DEF x
  <1>3. /\ IsGate(h) /\ h.status = "observing" /\ h.poll = "timer"
        /\ h.sick = g.sick /\ h.scope = g.scope /\ h.why = g.why /\ h.errs = g.errs
        /\ h.miss = g.miss /\ h.rest = g.rest /\ h.exp = x
        /\ h.elig = g.elig /\ h.told = g.told
    BY ZenonT(60), <1>2 DEF IsGate, Judging
  <1>4. g.sick = {} /\ g.miss = {} /\ g.rest = {}
    BY DEF Judging, Sick, Expecting, Tracked
  <1>5. Tracked(h) = DOMAIN base /\ \A n \in DOMAIN base: h.exp.base[n].restarts <= 1
    BY SMTT(30), <1>2, <1>3 DEF Tracked
  <1> HIDE DEF h
  <1>6. h.told \cap (Tracked(h) \cup DOMAIN h.elig \cup Of(h.scope)) = {}
    BY <1>3, <1>5 DEF Judging, Expecting
  <1>7. Expecting(h)
    BY ZenonT(60), <1>2, <1>3, <1>4, <1>5, <1>6 DEF Judging, Expecting
  <1> QED
    BY <1>3, <1>4, <1>7 DEF Sound, Arm, h, x

(* A failure that blames some container the gate expects or watches over.  *)
LEMMA BlameIs ==
    ASSUME NEW g, NEW obs, Judging(g, obs), NEW why \in Reasons,
           NEW blame \in SUBSET (Tracked(g) \cup Of(g.scope)), blame # {},
           why \in {"evidence", "short"} /\ g.intent = "unreadable" => \E n \in blame: Tells(g, n)
    PROVE  Sound(Finish(g, "failed", why, blame))
  <1> DEFINE h == Finish(g, "failed", why, blame)
  <1>1. blame \in SUBSET Names
    BY TrackedIs DEF Judging, Of
  <1>2. Finished(g, h, "failed", why, blame)
    BY <1>1, FinishIs DEF Judging, Final
  <1> HIDE DEF h
  <1>3. Tracked(h) = Tracked(g)
    BY <1>2 DEF Finished, Tracked
  <1>4. Definite(h)
    BY <1>2, <1>3 DEF Definite, Finished, Tells
  <1>5. ~ (h.blame \subseteq h.told)
    BY <1>2 DEF Finished, Judging, Expecting
  <1> QED
    BY <1>2, <1>4, <1>5 DEF Sound, Finished, h

(* A verdict that only says what could not be told.                        *)
LEMMA UnknownIs ==
    ASSUME NEW g, NEW obs, Judging(g, obs), NEW why \in {"empty", "starting"}
    PROVE  Sound(Finish(g, "unknown", why, {}))
  <1>1. Finished(g, Finish(g, "unknown", why, {}), "unknown", why, {})
    BY FinishIs DEF Judging, Final, Reasons
  <1> QED
    BY <1>1 DEF Sound, Finished

(* The evidence of a poll, container by container.                         *)
LEMMA FailedNowIs ==
    ASSUME NEW g, NEW obs, Judging(g, obs), FailedNow(g, obs) # {}
    PROVE  Sound(Finish(g, "failed", "evidence", FailedNow(g, obs)))
  <1> DEFINE F == FailedNow(g, obs)
  <1>0. F # {}
    OBVIOUS
  <1> HIDE DEF F
  <1>1. PICK n: n \in F
    BY <1>0
  <1>2. n \in Tracked(g) /\ n \notin AmbiguousNow(g, obs) /\ n \in Names
    BY <1>1, TrackedIs DEF F, FailedNow, Judging
  <1>3. ASSUME g.intent = "unreadable", obs[n].state = "done", obs[n].inc = g.exp.base[n].inc
        PROVE  FALSE
    <2>1. g.exp.base[n].restarts \in Nat /\ g.exp.base[n].restarts <= 1
      BY SMTT(30), <1>2, TrackedIs DEF Judging
    <2>2. Restarts(g, n, obs) = g.exp.base[n].restarts
      BY SMTT(30), <1>3, <2>1 DEF Restarts
    <2>3. ~ isDeclaredCleanOneShot(g, n, obs)
      BY <1>3 DEF isDeclaredCleanOneShot
    <2>4. Ended(g, n, obs) /\ ambiguousCleanExit(g, n, obs)
      BY <1>3, <2>2, <2>3 DEF Ended, ambiguousCleanExit, Exited
    <2> QED
      BY <1>2, <2>4 DEF AmbiguousNow
  <1>4. F \in SUBSET (Tracked(g) \cup Of(g.scope))
    BY DEF F, FailedNow
  <1>5. g.intent = "unreadable" => Tells(g, n)
    BY <1>2, <1>3 DEF Tells, Judging
  <1>6. "evidence" \in Reasons
    BY DEF Reasons
  <1> QED
    <2>1. Sound(Finish(g, "failed", "evidence", F))
      BY <1>0, <1>1, <1>4, <1>5, <1>6, BlameIs
    <2> QED
      BY <2>1 DEF F

(* A poll that found no evidence.                                          *)
LEMMA NothingFailed ==
    ASSUME NEW g, NEW obs, Judging(g, obs), FailedNow(g, obs) = {}, NEW n \in Tracked(g)
    PROVE  /\ ~ (obs[n].state = "running" /\ obs[n].health = "unhealthy")
           /\ obs[n].state = "crashed" => obs[n].inc # g.exp.base[n].inc
           /\ n \notin AmbiguousNow(g, obs) /\ Present(n, obs) => Restarts(g, n, obs) < 2
  <1>1. n \in Names /\ g.exp.base[n].restarts \in Nat /\ Restarts(g, n, obs) \in Nat
    BY SMTT(30), TrackedIs DEF Judging, Restarts
  <1>2. n \notin AmbiguousNow(g, obs) /\ Present(n, obs) =>
            /\ ~ Ended(g, n, obs)
            /\ obs[n].health = "unhealthy" => isDeclaredCleanOneShot(g, n, obs)
            /\ ~ (Restarts(g, n, obs) >= 2)
    BY DEF FailedNow
  <1>3. obs[n].state # "done" => n \notin AmbiguousNow(g, obs)
    BY DEF AmbiguousNow, ambiguousCleanExit
  <1>4. obs[n].state # "done" => ~ isDeclaredCleanOneShot(g, n, obs)
    BY DEF isDeclaredCleanOneShot
  <1>5. obs[n].inc = g.exp.base[n].inc => Restarts(g, n, obs) = g.exp.base[n].restarts
    BY SMTT(30), <1>1 DEF Restarts
  <1> QED
    BY SMTT(30), <1>1, <1>2, <1>3, <1>4, <1>5 DEF Present, Ended, Exited

(* A gate that goes on keeps its accounting.                               *)
LEMMA CarryIs ==
    ASSUME NEW g, NEW obs, Judging(g, obs), g.exp.armed, g.sick = {},
           FailedNow(g, obs) = {}, AmbiguousNow(g, obs) = {}
    PROVE  Sound(Carry(g, obs))
  <1> DEFINE here == {n \in Tracked(g): Present(n, obs)}
             base == [n \in Tracked(g) |->
                        IF n \in here THEN [inc |-> obs[n].inc, restarts |-> Restarts(g, n, obs)]
                        ELSE g.exp.base[n]]
             rest == {n \in here: obs[n].state = "restarting"} \cup (g.rest \ here)
             h == [g EXCEPT !.miss = Tracked(g) \ here, !.rest = rest, !.exp.base = base,
                            !.poll = "timer"]
  <1>1. Tracked(g) = DOMAIN g.exp.base /\ Tracked(g) \subseteq Names
    BY TrackedIs DEF Judging
  <1>2. \A n \in Tracked(g): g.exp.base[n] \in [inc: Nat, restarts: 0 .. 1]
    BY TrackedIs DEF Judging
  <1>3. \A n \in here: obs[n].inc \in Nat /\ Restarts(g, n, obs) \in 0 .. 1
    <2> SUFFICES ASSUME NEW n \in here
                 PROVE  obs[n].inc \in Nat /\ Restarts(g, n, obs) \in 0 .. 1
      OBVIOUS
    <2>1. n \in Tracked(g) /\ n \in Names /\ Present(n, obs)
      BY <1>1
    <2>2. Restarts(g, n, obs) < 2
      BY <2>1, NothingFailed
    <2>3. g.exp.base[n].restarts \in Nat
      BY SMTT(30), <1>2, <2>1
    <2>4. Restarts(g, n, obs) \in Nat
      BY SMTT(30), <2>3 DEF Restarts
    <2> QED
      BY SMTT(30), <2>1, <2>2, <2>4 DEF Judging, Facts
  <1>4. base \in [Tracked(g) -> [inc: Nat, restarts: 0 .. 1]]
    BY <1>2, <1>3
  <1>5. base \in [DOMAIN base -> [inc: Nat, restarts: Nat]] /\ DOMAIN base = DOMAIN g.exp.base
    BY SMTT(30), <1>1, <1>4
  <1>6. rest \subseteq Tracked(g)
    BY DEF Judging, Expecting
  <1>7. Carry(g, obs) = h
    BY DEF Carry
  <1> HIDE DEF base, rest, here
  <1>8. /\ IsGate(h) /\ h.status = "observing" /\ h.poll = "timer" /\ h.sick = {}
        /\ h.scope = g.scope /\ h.why = g.why /\ h.errs = g.errs /\ h.elig = g.elig
        /\ h.told = g.told /\ h.miss = Tracked(g) \ here /\ h.rest = rest
        /\ h.exp.armed = TRUE /\ h.exp.base = base
    BY ZenonT(60), <1>1, <1>5, <1>6 DEF IsGate, Judging
  <1> HIDE DEF h
  <1>9. Tracked(h) = Tracked(g)
    BY <1>1, <1>5, <1>8 DEF Tracked
  <1>10. \A n \in Tracked(h): h.exp.base[n].restarts <= 1
    BY SMTT(30), <1>4, <1>8, <1>9
  <1>11. Expecting(h)
    BY <1>6, <1>8, <1>9, <1>10 DEF Expecting, Judging
  <1> QED
    BY <1>7, <1>8, <1>11 DEF Sound

(* A container that runs or completed, or that may have completed.         *)
Explained(g, n, obs) ==
    isObservedContainerSatisfied(g, n, obs) \/ ambiguousCleanExit(g, n, obs)

(* A verdict for want of the declared intent, before the window's end and  *)
(* at it.                                                                  *)
LEMMA IntentIs ==
    ASSUME NEW g, NEW obs, Judging(g, obs), FailedNow(g, obs) = {},
           Due(g) => \A n \in Tracked(g): LeftBehind(g, n) \/ Explained(g, n, obs)
    PROVE  Sound(Finish(g, "unknown", "intent", {}))
  <1> DEFINE h == Finish(g, "unknown", "intent", {})
  <1>1. Finished(g, h, "unknown", "intent", {})
    BY FinishIs DEF Judging, Final, Reasons
  <1> HIDE DEF h
  <1>2. Tracked(h) = Tracked(g) /\ h.obs = obs /\ h.exp = g.exp /\ (Due(h) <=> Due(g))
    BY <1>1 DEF Finished, Tracked, Due, Judging
  <1>3. \A n \in Tracked(g): LeftBehind(h, n) <=> LeftBehind(g, n)
    BY <1>1 DEF Finished, LeftBehind
  <1>4. \A n \in Tracked(g): /\ ~ (obs[n].state = "running" /\ obs[n].health = "unhealthy")
                             /\ obs[n].state = "crashed" => obs[n].inc # g.exp.base[n].inc
    BY NothingFailed
  <1>5. Due(g) => \A n \in Tracked(g): LeftBehind(g, n) \/ obs[n].state \in {"running", "done"}
    BY DEF Explained, isObservedContainerSatisfied, isDeclaredCleanOneShot, ambiguousCleanExit
  <1>6. Undecided(h)
    BY <1>2, <1>3, <1>4, <1>5 DEF Undecided
  <1> QED
    BY <1>1, <1>6 DEF Sound, Finished, h

(* A container whose healthcheck is still starting.                        *)
Settling(g, n, obs) ==
    Present(n, obs) /\ obs[n].health = "starting" /\ ~ isDeclaredCleanOneShot(g, n, obs)

(* A pass.                                                                 *)
LEMMA PassIs ==
    ASSUME NEW g, NEW obs, Judging(g, obs), FailedNow(g, obs) = {}, Due(g), g.sick = {},
           \A n \in Tracked(g): LeftBehind(g, n) \/ isObservedContainerSatisfied(g, n, obs),
           \A n \in Tracked(g) \cup Of(g.scope): ~ Settling(g, n, obs),
           \A n \in Of(g.scope): ~ (obs[n].state = "running" /\ obs[n].health = "unhealthy"),
           g.scope # "stack" =>
               Cardinality({n \in Of(g.scope): isObservedContainerSatisfied(g, n, obs)}) = g.reps
    PROVE  Sound(Finish(g, "passed", "", {}))
  <1> DEFINE h == Finish(g, "passed", "", {})
  <1>1. Finished(g, h, "passed", "", {})
    BY FinishIs DEF Judging, Final, Reasons
  <1> HIDE DEF h
  <1>2. Tracked(h) = Tracked(g) /\ h.obs = obs /\ h.intent = g.intent /\ Due(h) /\ h.sick = {}
    BY <1>1 DEF Finished, Tracked, Due, Judging
  <1>3. \A n \in Tracked(g): LeftBehind(h, n) <=> LeftBehind(g, n)
    BY <1>1 DEF Finished, LeftBehind
  <1>4. \A n \in Tracked(g) \cup Of(g.scope): n \in Names /\ obs[n].health \in Health
    BY TrackedIs DEF Judging, Of, Facts
  <1>5. \A n \in Tracked(g) \cup Of(g.scope):
            isObservedContainerSatisfied(g, n, obs) <=> Good(h, n)
    <2> SUFFICES ASSUME NEW n \in Tracked(g) \cup Of(g.scope)
                 PROVE  isObservedContainerSatisfied(g, n, obs) <=> Good(h, n)
      OBVIOUS
    <2>1. obs[n].state = "running" => obs[n].health = "ok"
      <3>1. ~ (obs[n].state = "running" /\ obs[n].health = "unhealthy")
        BY NothingFailed
      <3>2. ~ Settling(g, n, obs)
        OBVIOUS
      <3> QED
        BY <1>4, <3>1, <3>2 DEF Settling, Present, Health, isDeclaredCleanOneShot
    <2> QED
      BY <1>2, <2>1 DEF Good, isObservedContainerSatisfied, isDeclaredCleanOneShot
  <1>6. \A n \in Tracked(h): Good(h, n) \/ LeftBehind(h, n)
    BY <1>2, <1>3, <1>5
  <1>7. {n \in Of(g.scope): isObservedContainerSatisfied(g, n, obs)} = {n \in Of(g.scope): Good(h, n)}
    BY <1>5
  <1>8. h.scope = g.scope /\ h.reps = g.reps
    BY <1>1 DEF Finished
  <1>9. h.scope # "stack" => Cardinality({n \in Of(h.scope): Good(h, n)}) = h.reps
    BY <1>7, <1>8
  <1>10. Earned(h)
    BY <1>2, <1>6, <1>9 DEF Earned
  <1> QED
    BY <1>1, <1>10 DEF Sound, Finished, h

(* runPollCycle, branch by branch.                                         *)
LEMMA StackVerdict ==
    ASSUME NEW g, NEW obs, Judging(g, obs), g.scope = "stack"
    PROVE  Sound(StackCycle(g, obs))
  <1> DEFINE seen == {n \in Names: Present(n, obs)}
             short == {n \in Tracked(g): ~ isObservedContainerSatisfied(g, n, obs)}
             starting == {n \in seen: obs[n].health = "starting" /\ ~ isDeclaredCleanOneShot(g, n, obs)}
             base == [n \in seen |-> Base(n, obs)]
             failed == FailedNow(g, obs)
             unclear == AmbiguousNow(g, obs)
  <1>0. Of("stack") = {} /\ Tracked(g) \subseteq Names
    BY Constants, TrackedIs DEF Judging
  <1>1. CASE ~ g.exp.armed /\ seen # {}
    <2>1. StackCycle(g, obs) = Arm(g, base)
      BY <1>1 DEF StackCycle
    <2>2. DOMAIN base \subseteq Names /\ base \in [DOMAIN base -> [inc: Nat, restarts: {0}]]
      BY DEF Base, Judging, Facts
    <2> HIDE DEF base
    <2> QED
      BY <1>1, <2>1, <2>2, ArmIs
  <1>2. CASE ~ g.exp.armed /\ seen = {}
    <2>1. StackCycle(g, obs) \in {Finish(g, "unknown", "empty", {}), Wait(g)}
      BY <1>2 DEF StackCycle
    <2> QED
      BY <1>2, <2>1, UnknownIs, WaitIs
  <1>3. CASE g.exp.armed /\ failed # {}
    <2>1. StackCycle(g, obs) = Finish(g, "failed", "evidence", failed)
      BY <1>3 DEF StackCycle
    <2> QED
      BY <1>3, <2>1, FailedNowIs
  <1>4. CASE g.exp.armed /\ failed = {} /\ ~ Due(g) /\ unclear # {}
    <2>1. StackCycle(g, obs) = Finish(g, "unknown", "intent", {})
      BY <1>4 DEF StackCycle
    <2> QED
      BY <1>4, <2>1, IntentIs
  <1>5. CASE g.exp.armed /\ failed = {} /\ ~ Due(g) /\ unclear = {}
    <2>1. StackCycle(g, obs) = Carry(g, obs)
      BY <1>5 DEF StackCycle
    <2>2. g.sick = {}
      BY SMTT(30), <1>0, <1>5, NothingFailed DEF Judging, Sick
    <2> QED
      BY <1>5, <2>1, <2>2, CarryIs
  <1>6. CASE g.exp.armed /\ failed = {} /\ Due(g)
    <2>1. CASE \E n \in short: ~ ambiguousCleanExit(g, n, obs)
      <3>1. StackCycle(g, obs) = Finish(g, "failed", "short", short)
        BY <1>6, <2>1 DEF StackCycle
      <3>2. g.intent = "unreadable" => \E n \in short: Tells(g, n)
        BY <2>1 DEF Tells, Judging, ambiguousCleanExit
      <3>3. short # {} /\ short \in SUBSET (Tracked(g) \cup Of(g.scope)) /\ "short" \in Reasons
        BY <2>1 DEF Reasons
      <3> HIDE DEF short
      <3> QED
        BY <3>1, <3>2, <3>3, BlameIs
    <2>2. CASE short # {} /\ \A n \in short: ambiguousCleanExit(g, n, obs)
      <3>1. StackCycle(g, obs) = Finish(g, "unknown", "intent", {})
        BY <1>6, <2>2 DEF StackCycle
      <3>2. \A n \in Tracked(g): Explained(g, n, obs)
        BY <2>2 DEF Explained
      <3> QED
        BY <1>6, <3>1, <3>2, IntentIs
    <2>3. CASE short = {} /\ starting # {}
      <3>1. StackCycle(g, obs) = Finish(g, "unknown", "starting", {})
        BY <1>6, <2>3 DEF StackCycle
      <3> QED
        BY <3>1, UnknownIs
    <2>4. CASE short = {} /\ starting = {}
      <3>1. StackCycle(g, obs) = Finish(g, "passed", "", {})
        BY <1>6, <2>4 DEF StackCycle
      <3>2. g.sick = {}
        BY SMTT(30), <1>0, <1>6, NothingFailed DEF Judging, Sick
      <3>3. \A n \in Tracked(g): isObservedContainerSatisfied(g, n, obs)
        BY <2>4
      <3>4. \A n \in Tracked(g) \cup Of(g.scope): ~ Settling(g, n, obs)
        BY <1>0, <2>4 DEF Settling
      <3>5. \A n \in Of(g.scope): ~ (obs[n].state = "running" /\ obs[n].health = "unhealthy")
        BY <1>0
      <3> QED
        BY <1>6, <3>1, <3>2, <3>3, <3>4, <3>5, PassIs
    <2> QED
      BY <2>1, <2>2, <2>3, <2>4
  <1> QED
    BY <1>1, <1>2, <1>3, <1>4, <1>5, <1>6

(* runServicePollCycle, branch by branch.                                  *)
LEMMA ServiceVerdict ==
    ASSUME NEW g, NEW obs, Judging(g, obs), g.scope \in Services
    PROVE  Sound(ServiceCycle(g, obs))
  <1> DEFINE own == {n \in Of(g.scope): Present(n, obs)}
             strays == own \ Tracked(g)
             wrong == {n \in own: g.img # "any" /\ obs[n].img # g.img}
             replicas == IF g.reps = 0 THEN {} ELSE (Tracked(g) \cap Of(g.scope)) \cup strays
             Short(set) == {n \in set: ~ isObservedContainerSatisfied(g, n, obs)}
             Certain(set) == {n \in Short(set): ~ ambiguousCleanExit(g, n, obs)}
             siblings == Tracked(g) \ Of(g.scope)
             good == Cardinality({n \in own: isObservedContainerSatisfied(g, n, obs)})
             starting == {n \in own \cup {m \in DOMAIN g.elig: Present(m, obs)}:
                            obs[n].health = "starting" /\ ~ isDeclaredCleanOneShot(g, n, obs)}
             base == [n \in own \cup DOMAIN g.elig |->
                        IF Present(n, obs) THEN Base(n, obs) ELSE [inc |-> g.elig[n], restarts |-> 0]]
             failed == FailedNow(g, obs)
             unclear == AmbiguousNow(g, obs)
             Ill(n) == obs[n].state = "running" /\ obs[n].health = "unhealthy"
  <1>0. /\ Of(g.scope) # {} /\ Of(g.scope) \subseteq Names /\ Tracked(g) \subseteq Names
        /\ g.scope # "stack"
    BY Constants, TrackedIs DEF Judging
  <1>1. CASE ~ g.exp.armed /\ g.reps > 0 /\ own = {}
    <2>1. ServiceCycle(g, obs) \in {Finish(g, "failed", "no replicas", Of(g.scope)), Wait(g)}
      BY <1>1 DEF ServiceCycle
    <2>2. Sound(Finish(g, "failed", "no replicas", Of(g.scope)))
      BY <1>0, BlameIs DEF Reasons
    <2> QED
      BY <1>1, <2>1, <2>2, WaitIs
  <1>2. CASE ~ g.exp.armed /\ ~ (g.reps > 0 /\ own = {})
    <2>1. ServiceCycle(g, obs) = Arm(g, base)
      BY <1>2 DEF ServiceCycle
    <2>2. g.elig \in [DOMAIN g.elig -> Nat] /\ DOMAIN g.elig \subseteq Names
      BY DEF Judging, IsGate
    <2>3. DOMAIN base \subseteq Names /\ base \in [DOMAIN base -> [inc: Nat, restarts: {0}]]
      BY <1>0, <2>2 DEF Base, Judging, Facts
    <2>4. DOMAIN base \subseteq Of(g.scope) \cup DOMAIN g.elig
      OBVIOUS
    <2> HIDE DEF base
    <2> QED
      BY <1>2, <2>1, <2>3, <2>4, ArmIs
  <1>3. CASE g.exp.armed /\ wrong # {}
    <2>1. ServiceCycle(g, obs) = Finish(g, "failed", "image", wrong)
      BY <1>3 DEF ServiceCycle
    <2>2. wrong \in SUBSET (Tracked(g) \cup Of(g.scope)) /\ wrong # {}
      BY <1>3
    <2> HIDE DEF wrong
    <2> QED
      BY <2>1, <2>2, BlameIs DEF Reasons
  <1>4. CASE g.exp.armed /\ wrong = {} /\ failed # {}
    <2>1. ServiceCycle(g, obs) = Finish(g, "failed", "evidence", failed)
      BY <1>4 DEF ServiceCycle
    <2> QED
      BY <1>4, <2>1, FailedNowIs
  <1>5. CASE g.exp.armed /\ wrong = {} /\ failed = {} /\ \E n \in strays: Ill(n)
    <2> DEFINE ill == {n \in strays: obs[n].health = "unhealthy"}
    <2>1. ServiceCycle(g, obs) = Finish(g, "failed", "evidence", ill)
      BY <1>5 DEF ServiceCycle
    <2>2. PICK n \in ill: obs[n].state = "running"
      BY <1>5
    <2>3. Tells(g, n)
      BY <2>2 DEF Tells, Judging
    <2>4. ill \in SUBSET (Tracked(g) \cup Of(g.scope)) /\ "evidence" \in Reasons
      BY DEF Reasons
    <2>5. n \in ill
      BY <2>2
    <2> HIDE DEF ill
    <2> QED
      BY <2>1, <2>3, <2>4, <2>5, BlameIs
  <1>6. CASE g.exp.armed /\ wrong = {} /\ failed = {} /\ \A n \in strays: ~ Ill(n)
    <2>0. \A n \in Tracked(g) \cup Of(g.scope): ~ Ill(n)
      BY <1>6, NothingFailed DEF Present
    <2>1. g.sick = {}
      BY <2>0 DEF Judging, Sick
    <2>2. CASE ~ Due(g) /\ unclear # {}
      <3>1. ServiceCycle(g, obs) = Finish(g, "unknown", "intent", {})
        BY <1>6, <2>2 DEF ServiceCycle
      <3> QED
        BY <1>6, <2>2, <3>1, IntentIs
    <2>3. CASE ~ Due(g) /\ unclear = {}
      <3>1. ServiceCycle(g, obs) = Carry(g, obs)
        BY <1>6, <2>3 DEF ServiceCycle
      <3> QED
        BY <1>6, <2>1, <2>3, <3>1, CarryIs
    <2>4. ASSUME Due(g), NEW set, set \in {replicas, siblings}, Certain(set) # {}
          PROVE  Sound(Finish(g, "failed", "short", Certain(set)))
      <3>1. PICK n \in Certain(set): TRUE
        BY <2>4
      <3>2. g.intent = "unreadable" => Tells(g, n)
        BY <3>1 DEF Tells, Judging, ambiguousCleanExit
      <3>3. Certain(set) \in SUBSET (Tracked(g) \cup Of(g.scope)) /\ "short" \in Reasons
        BY <2>4 DEF Reasons
      <3>4. n \in Certain(set)
        BY <3>1
      <3> HIDE DEF Certain
      <3> QED
        BY <3>2, <3>3, <3>4, BlameIs
    <2>5. CASE Due(g) /\ Certain(replicas) # {}
      <3>1. ServiceCycle(g, obs) = Finish(g, "failed", "short", Certain(replicas))
        BY <1>6, <2>5 DEF ServiceCycle
      <3> QED
        BY <2>4, <2>5, <3>1
    <2>6. CASE Due(g) /\ Certain(replicas) = {} /\ Certain(siblings) # {}
      <3>1. ServiceCycle(g, obs) = Finish(g, "failed", "short", Certain(siblings))
        BY <1>6, <2>6 DEF ServiceCycle
      <3> QED
        BY <2>4, <2>6, <3>1
    <2>7. CASE Due(g) /\ Certain(replicas) = {} /\ Certain(siblings) = {}
      <3>1. \A n \in Tracked(g): LeftBehind(g, n) \/ Explained(g, n, obs)
        BY <2>7 DEF LeftBehind, Explained, Of
      <3>2. Sound(Finish(g, "unknown", "intent", {}))
        BY <1>6, <3>1, IntentIs
      <3>3. Sound(Finish(g, "failed", "count", Of(g.scope)))
        BY <1>0, BlameIs DEF Reasons
      <3>4. Sound(Finish(g, "unknown", "starting", {}))
        BY UnknownIs
      <3>5. ASSUME good = g.reps, Short(replicas) = {}, Short(siblings) = {}, starting = {}
            PROVE  Sound(Finish(g, "passed", "", {}))
        <4>1. \A n \in Tracked(g): LeftBehind(g, n) \/ isObservedContainerSatisfied(g, n, obs)
          BY <3>5 DEF LeftBehind, Of
        <4>2. \A n \in Tracked(g) \cup Of(g.scope): ~ Settling(g, n, obs)
          BY <1>0, <3>5 DEF Settling, Judging, Expecting
        <4>3. {n \in own: isObservedContainerSatisfied(g, n, obs)}
                 = {n \in Of(g.scope): isObservedContainerSatisfied(g, n, obs)}
          BY DEF isObservedContainerSatisfied, isDeclaredCleanOneShot, Present
        <4> QED
          BY <1>6, <2>0, <2>1, <2>7, <3>5, <4>1, <4>2, <4>3, PassIs
      <3>6. ServiceCycle(g, obs) \in {Finish(g, "unknown", "intent", {}), Finish(g, "unknown", "starting", {}),
                                     Finish(g, "failed", "count", Of(g.scope))}
            \/ /\ ServiceCycle(g, obs) = Finish(g, "passed", "", {})
               /\ good = g.reps /\ Short(replicas) = {} /\ Short(siblings) = {} /\ starting = {}
        BY <1>6, <2>7 DEF ServiceCycle
      <3> QED
        BY <3>2, <3>3, <3>4, <3>5, <3>6
    <2> QED
      BY <2>2, <2>3, <2>5, <2>6, <2>7
  <1> QED
    BY <1>1, <1>2, <1>3, <1>4, <1>5, <1>6

(* The verdict of a finished gate whose last reading is at hand is one the  *)
(* gate can answer for.                                                    *)
Answers(g) ==
    /\ g.status = "passed" => Earned(g)
    /\ g.status = "failed" => Definite(g) /\ ~ (g.blame \subseteq g.told)
    /\ g.status = "unknown" /\ g.why = "intent" => Undecided(g)

(* What holds of every run.                                                *)
RunOK(g) ==
    \/ g = NoRun
    \/ /\ IsGate(g)
       /\ g.status = "observing" => Watching(g)
       /\ g.status \in Final /\ g.obs # NoNames => Answers(g)

(* A gate that observes is one of a service or of the stack.                *)
LEMMA ObserverIs ==
    ASSUME NEW g, RunOK(g), g.status = "observing"
    PROVE  /\ IsGate(g) /\ Watching(g) /\ Expecting(g) /\ g.sick = {}
           /\ g.scope \in Services \cup {"stack"} /\ g.poll \in {"timer", "read"}
           /\ g.poll = "timer" <=> g.obs = NoNames
           /\ g.status \notin Final /\ g # NoRun
  <1>1. g # NoRun
    BY SMTT(30) DEF NoRun
  <1>2. IsGate(g) /\ Watching(g)
    BY <1>1 DEF RunOK
  <1>3. g.scope \in Services \cup {"stack", "none"}
    BY <1>2 DEF IsGate
  <1> QED
    BY <1>1, <1>2, <1>3 DEF Watching, Expecting, Final

(* The status of a run tells which kind it is.                              *)
LEMMA StatusIs ==
    ASSUME NEW g, RunOK(g)
    PROVE  /\ g.status \in Final \cup {"observing", "none"}
           /\ g.status = "none" <=> g = NoRun
           /\ g # NoRun => IsGate(g)
  <1>1. CASE g = NoRun
    BY <1>1 DEF NoRun
  <1>2. CASE IsGate(g)
    BY SMTT(30), <1>2 DEF IsGate, NoRun, Final
  <1> QED
    BY <1>1, <1>2 DEF RunOK

(* The row alone answers for nothing.                                       *)
LEMMA RowKeeps ==
    ASSUME NEW status \in Final
    PROVE  RunOK(Row(status)) /\ Row(status).status = status
  BY RowIs DEF RunOK, Final

(* A gate that an update or an operation ends keeps no verdict to answer    *)
(* for, whether or not a poll of it is inside its await.                    *)
LEMMA EndKeeps ==
    ASSUME NEW g, RunOK(g), g.status = "observing", NEW why \in {"superseded", "operation"}
    PROVE  /\ RunOK([g EXCEPT !.status = "unknown", !.why = why])
           /\ [g EXCEPT !.status = "unknown", !.why = why].status = "unknown"
  <1> DEFINE h == [g EXCEPT !.status = "unknown", !.why = why]
  <1>1. IsGate(g)
    BY ObserverIs
  <1>2. IsGate(h) /\ h.status = "unknown" /\ h.why = why
    BY ZenonT(60), <1>1 DEF IsGate, Final, Reasons
  <1> QED
    BY <1>2 DEF RunOK, Answers

(* What is left of a run at the next update.                                *)
LEMMA RestKeeps ==
    ASSUME NEW g, RunOK(g)
    PROVE  /\ RunOK(Rest(g)) /\ Rest(g).status = g.status
           /\ g.status = "observing" => Rest(g) = g
  BY RowKeeps DEF Rest, Final

(* A gate told of an operation on another service observes on.              *)
LEMMA DetachKeeps ==
    ASSUME NEW g, RunOK(g), g.status = "observing", g.scope # "stack",
           NEW names \in SUBSET Names, names \cap Of(g.scope) = {}
    PROVE  LET h == detachServiceFromGate(g, names)
           IN  RunOK(h) /\ h.status = "observing" /\ h.scope = g.scope
  <1> DEFINE h == detachServiceFromGate(g, names)
  <1>0. IsGate(g) /\ Watching(g) /\ Expecting(g)
    BY ObserverIs
  <1>1. Detached(g, h, names)
    BY <1>0, DetachIs
  <1> HIDE DEF h
  <1>2. /\ DOMAIN h.elig = DOMAIN g.elig \ names /\ DOMAIN h.exp.base = DOMAIN g.exp.base \ names
        /\ \A n \in DOMAIN h.exp.base: h.exp.base[n] = g.exp.base[n]
    BY <1>1 DEF Detached, Less, Restrict
  <1>3. Tracked(h) = Tracked(g) \ names
    BY <1>1, <1>2 DEF Tracked, Detached
  <1>4. Tracked(h) \subseteq DOMAIN h.exp.base
    BY DEF Tracked
  <1>5. \A n \in Tracked(h): h.exp.base[n].restarts <= 1
    BY <1>0, <1>2, <1>3, <1>4 DEF Expecting
  <1>6. Expecting(h)
    BY <1>0, <1>1, <1>2, <1>3, <1>5 DEF Expecting, Detached
  <1> QED
    BY <1>0, <1>1, <1>6 DEF RunOK, Watching, Detached, Final, h

(* A poll takes its reading; nothing is judged yet.                         *)
LEMMA PollKeeps ==
    ASSUME NEW g, RunOK(g), g.status = "observing", NEW obs \in [Names -> Facts], Names # {}
    PROVE  LET h == [g EXCEPT !.poll = "read", !.obs = obs, !.errs = 0]
           IN  RunOK(h) /\ h.status = "observing" /\ h.scope = g.scope
  <1> DEFINE h == [g EXCEPT !.poll = "read", !.obs = obs, !.errs = 0]
  <1>0. IsGate(g) /\ Watching(g) /\ Expecting(g)
    BY ObserverIs
  <1>1. /\ IsGate(h) /\ h.poll = "read" /\ h.obs = obs /\ h.errs = 0 /\ h.status = g.status
        /\ h.scope = g.scope /\ h.why = g.why /\ h.miss = g.miss /\ h.rest = g.rest
        /\ h.exp = g.exp /\ h.elig = g.elig /\ h.told = g.told /\ h.sick = g.sick
    BY ZenonT(60), <1>0 DEF IsGate
  <1>2. obs # NoNames
    <2>1. DOMAIN obs = Names /\ DOMAIN NoNames = {}
      BY DEF NoNames
    <2> QED
      BY <2>1
  <1> HIDE DEF h
  <1>3. Expecting(h)
    BY <1>0, <1>1, Constants DEF Expecting, Tracked
  <1> QED
    BY <1>0, <1>1, <1>2, <1>3 DEF RunOK, Watching, Final, h

(* A failed read is counted, below the limit.                               *)
LEMMA ErrorKeeps ==
    ASSUME NEW g, RunOK(g), g.status = "observing", g.errs + 1 < MaxErrors
    PROVE  LET h == [g EXCEPT !.errs = @ + 1]
           IN  RunOK(h) /\ h.status = "observing" /\ h.scope = g.scope
  <1> DEFINE h == [g EXCEPT !.errs = @ + 1]
  <1>0. IsGate(g) /\ Watching(g) /\ Expecting(g)
    BY ObserverIs
  <1>1. /\ IsGate(h) /\ h.poll = g.poll /\ h.obs = g.obs /\ h.errs = g.errs + 1 /\ h.status = g.status
        /\ h.scope = g.scope /\ h.why = g.why /\ h.miss = g.miss /\ h.rest = g.rest
        /\ h.exp = g.exp /\ h.elig = g.elig /\ h.told = g.told /\ h.sick = g.sick
    BY SMTT(30), <1>0 DEF IsGate
  <1> HIDE DEF h
  <1>2. Expecting(h)
    BY <1>0, <1>1 DEF Expecting, Tracked
  <1> QED
    BY <1>0, <1>1, <1>2 DEF RunOK, Watching, Final, h

(* A gate that has just begun expects nothing yet.                          *)
LEMMA BeginKeeps ==
    ASSUME NEW scope \in Services \cup {"stack"}, NEW img \in {"any", "old", "new"},
           NEW reps \in Nat, NEW told \in SUBSET Names,
           NEW elig, DOMAIN elig \subseteq Names, elig \in [DOMAIN elig -> Nat],
           told \cap (DOMAIN elig \cup Of(scope)) = {}, scope = "stack" => told = {}
    PROVE  /\ RunOK(NewGate(scope, img, reps, elig, told))
           /\ NewGate(scope, img, reps, elig, told).status = "observing"
           /\ NewGate(scope, img, reps, elig, told).scope = scope
  <1> DEFINE g == NewGate(scope, img, reps, elig, told)
  <1>1. Begun(g, scope, elig, told)
    BY NewGateIs
  <1> HIDE DEF g
  <1>a. Unarmed.armed = FALSE /\ Unarmed.base = NoNames /\ DOMAIN NoNames = {}
    BY DEF Unarmed, NoNames
  <1>2. ~ g.exp.armed /\ DOMAIN g.exp.base = {} /\ Tracked(g) = {}
    BY <1>1, <1>a DEF Begun, Tracked
  <1>3. Expecting(g)
    BY <1>1, <1>2, Constants DEF Begun, Expecting
  <1> QED
    BY <1>1, <1>3 DEF RunOK, Watching, Begun, Final, g

(* The gate as its judgement finds it: its intent read, its age known.      *)
LEMMA JudgingIs ==
    ASSUME NEW g, RunOK(g), g.status = "observing", g.poll = "read",
           NEW age \in 0 .. 2, NEW intent \in {"loaded", "unreadable"}
    PROVE  LET h == [g EXCEPT !.intent = intent, !.age = age, !.sick = @ \cup Sick(g, g.obs)]
           IN  Judging(h, g.obs) /\ h.scope = g.scope /\ h.obs = g.obs
  <1> DEFINE sick == Sick(g, g.obs)
             h == [g EXCEPT !.intent = intent, !.age = age, !.sick = @ \cup sick]
  <1>0. IsGate(g) /\ Watching(g) /\ Expecting(g) /\ g.sick = {} /\ g.obs # NoNames
    BY ObserverIs
  <1>1. g.obs \in [Names -> Facts]
    BY <1>0 DEF IsGate
  <1>2. sick \subseteq Names
    BY <1>0, TrackedIs DEF Sick, Of
  <1> HIDE DEF sick
  <1>3. /\ IsGate(h) /\ h.obs = g.obs /\ h.errs = g.errs /\ h.status = g.status
        /\ h.scope = g.scope /\ h.why = g.why /\ h.miss = g.miss /\ h.rest = g.rest
        /\ h.exp = g.exp /\ h.elig = g.elig /\ h.told = g.told /\ h.intent = intent
        /\ h.sick = g.sick \cup sick
    BY ZenonT(60), <1>0, <1>2 DEF IsGate
  <1> HIDE DEF h
  <1>4. Expecting(h)
    BY <1>0, <1>3 DEF Expecting, Tracked
  <1>5. sick = Sick(h, g.obs)
    BY <1>3 DEF Sick, Tracked, sick
  <1>6. Judging(h, g.obs)
    BY <1>0, <1>1, <1>3, <1>4, <1>5 DEF Judging
  <1> QED
    BY <1>3, <1>6 DEF h, sick

(* A cycle changes neither the scope of the gate nor who it watches, and    *)
(* ends it or leaves it observing.                                          *)
LEMMA CycleIs ==
    ASSUME NEW g, NEW obs, Judging(g, obs)
    PROVE  Sound(Cycle(g, obs)) /\ Cycle(g, obs).scope = g.scope
  <1>1. g.scope \in Services \cup {"stack"} /\ IsGate(g)
    BY DEF Judging, Expecting, IsGate
  <1>2. Sound(Cycle(g, obs))
    BY <1>1, StackVerdict, ServiceVerdict, Constants DEF Cycle
  <1>3. /\ Wait(g).scope = g.scope
        /\ \A base: Arm(g, base).scope = g.scope
        /\ \A status, why, blame: Finish(g, status, why, blame).scope = g.scope
        /\ Carry(g, obs).scope = g.scope
    BY <1>1 DEF IsGate, Wait, Arm, Finish, Carry
  <1>4. StackCycle(g, obs).scope = g.scope
    BY <1>3 DEF StackCycle
  <1>5. ServiceCycle(g, obs).scope = g.scope
    BY ZenonT(60), <1>3 DEF ServiceCycle
  <1> QED
    BY <1>2, <1>4, <1>5 DEF Cycle

(* A judgement leaves a gate that observes on, or a verdict it answers for. *)
LEMMA JudgeKeeps ==
    ASSUME NEW h, Sound(h)
    PROVE  /\ h.status \in Final => RunOK(h)
           /\ h.status = "observing" =>
                LET k == [h EXCEPT !.obs = NoNames, !.age = IF Due(h) THEN 2 ELSE 0]
                IN  RunOK(k) /\ k.status = "observing" /\ k.scope = h.scope
           /\ h.status \in Final \cup {"observing"}
  <1>0. IsGate(h) /\ h.status \in Final \cup {"observing"}
    BY DEF Sound, IsGate
  <1>1. h.status \in Final => RunOK(h)
    BY <1>0 DEF RunOK, Sound, Answers, Final
  <1>2. ASSUME h.status = "observing"
        PROVE  LET k == [h EXCEPT !.obs = NoNames, !.age = IF Due(h) THEN 2 ELSE 0]
               IN  RunOK(k) /\ k.status = "observing" /\ k.scope = h.scope
    <2> DEFINE age == IF Due(h) THEN 2 ELSE 0
               k == [h EXCEPT !.obs = NoNames, !.age = age]
    <2>0. age \in 0 .. 2
      BY SMTT(30)
    <2> HIDE DEF age
    <2>1. /\ IsGate(k) /\ k.poll = h.poll /\ k.obs = NoNames /\ k.errs = h.errs /\ k.status = h.status
          /\ k.scope = h.scope /\ k.why = h.why /\ k.miss = h.miss /\ k.rest = h.rest
          /\ k.exp = h.exp /\ k.elig = h.elig /\ k.told = h.told /\ k.sick = h.sick
      BY <1>0, <2>0 DEF IsGate
    <2> HIDE DEF k
    <2>2. Expecting(k)
      BY <1>2, <2>1 DEF Expecting, Tracked, Sound
    <2> QED
      BY <1>2, <2>1, <2>2 DEF RunOK, Watching, Sound, Final, k, age
  <1> QED
    BY <1>0, <1>1, <1>2

(* Every run is as RunOK says.                                              *)
Rows == gate = [r \in Runs |-> gate[r]] /\ \A r \in Runs: RunOK(gate[r])

(* A step that ends the gates done, starts none and rewrites no verdict.    *)
Stands == \A r \in Runs: gate[r].status \in Final => gate'[r].status = gate[r].status
Keeps(done) ==
    /\ Rows' /\ Stands
    /\ Observing' = Observing \ done /\ Free' = Free
    /\ \A r \in Observing \ done: gate'[r].scope = gate[r].scope

(* What such a step does to each run.                                       *)
Ends(done, r) ==
    /\ RunOK(gate'[r])
    /\ r \in done => gate'[r].status \in Final
    /\ r \notin done => gate'[r].status = gate[r].status
    /\ r \in Observing \ done => gate'[r].scope = gate[r].scope

(* The runs taken one by one.                                               *)
LEMMA AllMove ==
    ASSUME Rows, gate' = [r \in Runs |-> gate'[r]], NEW done \in SUBSET Observing,
           \A r \in Runs: Ends(done, r)
    PROVE  Keeps(done)
  <1>1. Rows'
    BY DEF Rows, Ends
  <1>2. Stands
    BY DEF Stands, Ends, Observing, Final
  <1>3. Observing' = Observing \ done /\ Free' = Free
    BY DEF Ends, Observing, Free, Final
  <1> QED
    BY <1>1, <1>2, <1>3 DEF Keeps, Ends, Observing

(* A step of one run that observes on, or that ends.                        *)
LEMMA OneMoves ==
    ASSUME Rows, NEW r \in Observing, NEW h, gate' = [gate EXCEPT ![r] = h], RunOK(h)
    PROVE  /\ h.status = "observing" /\ h.scope = gate[r].scope => Keeps({})
           /\ h.status \in Final => Keeps({r})
  <1>1. /\ r \in Runs /\ gate' = [q \in Runs |-> gate'[q]] /\ gate'[r] = h
        /\ \A q \in Runs \ {r}: gate'[q] = gate[q]
    BY DEF Rows, Observing
  <1>2. ASSUME h.status = "observing", h.scope = gate[r].scope
        PROVE  \A q \in Runs: Ends({}, q)
    BY <1>1, <1>2 DEF Rows, Ends, Observing
  <1>3. ASSUME h.status \in Final
        PROVE  \A q \in Runs: Ends({r}, q)
    BY <1>1, <1>3 DEF Rows, Ends, Observing
  <1>4. {} \in SUBSET Observing /\ {r} \in SUBSET Observing
    OBVIOUS
  <1> QED
    BY <1>1, <1>2, <1>3, <1>4, AllMove

(* Nothing moves.                                                           *)
LEMMA NoneMoves ==
    ASSUME Rows, gate' = gate
    PROVE  Keeps({})
  BY DEF Rows, Keeps, Stands, Observing, Free

(* Poll and countPollError.                                                 *)
LEMMA PollMoves ==
    ASSUME Rows, box \in [Names -> Facts], NEW r \in Runs, Poll(r)
    PROVE  Keeps({})
  <1> DEFINE g == gate[r]
             h == [g EXCEPT !.poll = "read", !.obs = box, !.errs = 0]
  <1>1. r \in Observing /\ g.status = "observing" /\ RunOK(g)
    BY DEF Poll, Observing, Rows
  <1>2. RunOK(h) /\ h.status = "observing" /\ h.scope = g.scope
    BY <1>1, PollKeeps, GateAssumption
  <1>3. gate' = [gate EXCEPT ![r] = h]
    BY <1>1 DEF Poll, Observing, Rows
  <1> QED
    BY <1>1, <1>2, <1>3, OneMoves

(* countPollError ends the gate at the limit and releases its suppression.  *)
LEMMA ErrorMoves ==
    ASSUME Rows, mute \in [Services -> Nat], NEW r \in Runs, countPollError(r)
    PROVE  \/ Keeps({}) /\ mute' = mute
           \/ Keeps({r}) /\ mute' = Unmuted(mute, {r})
  <1> DEFINE g == gate[r]
             h == [g EXCEPT !.errs = @ + 1]
  <1>1. r \in Observing /\ g.status = "observing" /\ RunOK(g) /\ g.errs \in Nat
    BY ObserverIs DEF countPollError, Observing, Rows, IsGate
  <1>2. h.errs = g.errs + 1
    BY SMTT(30), <1>1, ObserverIs DEF IsGate
  <1>3. CASE h.errs < MaxErrors
    <2>1. gate' = [gate EXCEPT ![r] = h] /\ mute' = mute
      BY <1>3 DEF countPollError
    <2>2. RunOK(h) /\ h.status = "observing" /\ h.scope = g.scope
      BY <1>1, <1>2, <1>3, ErrorKeeps
    <2> QED
      BY <1>1, <2>1, <2>2, OneMoves
  <1>4. CASE ~ (h.errs < MaxErrors)
    <2>1. gate' = [gate EXCEPT ![r] = Row("unknown")] /\ mute' = Unmuted(mute, {r})
      BY <1>4 DEF countPollError
    <2>2. RunOK(Row("unknown")) /\ Row("unknown").status = "unknown" /\ "unknown" \in Final
      BY RowKeeps DEF Final
    <2> QED
      BY <1>1, <2>1, <2>2, OneMoves
  <1> QED
    BY <1>3, <1>4

(* A node that serves no observations ends the gate.                        *)
LEMMA UnsupportedMoves ==
    ASSUME Rows, NEW r \in Runs, Unsupported(r)
    PROVE  Keeps({r}) /\ mute' = Unmuted(mute, {r})
  <1>1. r \in Observing /\ gate' = [gate EXCEPT ![r] = Row("unknown")] /\ mute' = Unmuted(mute, {r})
    BY DEF Unsupported
  <1>2. RunOK(Row("unknown")) /\ Row("unknown").status = "unknown" /\ "unknown" \in Final
    BY RowKeeps DEF Final
  <1> QED
    BY <1>1, <1>2, OneMoves

(* Judge: the verdict and the release of the suppression go together.       *)
LEMMA JudgeMoves ==
    ASSUME Rows, NEW r \in Runs, NEW age \in 0 .. 2, Judge(r, age)
    PROVE  \/ Keeps({}) /\ mute' = mute
           \/ r \in Observing /\ Keeps({r}) /\ mute' = Unmuted(mute, {r})
  <1> DEFINE g == gate[r]
  <1>1. RunOK(g) /\ g.status # "none" /\ g.poll = "read"
    BY DEF Rows, Judge
  <1>2. CASE r \notin Observing
    <2>1. g.status \in Final /\ gate' = [gate EXCEPT ![r] = Row(g.status)] /\ mute' = mute
      BY <1>1, <1>2, StatusIs DEF Judge, Observing
    <2>2. RunOK(Row(g.status)) /\ Row(g.status).status = g.status
      BY <2>1, RowKeeps
    <2>3. /\ gate' = [q \in Runs |-> gate'[q]] /\ gate'[r] = Row(g.status)
          /\ \A q \in Runs \ {r}: gate'[q] = gate[q]
      BY <2>1 DEF Rows
    <2>4. \A q \in Runs: Ends({}, q)
      BY <1>2, <2>2, <2>3 DEF Rows, Ends
    <2> QED
      BY <2>1, <2>3, <2>4, AllMove
  <1>3. CASE r \in Observing
    <2> DEFINE obs == g.obs
               G(intent) == [g EXCEPT !.intent = intent, !.age = age, !.sick = @ \cup Sick(g, obs)]
    <2>1. PICK intent \in {"loaded", "unreadable"}:
             LET h == Cycle(G(intent), obs)
             IN  /\ gate' = [gate EXCEPT ![r] = IF h.status = "observing"
                                THEN [h EXCEPT !.obs = NoNames, !.age = IF Due(h) THEN 2 ELSE 0] ELSE h]
                 /\ mute' = IF h.status = "observing" THEN mute ELSE Unmuted(mute, {r})
      BY <1>3 DEF Judge
    <2> DEFINE h == Cycle(G(intent), obs)
               k == [h EXCEPT !.obs = NoNames, !.age = IF Due(h) THEN 2 ELSE 0]
    <2>2. g.status = "observing"
      BY <1>3 DEF Observing
    <2>3. Judging(G(intent), obs) /\ G(intent).scope = g.scope
      BY ZenonT(60), <1>1, <2>2, JudgingIs
    <2> HIDE DEF G
    <2>4. Sound(h) /\ h.scope = g.scope
      BY <2>3, CycleIs
    <2>5. /\ gate' = [gate EXCEPT ![r] = IF h.status = "observing" THEN k ELSE h]
          /\ mute' = IF h.status = "observing" THEN mute ELSE Unmuted(mute, {r})
      BY <2>1
    <2> HIDE DEF h
    <2>6. /\ h.status \in Final => RunOK(h)
          /\ h.status = "observing" => RunOK(k) /\ k.status = "observing" /\ k.scope = h.scope
          /\ h.status \in Final \cup {"observing"}
      BY <2>4, JudgeKeeps
    <2> HIDE DEF k
    <2>7. CASE h.status = "observing"
      BY <1>3, <2>4, <2>5, <2>6, <2>7, OneMoves
    <2>8. CASE h.status \in Final
      <3>1. h.status # "observing"
        BY <2>8 DEF Final
      <3> QED
        BY <1>3, <2>5, <2>6, <2>8, <3>1, OneMoves
    <2> QED
      BY <2>6, <2>7, <2>8
  <1> QED
    BY <1>2, <1>3

(* What an update or an operation makes of the gates it ends.               *)
LEMMA EndingIs ==
    ASSUME Rows, NEW done \in SUBSET Observing, NEW why \in {"superseded", "operation"}, NEW r \in Runs
    PROVE  /\ RunOK(Ending(done, why)[r])
           /\ r \in done => Ending(done, why)[r].status = "unknown"
           /\ r \notin done => Ending(done, why)[r] = gate[r]
  <1> DEFINE h == [gate[r] EXCEPT !.status = "unknown", !.why = why]
  <1>1. Ending(done, why)[r] = IF r \in done THEN (IF h.poll = "read" THEN h ELSE Row("unknown")) ELSE gate[r]
    BY DEF Ending
  <1>2. RunOK(gate[r]) /\ (r \in done => gate[r].status = "observing")
    BY DEF Rows, Observing
  <1>3. RunOK(Row("unknown")) /\ Row("unknown").status = "unknown"
    BY RowKeeps DEF Final
  <1>4. r \in done => RunOK(h) /\ h.status = "unknown"
    BY <1>2, EndKeeps
  <1> HIDE DEF h
  <1> QED
    BY <1>1, <1>2, <1>3, <1>4

(* The gates an operation on the services S ends.                           *)
EndedBy(S) == {r \in Observing: S = Services \/ gate[r].scope \in S \cup {"stack"}}

(* supersedeForContainerOp: the gates of the services it names and of the   *)
(* stack end; the others are told and observe on.                           *)
LEMMA SupersedeMoves ==
    ASSUME Rows, NEW S \in SUBSET Services, NEW mu, supersedeForContainerOp(S, mu)
    PROVE  Keeps(EndedBy(S)) /\ mute' = Unmuted(mu, EndedBy(S))
  <1> DEFINE names == UNION {Of(s): s \in S}
             ended == EndedBy(S)
  <1>0. ended \in SUBSET Observing /\ names \subseteq Names
    BY DEF EndedBy, Of
  <1>1. /\ gate' = [r \in Runs |->
                       IF r \in ended THEN Ending(ended, "operation")[r]
                       ELSE IF r \in Observing THEN detachServiceFromGate(gate[r], names) ELSE Rest(gate[r])]
        /\ mute' = Unmuted(mu, ended)
    BY DEF supersedeForContainerOp, EndedBy
  <1>2. ASSUME NEW r \in Observing \ ended
        PROVE  /\ gate[r].status = "observing" /\ RunOK(gate[r])
               /\ gate[r].scope # "stack" /\ names \cap Of(gate[r].scope) = {}
    BY SMTT(30), <1>2 DEF EndedBy, Observing, Rows, Of
  <1> HIDE DEF names, ended
  <1>3. ASSUME NEW r \in Runs PROVE Ends(ended, r)
    <2>1. RunOK(gate[r])
      BY DEF Rows
    <2>2. CASE r \in ended
      <3>1. RunOK(gate'[r]) /\ gate'[r].status = "unknown"
        BY <1>0, <1>1, <2>2, EndingIs
      <3> QED
        BY <2>2, <3>1 DEF Ends, Final
    <2>3. CASE r \in Observing \ ended
      <3>1. gate'[r] = detachServiceFromGate(gate[r], names)
        BY <1>1, <2>3
      <3>2. RunOK(gate'[r]) /\ gate'[r].status = "observing" /\ gate'[r].scope = gate[r].scope
        BY SMTT(30), <1>0, <1>2, <2>3, <3>1, DetachKeeps
      <3> QED
        BY <1>2, <2>3, <3>2 DEF Ends
    <2>4. CASE r \notin Observing
      <3>1. r \notin ended /\ gate'[r] = Rest(gate[r])
        BY <1>0, <1>1, <2>4
      <3> QED
        BY <2>1, <2>4, <3>1, RestKeeps DEF Ends
    <2> QED
      BY <2>2, <2>3, <2>4
  <1>4. gate' = [r \in Runs |-> gate'[r]]
    BY <1>1
  <1>5. Keeps(ended)
    BY <1>0, <1>3, <1>4, AllMove
  <1> QED
    BY <1>1, <1>5 DEF ended

(* A prepare clears the readings of the finished runs.                      *)
LEMMA RestMoves ==
    ASSUME Rows, gate' = [r \in Runs |-> Rest(gate[r])]
    PROVE  Keeps({})
  <1>1. \A r \in Runs: RunOK(gate[r])
    BY DEF Rows
  <1>2. \A r \in Runs: RunOK(gate'[r]) /\ gate'[r].status = gate[r].status
                       /\ (gate[r].status = "observing" => gate'[r] = gate[r])
    BY <1>1, RestKeeps
  <1>3. \A r \in Runs: Ends({}, r)
    BY <1>2 DEF Ends, Observing
  <1>4. gate' = [r \in Runs |-> gate'[r]]
    OBVIOUS
  <1> QED
    BY <1>3, <1>4, AllMove

(* A shutdown ends every gate and rewrites no verdict.                      *)
LEMMA StopMoves ==
    ASSUME Rows, stop
    PROVE  Rows' /\ Stands /\ Observing' = {} /\ Free' = Free
  <1>1. gate' = [r \in Runs |-> IF gate[r].status = "none" THEN NoRun
                             ELSE Row(IF r \in Observing THEN "unknown" ELSE gate[r].status)]
    BY DEF stop
  <1>2. ASSUME NEW r \in Runs
        PROVE  /\ RunOK(gate'[r]) /\ gate'[r].status # "observing"
               /\ gate[r].status \in Final => gate'[r].status = gate[r].status
               /\ gate'[r].status = "none" <=> gate[r].status = "none"
    <2>1. RunOK(gate[r]) /\ gate[r].status \in Final \cup {"observing", "none"}
      BY StatusIs DEF Rows
    <2>2. CASE gate[r].status = "none"
      BY <1>1, <2>2 DEF RunOK, NoRun, Final
    <2>3. CASE gate[r].status # "none"
      <3> DEFINE v == IF r \in Observing THEN "unknown" ELSE gate[r].status
      <3>1. v \in Final /\ gate'[r] = Row(v)
        BY <1>1, <2>1, <2>3 DEF Observing, Final
      <3>2. RunOK(gate'[r]) /\ gate'[r].status = v
        BY <3>1, RowKeeps
      <3> QED
        BY <2>3, <3>1, <3>2 DEF Observing, Final
    <2> QED
      BY <2>2, <2>3
  <1> QED
    BY <1>1, <1>2 DEF Rows, Stands, Observing, Free

(* A gate that begins: a row is inserted, observing if the cap allows it.   *)
Opens(done, scope) ==
    /\ Rows' /\ Stands /\ Slot \in Runs \ Observing
    /\ \A r \in Observing \ done: gate'[r].scope = gate[r].scope
    /\ \/ /\ Cardinality(Observing \ done) < MaxGates /\ gate'[Slot].status = "observing"
          /\ gate'[Slot].scope = scope /\ Observing' = (Observing \ done) \cup {Slot}
       \/ gate'[Slot].status = "unknown" /\ Observing' = Observing \ done

(* beginStack and beginPrepared: what a begin does to the runs.             *)
LEMMA InsertMoves ==
    ASSUME Rows, Free # {}, NEW done \in SUBSET Observing, NEW new, RunOK(new), new.status = "observing",
           gate' = Insert(done, new)
    PROVE  Opens(done, new.scope)
  <1> DEFINE room == Cardinality(Observing \ done) < MaxGates
             e == Ending(done, "superseded")
             h == IF room THEN new ELSE Row("unknown")
  <1>1. Slot \in Free
    BY DEF Slot
  <1>2. Slot \in Runs /\ gate[Slot].status = "none" /\ Slot \notin Observing
    BY <1>1 DEF Free, Observing
  <1>3. e = [r \in Runs |-> e[r]]
    BY DEF Ending
  <1>4. gate' = [e EXCEPT ![Slot] = h]
    BY DEF Insert
  <1>5. /\ RunOK(h) /\ (room => h.status = "observing" /\ h.scope = new.scope)
        /\ (~ room => h.status = "unknown")
    BY RowKeeps DEF Final
  <1>6. \A r \in Runs: /\ RunOK(e[r]) /\ (r \in done => e[r].status = "unknown")
                       /\ (r \notin done => e[r] = gate[r])
    BY EndingIs
  <1> HIDE DEF e, h
  <1>7. /\ gate' = [r \in Runs |-> gate'[r]] /\ gate'[Slot] = h
        /\ \A r \in Runs \ {Slot}: gate'[r] = e[r]
    BY <1>2, <1>3, <1>4
  <1>8. Rows'
    BY <1>5, <1>6, <1>7 DEF Rows
  <1>9. Stands
    BY <1>2, <1>6, <1>7 DEF Stands, Observing, Final
  <1>10. \A r \in Runs \ {Slot}: r \in Observing' <=> r \in Observing \ done
    BY <1>6, <1>7 DEF Observing
  <1>11. Slot \in Observing' <=> h.status = "observing"
    BY <1>2, <1>7 DEF Observing
  <1>12. Observing' \subseteq Runs /\ Observing \subseteq Runs
    BY DEF Observing
  <1>13. \A r \in Observing \ done: gate'[r].scope = gate[r].scope
    BY <1>2, <1>6, <1>7, <1>12
  <1> QED
    BY SMTT(30), <1>2, <1>5, <1>7, <1>8, <1>9, <1>10, <1>11, <1>12, <1>13 DEF Opens

(* The gates on a service, and the update of it that still holds its own    *)
(* suppression.                                                             *)
Owners(s) == {r \in Observing: gate[r].scope = s}
Claim(s) == IF job.kind = "service" /\ token.svc = s THEN 1 ELSE 0

(* What the gates owe each other, the cap and Auto-Heal.                    *)
Watch ==
    /\ Rows /\ StackGateAlone /\ Cardinality(Observing) <= MaxGates
    /\ mute \in [Services -> Nat] /\ MuteIsOwned

(* The runs are finite, and so is any set of them.                          *)
LEMMA Finite ==
    ASSUME NEW S \in SUBSET Runs
    PROVE  IsFiniteSet(S) /\ Cardinality(S) \in Nat
  <1>1. IsFiniteSet(Runs)
    BY SMTT(30), GateAssumption, FS_Interval DEF Runs
  <1>2. IsFiniteSet(S)
    BY <1>1, FS_Subset
  <1> QED
    BY <1>2, FS_CardinalityType

(* The suppressions after finalize, service by service.                     *)
LEMMA UnmutedIs ==
    ASSUME NEW m \in [Services -> Nat], NEW done \in SUBSET Runs
    PROVE  /\ Unmuted(m, done) \in [Services -> Nat]
           /\ \A s \in Services:
                LET owners == Cardinality({r \in done: gate[r].scope = s})
                IN  Unmuted(m, done)[s] = IF m[s] <= owners THEN 0 ELSE m[s] - owners
  <1>1. \A s \in Services: Cardinality({r \in done: gate[r].scope = s}) \in Nat
    <2> TAKE s \in Services
    <2>1. {r \in done: gate[r].scope = s} \in SUBSET Runs
      OBVIOUS
    <2> QED
      BY <2>1, Finite
  <1> DEFINE N(s) == Cardinality({r \in done: gate[r].scope = s})
  <1>2. Unmuted(m, done) = [s \in Services |-> IF m[s] <= N(s) THEN 0 ELSE m[s] - N(s)]
    BY DEF Unmuted
  <1>3. \A s \in Services: N(s) \in Nat
    BY <1>1
  <1> HIDE DEF N
  <1>4. \A s \in Services: (IF m[s] <= N(s) THEN 0 ELSE m[s] - N(s)) \in Nat
    BY SMTT(30), <1>3
  <1>5. Unmuted(m, done) \in [Services -> Nat]
    BY <1>2, <1>4
  <1> QED
    BY <1>2, <1>5 DEF N

(* No gate ends, no suppression is released.                                *)
LEMMA UnmutedNone ==
    ASSUME NEW m \in [Services -> Nat]
    PROVE  Unmuted(m, {}) = m
  <1>1. \A s \in Services: {r \in {}: gate[r].scope = s} = {}
    OBVIOUS
  <1>2. Unmuted(m, {}) \in [Services -> Nat] /\ \A s \in Services: Unmuted(m, {})[s] = m[s]
    BY SMTT(30), <1>1, UnmutedIs, FS_EmptySet
  <1> QED
    BY SMTT(30), <1>2

(* MuteIsOwned with its terms named.                                        *)
LEMMA MuteIs ==
    MuteIsOwned <=> (up => \A s \in Services: mute[s] = Cardinality(Owners(s)) + Claim(s))
  BY DEF MuteIsOwned, Owners, Claim

(* The gates of a service that are left once some have ended.               *)
LEMMA OwnersLeft ==
    ASSUME NEW done \in SUBSET Observing, NEW s
    PROVE  /\ Cardinality(Owners(s)) \in Nat /\ Cardinality({r \in done: gate[r].scope = s}) \in Nat
           /\ Cardinality(Owners(s) \ done)
                = Cardinality(Owners(s)) - Cardinality({r \in done: gate[r].scope = s})
           /\ Cardinality(Owners(s) \ done) \in Nat
  <1> DEFINE D == {r \in done: gate[r].scope = s}
  <1>1. Owners(s) \cap done = D /\ Owners(s) \in SUBSET Runs /\ D \in SUBSET Runs
        /\ Owners(s) \ done \in SUBSET Runs
    BY DEF Owners, Observing
  <1>2. /\ IsFiniteSet(Owners(s)) /\ Cardinality(Owners(s)) \in Nat /\ Cardinality(D) \in Nat
        /\ Cardinality(Owners(s) \ done) \in Nat
    BY <1>1, Finite
  <1> QED
    BY ZenonT(60), <1>1, <1>2, FS_Difference

(* A step that only ends gates, each releasing its suppression.             *)
LEMMA WatchKept ==
    ASSUME Watch, NEW done \in SUBSET Observing, Keeps(done), mute' = Unmuted(mute, done),
           up' = up, \A s \in Services: Claim(s)' = Claim(s)
    PROVE  Watch'
  <1>1. Observing' = Observing \ done /\ Observing \subseteq Runs /\ Rows'
        /\ \A r \in Observing \ done: gate'[r].scope = gate[r].scope
    BY DEF Keeps, Observing
  <1>2. StackGateAlone'
    BY SMTT(30), <1>1 DEF StackGateAlone, Watch
  <1>3. (Cardinality(Observing) <= MaxGates)'
    <2>1. IsFiniteSet(Observing) /\ Cardinality(Observing) \in Nat /\ Cardinality(Observing \ done) \in Nat
      BY <1>1, Finite
    <2>2. Cardinality(Observing \ done) <= Cardinality(Observing)
      BY <2>1, FS_Subset
    <2> QED
      BY SMTT(30), <1>1, <2>1, <2>2, GateAssumption DEF Watch
  <1>4. mute \in [Services -> Nat] /\ mute' \in [Services -> Nat]
    BY <1>1, UnmutedIs DEF Watch
  <1>5. ASSUME up', NEW s \in Services
        PROVE  mute'[s] = Cardinality(Owners(s)') + Claim(s)'
    <2>1. Owners(s)' = Owners(s) \ done
      BY <1>1 DEF Owners
    <2>2. mute[s] = Cardinality(Owners(s)) + Claim(s) /\ Claim(s) \in {0, 1}
      BY <1>5, MuteIs DEF Watch, Claim
    <2> DEFINE d == Cardinality({r \in done: gate[r].scope = s})
               o == Cardinality(Owners(s))
    <2>3. o \in Nat /\ d \in Nat /\ Cardinality(Owners(s) \ done) = o - d /\ o - d \in Nat
      BY OwnersLeft
    <2>4. mute'[s] = IF mute[s] <= d THEN 0 ELSE mute[s] - d
      BY SMTT(30), <1>1, <1>4, UnmutedIs
    <2> HIDE DEF d, o
    <2>5. mute'[s] = (o - d) + Claim(s)
      BY SMTT(30), <2>2, <2>3, <2>4 DEF o
    <2> QED
      BY <2>1, <2>3, <2>5
  <1>6. MuteIsOwned'
    <2>1. (up => \A s \in Services: mute[s] = Cardinality(Owners(s)) + Claim(s))'
      BY <1>5
    <2> QED
      BY <2>1 DEF MuteIsOwned, Owners, Claim
  <1> QED
    BY <1>1, <1>2, <1>3, <1>4, <1>6 DEF Watch

(* A step that ends no gate and leaves the suppressions alone.              *)
LEMMA WatchStill ==
    ASSUME Watch, Keeps({}), mute' = mute, up' = up, \A s \in Services: Claim(s)' = Claim(s)
    PROVE  Watch'
  <1>1. mute' = Unmuted(mute, {}) /\ {} \in SUBSET Observing
    BY UnmutedNone DEF Watch
  <1> QED
    BY <1>1, WatchKept

(* A step that changes only whose suppression it is.                        *)
LEMMA WatchClaims ==
    ASSUME Watch, Keeps({}), mute' \in [Services -> Nat],
           up => \A s \in Services: mute'[s] + Claim(s) = mute[s] + Claim(s)', up' = up,
           \A s \in Services: Claim(s)' \in {0, 1}
    PROVE  Watch'
  <1>1. Observing' = Observing /\ Observing \subseteq Runs /\ Rows'
        /\ \A r \in Observing: gate'[r].scope = gate[r].scope
    BY DEF Keeps, Observing
  <1>2. StackGateAlone' /\ (Cardinality(Observing) <= MaxGates)'
    BY SMTT(30), <1>1 DEF StackGateAlone, Watch
  <1>3. ASSUME up', NEW s \in Services
        PROVE  mute'[s] = Cardinality(Owners(s)') + Claim(s)'
    <2>1. Owners(s)' = Owners(s) /\ Owners(s) \in SUBSET Runs
      BY <1>1 DEF Owners
    <2>2. mute[s] = Cardinality(Owners(s)) + Claim(s) /\ Claim(s) \in {0, 1} /\ mute[s] \in Nat
      BY <1>3, MuteIs DEF Watch, Claim
    <2>3. Cardinality(Owners(s)) \in Nat
      BY <2>1, Finite
    <2>4. mute'[s] \in Nat /\ mute'[s] + Claim(s) = mute[s] + Claim(s)' /\ Claim(s)' \in {0, 1}
      BY <1>3
    <2> QED
      BY SMTT(30), <2>1, <2>2, <2>3, <2>4
  <1>4. MuteIsOwned'
    <2>1. (up => \A s \in Services: mute[s] = Cardinality(Owners(s)) + Claim(s))'
      BY <1>3
    <2> QED
      BY <2>1 DEF MuteIsOwned, Owners, Claim
  <1> QED
    BY <1>1, <1>2, <1>4 DEF Watch

(* A gate begins: those it replaces have ended, and it takes over the       *)
(* suppression of the update it gates, or at the cap the update's finally   *)
(* releases it.                                                             *)
LEMMA WatchOpens ==
    ASSUME Watch, NEW s0 \in Services \cup {"stack"}, Opens(SupersededBy(s0), s0), up' = up, up,
           \A s \in Services: Claim(s) = IF s = s0 THEN 1 ELSE 0, \A s \in Services: Claim(s)' = 0,
           mute' = IF s0 = "stack" \/ gate'[Slot].status = "observing"
                   THEN Unmuted(mute, SupersededBy(s0)) ELSE clearSuppress(Unmuted(mute, SupersededBy(s0)), s0)
    PROVE  Watch'
  <1> DEFINE done == SupersededBy(s0)
             left == Observing \ done
             m == Unmuted(mute, done)
  <1>0. done \in SUBSET Observing /\ Observing \subseteq Runs /\ left \subseteq Runs
    BY DEF SupersededBy, Observing
  <1>1. /\ Rows' /\ Slot \in Runs \ Observing /\ (\A r \in left: gate'[r].scope = gate[r].scope)
        /\ \/ /\ Cardinality(left) < MaxGates /\ gate'[Slot].status = "observing"
              /\ gate'[Slot].scope = s0 /\ Observing' = left \cup {Slot}
           \/ gate'[Slot].status = "unknown" /\ Observing' = left
    BY DEF Opens
  <1>2. \A r \in left: gate[r].scope # s0 /\ gate[r].scope # "stack" /\ s0 # "stack"
    BY DEF SupersededBy
  <1>3. StackGateAlone'
    BY SMTT(30), <1>0, <1>1, <1>2 DEF StackGateAlone, Watch
  <1>4. (Cardinality(Observing) <= MaxGates)'
    <2>1. IsFiniteSet(Observing) /\ Cardinality(Observing) \in Nat /\ IsFiniteSet(left) /\ Cardinality(left) \in Nat
      BY <1>0, Finite
    <2>2. Cardinality(left) <= Cardinality(Observing)
      BY <2>1, FS_Subset
    <2>3. Cardinality(left \cup {Slot}) = Cardinality(left) + 1
      BY <1>1, <2>1, FS_AddElement
    <2> HIDE DEF left
    <2> QED
      BY SMTT(30), <1>1, <2>1, <2>2, <2>3, GateAssumption DEF Watch
  <1>5. mute \in [Services -> Nat] /\ m \in [Services -> Nat]
    BY <1>0, UnmutedIs DEF Watch
  <1>6. ASSUME NEW s \in Services
        PROVE  m[s] = Cardinality(Owners(s) \ done) + Claim(s) /\ Cardinality(Owners(s) \ done) \in Nat
    <2>2. mute[s] = Cardinality(Owners(s)) + Claim(s) /\ Claim(s) \in {0, 1}
      BY MuteIs DEF Watch, Claim
    <2> DEFINE d == Cardinality({r \in done: gate[r].scope = s})
               o == Cardinality(Owners(s))
    <2>3. o \in Nat /\ d \in Nat /\ Cardinality(Owners(s) \ done) = o - d /\ o - d \in Nat
      BY <1>0, OwnersLeft
    <2>4. m[s] = IF mute[s] <= d THEN 0 ELSE mute[s] - d
      BY SMTT(30), <1>0, <1>5, UnmutedIs
    <2> HIDE DEF d, o
    <2> QED
      BY SMTT(30), <2>2, <2>3, <2>4 DEF o
  <1>7. s0 \in Services => Owners(s0) \ done = {}
    BY <1>2 DEF Owners
  <1>8. "stack" \notin Services
    BY Constants
  <1> HIDE DEF m
  <1>9. mute' \in [Services -> Nat]
    BY SMTT(30), <1>5 DEF clearSuppress, m
  <1>10. ASSUME NEW s \in Services
         PROVE  mute'[s] = Cardinality(Owners(s)')
    <2>1. CASE s # s0
      <3>1. Owners(s)' = Owners(s) \ done
        BY <1>0, <1>1, <2>1 DEF Owners
      <3>2. mute'[s] = m[s]
        BY <1>5, <2>1 DEF clearSuppress, m
      <3> QED
        BY SMTT(30), <1>6, <2>1, <3>1, <3>2
    <2>2. CASE s = s0 /\ gate'[Slot].status = "observing"
      <3>1. Owners(s)' = {Slot}
        BY SMTT(30), <1>0, <1>1, <1>2, <2>2 DEF Owners
      <3>2. mute'[s] = m[s]
        BY <2>2 DEF m
      <3>3. m[s] = 1
        <4>1. Cardinality(Owners(s) \ done) = 0 /\ Claim(s) = 1
          BY <1>7, <2>2, FS_EmptySet
        <4> QED
          BY SMTT(30), <1>6, <4>1
      <3> QED
        BY <3>1, <3>2, <3>3, FS_Singleton
    <2>3. CASE s = s0 /\ gate'[Slot].status # "observing"
      <3>1. Owners(s)' = {}
        BY <1>0, <1>1, <1>2, <2>3 DEF Owners
      <3>2. m[s] = 1
        <4>1. Cardinality(Owners(s) \ done) = 0 /\ Claim(s) = 1
          BY <1>7, <2>3, FS_EmptySet
        <4> QED
          BY SMTT(30), <1>6, <4>1
      <3>3. mute' = clearSuppress(m, s)
        BY <1>8, <2>3 DEF m
      <3>4. clearSuppress(m, s)[s] = IF m[s] <= 1 THEN 0 ELSE m[s] - 1
        BY <1>5 DEF clearSuppress
      <3>5. mute'[s] = 0
        BY SMTT(30), <3>2, <3>3, <3>4
      <3> QED
        BY <3>1, <3>5, FS_EmptySet
    <2> QED
      BY <2>1, <2>2, <2>3
  <1>11. MuteIsOwned'
    <2>0. \A s \in Services: Owners(s)' \in SUBSET Runs
      BY DEF Owners, Observing
    <2>1. (up => \A s \in Services: mute[s] = Cardinality(Owners(s)) + Claim(s))'
      BY SMTT(30), <1>10, <2>0, Finite
    <2> QED
      BY <2>1 DEF MuteIsOwned, Owners, Claim
  <1> QED
    BY <1>1, <1>3, <1>4, <1>9, <1>11 DEF Watch

(* What the gates are judged against and begun from.                        *)
Around ==
    /\ box \in [Names -> Facts] /\ events \in Nat /\ up \in BOOLEAN
    /\ job = NoJob \/ job \in Jobs
    /\ token = NoToken \/ IsToken(token)
    /\ fleet \subseteq Names \X Nat

(* The inductive invariant.                                                 *)
Inv == Around /\ Prepared /\ Watch

(* The kinds of the lock's holder.                                          *)
LEMMA JobIs ==
    ASSUME Around, Prepared
    PROVE  /\ job.kind \in {"none", "stack", "service", "op"}
           /\ job.kind = "none" <=> job = NoJob
           /\ job.kind = "stack" => job \in [kind: {"stack"}, at: {"up", "landed"}]
           /\ job.kind = "service" =>
                 /\ job \in [kind: {"service"}, at: {"preparing", "prepared", "recreating", "landed"}]
                 /\ IsToken(token) /\ token # NoToken
           /\ job.kind = "op" => job \in [kind: {"op"}, svcs: SUBSET Services, act: {"stop", "restart"}]
           /\ job.kind # "service" => token = NoToken
  <1>1. NoJob.kind = "none"
    BY DEF NoJob
  <1>2. CASE job = NoJob
    BY <1>1, <1>2 DEF Prepared
  <1>3. CASE job \in Jobs
    BY <1>1, <1>3 DEF Jobs, Prepared, Around
  <1> QED
    BY <1>2, <1>3 DEF Around

(* A token is one thing, the lack of it another.                            *)
LEMMA TokenIs ==
    ASSUME NEW k, IsToken(k)
    PROVE  /\ k # NoToken /\ k.svc \in Services /\ k.reps \in Nat /\ k.told \subseteq Names
           /\ DOMAIN k.elig \subseteq Names /\ k.elig \in [DOMAIN k.elig -> Nat]
  BY SMTT(30) DEF IsToken, NoToken

(* With no update of a service under way no update holds a suppression.     *)
LEMMA ClaimIs ==
    /\ \A s \in Services: Claim(s) \in {0, 1} /\ Claim(s)' \in {0, 1}
    /\ job.kind # "service" => \A s \in Services: Claim(s) = 0
    /\ job'.kind # "service" => \A s \in Services: Claim(s)' = 0
    /\ job'.kind = job.kind /\ token'.svc = token.svc => \A s \in Services: Claim(s)' = Claim(s)
    /\ job'.kind = job.kind /\ job.kind # "service" => \A s \in Services: Claim(s)' = Claim(s)
  BY DEF Claim

(* The steps of a gate: nothing around it moves.                            *)
LEMMA GateSteps ==
    ASSUME Inv, NEW r \in Runs, NEW age \in 0 .. 2,
           Poll(r) \/ countPollError(r) \/ Unsupported(r) \/ Judge(r, age)
    PROVE  Inv' /\ Stands
  <1>0. Rows /\ box \in [Names -> Facts] /\ mute \in [Services -> Nat]
    BY DEF Inv, Watch, Around
  <1>1. UNCHANGED <<box, events, up, job, token, fleet>>
    BY DEF Poll, countPollError, Unsupported, Judge
  <1>2. \/ Keeps({}) /\ mute' = mute
        \/ r \in Observing /\ Keeps({r}) /\ mute' = Unmuted(mute, {r})
    <2>1. Poll(r) => mute' = mute
      BY DEF Poll
    <2>2. countPollError(r) \/ Unsupported(r) => r \in Observing
      BY DEF countPollError, Unsupported
    <2> QED
      BY SMTT(30), <1>0, <2>1, <2>2, PollMoves, ErrorMoves, UnsupportedMoves, JudgeMoves
  <1>3. \A s \in Services: Claim(s)' = Claim(s)
    BY <1>1 DEF Claim
  <1>4. Watch'
    BY SMTT(30), <1>1, <1>2, <1>3, WatchStill, WatchKept DEF Inv
  <1>5. Stands /\ Free' = Free
    BY <1>2 DEF Keeps
  <1>6. Around' /\ Prepared'
    BY <1>1, <1>5 DEF Inv, Around, Prepared
  <1> QED
    BY <1>4, <1>5, <1>6 DEF Inv

(* The steps of the containers, and those of an update or an operation that *)
(* leave the gates and the suppressions alone.                              *)
BoxStep ==
    \/ StackUpLands \/ StackUngated \/ PrepareStores \/ ServiceUpRemoves \/ ServiceUpLands \/ OpLands
    \/ \E p \in fleet: FleetStops(p[1], p[2])
    \/ \E n \in Names, to \in {"ok", "unhealthy"} \cup Exited \cup {"restarting", "running", "gone"}: Changes(n, to)

(* A container restarts.                                                    *)
LEMMA RestartIs ==
    ASSUME NEW f \in Facts, NEW health \in Health
    PROVE  /\ [f EXCEPT !.state = "running", !.health = health, !.inc = @ + 1] \in Facts
           /\ [f EXCEPT !.state = "running", !.inc = @ + 1, !.health = health] \in Facts
  <1> DEFINE inc == f.inc + 1
  <1>1. inc \in Nat
    BY SMTT(30) DEF Facts
  <1>2. /\ [f EXCEPT !.state = "running", !.health = health, !.inc = @ + 1]
             = [f EXCEPT !.state = "running", !.health = health, !.inc = inc]
        /\ [f EXCEPT !.state = "running", !.inc = @ + 1, !.health = health]
             = [f EXCEPT !.state = "running", !.inc = inc, !.health = health]
    OBVIOUS
  <1> HIDE DEF inc
  <1>3. /\ [f EXCEPT !.state = "running", !.health = health, !.inc = inc] \in Facts
        /\ [f EXCEPT !.state = "running", !.inc = inc, !.health = health] \in Facts
    BY <1>1 DEF Facts
  <1> QED
    BY <1>2, <1>3

(* Such a step leaves containers behind.                                    *)
LEMMA BoxTypes ==
    ASSUME Around, Prepared, BoxStep
    PROVE  box' \in [Names -> Facts]
  <1>0. \A n \in Names: /\ box[n].state \in {"running", "restarting", "gone"} \cup Exited
                        /\ box[n].health \in Health /\ box[n].inc \in Nat /\ box[n].img \in {"old", "new"}
                        /\ box[n] \in Facts
    BY DEF Around, Facts
  <1>1. \A n \in Names, health \in Boots: Recreated(n, health) \in Facts
    BY SMTT(30), <1>0, GateAssumption DEF Recreated, Facts, Health
  <1>2. \A n \in Names: Removed(n) \in Facts
    BY <1>0 DEF Removed, Facts, Health
  <1>3. \A n \in Names, state \in Exited: Stopped(n, state) \in Facts
    BY <1>0 DEF Stopped, Facts
  <1>4. CASE StackUpLands
    BY <1>1, <1>2, <1>4 DEF StackUpLands
  <1>5. CASE StackUngated \/ PrepareStores
    BY <1>5 DEF StackUngated, PrepareStores, Around
  <1>6. CASE ServiceUpRemoves
    BY <1>0, <1>2, <1>6 DEF ServiceUpRemoves
  <1>7. CASE ServiceUpLands
    BY <1>0, <1>1, <1>7 DEF ServiceUpLands
  <1>8. CASE OpLands
    <2>1. \A n \in Names: [box[n] EXCEPT !.state = "running", !.health = "ok", !.inc = @ + 1] \in Facts
      BY <1>0, RestartIs DEF Health
    <2> QED
      BY ZenonT(60), <1>0, <1>3, <1>8, <2>1 DEF OpLands
  <1>9. CASE \E p \in fleet: FleetStops(p[1], p[2])
    BY SMTT(30), <1>0, <1>3, <1>9 DEF FleetStops, Around
  <1>10. ASSUME NEW n \in Names, NEW to \in {"ok", "unhealthy"} \cup Exited \cup {"restarting", "running", "gone"},
                Changes(n, to)
         PROVE  box' \in [Names -> Facts]
    <2>0. box \in [Names -> Facts]
      BY DEF Around
    <2>1. CASE to \in Health /\ box' = [box EXCEPT ![n].health = to]
      BY <1>0, <2>0, <2>1 DEF Facts
    <2>2. CASE to \in Exited \cup {"restarting"} /\ box' = [box EXCEPT ![n].state = to]
      BY <1>0, <2>0, <2>2 DEF Facts
    <2>3. CASE \E health \in {"ok", "starting"}:
                  box' = [box EXCEPT ![n] = [box[n] EXCEPT !.state = "running", !.inc = @ + 1, !.health = health]]
      <3>1. PICK health \in {"ok", "starting"}:
               box' = [box EXCEPT ![n] = [box[n] EXCEPT !.state = "running", !.inc = @ + 1, !.health = health]]
        BY <2>3
      <3> DEFINE f == [box[n] EXCEPT !.state = "running", !.inc = @ + 1, !.health = health]
      <3>2. f \in Facts
        BY <1>0, RestartIs DEF Health
      <3>3. box' = [box EXCEPT ![n] = f]
        BY <3>1
      <3> HIDE DEF f
      <3> QED
        BY <2>0, <3>2, <3>3
    <2>4. CASE \E i \in {"old", "new"}:
                  box' = [box EXCEPT ![n] = [state |-> "running", health |-> "ok", inc |-> @.inc + 1, img |-> i]]
      BY SMTT(30), <1>0, <2>0, <2>4 DEF Facts, Health
    <2>5. CASE box' = [box EXCEPT ![n] = Removed(n)]
      BY <1>2, <2>0, <2>5
    <2> QED
      BY <1>10, <2>1, <2>2, <2>3, <2>4, <2>5 DEF Changes
  <1> QED
    BY <1>4, <1>5, <1>6, <1>7, <1>8, <1>9, <1>10 DEF BoxStep

(* Nothing a box step does touches a gate or a suppression.                 *)
LEMMA BoxSteps ==
    ASSUME Inv, BoxStep
    PROVE  Inv' /\ Stands
  <1>0. Around /\ Prepared /\ Watch /\ Rows
    BY DEF Inv, Watch
  <1>1. gate' = gate /\ mute' = mute /\ up' = up
    BY DEF BoxStep, StackUpLands, StackUngated, PrepareStores, ServiceUpRemoves, ServiceUpLands,
           OpLands, FleetStops, Changes
  <1>2. events' \in Nat
    <2>1. events' \in {events, events + 1}
      BY DEF BoxStep, StackUpLands, StackUngated, PrepareStores, ServiceUpRemoves, ServiceUpLands,
             OpLands, FleetStops, Changes, Event
    <2> QED
      BY SMTT(30), <1>0, <2>1 DEF Around
  <1>3. fleet' \subseteq Names \X Nat
    BY <1>0 DEF BoxStep, StackUpLands, StackUngated, PrepareStores, ServiceUpRemoves, ServiceUpLands,
           OpLands, FleetStops, Changes, Around
  <1>4. box' \in [Names -> Facts]
    BY <1>0, BoxTypes
  <1>5. Keeps({}) /\ Free' = Free /\ Stands
    BY <1>0, <1>1, NoneMoves DEF Keeps
  <1>6. /\ job' = NoJob \/ job' \in Jobs
        /\ token' = NoToken \/ IsToken(token')
        /\ Prepared'
        /\ \A s \in Services: Claim(s)' = Claim(s)
    <2>1. CASE StackUpLands
      <3>1. job' \in [kind: {"stack"}, at: {"up", "landed"}] /\ token' = token /\ job.kind = "stack"
        BY <1>0, <2>1, JobIs DEF StackUpLands
      <3> QED
        BY <1>0, <1>5, <3>1, ClaimIs DEF Prepared, Jobs, Around
    <2>2. CASE StackUngated \/ OpLands
      <3>1. job' = NoJob /\ token' = token /\ job.kind \in {"stack", "op"} /\ NoJob.kind = "none"
        BY <2>2 DEF StackUngated, OpLands, NoJob
      <3> QED
        BY <1>0, <3>1, ClaimIs DEF Prepared, Around
    <2>3. CASE PrepareStores
      <3>0. job.kind = "service" /\ IsToken(token)
        BY <1>0, <2>3, JobIs DEF PrepareStores
      <3>1. /\ job' \in [kind: {"service"}, at: {"preparing", "prepared", "recreating", "landed"}]
            /\ token' = [token EXCEPT !.at = "ready"]
        BY <1>0, <2>3, JobIs DEF PrepareStores
      <3>2. IsToken(token') /\ token'.svc = token.svc /\ token'.told = token.told /\ token'.elig = token.elig
        BY <3>0, <3>1 DEF IsToken
      <3>3. token # NoToken /\ token' # NoToken
        BY <3>0, <3>2, TokenIs
      <3> QED
        BY SMTT(30), <1>0, <1>5, <3>0, <3>1, <3>2, <3>3, ClaimIs DEF Prepared, Jobs
    <2>4. CASE ServiceUpRemoves \/ ServiceUpLands
      <3>1. /\ job' \in [kind: {"service"}, at: {"preparing", "prepared", "recreating", "landed"}]
            /\ token' = token /\ job.kind = "service"
        BY <1>0, <2>4, JobIs DEF ServiceUpRemoves, ServiceUpLands
      <3> QED
        BY <1>0, <1>5, <3>1, ClaimIs DEF Prepared, Jobs, Around
    <2>5. CASE \/ \E p \in fleet: FleetStops(p[1], p[2])
               \/ \E n \in Names, to \in {"ok", "unhealthy"} \cup Exited \cup {"restarting", "running", "gone"}:
                     Changes(n, to)
      <3>1. job' = job /\ token' = token
        BY <2>5 DEF FleetStops, Changes
      <3> QED
        BY <1>0, <1>5, <3>1, ClaimIs DEF Prepared, Around
    <2> QED
      BY <2>1, <2>2, <2>3, <2>4, <2>5 DEF BoxStep
  <1>7. Watch'
    BY <1>0, <1>1, <1>5, <1>6, WatchStill
  <1>8. Around'
    BY <1>0, <1>1, <1>2, <1>3, <1>4, <1>6 DEF Around
  <1> QED
    BY <1>5, <1>6, <1>7, <1>8 DEF Inv

(* Announcing an operation changes neither the holder of the lock nor whom  *)
(* the token is for, and leaves no operated container in what it expects.   *)
LEMMA TokenTold ==
    ASSUME Around, Prepared, NEW S \in SUBSET Services, NEW mu, supersedeForContainerOp(S, mu)
    PROVE  /\ token = NoToken => token' = NoToken
           /\ token # NoToken =>
                 /\ IsToken(token') /\ token' # NoToken /\ token'.svc = token.svc
                 /\ token'.told \cap (DOMAIN token'.elig \cup Of(token'.svc)) = {}
  <1> DEFINE names == UNION {Of(s): s \in S}
  <1>1. token' = IF token.at # "ready" THEN token
                 ELSE IF S = Services \/ token.svc \in S THEN [token EXCEPT !.at = "dropped"]
                 ELSE [token EXCEPT !.elig = Less(@, names), !.told = @ \cup names]
    BY DEF supersedeForContainerOp
  <1>2. token = NoToken => token' = NoToken
    BY SMTT(30), <1>1 DEF NoToken
  <1>3. ASSUME token # NoToken
        PROVE  /\ IsToken(token') /\ token'.svc = token.svc
               /\ token'.told \cap (DOMAIN token'.elig \cup Of(token'.svc)) = {}
    <2>1. IsToken(token) /\ token.told \cap (DOMAIN token.elig \cup Of(token.svc)) = {}
      BY <1>3 DEF Around, Prepared
    <2>2. CASE token.at # "ready"
      BY <1>1, <2>1, <2>2
    <2>3. CASE token.at = "ready" /\ (S = Services \/ token.svc \in S)
      <3>1. token' = [token EXCEPT !.at = "dropped"]
        BY <1>1, <2>3
      <3>2. IsToken(token') /\ token'.svc = token.svc /\ token'.told = token.told /\ token'.elig = token.elig
        BY <2>1, <3>1 DEF IsToken
      <3> QED
        BY <2>1, <3>2
    <2>4. CASE token.at = "ready" /\ ~ (S = Services \/ token.svc \in S)
      <3>0. names \subseteq Names /\ names \cap Of(token.svc) = {}
        BY <2>4 DEF Of
      <3> DEFINE elig == Less(token.elig, names)
      <3>1. token' = [token EXCEPT !.elig = elig, !.told = @ \cup names]
        BY <1>1, <2>4
      <3>2. DOMAIN elig = DOMAIN token.elig \ names /\ elig \in [DOMAIN elig -> Nat]
        BY <2>1 DEF IsToken, Less, Restrict
      <3> HIDE DEF elig, names
      <3>3. IsToken(token') /\ token'.svc = token.svc /\ token'.told = token.told \cup names /\ token'.elig = elig
        BY <2>1, <3>0, <3>1, <3>2 DEF IsToken
      <3> QED
        BY <2>1, <3>0, <3>2, <3>3
    <2> QED
      BY <2>2, <2>3, <2>4
  <1> QED
    BY <1>2, <1>3, TokenIs

(* The steps that announce an operation: an update of the stack, a stop or  *)
(* a restart, the fleet label stop.                                         *)
LEMMA AnnounceSteps ==
    ASSUME Inv,
           \/ UpdateStack
           \/ \E S \in Sets, act \in {"stop", "restart"}: OpBegins(S, act)
           \/ FleetStop
    PROVE  Inv' /\ Stands
  <1>0. Around /\ Prepared /\ Watch /\ Rows /\ NoJob.kind = "none"
    BY DEF Inv, Watch, NoJob
  <1>1. PICK S \in SUBSET Services: supersedeForContainerOp(S, mute)
    BY DEF UpdateStack, OpBegins, FleetStop, Sets
  <1>2. Keeps(EndedBy(S)) /\ mute' = Unmuted(mute, EndedBy(S)) /\ EndedBy(S) \in SUBSET Observing
    BY <1>0, <1>1, SupersedeMoves DEF EndedBy
  <1>3. Stands /\ Free' = Free
    BY <1>2 DEF Keeps
  <1>4. /\ token = NoToken => token' = NoToken
        /\ token # NoToken =>
              /\ IsToken(token') /\ token' # NoToken /\ token'.svc = token.svc
              /\ token'.told \cap (DOMAIN token'.elig \cup Of(token'.svc)) = {}
    BY <1>0, <1>1, TokenTold
  <1>5. box' = box /\ up' = up /\ events' = events + 1
    BY DEF UpdateStack, OpBegins, FleetStop, Event
  <1>6. fleet' \subseteq Names \X Nat
    <2>1. \A n \in Names: box[n].inc \in Nat
      BY <1>0 DEF Around, Facts
    <2> QED
      BY SMTT(30), <1>0, <2>1 DEF UpdateStack, OpBegins, FleetStop, Around
  <1>7. /\ job' = NoJob \/ job' \in Jobs
        /\ job.kind = "service" <=> job'.kind = "service"
        /\ job'.kind \in {"stack", "service"} => Free # {}
    <2>1. CASE UpdateStack
      BY <1>0, <2>1 DEF UpdateStack, Jobs
    <2>2. ASSUME NEW T \in Sets, NEW act \in {"stop", "restart"}, OpBegins(T, act)
          PROVE  /\ job' \in [kind: {"op"}, svcs: SUBSET Services, act: {"stop", "restart"}] /\ job = NoJob
      BY <2>2 DEF OpBegins, Sets
    <2>3. CASE FleetStop
      BY <1>0, <2>3 DEF FleetStop, Around, Prepared
    <2> QED
      BY <1>0, <2>1, <2>2, <2>3 DEF Jobs
  <1>8. \A s \in Services: Claim(s)' = Claim(s)
    BY <1>0, <1>4, <1>7 DEF Claim, Prepared
  <1>9. Watch'
    BY <1>0, <1>2, <1>5, <1>8, WatchKept
  <1>10. Around'
    BY SMTT(30), <1>0, <1>4, <1>5, <1>6, <1>7 DEF Around
  <1>11. Prepared'
    BY <1>0, <1>3, <1>4, <1>7 DEF Prepared
  <1> QED
    BY <1>3, <1>9, <1>10, <1>11 DEF Inv

(* The steps that begin a gate, or give one up.                             *)
LEMMA BeginStackStep ==
    ASSUME Inv, beginStack
    PROVE  Inv' /\ Stands
  <1> DEFINE new == NewGate("stack", "any", 0, NoNames, {})
             done == SupersededBy("stack")
  <1>0. Around /\ Prepared /\ Watch /\ Rows /\ NoJob.kind = "none"
    BY DEF Inv, Watch, NoJob
  <1>1. /\ job.kind = "stack" /\ up /\ gate' = Insert(done, new) /\ mute' = Unmuted(mute, done)
        /\ job' = NoJob /\ UNCHANGED <<box, events, up, token, fleet>>
    BY DEF beginStack
  <1>2. /\ DOMAIN NoNames \subseteq Names /\ NoNames \in [DOMAIN NoNames -> Nat]
        /\ {} \cap (DOMAIN NoNames \cup Of("stack")) = {} /\ {} \in SUBSET Names
    BY DEF NoNames
  <1>3. RunOK(new) /\ new.status = "observing" /\ new.scope = "stack"
    BY SMTT(30), <1>2, BeginKeeps
  <1>4. done \in SUBSET Observing /\ Free # {}
    BY <1>0, <1>1 DEF SupersededBy, Prepared
  <1> HIDE DEF new
  <1>5. Opens(done, "stack")
    BY <1>0, <1>1, <1>3, <1>4, InsertMoves
  <1>6. \A s \in Services: Claim(s) = (IF s = "stack" THEN 1 ELSE 0) /\ Claim(s)' = 0
    BY <1>0, <1>1, ClaimIs, Constants
  <1>7. Watch'
    BY <1>0, <1>1, <1>5, <1>6, WatchOpens
  <1>8. Around' /\ Prepared'
    BY <1>0, <1>1 DEF Around, Prepared
  <1> QED
    BY <1>5, <1>7, <1>8 DEF Inv, Opens

(* An update of a service mutes Auto-Heal and takes its snapshot.           *)
LEMMA PrepareStep ==
    ASSUME Inv, NEW s \in Services, NEW reps \in Scales, PrepareReads(s, reps)
    PROVE  Inv' /\ Stands
  <1>0. Around /\ Prepared /\ Watch /\ Rows /\ NoJob.kind = "none" /\ mute \in [Services -> Nat]
    BY DEF Inv, Watch, NoJob
  <1> DEFINE elig == [n \in {n \in Names \ Of(s): isRegressionEligibleSibling(n)} |-> box[n].inc]
  <1>1. /\ job = NoJob /\ Free # {} /\ job' = [kind |-> "service", at |-> "preparing"]
        /\ mute' = [mute EXCEPT ![s] = @ + 1] /\ events' = events + 1 /\ UNCHANGED <<box, up, fleet>>
        /\ gate' = [r \in Runs |-> Rest(gate[r])]
        /\ token' = [at |-> "reading", svc |-> s, reps |-> reps, told |-> {}, elig |-> elig]
    BY DEF PrepareReads, Event
  <1>2. DOMAIN elig \subseteq Names /\ elig \in [DOMAIN elig -> Nat]
    BY <1>0 DEF Around, Facts
  <1> HIDE DEF elig
  <1>3. IsToken(token') /\ token'.svc = s /\ token'.told = {}
    BY <1>1, <1>2, GateAssumption DEF IsToken
  <1>4. Keeps({}) /\ Stands /\ Free' = Free
    BY <1>0, <1>1, RestMoves DEF Keeps
  <1>5. \A q \in Services: Claim(q) = 0 /\ Claim(q)' = IF q = s THEN 1 ELSE 0
    BY <1>0, <1>1, <1>3 DEF Claim
  <1>6. mute' \in [Services -> Nat] /\ \A q \in Services: mute'[q] = mute[q] + (IF q = s THEN 1 ELSE 0)
    BY SMTT(30), <1>0, <1>1
  <1>7. Watch'
    BY SMTT(30), <1>0, <1>1, <1>4, <1>5, <1>6, WatchClaims
  <1>8. job' \in Jobs /\ job'.kind = "service"
    BY <1>1 DEF Jobs
  <1>9. Around'
    BY SMTT(30), <1>0, <1>1, <1>3, <1>8 DEF Around
  <1>10. Prepared'
    BY <1>1, <1>3, <1>4, <1>8, TokenIs DEF Prepared
  <1> QED
    BY <1>4, <1>7, <1>9, <1>10 DEF Inv

(* An update of a service that opens no gate releases its own suppression.  *)
LEMMA UngatedStep ==
    ASSUME Inv, ServiceUngated
    PROVE  Inv' /\ Stands
  <1>0. Around /\ Prepared /\ Watch /\ Rows /\ NoJob.kind = "none" /\ mute \in [Services -> Nat]
    BY DEF Inv, Watch, NoJob
  <1> DEFINE s == token.svc
  <1>1. /\ job.kind = "service" /\ job' = NoJob /\ token' = NoToken /\ mute' = clearSuppress(mute, s)
        /\ UNCHANGED <<box, events, up, gate, fleet>>
    BY DEF ServiceUngated, Unwatched
  <1>2. s \in Services
    BY <1>0, <1>1, JobIs, TokenIs
  <1>3. Keeps({}) /\ Stands
    BY <1>0, <1>1, NoneMoves DEF Keeps
  <1>4. \A q \in Services: Claim(q)' = 0 /\ Claim(q) = IF q = s THEN 1 ELSE 0
    BY <1>0, <1>1 DEF Claim
  <1>5. mute' \in [Services -> Nat] /\ mute'[s] = (IF mute[s] <= 1 THEN 0 ELSE mute[s] - 1)
        /\ \A q \in Services \ {s}: mute'[q] = mute[q]
    BY SMTT(30), <1>0, <1>1, <1>2 DEF clearSuppress
  <1>6. up => mute[s] >= 1
    <2>1. Owners(s) \in SUBSET Runs
      BY DEF Owners, Observing
    <2> QED
      BY SMTT(30), <1>0, <1>2, <1>4, <2>1, Finite, MuteIs DEF Watch
  <1> HIDE DEF s
  <1>7. up => \A q \in Services: mute'[q] + Claim(q) = mute[q] + Claim(q)'
    BY SMTT(30), <1>0, <1>4, <1>5, <1>6
  <1>8. Watch'
    BY <1>0, <1>1, <1>3, <1>4, <1>5, <1>7, WatchClaims
  <1>9. Around' /\ Prepared'
    BY <1>0, <1>1 DEF Around, Prepared
  <1> QED
    BY <1>3, <1>8, <1>9 DEF Inv

(* A service's gate begins from the prepare token.                          *)
LEMMA BeginPreparedStep ==
    ASSUME Inv, beginPrepared
    PROVE  Inv' /\ Stands
  <1> DEFINE s == token.svc
             done == SupersededBy(s)
             img == IF token.reps = 0 THEN "any" ELSE CHOOSE i \in Images(s): TRUE
             new == NewGate(s, img, token.reps, token.elig, token.told)
  <1>0. Around /\ Prepared /\ Watch /\ Rows /\ NoJob.kind = "none"
    BY DEF Inv, Watch, NoJob
  <1>1. /\ job.kind = "service" /\ up /\ gate' = Insert(done, new)
        /\ UNCHANGED <<box, events, up, fleet>> /\ job' = NoJob /\ token' = NoToken
        /\ mute' = IF gate'[Slot].status = "observing" THEN Unmuted(mute, done)
                   ELSE clearSuppress(Unmuted(mute, done), s)
    BY DEF beginPrepared, Unwatched
  <1>2. IsToken(token) /\ token # NoToken /\ (token.reps > 0 => Cardinality(Images(s)) = 1)
    BY <1>0, <1>1, JobIs DEF beginPrepared
  <1>3. /\ s \in Services /\ token.reps \in Nat /\ token.told \in SUBSET Names
        /\ DOMAIN token.elig \subseteq Names /\ token.elig \in [DOMAIN token.elig -> Nat]
        /\ token.told \cap (DOMAIN token.elig \cup Of(s)) = {}
    BY <1>0, <1>2, TokenIs DEF Prepared
  <1>4. img \in {"any", "old", "new"}
    <2>1. CASE token.reps = 0
      BY <2>1
    <2>2. CASE token.reps # 0
      <3>1. Cardinality(Images(s)) = 1
        BY SMTT(30), <1>2, <1>3, <2>2
      <3>2. Images(s) # {}
        BY SMTT(30), <3>1, FS_EmptySet
      <3>3. Images(s) \subseteq {"old", "new"}
        BY <1>0 DEF Images, Running, Of, Around, Facts
      <3> QED
        BY <2>2, <3>2, <3>3
    <2> QED
      BY <2>1, <2>2
  <1>5. s # "stack"
    BY <1>3, Constants
  <1> HIDE DEF img
  <1>6. RunOK(new) /\ new.status = "observing" /\ new.scope = s
    BY SMTT(30), <1>3, <1>4, <1>5, BeginKeeps
  <1>7. done \in SUBSET Observing /\ Free # {}
    BY <1>0, <1>1 DEF SupersededBy, Prepared
  <1> HIDE DEF new
  <1>8. Opens(done, s)
    BY <1>0, <1>1, <1>6, <1>7, InsertMoves
  <1>9. \A q \in Services: Claim(q) = (IF q = s THEN 1 ELSE 0) /\ Claim(q)' = 0
    BY <1>0, <1>1 DEF Claim
  <1>10. Watch'
    BY <1>0, <1>1, <1>3, <1>5, <1>8, <1>9, WatchOpens
  <1>11. Around' /\ Prepared'
    BY <1>0, <1>1 DEF Around, Prepared
  <1> QED
    BY <1>8, <1>10, <1>11 DEF Inv, Opens

(* The process exits.                                                       *)
LEMMA StopStep ==
    ASSUME Inv, stop
    PROVE  Inv' /\ Stands
  <1>0. Around /\ Prepared /\ Watch /\ Rows /\ NoJob.kind = "none"
    BY DEF Inv, Watch, NoJob
  <1>1. /\ up' = FALSE /\ mute' = [s \in Services |-> 0] /\ job' = NoJob /\ token' = NoToken
        /\ fleet' = {} /\ UNCHANGED <<box, events>>
    BY DEF stop
  <1>2. Rows' /\ Stands /\ Observing' = {}
    BY <1>0, StopMoves
  <1>3. Watch'
    BY SMTT(30), <1>1, <1>2, FS_EmptySet, GateAssumption DEF Watch, StackGateAlone, MuteIsOwned
  <1>4. Around' /\ Prepared'
    BY <1>0, <1>1 DEF Around, Prepared
  <1> QED
    BY <1>2, <1>3, <1>4 DEF Inv

(* Nothing is under way at first.                                           *)
LEMMA InvInit ==
    Init => Inv
  <1> SUFFICES ASSUME Init PROVE Inv
    OBVIOUS
  <1>0. NoJob.kind = "none" /\ NoRun.status = "none"
    BY DEF NoJob, NoRun
  <1>1. box \in [Names -> Facts]
    BY DEF Init, Facts, Health
  <1>2. Around /\ Prepared
    BY <1>0, <1>1 DEF Init, Around, Prepared
  <1>3. Observing = {} /\ Rows
    BY <1>0 DEF Init, Observing, Rows, RunOK
  <1>4. mute \in [Services -> Nat] /\ StackGateAlone /\ Cardinality(Observing) <= MaxGates
    BY SMTT(30), <1>3, FS_EmptySet, GateAssumption DEF Init, StackGateAlone
  <1>5. MuteIsOwned
    <2>1. \A s \in Services: Owners(s) = {} /\ Claim(s) = 0 /\ mute[s] = 0
      BY <1>0, <1>3 DEF Owners, Claim, Init
    <2> QED
      BY SMTT(30), <2>1, FS_EmptySet, MuteIs
  <1> QED
    BY <1>2, <1>3, <1>4, <1>5 DEF Inv, Watch

(* Every step keeps the invariant and rewrites no verdict.                  *)
LEMMA InvStep ==
    Inv /\ [Next]_vars => Inv' /\ Stands
  <1> SUFFICES ASSUME Inv, [Next]_vars PROVE Inv' /\ Stands
    OBVIOUS
  <1>1. CASE \E r \in Runs: Poll(r) \/ countPollError(r) \/ Unsupported(r)
    <2>1. 0 \in 0 .. 2
      BY SMTT(30)
    <2> QED
      BY <1>1, <2>1, GateSteps
  <1>2. CASE \E r \in Runs, age \in 0 .. 2: Judge(r, age)
    BY <1>2, GateSteps
  <1>3. CASE BoxStep
    BY <1>3, BoxSteps
  <1>4. CASE UpdateStack \/ (\E S \in Sets, act \in {"stop", "restart"}: OpBegins(S, act)) \/ FleetStop
    BY <1>4, AnnounceSteps
  <1>5. CASE beginStack \/ beginPrepared \/ ServiceUngated \/ stop
    BY <1>5, BeginStackStep, BeginPreparedStep, UngatedStep, StopStep
  <1>6. CASE \E s \in Services, reps \in Scales: PrepareReads(s, reps)
    BY <1>6, PrepareStep
  <1>7. CASE UNCHANGED vars
    <2>1. Around' /\ Prepared' /\ gate' = gate /\ mute' = mute /\ up' = up /\ job' = job /\ token' = token
      BY <1>7 DEF vars, Inv, Around, Prepared, Free
    <2>2. Keeps({}) /\ Watch
      BY <2>1, NoneMoves DEF Inv, Watch
    <2>3. \A s \in Services: Claim(s)' = Claim(s)
      BY <2>1 DEF Claim
    <2>4. Watch'
      BY <2>1, <2>2, <2>3, WatchStill
    <2> QED
      BY <2>1, <2>2, <2>4 DEF Inv, Keeps
  <1> QED
    BY ZenonT(60), <1>1, <1>2, <1>3, <1>4, <1>5, <1>6, <1>7 DEF Next, BoxStep

(* The inductive invariant holds of every behaviour: HealthGateService and  *)
(* the suppressions it shares with the update orchestrator stay in step.    *)
THEOREM InvHolds == Spec => []Inv
  BY InvInit, InvStep, PTL DEF Spec

(* What the inductive invariant says of the run's properties.               *)
LEMMA InvGives ==
    ASSUME Inv
    PROVE  /\ GateInvariant /\ PassIsEarned /\ FailIsDefinite /\ AmbiguityYields
           /\ ToldIsNotBlamed /\ MuteIsOwned
  <1>1. \A r \in Runs: RunOK(gate[r]) /\ (gate[r] = NoRun \/ IsGate(gate[r]))
    BY StatusIs DEF Inv, Watch, Rows
  <1>2. TypeOK
    BY <1>1 DEF Inv, Around, Watch, Rows, TypeOK
  <1>3. \A r \in Observing: Watching(gate[r])
    BY <1>1, ObserverIs DEF Observing
  <1>4. \A r \in Judged: Answers(gate[r])
    <2> TAKE r \in Judged
    <2>1. r \in Runs /\ gate[r].status \in Final /\ gate[r].obs # NoNames /\ RunOK(gate[r])
      BY <1>1 DEF Judged
    <2>2. gate[r] # NoRun
      BY SMTT(30), <2>1 DEF NoRun, Final
    <2> QED
      BY <2>1, <2>2 DEF RunOK
  <1> QED
    BY <1>2, <1>3, <1>4 DEF GateInvariant, Inv, Watch, Answers, PassIsEarned, FailIsDefinite,
       AmbiguityYields, ToldIsNotBlamed

(* HealthGateService keeps its rows apart: types, what an observing gate    *)
(* expects, one gate per service and a stack's gate alone, at most          *)
(* MAX_CONCURRENT_GATES of them, whatever update or operation comes between *)
(* a prepare and its begin.                                                 *)
THEOREM GateInvariantHolds == Spec => []GateInvariant
  BY InvHolds, InvGives, PTL

(* A run recorded as passed earned it by its last reading and by every      *)
(* reading before it, for any set of services, containers, scales and       *)
(* one-shots.                                                               *)
THEOREM PassesAreEarned == Spec => []PassIsEarned
  BY InvHolds, InvGives, PTL

(* A run recorded as failed blames definite evidence, never clean exits     *)
(* alone under an intent that could not be read.                            *)
THEOREM FailuresAreDefinite == Spec => []FailIsDefinite
  BY InvHolds, InvGives, PTL

(* A run ended unknown for want of the declared intent was shown no         *)
(* definite failure.                                                        *)
THEOREM AmbiguityGivesWay == Spec => []AmbiguityYields
  BY InvHolds, InvGives, PTL

(* A failed run blames a container that no announced operation was to       *)
(* touch.                                                                   *)
THEOREM AnnouncedIsNotBlamed == Spec => []ToldIsNotBlamed
  BY InvHolds, InvGives, PTL

(* Auto-Heal is muted for a service exactly as often as an update or a gate *)
(* is there to unmute it.                                                   *)
THEOREM SuppressionsAreOwned == Spec => []MuteIsOwned
  BY InvHolds, InvGives, PTL

(* No step, a judgement that outlived its gate included, rewrites a         *)
(* verdict.                                                                 *)
THEOREM VerdictsStand == Spec => VerdictStands
  <1>1. Inv /\ [Next]_vars => [\A r \in Runs: gate[r].status \in Final => gate'[r].status = gate[r].status]_vars
    BY InvStep DEF Stands
  <1> QED
    BY <1>1, InvHolds, PTL DEF Spec, VerdictStands
=============================================================================
