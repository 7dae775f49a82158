--------------------------- MODULE MCHealthRollout ---------------------------
(* HealthRollout on two nodes, for the applications each run is about.      *)
EXTENDS HealthRollout

Local(policy, auto) == [policy |-> policy, auto |-> auto, remote |-> {}]

(* Every policy on local nodes, a rollout each operator authorizes by hand,  *)
(* and one whose second node is remote.                                     *)
AllSettings ==
    {Local(policy, TRUE) : policy \in {"observe", "retry_once", "stop", "rollback"}}
        \cup {Local("pause", FALSE), [policy |-> "retry_once", auto |-> TRUE, remote |-> {2}]}

ProgressSettings == {Local("pause", TRUE), Local("rollback", TRUE)}
PausingSettings == {Local("pause", TRUE)}
RemoteSettings == {[policy |-> "pause", auto |-> TRUE, remote |-> {2}]}
=============================================================================
