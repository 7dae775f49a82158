---------------------------- MODULE MCHealthGate ----------------------------
(***************************************************************************)
(* HealthGate on a stack of two services.                                   *)
(***************************************************************************)
EXTENDS HealthGate, TLC

MCsvc == [n \in Names |-> IF n \in {"a1", "a2"} THEN "a" ELSE "b"]
=============================================================================
