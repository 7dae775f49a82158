------------------------ MODULE MCRecoveryOperations ------------------------
(* RecoveryOperations for TLC: a capture and a provisioning request.        *)
EXTENDS RecoveryOperations, TLC

CONSTANTS capture, provision

MCRequests == {capture, provision}
MCKindOf == [r \in MCRequests |-> IF r = capture THEN "create_point" ELSE "repository_init"]
Symmetry == Permutations(Ops) \cup Permutations(Keys) \cup Permutations(Points)
=============================================================================
