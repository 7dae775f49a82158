------------------------------ MODULE SwapService ------------------------------
(* The swap helper as its callers see it: a run of a command takes the     *)
(* work directory through states SwapContract allows, and ends there with  *)
(* an answer SwapContract allows.                                          *)
EXTENDS SwapContract

VARIABLES
    work,     \* the state of the work directory
    command,  \* the command that is running, or "none"
    answer    \* the answer of the last run

Init == work = "none" /\ command = "none" /\ answer = "absent"

Begin ==
    /\ command = "none"
    /\ command' \in Commands
    /\ work' \in Reach(command', work)
    /\ UNCHANGED answer

Move ==
    /\ command # "none"
    /\ work' \in Reach(command, work)
    /\ UNCHANGED <<command, answer>>

End ==
    /\ command # "none"
    /\ command' = "none"
    /\ work' \in Reach(command, work)
    /\ answer' \in Answers(command, work')

(* A run short enough to be one step.                                      *)
Run ==
    /\ command = "none"
    /\ UNCHANGED command
    /\ \E c \in Commands : /\ work' \in Reach(c, work)
                           /\ answer' \in Answers(c, work')

(* Something outside Sencho changes the volume's entries: the helper's     *)
(* callers can rely on nothing from here on.                               *)
Disturb == work' = "torn" /\ UNCHANGED <<command, answer>>

Next == Begin \/ Move \/ End \/ Run \/ Disturb

Spec == Init /\ [][Next]_<<work, command, answer>>
=============================================================================
