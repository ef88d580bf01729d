------------------------------ MODULE MCMachine ------------------------------
(* Machine for TLC: few processes, one value of State, symmetric pids. *)
EXTENDS Machine, TLC

MCSymmetry == Permutations(Pid)

\* What the frontend sends: GetDirectory waits for the others whatever their status.
FrontendConditions == {None}

\* What the interface of enqueue allows.
AllConditions == Condition
=============================================================================
