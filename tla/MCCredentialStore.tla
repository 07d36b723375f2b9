------------------------- MODULE MCCredentialStore -------------------------
(* Model checking of CredentialStore on small instances.                   *)
EXTENDS CredentialStore, TLC

CONSTANTS p1, p2

TwoProcesses == {p1, p2}

ProcessSymmetry == Permutations(Processes)
=============================================================================
