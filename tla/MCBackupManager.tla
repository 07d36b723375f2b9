-------------------------- MODULE MCBackupManager --------------------------
(* Model checking of BackupManager on small instances.                     *)
EXTENDS BackupManager, TLC

CONSTANTS a, b

IdSet == {a, b}
TwoDirectories == {"data", "target"}
IdSymmetry == Permutations(Ids)
=============================================================================
