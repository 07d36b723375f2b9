----------------------------- MODULE MCStorage -----------------------------
(* Model checking of StorageEngine on small instances.                     *)
EXTENDS StorageEngine
=============================================================================
