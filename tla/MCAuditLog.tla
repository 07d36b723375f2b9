----------------------------- MODULE MCAuditLog -----------------------------
(* Model checking of AuditLog on small instances: threads are              *)
(* interchangeable.                                                        *)
EXTENDS AuditLog, TLC

Symmetric == Permutations(Threads)
=============================================================================
