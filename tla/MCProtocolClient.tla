-------------------------- MODULE MCProtocolClient --------------------------
(* Model checking of ProtocolClient on small instances.                    *)
EXTENDS ProtocolClient
=============================================================================
