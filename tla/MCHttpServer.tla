---------------------------- MODULE MCHttpServer ----------------------------
(* Model checking of HttpServer on small instances.                        *)
EXTENDS HttpServer, TLC

CONSTANTS h1, h2

TwoHandlers == {h1, h2}
TokenSet == {"alex", "sam"}
Tenants == [alex |-> "a", sam |-> "b"]
Roles == [alex |-> "writer", sam |-> "reader"]
=============================================================================
