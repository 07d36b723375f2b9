--------------------------- MODULE MCRateLimiter ---------------------------
(* Model checking of RateLimiter on small instances: threads and keys are  *)
(* interchangeable.                                                        *)
EXTENDS RateLimiter, TLC

Symmetric == Permutations(Handlers) \union Permutations(Keys)
=============================================================================
