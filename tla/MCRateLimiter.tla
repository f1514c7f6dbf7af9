--------------------------- MODULE MCRateLimiter ---------------------------
(***************************************************************************)
(* RateLimiter for TLC: clients are interchangeable.                       *)
(***************************************************************************)
EXTENDS RateLimiter

Symmetry == Permutations(IPs)
=============================================================================
