--------------------------- MODULE MCRateLimiter ----------------------------
(* RateLimiter on two clients that may be exchanged for one another.       *)
EXTENDS RateLimiter, TLC

Symmetry == Permutations(IPs)
=============================================================================
