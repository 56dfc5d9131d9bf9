---------------------------- MODULE MCRateLimiter ----------------------------
(* The instance of RateLimiter that TLC checks.                            *)
EXTENDS RateLimiter, TLC

Symmetry == Permutations(Key) \cup Permutations(Thread)
=============================================================================
