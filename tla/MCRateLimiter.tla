--------------------------- MODULE MCRateLimiter ---------------------------
(* Small instance of RateLimiter: more clients than entries. *)
EXTENDS RateLimiter, TLC
CONSTANTS req1, req2, x, y, z
Symmetry == Permutations(IPs) \cup Permutations(Procs)
=============================================================================
