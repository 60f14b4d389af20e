--------------------------- MODULE MCRateLimiter ---------------------------
(* RateLimiter for TLC: its requests and its clients are interchangeable. *)
EXTENDS RateLimiter, TLC

Symmetry == Permutations(Requests) \cup Permutations(Clients)
=============================================================================
