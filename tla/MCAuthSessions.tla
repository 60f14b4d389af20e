-------------------------- MODULE MCAuthSessions --------------------------
(* AuthSessions for TLC: the handlers are interchangeable goroutines. *)
EXTENDS AuthSessions, TLC

Symmetry == Permutations(Handlers)
=============================================================================
