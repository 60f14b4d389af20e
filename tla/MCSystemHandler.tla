--------------------------- MODULE MCSystemHandler ---------------------------
EXTENDS SystemHandler, TLC

(* The goroutines are interchangeable: no property names one of them. *)
Symmetry == Permutations(Requests)
=============================================================================
