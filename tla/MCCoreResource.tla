--------------------------- MODULE MCCoreResource ---------------------------
(* CoreResource on a few requests, for TLC. *)
EXTENDS CoreResource, TLC

Symmetry == Permutations(Row) \cup Permutations(Request)
=============================================================================
