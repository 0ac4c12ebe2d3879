----------------------------- MODULE MCCatalog -----------------------------
(* The calls, the names and the contents are interchangeable. *)
EXTENDS Catalog, TLC

MCSymmetry == Permutations(Calls) \cup Permutations(Names) \cup Permutations(Bodies)
=============================================================================
