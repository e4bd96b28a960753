--------------------------- MODULE MCTangleStores ---------------------------
(* Instances of TangleStores: keys, subjects and calls are interchangeable. *)
EXTENDS TangleStores, TLC

Symmetric == Permutations(Keys) \cup Permutations(Subjects) \cup Permutations(Procs)
=============================================================================
