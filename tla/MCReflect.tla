------------------------------ MODULE MCReflect ------------------------------
(* Instances of Reflect: the salient words of a subject play no part.       *)
EXTENDS Reflect, TLC

MCTokens == [s \in Subjects |-> {s}]
Symmetric == Permutations(People) \cup Permutations(Callers)
               \cup Permutations(Subjects) \cup Permutations(Contents)
=============================================================================
