----------------------------- MODULE MCHorizon -----------------------------
(* One tangle, seen by a person with hooks and by a by-hand run of all.    *)
EXTENDS Horizon, TLC

CONSTANTS ann, all, k1

MCViewers  == {ann, all}
MCKeys     == {k1}
MCInvolves == [v \in MCViewers |-> MCKeys]
MCHooked   == {ann}
MCHandRuns == {all}
Symmetry   == Permutations(Procs)
=============================================================================
