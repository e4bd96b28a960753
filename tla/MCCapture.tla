----------------------------- MODULE MCCapture -----------------------------
(* Model checking instances of Capture: sessions and capture processes are *)
(* interchangeable, so both are symmetric.                                 *)
EXTENDS Capture, TLC

ProcSymmetry == Permutations(Procs)
Symmetric == Permutations(Procs) \cup Permutations(Sessions)
=============================================================================
