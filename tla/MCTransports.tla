---------------------------- MODULE MCTransports ----------------------------
(* Two people, each with an agent of their own: swapping both with their   *)
(* machines, and the processes of a hosted bus, changes nothing.           *)
EXTENDS Transports, TLC

CONSTANTS w1, w2, m1, m2

MCAgent   == w1 :> m1 @@ w2 :> m2
Swap      == w1 :> w2 @@ w2 :> w1 @@ m1 :> m2 @@ m2 :> m1
Symmetric == Permutations(Procs) \cup {Swap}
=============================================================================
