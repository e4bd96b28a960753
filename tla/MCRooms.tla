------------------------------ MODULE MCRooms ------------------------------
(* A project inside another, with a .ettle-room file of its own; one room  *)
(* too many, a profile whose key is of another workspace than the global.  *)
EXTENDS Rooms, TLC

CONSTANTS top, sub, r1, r2, pr, w1, w2

MCDepth   == top :> 1 @@ sub :> 2
MCAbove   == top :> {top} @@ sub :> {top, sub}
MCLegacy  == sub :> Entry(r2, None)
MCSpaceOf == None :> w1 @@ pr :> w2
Symmetry  == Permutations(Procs)
=============================================================================
