---------------------------- MODULE MCMeshState ----------------------------
(* An instance of MeshState: three subjects, the third like both others. *)
EXTENDS MeshState, TLC

CONSTANTS cache, cacheApi, api
MCSubjects == {cache, cacheApi, api}
MCTokens == cache :> {"order", "cache"} @@ cacheApi :> {"cache", "api"}
              @@ api :> {"order", "cache", "api"}
Symmetric == Permutations(People) \cup Permutations(Types) \cup Permutations(Contents)
=============================================================================
