--------------------------- MODULE MCPullReplies ---------------------------
(* Instances of PullReplies: teammates and pulls are interchangeable.      *)
EXTENDS PullReplies, TLC

Symmetric == Permutations(People) \cup Permutations(Pulls)
=============================================================================
