CONSTANTS
  People <- MCPeople
  Alike <- MCAlike
  Rank <- MCRank
  AtomSets <- MCAtomSets
  PairReplies <- MCPairReplies
  TeamReplies <- MCTeamReplies
  SelfReplies <- MCSelfReplies
  SampleCounts = {1, 5}
  StrayVerdicts = FALSE
SPECIFICATION Spec
INVARIANTS VoteCountsRuns FloorBelowBar ClearMeansNothingFound 
PROPERTY SpendIsBounded
CHECK_DEADLOCK FALSE
