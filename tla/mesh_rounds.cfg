CONSTANTS
  Types = {intent, dependency}
  cache = cache
  cacheApi = cacheApi
  api = api
  Subjects <- MCSubjects
  Contents = {c1, c2}
  tokens <- MCTokens
  People = {a, b, c}
  MaxAtoms = 2
  MaxRestates = 2
  MaxRounds = 2
SPECIFICATION Spec
SYMMETRY Symmetric
INVARIANTS ModelIsWhatWasTold BothSidesAgree MergeLosesOnlyRestated
PROPERTY RoundSettles
CHECK_DEADLOCK FALSE
