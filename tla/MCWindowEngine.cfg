SPECIFICATION Spec
CONSTANTS
  Queries <- MCQueries
  Scores <- MCScores
  W = 3
  Readers = {r1, r2}
  Sizes = {0}
  Stamps <- MCFewStamps
  TicksPerSecond = 2
  RebuildInterval = 1
  MaxLateness = 2
  StartClock = 2
  MaxClock = 3
  MaxTotal = 2
INVARIANTS TypeOK WindowSpan TotalsMatchBuckets CachedFresh
PROPERTIES DropsOnlyExpired ServesLiveBuckets ImplementsSlidingWindow
