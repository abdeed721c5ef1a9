SPECIFICATION Spec
CONSTANTS
  Queries <- MCQueries
  Scores <- MCScores
  W = 2
  Readers = {r1, r2}
  Sizes = {1}
  Stamps = {0}
  TicksPerSecond = 1
  RebuildInterval = 1
  MaxLateness = 1
  StartClock = 1
  MaxClock = 2
  MaxTotal = 1
  RawSizes <- MCRawSizes
  MaxCalls = 3
INVARIANTS TypeOK LagIsHonest ScrapeBalances
PROPERTY AnswersWithinCall
