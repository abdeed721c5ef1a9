SPECIFICATION Spec
CONSTANTS
  Queries <- MCQueries
  Scores <- MCScores
  W = 3
  Readers = {r1}
  Sizes <- MCSizes
  Stamps <- MCStamps
  TicksPerSecond = 2
  RebuildInterval = 1
  MaxLateness = 2
  StartClock = 2
  MaxClock = 10
  MaxTotal = 2
PROPERTY ServesOnlyRecent
