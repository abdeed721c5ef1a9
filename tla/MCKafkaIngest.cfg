SPECIFICATION Spec
CONSTANTS
  Log <- MCLog
  TTL = 2
  ContributionWindow = 3
  MaxProcessingRetries = 1
  CommitRetries = 1
  MaxHandlerErrors = 2
  MaxFetchErrors = 1
  MaxCommitErrors = 2
  MaxRebalances = 1
  MaxSignals = 1
  MaxCrashes = 1
  MaxClock = 4
INVARIANTS TypeOK CommittedWasCounted NoDoubleVote
PROPERTIES CommittedNeverGoesBack EveryMessageCommitted
