SPECIFICATION Spec
CONSTANTS
  Log <- MCLog
  TTL = 2
  ContributionWindow = 3
  MaxProcessingRetries = 1
  CommitRetries = 1
  MaxHandlerErrors = 0
  MaxFetchErrors = 0
  MaxCommitErrors = 0
  MaxRebalances = 0
  MaxSignals = 0
  MaxCrashes = 1
  MaxClock = 1
INVARIANT VoteNotLost
