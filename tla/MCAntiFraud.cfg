SPECIFICATION Spec
CONSTANTS
  IPs <- MCIPs
  Sessions <- MCSessions
  Users <- MCUsers
  NoId <- MCNoId
  Queries <- MCQueries
  Events <- MCEvents
  Minute = 2
  MaxRequests = 2
  IPBlock = 3
  ContributionWindow = 2
  MaxUnique = 1
  EntropyWindow = 2
  SessionBlock = 3
  MaxClock = 7
  MaxEvents = 5
INVARIANTS TypeOK CountsMatchEvents OneVotePerWindow EntropyBounded RateBounded
PROPERTY ImplementsPolicy
