SPECIFICATION Spec
CONSTANTS
  r1 = r1
  Requests = {r1}
  Words = {"buy"}
  NoWord = ""
  Nobody = Nobody
  MaxVersion = 2
  MaxErrors = 0
  MaxCrashes = 1
  MaxFaults = 1
  Events <- MCEvents
  Short = {"x"}
  TTL = 2
  ContributionWindow = 1
  MaxDeliveries = 3
  MaxClock = 3
INVARIANTS TypeOK AcknowledgedStops CountedOnce Accounted SyncedWhenQuiet
