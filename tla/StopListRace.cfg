SPECIFICATION Spec
CONSTANTS
  Requests = {a, b}
  Words = {w1}
  NoWord = NoWord
  Nobody = Nobody
  MaxVersion = 3
  MaxErrors = 0
  MaxCrashes = 0
  MaxFaults = 1
INVARIANT SyncedWhenQuiet
