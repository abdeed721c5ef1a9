SPECIFICATION Spec
CONSTANTS
  Requests = {a, b}
  Words = {w1, w2}
  NoWord = NoWord
  Nobody = Nobody
  MaxVersion = 1
  MaxErrors = 1
  MaxCrashes = 1
  MaxFaults = 1
INVARIANTS TypeOK VersionNamesContent AcknowledgedOnce ListNotTorn ActiveWasCommitted
PROPERTIES AcknowledgedIsActive RequestsEnd
