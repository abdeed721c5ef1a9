SPECIFICATION Spec
CONSTANTS
  Longest = 131071
  MaxBuckets = 65536
  MaxAttempts = 8
  Envs <- MCEnvs
  MaxRequests = 1
  MaxFaults = 3
INVARIANTS TypeOK SettingsUsable SafeShutdown ExitCodeTells
PROPERTY RecoversToServing
