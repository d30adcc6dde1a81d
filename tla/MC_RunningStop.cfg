\* spec.md 4.2: archiving never runs for a running job (expected violation).
CONSTANTS
  Workers <- MCWorkers
  NoWorker = NoWorker
  w1 = w1
  w2 = w2
  w3 = w3
  k1 = k1
  MaxJobs = 1
  Keys <- MCKeys
  Times <- MCStopTimes
  Window <- MCStopWindow
  DurationBits <- MCDurationBits
  StopStates <- MCStopStates
  MaxOngoing = 1
SPECIFICATION Spec
INVARIANT
  ArchiveOnlyStopped
