\* spec.md 3: monitoring status never regresses (expected violation).
CONSTANTS
  Workers <- MCWorkers
  NoWorker = NoWorker
  w1 = w1
  w2 = w2
  w3 = w3
  k1 = k1
  MaxJobs = 2
  Keys <- MCKeys
  Times <- MCStopTimes
  Window <- MCStopWindow
  DurationBits <- MCDurationBits
  StopStates <- MCDefaultStopState
  MaxOngoing = 2
SPECIFICATION Spec
PROPERTY
  MonitoringStatusForward
