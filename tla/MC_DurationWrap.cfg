\* spec.md 3: duration is never negative (expected violation, narrow int).
CONSTANTS
  Workers <- MCWorkers
  NoWorker = NoWorker
  w1 = w1
  w2 = w2
  w3 = w3
  k1 = k1
  MaxJobs = 1
  Keys <- MCKeys
  Times <- MCStartTimes
  Window <- MCStartWindow
  DurationBits <- MCNarrowDurationBits
  StopStates <- MCDefaultStopState
  MaxOngoing = 0
SPECIFICATION Spec
INVARIANT
  DurationNonNegative
