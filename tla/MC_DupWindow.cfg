\* spec.md 8: start times at least Window apart never conflict (expected violation).
CONSTANTS
  Workers <- MCWorkers
  NoWorker = NoWorker
  w1 = w1
  w2 = w2
  w3 = w3
  k1 = k1
  MaxJobs = 2
  Keys <- MCKeys
  Times <- MCStartTimes
  Window <- MCStartWindow
  DurationBits <- MCDurationBits
  StopStates <- MCNoStops
  MaxOngoing = 0
SPECIFICATION Spec
INVARIANT
  SpecDuplicateWindow
