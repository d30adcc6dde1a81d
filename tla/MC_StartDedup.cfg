\* Concurrent start requests for one natural key, with deletes, and no stops.
CONSTANTS
  Workers <- MCThreeWorkers
  NoWorker = NoWorker
  w1 = w1
  w2 = w2
  w3 = w3
  k1 = k1
  MaxJobs = 3
  Keys <- MCKeys
  Times <- MCStartTimes
  Window <- MCStartWindow
  DurationBits <- MCDurationBits
  StopStates <- MCNoStops
  MaxOngoing = 0
SPECIFICATION Spec
SYMMETRY MCThreeSymmetry
INVARIANTS
  NoDuplicateStart
