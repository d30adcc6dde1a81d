\* Concurrent stops, archiving goroutines and deletes of two jobs; the steps also implement the atomic job table (JobTable).
CONSTANTS
  Workers <- MCWorkers
  NoWorker = NoWorker
  w1 = w1
  w2 = w2
  w3 = w3
  k1 = k1
  MaxJobs = 3
  Keys <- MCKeys
  Times <- MCStopTimes
  Window <- MCStopWindow
  DurationBits <- MCDurationBits
  StopStates <- MCStopStates
  MaxOngoing = 2
SPECIFICATION Spec
SYMMETRY MCSymmetry
INVARIANTS
  TypeOK
  SuccessMeansArchived
  DisabledNeverArchived
  OngoingMatchesGoroutines
PROPERTIES
  TableSteps
