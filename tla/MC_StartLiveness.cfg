\* A start request blocked on RepositoryMutex is eventually answered.
\* Deadlock is not checked here: net/http serves every request on a new
\* goroutine, so a state where all of the model's Workers wait on the mutex
\* is the bound of the model, not a stopped server; a mutex that is never
\* released must show up as a violation of StartCompletes.  MC_StartDedup
\* checks the same actions for deadlock.
CONSTANTS
  Workers <- MCWorkers
  NoWorker = NoWorker
  w1 = w1
  w2 = w2
  w3 = w3
  k1 = k1
  MaxJobs = 2
  Keys <- MCKeys
  Times <- MCStartTimes
  Window <- MCStartWindow
  DurationBits <- MCDurationBits
  StopStates <- MCNoStops
  MaxOngoing = 0
SPECIFICATION FairSpec
CHECK_DEADLOCK FALSE
PROPERTY
  StartCompletes
