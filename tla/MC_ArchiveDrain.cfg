\* Under the fairness of the Go scheduler, OngoingArchivings drains to zero after stops of jobs that leave "running".
\* Deadlock is not checked: once every id is used and every job stopped,
\* the model has nothing left to do, which is the bound of MaxJobs, not a
\* stopped server.
CONSTANTS
  Workers <- MCWorkers
  NoWorker = NoWorker
  w1 = w1
  w2 = w2
  w3 = w3
  k1 = k1
  MaxJobs = 2
  Keys <- MCKeys
  Times <- MCStopTimes
  Window <- MCStopWindow
  DurationBits <- MCDurationBits
  StopStates <- MCDefaultStopState
  MaxOngoing = 2
SPECIFICATION FairSpec
CHECK_DEADLOCK FALSE
PROPERTY
  ArchivingsDrain
