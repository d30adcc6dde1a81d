\* One worker starts a job with one tag: each request must be answered once.
CONSTANTS
  Workers <- MCOneWorker
  Jobs <- MCOneJob
  Names <- MCNames
  TagLists <- MCOneTag
  NoJob = NoJob
  w1 = w1
  w2 = w2
  j1 = j1
  j2 = j2
  n1 = n1
  n2 = n2
SPECIFICATION Spec
INVARIANTS
  AnsweredOnce
