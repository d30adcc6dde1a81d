\* Two workers starting, tagging and untagging a job with two tags, while it is stopped and archived; the steps also implement the atomic tag store (TagStore).
CONSTANTS
  Workers <- MCWorkers
  Jobs <- MCOneJob
  Names <- MCNames
  TagLists <- MCTagLists
  NoJob = NoJob
  w1 = w1
  w2 = w2
  j1 = j1
  j2 = j2
  n1 = n1
  n2 = n2
SPECIFICATION Spec
SYMMETRY MCSymmetry
INVARIANTS
  TypeOK
  AssociationsValid
PROPERTIES
  StoreSteps
