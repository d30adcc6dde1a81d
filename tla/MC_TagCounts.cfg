\* One worker starts a job with two tags of different types and one name: CountTags must count each tag's own associations.
CONSTANTS
  Workers <- MCOneWorker
  Jobs <- MCOneJob
  Names <- MCNames
  TagLists <- MCTagLists
  TagName <- MCTagName
  Users <- MCUsers
  Owner <- MCOwner
  NoJob = NoJob
  NoUser = NoUser
  w1 = w1
  j1 = j1
  n1 = n1
  n2 = n2
  u1 = u1
SPECIFICATION Spec
INVARIANTS
  CountsPerTag
