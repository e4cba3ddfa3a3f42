SPECIFICATION FairSpec
CONSTANTS
  Requests = {r1, r2, r3}
  NoRequest = NoRequest
INVARIANTS
  ListsAreFreedOnce
  NothingLeaks
  AnsweredOrAbandoned
PROPERTIES
  CallsReturn
