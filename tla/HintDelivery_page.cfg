SPECIFICATION FairSpec
CHECK_DEADLOCK FALSE
CONSTANTS
  Requests = {r1, r2}
  NoRequest = NoRequest
  Problems = {"p1", "p2"}
  Levels = {1, 2}
  MaxPolls = 2
  Relisted = {r1}
INVARIANTS
  PendingIsFetching
PROPERTIES
  DoneIsNotMissed
  PendingEnds
