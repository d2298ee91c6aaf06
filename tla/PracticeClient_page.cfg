CONSTANTS
  Problems = {p, q}
  NoProblem = NoProblem
  LastSession = 3
  Slots = {c1, c2}
  Polls = 2
  Clicks = 5
  Faults = 1
  p = p
  q = q
  c1 = c1
  c2 = c2
SPECIFICATION Spec
INVARIANTS InStep ClosedIsClosed
PROPERTIES WaitingEnds
CHECK_DEADLOCK FALSE
