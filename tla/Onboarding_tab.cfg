SPECIFICATION Spec
CONSTANTS
  Clicks = 4
  Faults = 1
  Sources = {1, 2}
  Uploads = {1}
  Cap = 2
  Topics = 2
  LastProblem = 3
  LastSession = 2
  Slots = {1, 2}
INVARIANTS
  FailureStays
  NothingResidual
  
  TallyCounts
CHECK_DEADLOCK FALSE
PROPERTIES
  OnboardingSettles
