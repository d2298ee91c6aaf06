SPECIFICATION FairSpec
CONSTANTS
  Jobs = {"h1", "h2", "h3", "evidence"}
  Users = {u1}
  Workers = {"w1", "w2"}
  EvidenceWorkers = {}
  Types <- MCTypes
  Registered <- MCHintOnly
  TypeOf <- MCTypeOf
  OwnerOf <- MCOneOwner
  PollsFor <- MCPollHints
  HasSession <- MCHints
  HintBudget = 2
  Failures = FALSE
  Resends = 0
  Crashes = FALSE
  Expires = FALSE
  NoJob = NoJob
INVARIANTS
  NothingLost
  HintsLimited
PROPERTIES
  HintsFinish
