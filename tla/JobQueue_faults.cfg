SPECIFICATION Spec
CONSTANTS
  Jobs = {"h1", "evidence"}
  Users = {u1}
  Workers = {w1, w2, w3}
  EvidenceWorkers = {w3}
  Types <- MCTypes
  Registered <- MCTypes
  TypeOf <- MCTypeOf
  OwnerOf <- MCOneOwner
  PollsFor <- MCPollEach
  HasSession <- MCHints
  HintBudget = 0
  Failures = TRUE
  Resends = 1
  Crashes = TRUE
  Expires = TRUE
  NoJob = NoJob
SYMMETRY MCWorkerSymmetry
INVARIANTS
  OneProcessing
PROPERTIES
  ImplementsLifecycle
