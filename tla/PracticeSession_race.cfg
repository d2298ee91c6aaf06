CONSTANTS
  u1 = u1
  dev = dev
  r1 = r1
  r2 = r2
  s1 = s1
  s2 = s2
  p1 = p1
  p2 = p2
  p3 = p3
  arrays = arrays
  graphs = graphs
  Nobody = Nobody
  NoSession = NoSession
  NoProblem = NoProblem
  Users = {u1, dev}
  Dev = dev
  Requests = {r1, r2}
  Sessions = {s1, s2}
  Problems = {p1}
  Topics = {arrays}
  TopicOf <- ByTopic
  ScopeTopics = {arrays}
  Scope = {p1}
  Modes = {"ADAPTIVE"}
  MaxTheta = 1
  RemediationStreak = 2
  AnalysisLimit = 1
  OneTab = FALSE
  Failures = TRUE
  MaxRequests = 4
SPECIFICATION Spec
INVARIANTS OneActivePerUser RowSummarisesHistory AttemptsCoverResponses
PROPERTIES RecordsAreFinal
SYMMETRY RaceSymmetry
