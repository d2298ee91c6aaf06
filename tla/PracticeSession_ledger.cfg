CONSTANTS
  u1 = u1
  dev = dev
  r1 = r1
  r2 = r2
  s1 = s1
  s2 = s2
  p1 = p1
  p2 = p2
  p3 = p3
  arrays = arrays
  graphs = graphs
  Nobody = Nobody
  NoSession = NoSession
  NoProblem = NoProblem
  Users = {u1}
  Dev = dev
  Requests = {r1}
  Sessions = {s1, s2}
  Problems = {p1, p3}
  Topics = {arrays, graphs}
  TopicOf <- ByTopic
  ScopeTopics = {arrays, graphs}
  Scope = {p1, p3}
  Modes = {"ADAPTIVE"}
  MaxTheta = 0
  RemediationStreak = 3
  AnalysisLimit = 1
  OneTab = TRUE
  Failures = FALSE
  MaxRequests = 6
SPECIFICATION FairSpec
INVARIANTS LedgerMatchesSessions RemediationMatchesHistory
PROPERTIES StaleSessionsEnd
