SPECIFICATION Spec
CONSTANTS
  v = v
  w = w
  p = p
  q = q
  k1 = k1
  s1 = s1
  None = None
  Workers <- TwoWorkers
  Processes <- TwoProcesses
  ProcessOf <- OneEach
  Keys = {k1}
  Requests = {{"implementation"}, {"design"}, {"implementation", "design"}}
  n1 = n1
  n2 = n2
  Sources = {s1}
  Snippets = {n1, n2}
  Window = 2
  Limit = 1
  MaxBuilds = 2
  MaxKills = 1
  MaxDeprecations = 1
INVARIANTS RateRespected CandidatesOnce
PROPERTIES BuildsEnd
CHECK_DEADLOCK FALSE
