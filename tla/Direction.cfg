\* Two names, three rounds, a question to close, two checks to propose, a worker.
CONSTANTS
  i1 = i1
  i2 = i2
  t1 = t1
  k1 = k1
  k2 = k2
  w1 = w1
  Ids <- MCIds
  Topics <- MCTopics
  Checks <- MCChecks
  Workers <- MCWorkers
  Hearings <- MCHearings
  MaxRounds = 2
  FreshIds = FALSE
SPECIFICATION DirectionSpec
INVARIANTS
  AuthorBlockersBlock
\* A series that was settled or refused is done.
CHECK_DEADLOCK FALSE
