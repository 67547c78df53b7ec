\* A day of six ticks; a call made in its last one, whose attempts take no time
\* or half a day, and resets that are announced up to two ticks late.
CONSTANTS
  Day = 6
  Grace = 2
  Short = 1
  Backoff = 1
  MaxBackoff = 3
  MaxResets = 1
  MaxTransients = 1
  Sessions = {s1, s2}
  Starts = {5}
  RunTimes = {0, 3}
  Lag = 2
  Ahead = 3
  Nothing = Nothing
SPECIFICATION FairCallSpec
INVARIANTS
  NoSessionAbandoned
  RetriesAtTheReset
PROPERTIES
  CallEnds
\* The call returns.
CHECK_DEADLOCK FALSE
