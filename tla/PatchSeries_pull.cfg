\* One worker, killed and started again at any moment, on two series; the cap is
\* lowered to 3 rounds so that a series can run into it.
CONSTANTS
  Series = {1, 2}
  Main = Main
  Workers = {w1}
  Reports = {r1}
  MaxRounds = 3
  OriginHead = TRUE
  MayCrash = TRUE
SPECIFICATION LiveSpec
INVARIANTS
  TakeTurns
  VerdictOnWhatWasJudged
PROPERTIES
  EverySeriesConcluded
\* When every series is concluded there may be nothing left to do.
CHECK_DEADLOCK FALSE
