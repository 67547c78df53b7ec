SPECIFICATION Spec
CONSTANTS
  na = na
  nb = nb
  nc = nc
  nd = nd
  j1 = j1
  j2 = j2
  Branches <- TwoBranches
  Producers <- TwoProducers
  Clones <- OneCloneEach
  BranchOf <- BranchEach
  FamilyOf <- Families
  Judges <- TwoJudges
  Synced = TRUE
  MaxSeries <- SeriesCommits
  MaxCommits <- Commits
  MaxKills = 1
INVARIANTS SealsMatch
PROPERTIES PublishedNeverRewritten JudgedAtItsSource JudgeSettles
CHECK_DEADLOCK FALSE
