\* A request, provided or not, with three attempts a node and three defects; two
\* reforms of a tree of up to two patterns and two candidates out of three.
CONSTANTS
  a1 = a1
  a2 = a2
  a3 = a3
  p1 = p1
  p2 = p2
  c1 = c1
  c2 = c2
  c3 = c3
  Atoms <- MCAtoms
  Patterns <- MCPatterns
  Candidates <- MCCandidates
  Kinds = 2
  Attempts = 3
  MaxFragments = 2
  MaxReforms = 2
  MaxAnchors = 2
  None = None
SPECIFICATION ApproachSpec
SYMMETRY MCSymmetry
INVARIANTS
  RetriesChangeTheOdds
  NoStragglers
  PrecedentFailureFirst
PROPERTIES
  DecisionHasItsBasis
  AnchorsAnswered
\* After the last reform nothing is left to do.
CHECK_DEADLOCK FALSE
