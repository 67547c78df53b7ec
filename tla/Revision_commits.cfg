\* One reform of a tree of up to two patterns and two candidates out of three.
CONSTANTS
  p1 = p1
  p2 = p2
  c1 = c1
  c2 = c2
  c3 = c3
  Patterns <- MCPatterns
  Candidates <- MCCandidates
  Kinds = 2
  MaxFragments = 2
  MaxReforms = 1
  MaxAnchors = 2
  None = None
SPECIFICATION Spec
SYMMETRY MCSymmetry
INVARIANTS
  CommittedTreeResolves
\* After the last reform nothing is left to do.
CHECK_DEADLOCK FALSE
