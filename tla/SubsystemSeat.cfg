\* Two maintainers and an integrator at once, killed anywhere; a series of two
\* leaves and one of a single leaf.
CONSTANTS
  Leaves = {1, 2}
  LeavesOf <- MCLeavesOf
  a1 = a1
  a2 = a2
  Maintainers = {a1, a2}
  Integrators = {m1}
  Default = Default
  Subsystem = Subsystem
  Mainline = Mainline
  MaxBegun = 4
  MayCrash = TRUE
SPECIFICATION Spec
SYMMETRY MCSymmetry
INVARIANTS
  NothingLost
  AcceptedMeansMerged
  RecordsContainTheirLeaves
  RecordedOnce
\* The bound on commits may leave nothing to do.
CHECK_DEADLOCK FALSE
