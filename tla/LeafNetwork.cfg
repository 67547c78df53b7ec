SPECIFICATION LiveSpec
CONSTANTS
  Children = {1, 2}
  Splits <- MCSplits
  Puller = w
  Callers = {c}
  MaxRounds = 2
  MaxEscalations = 2
INVARIANTS
  ReadyAfterItsDependencies
  RebaselinedAfterReview
  OneOfferPerNode
PROPERTIES
  EscalationStands
  AcceptanceStands
  EscalationsAnswered
  ElaboratedInTime
CHECK_DEADLOCK FALSE
