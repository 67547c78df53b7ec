SPECIFICATION Spec
CONSTANTS
  f = f
  g = g
  p = p
  q = q
  a1 = a1
  a2 = a2
  None = None
  Families <- BothFamilies
  Procs <- ProcEach
  FamilyOf <- Identities
  Reader <- OwnReaders
  Offers <- TwoOffers
  Promised <- SecondPromised
  Aliased <- FirstAliased
  Refused <- SecondRefused
  MaxKills = 1
  MaxWithdrawals = 1
  MaxTurns = 1
INVARIANTS CoordinatesNeverCoexist PassedMeansAnnounced
PROPERTIES OffersPassed
CHECK_DEADLOCK FALSE
