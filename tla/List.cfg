\* Two processes that post and share one reader cursor; QA mails that name one
\* item and two. The retry limit is lowered to 2
\* so that one poster can exhaust it against the other.
CONSTANTS
  p1 = p1
  p2 = p2
  Procs = {p1, p2}
  Readers = {r1}
  i1 = i1
  i2 = i2
  Items <- MCItems
  Mails <- MCMails
  Genesis = Genesis
  NoMail = NoMail
  NoReader = NoReader
  AppendAttempts = 2
  MaxCalls <- MCCalls
  LockTimeouts = FALSE
SPECIFICATION Spec
INVARIANTS
  QaOncePerItem
  GivingUpMeansProgress
PROPERTIES
  ImplementsMailLog
  CursorsMonotone
\* Nobody need call again: the bounded callers may all be done.
CHECK_DEADLOCK FALSE
