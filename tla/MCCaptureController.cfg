\* Three request ids: one being captured, one refused or resubmitted, one to
\* come after it.
CONSTANTS
  Ids = {r1, r2, r3}
  None = None

SPECIFICATION FairSpec

INVARIANTS
  SerializedJobs
  CapturedAtMostOnce
  CloseDrains

PROPERTIES
  SettledIsFinal
  AcceptedSettles
  CloseReturns
  ImplementsService
