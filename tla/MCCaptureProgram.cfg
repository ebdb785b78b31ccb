\* Every command line and host, three captures from window, terminal and remote
\* clients, and one Ctrl-C.
CONSTANTS
  Ids = {r1, r2, r3}
  None = None
  Patient = TRUE
  MaxInterrupts = 1

SPECIFICATION FairProgramSpec

INVARIANTS
  CleanExit
  BarsMeanTracking

PROPERTIES
  NotClosedUnderCapture
  LatestIsShown
