\* The terminal loop after a window that could not be opened.
CONSTANTS
  Ids = {r1, r2}
  None = None
  Patient = TRUE
  MaxInterrupts = 0

SPECIFICATION ProgramSpec

INVARIANTS
  FallbackHasCamera
