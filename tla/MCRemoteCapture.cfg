\* Two presses, a local capture between them, one eviction and one fault of any
\* kind, a restart for instance.
CONSTANTS
  p1 = p1
  p2 = p2
  i1 = i1
  i2 = i2
  Ids = {p1, p2}
  Instances = {i1, i2}
  OtherIds = {l1}
  None = None
  MaxFaults = 1
  MaxEvicted = 1
  Clocks = {"connect", "status", "poll", "download", "error"}

SPECIFICATION CaptureSpec

SYMMETRY Symmetric

INVARIANTS
  OneShotPerPress

PROPERTIES
  ImplementsShutter

CHECK_DEADLOCK FALSE
