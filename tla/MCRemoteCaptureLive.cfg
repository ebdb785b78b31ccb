\* One press and one fault; nothing is evicted (MCForgottenCapture shows what
\* becomes of that).
CONSTANTS
  p1 = p1
  p2 = p2
  i1 = i1
  i2 = i2
  Ids = {p1}
  Instances = {i1, i2}
  OtherIds = {}
  None = None
  MaxFaults = 1
  MaxEvicted = 0
  Clocks = {"connect", "status", "poll", "download", "error"}

SPECIFICATION FairCaptureSpec

PROPERTIES
  RequestIsReleased
  ButtonComesBack

CHECK_DEADLOCK FALSE
