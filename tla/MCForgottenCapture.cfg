\* One press without any fault, and a registry that has forgotten its job by the
\* time the photo is fetched.
CONSTANTS
  p1 = p1
  p2 = p2
  i1 = i1
  i2 = i2
  Ids = {p1}
  Instances = {i1}
  OtherIds = {l1}
  None = None
  MaxFaults = 0
  MaxEvicted = 1
  Clocks = {"connect", "status", "poll", "download", "error"}

SPECIFICATION FairCaptureSpec

PROPERTY
  UnknownJobInterrupts

CHECK_DEADLOCK FALSE
