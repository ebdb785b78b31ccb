CONSTANTS
  Devices = {0, 2}
  RequestBuffers = 2
  MaxShots = 2
  MaxTick = 1
  MaxStarts = 2
  MinAge = 1

SPECIFICATION PhotoSpec

INVARIANTS
  BeliefIsReal
  RecordsAreBacked
  RequestsAreGivenBack
  CloudHasWholeFiles

PROPERTY
  OriginalsAreKept

CHECK_DEADLOCK FALSE
