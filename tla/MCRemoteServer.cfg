\* Three remote captures and one local one around a registry of one entry: an
\* eviction, a local capture that must stay unlisted, and a third POST that
\* meets either.
CONSTANTS
  r1 = r1
  r2 = r2
  r3 = r3
  h1 = h1
  h2 = h2
  Ids = {r1, r2, r3, l1}
  None = None
  LocalIds = {l1}
  Handlers = {h1, h2}
  MaxConnections = 2
  MaxJobs = 1

SPECIFICATION RemoteSpec

SYMMETRY Symmetric

INVARIANTS
  RemoteTypeOK
  PromiseIsAnswered
  PhotoOfOwnCapture
