\* Two presses, one after the other, and a server restart between or during
\* them.
CONSTANTS
  p1 = p1
  p2 = p2
  i1 = i1
  i2 = i2
  Ids = {p1, p2}
  Instances = {i1, i2}
  None = None

SPECIFICATION ClientSpec

SYMMETRY Symmetric

INVARIANTS
  ToneAfterAcknowledgement
  AnswersMeetTheirRequest
  BufferIsFree
  ScreenIsHonest

PROPERTIES
  ScreenKeepsPhoto
  PressIsPosted
