CONSTANTS
  Luts = {lutA, lutB}
  MaxFits = 1
  Shots <- MCShots
  MaxBatches = 2
  Others = {}
  Size <- MCSize
  Tools = {x1, x2}
  Training <- MCTraining
  Validation <- MCValidation
  References <- MCReferences
  HandMade <- MCHandMade

SPECIFICATION LabSpec

INVARIANTS
  HeldOut
  BaselineIsOneArtifact
  TripletsAreOfOneShot

SYMMETRY MCSymmetry

CONSTRAINT Bounded

CHECK_DEADLOCK FALSE
