CONSTANTS
  Titles <- MCTitles
  Categories <- MCCategories
  Root = "films"
  Commons <- MCCommons
  Catalogues <- MCCatalogues
  MaxFetches = 2
  MaxDamage = 1
  Trainers = {t1, t2}
  Readers = {r1}
  Luts = {lutA, lutB}
  MaxFits = 2
  MinTargetImages = 2
  ValEvery = 2

SPECIFICATION PipelineSpec

INVARIANTS
  EveryMemberIsAccounted
  TrainedOnValidated
  LoadedIsOneArtifact
  ArtifactSurvives

PROPERTY
  DamageIsRepaired

SYMMETRY MCSymmetry

CHECK_DEADLOCK FALSE
