SPECIFICATION Spec
CONSTANTS
  Chans <- TwoChans
  RingSamples = 9
  Block = 3
  FifoDepth = 3
  Word = 4
  MinDynamic = 2
  Lens = {1, 2}
  Confs <- SoftShot
  MaxUpdates = 5
  MaxGap = 2
  Uses <- Both
INVARIANTS
  OutputExact
  CountsHonest
  ErrorQuiesces
  CopiesFit
  ActivityAgrees
  ModesAgree
