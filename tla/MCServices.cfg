SPECIFICATION Spec
INVARIANTS
  OneTimer
  EventExact
  CountersAsReported
  PinsAsWritten
  CalTruth
  ConstantsAreTheFiles
  WholeImage
  SetupServed
  CardsAsAsked
  SamplesKept
  ChainCovers
PROPERTIES
  ArmedMeansArmed
  ArmEnds
CHECK_DEADLOCK FALSE
