SPECIFICATION MCSpec
CONSTANTS
  ScanSize = 3
  RingSamples = 8
  FifoDepth = 3
  Word = 4
  Dword = 8
  HwTrigger = TRUE
  Readers = {"timer"}
  MaxScans = 8
  MaxGap = 2
INVARIANTS
  WrapCounts
  SoftTaken
PROPERTIES
  WrapExact
