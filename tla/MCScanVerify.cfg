SPECIFICATION Spec
CONSTANTS
  ScanSize = 3
  RingSamples = 8
  FifoDepth = 4
  Word = 4
  Dword = 16
  HwTrigger = FALSE
  Readers = {"timer"}
  MaxScans = 9
  MaxGap = 2
INVARIANTS
  NoFalseOverrun
