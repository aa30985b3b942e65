SPECIFICATION Spec
CONSTANTS
  RingScans = 2
  InBufScans = 1
  ArgScans = 0
  FifoScans = 1
  Configs <- HardConfigs
  Transfers <- UnitTransfers
  Signal <- NoSignal
  MaxScans = 4
  MaxArms = 2
  MaxLatency = 4
INVARIANTS
  BacklogBounded
  OnlyStopKillsTimer
PROPERTIES
  TimerCopiesIntact
  ImplementsDriver
