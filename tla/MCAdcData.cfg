SPECIFICATION Spec
CONSTANTS
  RingScans = 3
  InBufScans = 2
  ArgScans = 1
  FifoScans = 1
  Configs <- DataConfigs
  Transfers <- DataTransfers
  Signal <- LevelSignal
  MaxScans = 4
  MaxArms = 1
  MaxLatency = 2
INVARIANTS
  TypeOK
  Conservation
  ContentInOrder
  ErrorQuiesces
  EventsExact
  WildOnlyIfRaced
