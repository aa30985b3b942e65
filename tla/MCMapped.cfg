SPECIFICATION Spec
CONSTANTS
  Counts = {0, 2}
  Lengths = {3}
  Leftovers = {0}
  Top = 1000
  Programs = {"Ex02"}
  Scans = 2
  Large = 3
  MaxScans = 4
INVARIANTS
  SamplesArrive
