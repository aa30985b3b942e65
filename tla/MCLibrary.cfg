SPECIFICATION Spec
CONSTANTS
  Counts = {1}
  Lengths = {2}
  Leftovers = {0}
  Top = 1000
  Programs = {"any", "Ex02", "Ex13"}
  Scans = 1
  Large = 2
  MaxScans = 3
INVARIANTS
  LibraryAgrees
  ReadsContinue
