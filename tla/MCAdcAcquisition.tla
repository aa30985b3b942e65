-------------------------- MODULE MCAdcAcquisition --------------------------
(* Instances of AdcAcquisition for TLC. *)
EXTENDS AdcRefinement

Config(source, stop, pre, post) ==
  [source |-> source, stop |-> stop, pre |-> pre, post |-> post]
Transfer(size, cyclic) == [size |-> size, cyclic |-> cyclic]

DataConfigs ==
  {Config("Level", "ScanCount", 1, 1), Config("Software", "Software", 2, 1),
   Config("Immediate", "Level", 0, 1)}
UnitTransfers == {Transfer(1, FALSE)}
NoSignal == {}
HardConfigs == {Config("Hardware", "ScanCount", 0, 4), Config("Immediate", "ScanCount", 0, 1)}
DataTransfers == {Transfer(1, FALSE), Transfer(2, TRUE)}
LevelSignal == {1, 3, 5}
=============================================================================
