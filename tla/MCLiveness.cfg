SPECIFICATION Spec
INVARIANTS
  ExamplesSucceed
PROPERTIES
  AcquisitionEnds
  ExamplesEnd
