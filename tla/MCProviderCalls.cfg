CONSTANTS
  r1 = r1  r2 = r2  r3 = r3
  Requests <- MC_Requests
  Patient <- MC_Patient
  Capacity = 2
  MaxAttempts = 2
  MinSamples = 2
  ErrorPercent = 80
  MaxWindowEntries = 3
  MaxGeneration = 9
  MaxLeases = 6
SYMMETRY MC_Symmetry
SPECIFICATION HSpec
INVARIANTS HeldWhileInUse OneDecidingProbe
PROPERTIES LateResultsIgnored FreshEvidence
CHECK_DEADLOCK FALSE
