CONSTANTS
  p1 = p1  p2 = p2  p3 = p3
  Procs <- MC_Procs
  MaxFiles = 3
  MaxCrashes = 1
  MaxBlind = 0
  Count = 3
  Stored <- MC_Stored
  Once <- MC_Once
  At <- MC_At
  Period <- MC_Period
  Expiry <- MC_Expiry
  MaxTime = 2
  MaxEvents = 2
SYMMETRY MC_Symmetry
SPECIFICATION SharedSpec
INVARIANT SingleHolder
CHECK_DEADLOCK FALSE
