CONSTANTS
  task = task  ask = ask  edit = edit  patch = patch  otherPatch = otherPatch
  main = main  sub = sub  other = other
  NoCall = NoCall
  Calls <- MC_Calls
  Executors <- MC_Executors
  ExecutorOf <- MC_ExecutorOf
  Shared <- MC_Shared
  MaxPending = 2
  Quotas <- MC_Quotas
  Editors <- MC_Editors
  Paths <- MC_Paths
  Given <- MC_Given
  Parent <- MC_Parent
SPECIFICATION FairSpec
INVARIANTS LayersExclude
PROPERTIES NoOvertaking ImplementsFifo EveryCallEnds
CHECK_DEADLOCK FALSE
