CONSTANTS
  m1 = m1
  m2 = m2
  w1 = w1
  Messages <- MC_Messages
  Resumers <- MC_Resumers
  MaxRuns = 3
  MaxReconnects = 1
  MaxMishaps = 1
  MaxFollowUps = 1
SPECIFICATION FairSpec
INVARIANTS OneTurnOneRun ShutdownDrains TurnHasAHolder
PROPERTIES ShutdownEnds
\* The server may be idle, or down.
CHECK_DEADLOCK FALSE
