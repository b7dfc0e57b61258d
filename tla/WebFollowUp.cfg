CONSTANTS
  m1 = m1
  m2 = m2
  w1 = w1
  Messages <- MC_Messages
  Resumers <- MC_Resumers
  MaxRuns = 2
  MaxReconnects = 1
  MaxMishaps = 1
  MaxFollowUps = 2
SPECIFICATION Spec
INVARIANTS FollowUpIsTakenUp
CHECK_DEADLOCK FALSE
