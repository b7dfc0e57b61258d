CONSTANTS
  MaxCalls = 3
  Limit = 2
  Kinds <- MC_Kinds
  MaxEpochs = 2
  MaxDiscarded = 1
  MaxFailures = 1
  Calls <- MC_Asking
  Inputs <- MC_Inputs
  MaxCrashes = 1
  MaxAnswers = 2
  MaxConnects = 1
  q1 = q1  q2 = q2  m1 = m1
SYMMETRY MC_Symmetry
SPECIFICATION TurnSpec
INVARIANT MalformedIsAnswered
CHECK_DEADLOCK FALSE
