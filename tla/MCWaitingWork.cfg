CONSTANTS
  m1 = m1  m2 = m2  m3 = m3  c1 = c1
  Inputs <- MC_Inputs
  Completions <- MC_Completions
  MaxPending = 1
  MailCrashes = 1
SPECIFICATION WorkSpec
INVARIANTS AcceptedIsKept
PROPERTIES HandledOnce SealLeavesNothing EventuallyHandled DueIsServed
\* Nothing is left to send, and the clock of the schedules ends.
CHECK_DEADLOCK FALSE
