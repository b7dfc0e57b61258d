CONSTANTS
  p1 = p1  p2 = p2  p3 = p3  Nobody = Nobody
  Procs <- MC_Procs
  Files <- MC_Files
  Plans <- MC_Plans
  Existing <- MC_Existing
  MaxMishaps = 2
  Shared = {1}
SPECIFICATION Spec
INVARIANTS AtomicOnceBackedUp ArtefactsHaveAJournal OneWorker
PROPERTY WaitersGetTheirTurn
CHECK_DEADLOCK FALSE
