CONSTANTS
  a1 = a1  a2 = a2  a3 = a3  b1 = b1  b2 = b2
  A = A  B = B
  ownA1 = ownA1  ownA2 = ownA2  ownB = ownB
  Execute = Execute  ReadOnly = ReadOnly
  Tasks <- MC_Tasks
  Sessions = {A, B}
  Owners = {ownA1, ownA2, ownB}
  Kinds = {Execute, ReadOnly}
  SessionOf <- MC_SessionOf
  OwnerOf <- MC_OwnerOf
  KindOf <- MC_KindOf
  GlobalMaxInFlight = 2
  GlobalMaxPending = 3
  SessionMaxInFlight = 2
  SessionMaxPending = 2
  GlobalKindLimit <- MC_GlobalKindLimit
  SessionKindLimit <- MC_SessionKindLimit
  Keys <- MC_Keys
  Clients <- MC_Clients
  Web <- MC_Web
  MaxResident = 2
  MaxGeneration = 4
  Requests <- MC_Tasks
  Impatient = {a1}
  Domains = {"d1", "d2"}
  DomainOf <- MC_DomainOf
  ClassOf <- MC_ClassOf
  MaxInFlight <- MC_MaxInFlight
  MaxPending <- MC_MaxPending
  RequestOwners = {A, B}
  RequestOwner <- MC_SessionOf
  Runs <- MC_Tasks
  RunKey <- MC_RunKey
  RunBytes <- MC_RunBytes
  RunLimits <- MC_RunLimits
  InitialLimits <- MC_Narrow
SPECIFICATION AdmissionSpec
INVARIANTS AccountingExact NothingWaitsInVain ResidentsAccounted
           WaitersAccounted
PROPERTIES ArrivalOrder ImplementsPermitPool WaitersInTurn
\* Every controller may stop: closed, or with nothing left to admit.
CHECK_DEADLOCK FALSE
