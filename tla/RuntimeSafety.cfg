SPECIFICATION Spec
CONSTANTS
  r1 = r1
  r2 = r2
  r3 = r3
  t1 = t1
  t2 = t2
  NoJob = NoJob
  Requests <- ThreeRequests
  Threads <- TwoThreads
  Faults <- FaultKinds
  MaxStarts = 2
CHECK_DEADLOCK FALSE
SYMMETRY Symmetry
INVARIANTS
  NoJobOnClosedPool
  QuietAfterShutdown
PROPERTIES
  AuditLogSpec
  SharedPoolSpec
