SPECIFICATION StalledAuditSpec
CONSTANTS
  r1 = r1
  r2 = r2
  r3 = r3
  t1 = t1
  t2 = t2
  NoJob = NoJob
  Requests <- TwoRequests
  Threads <- OneThread
  Faults <- NoFaults
  MaxStarts = 1
CHECK_DEADLOCK FALSE
PROPERTY AnsweredWhateverAuditsDo
