SPECIFICATION DbFairSpec
CONSTANTS
  t1 = t1
  t2 = t2
  t3 = t3
  Nobody = Nobody
  Callers <- ThreeThreads
  MaxCloses = 2
  MaxFails = 2
INVARIANT CallersGetOpenPool
PROPERTIES
  DbSharedPoolSpec
  CallsEnd
