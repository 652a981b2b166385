SPECIFICATION Spec
CONSTANTS
  r1 = r1
  r2 = r2
  r3 = r3
  card = card
  detail = detail
  odd = odd
  Requests <- ThreeRequests
  Keys <- ThreeKeys
  UnsafeKeys <- OneUnsafe
  MaxVersion = 2
  MaxClears = 1
  MaxCrashes = 1
CHECK_DEADLOCK FALSE
INVARIANTS
  CacheIsWhole
  AnswersAreWhole
  WarmRequestsHit
  FailedStoresAreHarmless
SYMMETRY Symmetry
