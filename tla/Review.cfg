SPECIFICATION FairSpec
CONSTANTS
  r1 = r1
  r2 = r2
  e1 = e1
  e2 = e2
  k1 = k1
  ghost = ghost
  Nobody = Nobody
  Requests <- TwoRequests
  Edges <- TwoEdges
  Kinds <- OneKind
  Ids <- AllIds
  Batches <- AllBatches
  Faults <- FaultKinds
INVARIANTS
  DecisionsNotOverwritten
  StatusIsLastDecision
  AuditTellsWhatWasDone
PROPERTIES
  BoardSpec
  RequestsEnd
