SPECIFICATION Spec
CONSTANTS
  c1 = c1
  Clients <- OneClient
  Asks <- NoHeader
  Sizes <- FewSizes
  Chunk = 2
  MaxChanges = 0
  MaxResumes = 0
CHECK_DEADLOCK FALSE
INVARIANT UnreadableIsGone
