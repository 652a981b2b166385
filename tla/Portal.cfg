SPECIFICATION Spec
CONSTANTS
  c1 = c1
  Unreadable = Unreadable
  Clients <- OneClient
  Secrets <- OneSecret
  DefaultSecret = "default"
  Issuers <- OneIssuer
  Users <- OneUser
  MinTtl = 1
  MaxTtl = 2
  Envs <- SomeEnvs
  Held <- Strangers
  Bodies <- SomeBodies
  Asks <- SomeAsks
  Domains <- TwoDomains
  Hits <- SomeHits
  AssetDomain = "law"
  Edges <- OneEdge
  MinConf = 4
  Folds <- BothWays
  MaxClock = 1
  MaxMinted = 1
  MaxChanges = 1
  MaxRetries = 1
  MaxRestarts = 1
CHECK_DEADLOCK FALSE
INVARIANTS
  TokensServe
  RowNamesCaller
  AnswersFollowTiers
  AnswersAreTop
  FacetsMatchRows
