SPECIFICATION Spec
CONSTANTS
  c1 = c1
  Unreadable = Unreadable
  Clients <- OneClient
  Secrets <- OneSecret
  DefaultSecret = "default"
  Issuers <- OneIssuer
  Users <- OneUser
  MinTtl = 1
  MaxTtl = 2
  Envs <- OneEnv
  Held = {}
  Bodies <- SomeBodies
  Asks <- DetailAsks
  Domains <- TwoDomains
  Hits <- SomeHits
  AssetDomain = "law"
  Edges <- SomeEdges
  MinConf = 4
  Folds <- BothWays
  MaxClock = 0
  MaxMinted = 0
  MaxChanges = 2
  MaxRetries = 1
  MaxRestarts = 0
CHECK_DEADLOCK FALSE
INVARIANT ConfirmedFirst
