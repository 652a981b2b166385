SPECIFICATION Spec
CONSTANTS
  HoursPerDay = 2
  DaysPerMonth = 2
  StartTime = 99
  MaxTicks = 1
  MaxChanges = 2
  MaxRetries = 1
  Actions <- TwoActions
  Modalities <- TwoModalities
  Statuses <- TwoStatuses
  Logs <- SomeLogs
  Catalogues <- SomeCatalogues
  Asks <- SomeAsks
CHECK_DEADLOCK FALSE
INVARIANTS
  FiguresAgree
  DrillDownsAgree
  MonthlyCoversMonths
  ListMatchesBucket
  PagesAreComplete
