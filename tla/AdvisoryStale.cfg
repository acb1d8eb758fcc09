\* The newest signal is older than its maximal age and is passed on.
CONSTANTS
  Unit = 10000000
  Grain = 10
  StaleAfter = 1
  Callers = {agent}
  None = None
  Offers <- Shapes
  LegacySignals <- CalmSignals
  MaxPerWindow = 1
  RateWindow = 2
  Lags <- OnlyPast
  MaxRows = 2
  MaxTime = 4
  MaxFaults = 1
  Threshold = 6000000
  RiskLimit = 7000000
  MinInterval = 2
  CacheTtl = 3
  MaxAge = 1
  KeepsFile = TRUE
SPECIFICATION Spec
INVARIANTS
  StaleNeverAdvised
