\* Of a signal with one percent confidence the registry holds one with all of it.
CONSTANTS
  Unit = 10000000
  Grain = 10
  StaleAfter = 1
  Callers = {agent}
  None = None
  Offers <- Shapes
  LegacySignals <- FallingSignals
  MaxPerWindow = 1
  RateWindow = 2
  Lags <- OnlyPast
  MaxRows = 1
  MaxTime = 4
  MaxFaults = 1
  Threshold = 6000000
  RiskLimit = 7000000
  MinInterval = 2
  CacheTtl = 3
  MaxAge = 1
  KeepsFile = TRUE
SPECIFICATION Spec
INVARIANTS
  AdviceIsBacked
