\* Collector loops that share the evaluator and its cache.
CONSTANTS
  None = None
  BTC = BTC
  ETH = ETH
  Keys <- AllKeys
  Ttl = 2
  MaxSize = 1
  Lineups <- PairLineups
  Watch <- PairWatch
  Subreddits = 2
  Raw <- PairRaw
  Predictions = {None}
  Attempts = 2
  Models = 2
  Confidence = {900}
  Said <- FewReplies
  Timeout = 1
  Threshold = 500
SPECIFICATION FairSpec
INVARIANTS
  TypeOK
  LostOnlyWithCycle
  ServedIsRecent
  EvaluatedInTime
PROPERTIES
  CyclesEnd
