\* One worker at a time, all modes, aborts at every await.
CONSTANTS
  Missing = Missing
  i1 = i1
  i2 = i2
  i3 = i3
  Workers = {w1}
  Signals <- TwoSignals
  Configs <- AllModes
  MaxSignalAge = 0
  MaxAttempts = 2
  MaxTime = 1
  MaxFaults = 2
  MaxTally = 99
SPECIFICATION FairSpec
INVARIANTS
  TypeOK
  OutboxIsTruthful
  TradesAccountedFor
  AttemptsBounded
PROPERTIES
  ImplementsContract
  EveryEntrySettles
