\* The freshness claim of the documentation.
CONSTANTS
  Missing = Missing
  i1 = i1
  i2 = i2
  i3 = i3
  Workers = {w1}
  Signals <- OneSignal
  Configs <- LiveOnly
  MaxSignalAge = 1
  MaxAttempts = 2
  MaxTime = 3
  MaxFaults = 1
  MaxTally = 99
SPECIFICATION FairSpec
PROPERTIES
  OnlyFreshDelivered
