\* A flush that is broken off keeps what it has delivered.
CONSTANTS
  None = None
  Markets <- Views
  Threshold = 60
  Assets = 2
  MaxSignals = 2
  MaxQueue = 2
  Poisoned <- NoPoison
  MaxFaults = 3
  MaxConsecutivePolls = 1
  BreakerThreshold = 1
  MaxBatches = 0
  MaxTally = 99
SPECIFICATION MainSpec
PROPERTIES
  FlushDoesNotDuplicate
