\* Main loop and heartbeat thread together, under fairness: overflows, broken
\* flushes, a signal AI4Trade refuses for ever, failed saves, crashes and restarts.
CONSTANTS
  None = None
  Markets <- Views
  Threshold = 60
  Assets = 2
  MaxSignals = 3
  MaxQueue = 2
  Poisoned <- SecondPoisoned
  MaxFaults = 2
  MaxConsecutivePolls = 1
  BreakerThreshold = 2
  MaxBatches = 2
  MaxTally = 4
SPECIFICATION FairSpec
INVARIANTS
  TypeOK
  NothingVanishes
  ConfirmedOnce
PROPERTIES
  ShutdownCompletes
  MessagesAreHandled
  BufferedIsDelivered
