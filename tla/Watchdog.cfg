\* A tick is a minute: the defaults, but for a shorter cooldown.
CONSTANTS
  legacy = legacy
  rainbow = rainbow
  Watched <- Configured
  Stale = 2
  Cooldown = 2
  Interval = 1
  MinInterval = 1
  PostTime = 1
  MaxFaults = 1
SPECIFICATION FairSpec
INVARIANTS
  TypeOK
  ReportedInTime
PROPERTIES
  AlertsHaveCause
  ToldUnlessBehind
