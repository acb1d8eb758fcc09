\* Room for both signals in one run, no archive before the end of the clock.
CONSTANTS
  s1 = s1
  s2 = s2
  daemon = daemon
  manual = manual
  Nobody = Nobody
  Signals = {s1, s2}
  Trackers = {daemon}
  Deployments <- Daemon
  Direction <- Directed
  Move <- Rising
  DayLength = 2
  Window = 1
  Limit = 2
  MaxAge = 3
  SignalRetention = 2
  OutcomeRetention = 0
  ArchiveAge = 4
  Closable = {}
  Stamps <- UtcOnly
  FirstTime = 0
  MaxTime = 4
  MaxFaults = 0
SPECIFICATION Spec
PROPERTIES
  ReadyIsSelected
