\* One signal per run, one tracker or two, the end of one date and most of the next.
CONSTANTS
  s1 = s1
  s2 = s2
  daemon = daemon
  manual = manual
  Nobody = Nobody
  Signals = {s1, s2}
  Trackers = {daemon, manual}
  Deployments <- OneOrTwo
  Direction <- Directed
  Move <- Rising
  DayLength = 3
  Window = 1
  Limit = 1
  MaxAge = 3
  SignalRetention = 2
  OutcomeRetention = 0
  ArchiveAge = 1
  Closable = {s2}
  Stamps <- WestToo
  FirstTime = 2
  MaxTime = 5
  MaxFaults = 1
SPECIFICATION FairSpec
INVARIANTS
  TypeOK
  JudgedAtHorizon
  VerdictsAreTrue
  ArchivedIsReadable
PROPERTIES
  NoTrackerRepeatsItself
  ArchiveDeletesWhatItWrote
  PassedOverOnlyBehindOlder
