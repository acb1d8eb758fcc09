\* Two loops that share the store and a subscription, through failures, cancellation
\* and crashes, and subscriptions made and given back.
CONSTANTS
  c1 = c1
  c2 = c2
  Collectors <- Both
  MaxBatch = 2
  Loads <- SignalsOrSubscriptions
  MaxFailures = 1
SPECIFICATION FairSpec
INVARIANTS
  TypeOK
  StoreIsAhead
  EverySignalAccounted
  NothingAfterClose
  FailuresBounded
  LostOnlyInSameSecond
PROPERTIES
  StoredIsDispatched
