\* A tick is about three seconds.
SPECIFICATION Spec
CONSTANTS
  RefreshEvery = 1
  CollectMax = 1
  ProbeTimeout = 1
  LockMax = 1
  AdvertiseMax = 1
  PollEvery = 1
  FetchTimeout = 1
  OthersMax = 1
  StaleAfter = 8
  None = None
INVARIANTS TypeOK BelievedWasTrue TruthIsSeen OwnEntryIsFresh
