SPECIFICATION FairSpec
CONSTANTS
  Workers = {w1, w2}
  Deadlines = {3}
  FirstPolls = {0, 1}
  LeaseDuration = 2
  RequestTimeout = 1
  SuccessInterval = 1
  BaseBackoff = 1
  MaxBackoff = 2
  IntMax = 2
  Messages = 2
  MaxPage = 2
  Reasons = {1}
  MaxTime = 3
INVARIANTS PollingAgrees LeaseIsExclusive InboxIsPrefix
PROPERTIES JobOnlyAdvances PollingEnds
