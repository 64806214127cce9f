SPECIFICATION Spec
CONSTANTS
  Peers = {1, 2, 3}
  Digests = {"a", "b"}
  Deliveries = {"a"}
  Dispatches = {d1, d2}
  Idle = Idle
  NoLease = NoLease
  MaxInFlight = 2
  MaxParallel = 2
  LeaseDuration = 1
  BaseBackoff = 1
  MaxBackoff = 3
  LastAttempt = 3
  MaxInt = 4
  MaxTime = 2
INVARIANTS RoutesAreUsable
PROPERTIES RoutesOnlyAdvance
CHECK_DEADLOCK FALSE
