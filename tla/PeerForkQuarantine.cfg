SPECIFICATION Spec
CONSTANTS
  Peers = {1, 2}
  Digests = {"a", "b"}
  Deliveries = {"a"}
  Dispatches = {d1, d2}
  Idle = Idle
  NoLease = NoLease
  MaxInFlight = 2
  MaxParallel = 2
  LeaseDuration = 1
  BaseBackoff = 1
  MaxBackoff = 3
  LastAttempt = 4
  MaxInt = 6
  MaxTime = 3
INVARIANT ForkEvidenceQuarantines
CHECK_DEADLOCK FALSE
