SPECIFICATION Spec
CONSTANTS
  DestinationCount = 2
  MaxEpoch = 1
  Checkpoints <- MCCheckpoints
  InitialDigest = "genesis"
  OutboxCapacity = 3
  ClaimLimit = 2
  LeaseDuration = 1
  Handlers = {h1}
  MaxFailures = 1
  MaxCrashes = 1
  None = None
INVARIANTS
  AckImpliesReceived
  NoFalseFork
PROPERTIES
  ImplementsReplication
CHECK_DEADLOCK FALSE
