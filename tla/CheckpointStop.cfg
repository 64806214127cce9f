SPECIFICATION FairSpec
CONSTANTS
  DestinationCount = 1
  MaxEpoch = 1
  Checkpoints <- OneChain
  InitialDigest = "genesis"
  OutboxCapacity = 2
  ClaimLimit = 1
  LeaseDuration = 2
  Handlers = {h1}
  MaxFailures = 0
  MaxCrashes = 1
  None = None
PROPERTIES
  RetriedAfterStop
CHECK_DEADLOCK FALSE
