SPECIFICATION FairSpec
CONSTANTS
  DestinationCount = 1
  MaxEpoch = 1
  Checkpoints <- OneChain
  InitialDigest = "genesis"
  OutboxCapacity = 2
  ClaimLimit = 1
  LeaseDuration = 2
  Handlers = {h1}
  MaxFailures = 2
  MaxCrashes = 0
  None = None
PROPERTIES
  EverySealAcknowledged
CHECK_DEADLOCK FALSE
