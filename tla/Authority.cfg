SPECIFICATION Spec
CONSTANTS
  Nothing = Nothing
  sword = sword
  relic = relic
  shield = shield
  ann = ann
  bob = bob
  cyd = cyd
  feed = feed
  run = run
  gem = gem
  coin = coin
  dust = dust
  i0 = i0
  i1 = i1
  i2 = i2
  i3 = i3
  Calls <- TheCalls
  Workloads <- TheWorkloads
  Assets <- TheAssets
  Migrated <- TheMigrated
  ReservationLimit = 3
  WindowLength = 1
  ClockSkew = 0
  LastTime = 1
  Relayed = feed
  RelayRuns = {r1, r2}
  LeaseLength = 2
  SuccessInterval = 1
  BaseBackoff = 1
  MaxBackoff = 2
  FailureCap = 1
  MaxFaults = 2
  Goods <- TheGoods
  Shelved <- TheShelved
  Deployments <- TheDeployments
  BatchLimit = 2
  MaxOutages = 2
  MaxRestarts = 1
  ProofLength = 2
  RetentionLimit = 2
  Roster = {ann, bob, cyd}
  RequiredApprovals = 2
  LongestCollection = 2
  SubmissionWindow = 1
  SubmissionsPerWindow = 1
  SealedHead <- TheHead
  ReservationCapacity = 2
  ConflictCapacity = 1
  FirstDeployment <- TheFirstDeployment
  HistoryLimit = 2
INVARIANTS
  TransfersAreOneChain
  LineageIsHistory
  CasesSettleOnce
  RelayCursorSafe
  AnchorHistoryIsChain
  AssetRecordsAgree
  SlotsAreSignedOnce
  LedgerStaysUsable
PROPERTIES
  ListingsStaySound
  RelaySettles
  ReplayCountsOnce
  AlarmedJobsAreSent
  AssetHeadsAdvance
  WitnessesStand
  SignaturesVerify
CHECK_DEADLOCK FALSE
