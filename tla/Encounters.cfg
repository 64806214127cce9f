SPECIFICATION Spec
CONSTANTS
  Nothing = Nothing
  ada = ada
  ben = ben
  lootless = lootless
  looted = looted
  Calls <- TheCalls
  Workloads <- TheWorkloads
  LastTime = 1
  TicketIds = {1, 2, 3}
  Looted = {looted}
  PlayTime = 1
  CommitWindow = 1
  RetentionLength = 1
  MaxAdmissions = 3
  MaxBindings = 1
  ArchiveBytes = 1
  ArchiveObjects = 2
  PageSize = 2
  Queues <- TheQueues
  PoolBytes = 4
  PoolItems = 4
  ScopeBytes = 3
  ScopeItems = 2
  MaxItemBytes = 2
  MaxQueues = 2
  MaxBatch = 2
  LastRevision = 5
  Player = ada
  Logs = {lootless, looted}
  MaxHistory = 2
  MaxLosses = 1
INVARIANTS
  OneTicketPerStart
  HeldEvidenceIsKept
  InventoryReadable
  PoolValidates
  EvidenceIsKept
  SessionIsRecoverable
PROPERTIES
  OutcomesAreFinal
CHECK_DEADLOCK FALSE
