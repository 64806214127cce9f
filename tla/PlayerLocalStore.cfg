SPECIFICATION Spec
CONSTANTS
  Digests <- MCDigests
  Genesis = "g"
  Drafts <- MCDrafts
  Destinations = {"x", "y"}
  DestinationLists <- MCTwoDestinations
  Capacity = 2
  Events <- MCEvents
  Holds <- MCHolds
  Decisions = {"upheld", "dismissed"}
  Feeds <- MCFeeds
  ProtectedSets <- MCProtectedSets
  w1 = w1
  w2 = w2
  Writers <- MCWriters
  NoWriteSet = NoWriteSet
  NoLease = NoLease
  LeaseDuration = 1
  MaxTime = 1
  MaxRevision = 11
SYMMETRY MCSymmetry
CONSTRAINT SealingOrGathering
INVARIANTS ImageValid InboxEffectsDurable
PROPERTIES SealsExtendHead EvidenceSurvives ResolutionIsFinal
CHECK_DEADLOCK FALSE
