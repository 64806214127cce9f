SPECIFICATION Spec
CONSTANTS
  Digests <- MCDigests
  Genesis = "g"
  Drafts <- MCDrafts
  Destinations = {"x"}
  DestinationLists <- MCOneDestination
  Capacity = 2
  Events <- MCEvents
  Holds <- MCHolds
  Decisions = {"upheld", "dismissed"}
  Feeds <- MCFeeds
  ProtectedSets <- MCProtectedSets
  w1 = w1
  w2 = w2
  Writers = {w1}
  NoWriteSet = NoWriteSet
  NoLease = NoLease
  LeaseDuration = 1
  MaxTime = 0
  MaxRevision = 7
INVARIANT OneDigestPerSlot
CHECK_DEADLOCK FALSE
