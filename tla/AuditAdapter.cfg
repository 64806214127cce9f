SPECIFICATION Spec
CONSTANTS
  SignedEvents <- MCSignedEvents
  Roster <- MCRoster
  NoReply = NoReply
INVARIANTS DeliveryIsCausal EventsAccountedOnce
CHECK_DEADLOCK FALSE
