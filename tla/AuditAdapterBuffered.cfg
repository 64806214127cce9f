SPECIFICATION Spec
CONSTANTS
  SignedEvents <- MCSignedEvents
  Roster <- MCRoster
  NoReply = NoReply
INVARIANT BufferedMeansPending
CHECK_DEADLOCK FALSE
