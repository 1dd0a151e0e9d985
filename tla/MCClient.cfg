\* Three messages and one datagram under way.
SPECIFICATION FairSpec
CONSTANTS
  MaxInbox = 3
  MaxMoves = 1
INVARIANTS
  TypeOK
  ActiveIsEntered
  OneReceiver
  QuitEndsWorkers
PROPERTIES
  KeysWhenActive
  QuitReturns
\* The client may be gone.
CHECK_DEADLOCK FALSE
