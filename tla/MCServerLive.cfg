\* One connection, and a user who moves its screen about in the GUI.
SPECIFICATION FairSpec
CONSTANTS
  ClientId = {c1}
  Screen <- MCScreen
  GuiEdges = {"LEFT"}
  Cursor <- MCCursor
PROPERTIES
  EscapeWorks
  StopReturns
  BrokenIsDropped
\* The server may be stopped, or deadlock (see NoJoinDeadlock).
CHECK_DEADLOCK FALSE
