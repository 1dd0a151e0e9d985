SPECIFICATION Spec
CONSTANTS
  ClientId = {c1}
  Screen <- MCScreen
  GuiEdges = {}
  Cursor <- MCCursor
INVARIANT NoJoinDeadlock
CHECK_DEADLOCK FALSE
