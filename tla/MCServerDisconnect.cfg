SPECIFICATION FairSpec
CONSTANTS
  ClientId = {c1}
  Screen <- MCScreen
  GuiEdges = {}
  Cursor <- MCCursor
PROPERTY DisconnectSwitchesToLocal
CHECK_DEADLOCK FALSE
