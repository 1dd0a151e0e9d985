\* Two connections; nobody edits the arrangement in the GUI.
SPECIFICATION Spec
CONSTANTS
  ClientId = {c1, c2}
  Screen <- MCScreen
  GuiEdges = {}
  Cursor <- MCCursor
SYMMETRY Symmetry
INVARIANTS
  TypeOK
  LocalIsLocal
  ClientIsHere
  EnteredIsActive
  EntryOutlivesTransition
  WalkIsSafe
  DisconnectFindsNothing
  StoppedMeansQuiet
PROPERTIES
  KeysFollowEnter
  SwitchSpec
\* The server may be stopped, or deadlock (see NoJoinDeadlock).
CHECK_DEADLOCK FALSE
