SPECIFICATION Spec
CONSTANTS
  ClientId = {c1, c2}
  Sizes <- MCSizes
  Spots <- MCSpots
  MaxQueued = 2
INVARIANTS
  ReleasedIsArranged
  EditorCatchesUp
  DragHoldsItsScreen
CHECK_DEADLOCK FALSE
