SPECIFICATION Spec
CONSTANTS
  ClientId = {c1, c2, c3}
  Screens <- MCScreens
  Rects <- MCRects
INVARIANTS
  TypeOK
  OneEntryPerClient
  HitIsOnBorder
  OldestOfEdgeIsReachable
  EntersInsideScreen
