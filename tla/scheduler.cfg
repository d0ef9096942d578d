SPECIFICATION Spec
CONSTANTS
  a1 = a1  a2 = a2  b1 = b1  b2 = b2  g1 = g1  sA = sA  sB = sB
  NoSession = NoSession
  Sessions = {sA, sB}
  Speech = {a1, a2, b1, b2, g1}
  Cues = {}
  NeedsInput = {}
  SessionOf <- SessionsOfItems
  RouteOf <- NoRoutes
  ActiveSessionBurst = 3
  MaxPending <- Room
  MaxSessionPending <- RoomPerSession
  Marks <- TerminalsOrNone
INVARIANT BoundedOvertaking
PROPERTY FifoWithinSession
