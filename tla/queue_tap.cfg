SPECIFICATION Spec
CONSTANTS
  u1 = u1  u2 = u2  k1 = k1  sA = sA  sB = sB
  engine = engine  watcher = watcher  ipc = ipc
  NoSession = NoSession  NoItem = NoItem  Worker = Worker  Free = Free
  Sessions = {sA, sB}
  Speech = {u1}
  Cues = {}
  NeedsInput = {}
  SessionOf <- TwoTerminals
  RouteOf <- NoRoutes
  ActiveSessionBurst = 3
  MaxPending <- RoomForTwo
  MaxSessionPending <- RoomForTwo
  Callers = {engine}
  OpsOf <- TapOps
  Targets <- TargetA
  Gates = {}
  CancelKindCap = 32
  MaxGeneration = 1
INVARIANT QuietDuringDictation
CHECK_DEADLOCK FALSE
