SPECIFICATION FairSpec
CONSTANTS
  u1 = u1  u2 = u2  k1 = k1  sA = sA  sB = sB
  engine = engine  watcher = watcher  ipc = ipc
  NoSession = NoSession  NoItem = NoItem  Worker = Worker  Free = Free
  Sessions = {sA, sB}
  Speech = {u1, u2}
  Cues = {}
  NeedsInput = {}
  SessionOf <- TwoTerminals
  RouteOf <- RoutedFromA
  ActiveSessionBurst = 3
  MaxPending <- RoomForTwo
  MaxSessionPending <- RoomForTwo
  Callers = {engine, ipc}
  OpsOf <- SessionOps
  Targets <- TargetA
  Gates = {}
  CancelKindCap = 32
  MaxGeneration = 1
INVARIANT NoStrandedWork
PROPERTY SpokenInFull
PROPERTY EveryUtteranceEnds
CHECK_DEADLOCK FALSE
