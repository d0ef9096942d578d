SPECIFICATION Spec
CONSTANTS
  u1 = u1  u2 = u2  k1 = k1  sA = sA  sB = sB
  engine = engine  watcher = watcher  ipc = ipc
  NoSession = NoSession  NoItem = NoItem  Worker = Worker  Free = Free
  Sessions = {sA, sB}
  Speech = {u1}
  Cues = {k1}
  NeedsInput = {k1}
  SessionOf <- TwoTerminals
  RouteOf <- NoRoutes
  ActiveSessionBurst = 3
  MaxPending <- RoomForTwo
  MaxSessionPending <- RoomForTwo
  Callers = {engine, watcher, ipc}
  OpsOf <- ThreadOps
  Targets <- TargetA
  Gates = {"focus"}
  CancelKindCap = 32
  MaxGeneration = 1
INVARIANT TypeOK
INVARIANT OnePlace
INVARIANT PauseCoversClaim
INVARIANT BusyIsTrue
PROPERTY DictationHolds
PROPERTY RecordedIntentDecides
PROPERTY LedgerSpec
CHECK_DEADLOCK FALSE
