SPECIFICATION Spec
CONSTANTS
  worker = worker
  dictation = dictation
  owner = owner
  Threads = {worker, dictation, owner}
  OpsOf <- MCOpsOf
  NoThread = NoThread
  MaxSpawns = 2
  MaxCalls = 3
  MaxCrashes = 1
INVARIANT ListenSparesReplacement
CHECK_DEADLOCK FALSE
