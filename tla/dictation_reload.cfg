SPECIFICATION Spec
CONSTANTS
  w1 = w1
  NoWindow = NoWindow
  Windows = {w1}
  MaxRecordings = 1
  MaxUpsets = 1
  DoubleTapSubmit = FALSE
INVARIANT VoiceHeldOnlyWhileRecording
CHECK_DEADLOCK FALSE
