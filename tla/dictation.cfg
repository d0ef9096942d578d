SPECIFICATION FairSpec
CONSTANTS
  w1 = w1
  NoWindow = NoWindow
  Windows = {w1}
  MaxRecordings = 2
  MaxUpsets = 1
  DoubleTapSubmit = FALSE
INVARIANT TypeOK
INVARIANT BufferIsCurrent
INVARIANT MicIsOurs
PROPERTY PastesTheStopped
CHECK_DEADLOCK FALSE
PROPERTY SecondTapIsInTime
PROPERTY EveryStopIsAnswered
PROPERTY StopClosesTheMic
