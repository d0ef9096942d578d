SPECIFICATION FairSpec
CONSTANTS
  Content <- OnlyCommands
  EndpointSilence = 2
  ConfirmTicks = 2
  MaxSegment = 3
  RawCapacity = 2
  MaxVoiced = 3
  MaxUpsets = 1
  MaxEvents = 1
INVARIANT TypeOK
INVARIANT EveryWordIsKept
INVARIANT OnlyFreshAudioDrives
PROPERTY EndsInSilence
PROPERTY StopWordResolves
PROPERTY MicYieldsToVoice
CHECK_DEADLOCK FALSE
