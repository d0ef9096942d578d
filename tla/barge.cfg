SPECIFICATION FairSpec
CONSTANTS
  MaxTicks = 40
  GraceTicks = 4
INVARIANT TypeOK
INVARIANT FloorIsKept
INVARIANT PauseIsOwned
INVARIANT OurMicIsNotForeign
PROPERTY BargeIsBounded
PROPERTY MaskedForeignIsCaught
