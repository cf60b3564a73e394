SPECIFICATION FairSpec
CONSTANTS
  MaxSize = 3
  MaxAudio = 2
INVARIANTS
  AudioIsWholeUnlessClosed
  NoSilentFailure
PROPERTIES
  ClosingIsFinal
  CancelEndsCall
  FlushEnds
  NothingLeaks
