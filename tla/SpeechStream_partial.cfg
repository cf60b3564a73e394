SPECIFICATION Spec
CONSTANTS
  MaxSize = 2
  MaxAudio = 2
INVARIANTS
  AudioIsWhole
