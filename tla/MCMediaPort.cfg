SPECIFICATION Spec
CONSTANTS
  Padding = 2
  Ratio = 85
  MaxBuffer = 3
  MaxFrames = 4
  FrameSamples = 3
  Chunks = {0, 2, 4}
  MaxSamples = 6
INVARIANTS
  TypeOK
  NothingLost
PROPERTIES
  CallerSilences
  AudioIsPlayed
