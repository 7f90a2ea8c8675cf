SPECIFICATION VadSpec
CONSTANTS
  Padding = 7
  Ratio = 85
  MaxBuffer = 9
  MaxFrames = 24
INVARIANTS
  SegmentsAreRuns
  NothingMissed
PROPERTY
  LeadInIsKept
CHECK_DEADLOCK FALSE
