SPECIFICATION Spec
CONSTANTS
  Files <- TwoFiles
  MaxBatches = 2
  Touched <- OneTouched
CHECK_DEADLOCK FALSE
INVARIANTS ImportedOnce AnnouncedExactlyOnce
PROPERTIES RunsEnd
