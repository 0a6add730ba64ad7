SPECIFICATION Spec
CONSTANTS
  Pids = {1, 2}
  b1 = b1
  b2 = b2
  Blocks = {b1, b2}
  MaxRegions = 2
  MaxAttachments = 3
  Windows = 2
  WindowSize = 2
  MaxShmId = 2
  DieMidCall = FALSE
  MapMayFail = TRUE
SYMMETRY BlockSymmetry
CHECK_DEADLOCK FALSE
INVARIANTS SharingSound MappingsTrue
PROPERTIES DeathSweepsOrphans
