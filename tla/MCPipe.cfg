SPECIFICATION StreamsSpec
CONSTANTS
  reader = reader
  writer = writer
  both = both
  Readers = {reader, both}
  Writers = {writer, both}
  CAPACITY = 3
  MaxSent = 11
  MaxCount = 5
  Preemptible = FALSE
  Jobs <- ShellJobs
  Text <- ShellText
  PIPE_CAPACITY = 2
  MaxFds = 8
  MaxProcs = 3
  Faults = {"kill", "nopipe", "noopen"}
  IDX = 8
  RING = 3
  MAX_Q = 4
  PCI_MAX_DEVICES = 3
  LOOPS = 2
  Frames <- NicFrames
  Runts = {3, 9}
  Machines <- NicMachines
CHECK_DEADLOCK FALSE
INVARIANTS PipeSound PipesReleased SendsIntact ReceiveExact
PROPERTIES JobsEnd
