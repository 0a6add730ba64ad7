SPECIFICATION FairSpec
CONSTANTS
  MaxSlots = 4
  Priorities = {1}
  NewPriorities = {}
  DefaultPriority = 1
  TimeSlice = 1
  Signals = {2}
  Handlers = {"IGN"}
  Masks = {{2}}
  ExitCodes = {1}
  MaxPid = 4
  CarefulKill = TRUE
PROPERTIES EveryReadyRuns WaiterReturns SignalTaken
