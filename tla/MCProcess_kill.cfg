SPECIFICATION Spec
CONSTANTS
  MaxSlots = 4
  Priorities = {1}
  NewPriorities = {}
  DefaultPriority = 1
  TimeSlice = 1
  Signals = {9}
  Handlers = {"DFL"}
  Masks = {{}}
  ExitCodes = {1}
  MaxPid = 4
  CarefulKill = FALSE
PROPERTIES KillIsFinal
