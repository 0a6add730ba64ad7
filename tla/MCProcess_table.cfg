SPECIFICATION Spec
CONSTANTS
  MaxSlots = 5
  Priorities = {0, 1}
  NewPriorities = {0}
  DefaultPriority = 1
  TimeSlice = 1
  Signals = {9}
  Handlers = {"DFL"}
  Masks = {{}}
  ExitCodes = {1}
  MaxPid = 5
  CarefulKill = TRUE
INVARIANTS SchedulerSound NoLostWakeup FamilyConsistent
PROPERTIES BestRunsFirst DeadStaysDead
