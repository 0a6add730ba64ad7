SPECIFICATION GuiSpec
CONSTANTS
  p1 = p1
  p2 = p2
  MouseHandles = 2
  b1 = b1
  b2 = b2
  Pids = {p1, p2}
  Slots = {1, 2}
  Wins = {1, 2}
  Bufs = {b1, b2}
  EVENT_Q = 1
  MaxHandle = 3
  MaxApps = 1
  Presses <- BothButtons
  Races = {"killed"}
SYMMETRY Interchangeable
CHECK_DEADLOCK FALSE
INVARIANTS ServiceSound StackingSound
PROPERTIES OnlyOwnerCloses
