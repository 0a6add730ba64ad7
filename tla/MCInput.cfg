SPECIFICATION FairSpec
CONSTANTS
  Width = 3
  Height = 2
  EVENT_BUF_SIZE = 3
  Keys = {"ctrl", "rctrl"}
  Moves <- SmallMoves
  Buttons = {0, 1}
  MaxInputs = 4
  IrqInCritical = FALSE
CHECK_DEADLOCK FALSE
INVARIANTS DevicesTracked
PROPERTIES ImplementsFifo ImportantKept QueuedIsHandled
