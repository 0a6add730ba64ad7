SPECIFICATION Spec
CONSTANTS
  p1 = p1
  Procs = {p1}
  SL_INDEX_BITS = 1
  FL_INDEX_COUNT = 5
  WORD = 536870912
  Frames = 4
  MemMap <- MCMemMap
  LowEnd = 15
  Loaded <- MCLoaded
  PageCells = 15
  ControlCells = 2
  HEAP_INIT_PAGES = 1
  HEAP_GROW_PAGES = 1
  Sizes = {1, 3}
  Runs = {1}
  ExactFits = TRUE
  Preemptible = FALSE
INVARIANTS BlocksTile
