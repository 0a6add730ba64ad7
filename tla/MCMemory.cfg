SPECIFICATION MemorySpec
CONSTANTS
  p1 = p1
  p2 = p2
  Procs = {p1, p2}
  SL_INDEX_BITS = 1
  FL_INDEX_COUNT = 5
  WORD = 536870912
  Frames = 4
  MemMap <- MCMemMap
  LowEnd = 15
  Loaded <- MCLoaded
  PageCells = 15
  ControlCells = 2
  HEAP_INIT_PAGES = 1
  HEAP_GROW_PAGES = 1
  Sizes = {1, 3, 11}
  Runs = {1}
  ExactFits = FALSE
  Preemptible = FALSE
  s1 = s1
  s2 = s2
  Spaces = {s1, s2}
  Boot = boot
  TableFrames = {1, 2, 3, 4, 5, 6, 7, 8, 9, 10, 11, 12}
  PhysPages = {0}
  UserPages = {1, 2}
  KernelPages = {4, 5, 6}
  HHDM = 4
  MaxMade = 2
  Loads <- MCLoads
  PAGE = 2
  AddressBits = 3
SYMMETRY Interchangeable
INVARIANTS HeapIsSound PagesBalance  TlbHonest
PROPERTIES ImplementsPageMap
