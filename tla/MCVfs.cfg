SPECIFICATION LayerSpec
CONSTANTS
  p1 = p1
  p2 = p2
  p3 = p3
  p4 = p4
  Procs = {p1, p2, p3}
  First = p1
  FDS = 2
  FILES = 2
  PIPES = 1
  MaxRef = 8
  Races = {}
  h1 = h1
  h2 = h2
  h3 = h3
  MAXSEGS = 4
  FAT12_CLUSTERS = 2
  FAT12_UNITS = 2
  FAT12_ENTRIES = 2
  Short <- MCShort
  MEMFS_MAX_FILES = 1
  MEMFS_INIT_CAP = 1
  Fat32Next <- MCNext
  Fat32Root = 2
  FoldCase <- MCFoldCase
  Handles = {h1, h2, h3}
  Targets <- MCTargets
  OpenModes <- MCOpenModes
  Writes <- MCWrites
  VFS_BUF_INIT = 64
  MaxSize <- MCMaxSize
  Image12 <- MCImage12
  Image32 <- MCImage32
  Renames <- MCRenames
  RawPaths <- MCRawPaths
  Dirs <- MCDirs
  Pids = {1, 2}
  BootPaths <- MCBootPaths
  BOOTFS_MAX_MODULES = 3
  FBSIZE = 3
  WORD = 3
SYMMETRY Interchangeable
CHECK_DEADLOCK FALSE
INVARIANTS CountsExact KilledInCallSafe VolumesSound OnlyWrittenBytes NamespaceSound
PROPERTIES DescriptorKeepsItsFile LastCloseWins
