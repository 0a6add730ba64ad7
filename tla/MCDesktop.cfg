SPECIFICATION AllSpec
CONSTANTS
  W = 800
  H = 600
  Slots = {1, 2}
  WM_DIRTY_MAX = 6
  DESKTOP_DIRTY_MAX = 6
  LAUNCHER_MAX_MATCH = 3
  QUERY_MAX = 2
  Catalog <- MCCatalog
  Icons = 8
  Spawned <- MCSpawned
  Probes <- MCProbes
  Loads <- MCLoads
  ScreenW = 7
  ScreenH = 6
  WM_BORDER_PX = 1
  WM_TITLE_BAR_H = 1
  FONT_WIDTH = 2
  FONT_HEIGHT = 2
  Glyph <- CanvasGlyph
  Start <- CanvasStart
  Places <- CanvasPlaces
  Sizes <- CanvasSizes
  Draws <- CanvasDraws
  MaxDraws = 2
  MaxMoves = 2
  Colors = {"c1", "c2", "c0"}
  BadColor = "c0"
  NoPath = "none"
  Default = "c1"
  Paths = {"p1", "sp", "dots", "rel"}
  Valid = {"p1", "sp", "dots"}
  Trim <- ThemeTrim
  Cut <- ThemeCut
CHECK_DEADLOCK FALSE
INVARIANTS DesktopScreenTrue DesktopLauncherConsistent PixelsExact Presented ThemeSound
