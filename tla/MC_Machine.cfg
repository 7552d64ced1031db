SPECIFICATION MCSpec
CONSTANTS
  Devices = {0}
  Lines = {0}
  None = None
  LineDots = 7
  SearchDots = 2
  TransferEnd = 3
  VisibleLines = 2
  TotalLines = 3
  WindowDots = 1
  Geometries <- MCGeometries
  OamContents <- MCOam
  Enables <- MCEnables
  Ticks = {2, 6}
  MaxAhead = 2
  Data = {1, 2}
  SwitchedBanks = 2
  PaletteSize = 2
  Programs <- MCPrograms
  Carts = {"no", "only"}
  MaxAccesses = 2
INVARIANTS
  ImeIffGranted
  EiHaltServes
  TicksAgree
  MemoryIsOne
PROPERTIES
  NoRequestGoesAstray
  NoLostWakeup
  RequestIsRise
  EveryLineDrawnOnce
