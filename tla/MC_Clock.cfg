SPECIFICATION Spec
CONSTANTS
  LineDots = 8
  SearchDots = 2
  TransferEnd = 4
  VisibleLines = 1
  TotalLines = 2
  WindowDots = 0
  Geometries <- MCGeometries
  OamContents <- MCOam
  Costs = {2, 4, 12}
  FreezeCycles = 4
  BlockStall = 2
  StepCap = 1
  StepBudgets = {1}
  CycleBudgets = {4}
  OamBytes = 2
  StartDelay = 2
  ByteCycles = 2
  MaxBlocks = 2
INVARIANTS
  LoopsAgree
PROPERTIES
  ImplementsFrameClock
