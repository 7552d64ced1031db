SPECIFICATION FairSpec
CONSTANTS
  FrameDots = 10
  Costs = {2, 6}
  FreezeCycles = 4
  BlockStall = 3
  StepCap = 3
  StepBudgets = {1, 4}
  CycleBudgets = {5, 12}
PROPERTIES
  FrameAlwaysReturns
