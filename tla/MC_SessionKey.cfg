SPECIFICATION MCSpec
CONSTANTS
  Parts = {"session"}
  FrameSteps = 2
  Keys = {0, 1}
  Bytes <- MCBytes
  Events <- MCEvents
  StopSets <- MCNoStops
  Controls <- MCEveryFrame
  RunLengths = {1, 3}
  MaxFrame = 3
  MaxGeneration = 2
  Programs <- MCPrograms
  Happenings <- MCHappenings
  Banks = {1, 2, 3}
  Grace = 0
  ThrashAt = 2
  PcWindow = 3
  MaxCheckpoints = 2
  MaxEvents = 5
  MaxSettings = 0
PROPERTIES
  SkippedOnlyIfJustCaptured
