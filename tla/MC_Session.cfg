SPECIFICATION MCSpec
CONSTANTS
  Parts = {"session", "events", "job"}
  FrameSteps = 2
  Keys = {0, 1}
  Bytes <- MCBytes
  Events <- MCEvents
  StopSets <- MCStopSets
  Controls <- MCControls
  RunLengths = {1, 3}
  MaxFrame = 3
  MaxGeneration = 2
  Programs <- MCPrograms
  Happenings <- MCHappenings
  Banks = {1, 2, 3}
  Grace = 0
  ThrashAt = 2
  PcWindow = 3
  MaxCheckpoints = 2
  MaxEvents = 5
  MaxSettings = 1
INVARIANTS
  StaleOnlyBehindStop
  EventsAreTold
  JobsDoAsAsked
PROPERTIES
  CheckpointsServe
