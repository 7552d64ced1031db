SPECIFICATION MCSpec
CONSTANTS
  SessionCount = 2
  Starts = {0, 4}
  StartPhases = {0, 2}
  FrameCycles = 5
  Costs <- Rates
  Requests = {1, 2}
  Debugged = {1}
  MaxFrames = 3
  MaxLost = 3
  LinkStarts = {0}
  LinkPhases = {0}
  LinkFrameCycles = 20
  LinkCosts <- OneCost
  LinkRequests = {1}
  LinkMaxFrames = 2
  LinkMaxLost = 1
  Replies <- MCReplies
  Payload = {7}
  CpuHz = 2
  Second = 3
  PingByteUs = 3
  PingPacketUs = 3
  TxByteUs = 1
  TxNibbleUs = 1
  TxMinPacketUs = 14
  TxRateUs = 1
  TxAddonUs = 1
  PortUses = {"external"}
  MaxRewinds = 1
INVARIANTS
  DriftBound
  FramesAsAsked
PROPERTIES
  NeverAheadOfTheEligible
  RunReturns
  DeadlinesHold
CHECK_DEADLOCK FALSE
