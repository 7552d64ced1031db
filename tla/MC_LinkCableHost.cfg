SPECIFICATION MCSpec
CONSTANTS
  SessionCounts = {2}
  Replies <- MCReplies
  Payload <- MCPayload
  Parts = {"cable"}
  SessionCount = 3
  Topologies <- HostAnywhere
  MaxExchanges = 1
  BitCycles = 512
  AccumLimit = 65535
  Data = {1}
  Modes = {0, 1}
  Peers = {1, 2}
  SlotCounts = {3}
  Debugged = {0}
INVARIANTS
  SelectedPeerIsNotHost
