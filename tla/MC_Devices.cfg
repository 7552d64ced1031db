SPECIFICATION MCSpec
CONSTANTS
  Pages = {"p", "q"}
  OamBytes = 3
  StartDelay = 2
  ByteCycles = 2
  AccumMax = 4
  Chunks = {1, 3}
  SourceBlocks = 5
  VramBlocks = 2
  MaxBlocks = 4
  DivModulus = 32
  TimaModulus = 4
  HalfPeriod <- MCHalfPeriod
  ReloadDelay = 3
  BootDivs = {0, 12}
  Values = {0, 2, 3}
  MaxChunk = 14
  BitCycles = 3
  AccumLimit = 31
  SerialData = {90, 0}
  SerialChunks = {1, 3, 7, 26}
  FrameDots = 10
  Costs = {2, 6}
  FreezeCycles = 4
  BlockStall = 3
  StepCap = 3
  StepBudgets = {1, 4}
  CycleBudgets = {5, 12}
  Channels = {1, 3, 4}
  LowPitches = 3
  HighPitches = 1
  SweepWrites <- MCSweep
  EnvelopeWrites <- MCEnv
  MaxVolume = 1
  BootPace = 1
  ZeroPace = 1
  MaxLength = 1
  Phases = 1
  Nibbles = 4
  WaveBytes = {0, 1}
  NoiseBits = 3
  NarrowBits = 2
  NoiseWrites <- MCNoise
  BootNoise <- MCBootNoise
  FrozenShift = 3
  NoiseWord = 4
  MinNoisePeriod = 1
  Capacities = {1, 2, 3}
  MaxFrames = 6
  SampleCycles = 2
  SequencerCycles = 2
  Oversample = 2
  TickSizes = {1}
INVARIANTS
  OamTakesItsTime
  ReloadWindow
  PhaseIsPosition
  SoundAgrees
PROPERTIES
  OamIsTheSource
  TimerIsRight
  BytesLeaveInTime
  BlocksArrive
  EverythingEnds
