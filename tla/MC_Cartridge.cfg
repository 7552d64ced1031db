SPECIFICATION MCSpec
CONSTANTS
  FlashWrites <- MCFlashWrites
  NoiseWrites <- MCNoiseWrites
  Windows = {"A"}
  MaxWrites = 7
  Kinds = {"RomOnly", "Mbc1", "Mmm01", "HuC1", "Mbc2", "Mbc3", "Mbc5", "Rumble", "Camera",
           "HuC3", "Tama5"}
  SavedKinds = {"Mbc2"}
  RamBanks = 2
  Bytes = {0, 17}
  ControlWrites <- MCControlWrites
  CaptureTicks = 2
  AddressBits = 2
  WordBits = 2
  MaxSent = 7
  SecondsPerMinute = 2
  MinutesPerHour = 2
  HoursPerDay = 2
  DayCount = 2
  RegisterBytes = {1, 2}
  MaxNow = 3
  SecondsInMinute = 2
  MinutesInDay = 3
  Base = 2
  MaxSeconds = 6
  MaxPokes = 2
  Arguments = {0, 1, 3, 5, 8, 11}
  Cells = {0, 1, 3, 4, 8, 11, 16, 17, 19, 88, 89, 91, 92}
INVARIANTS SaveIsKept ClocksKeepTime
PROPERTIES MemoriesFollowCommands
