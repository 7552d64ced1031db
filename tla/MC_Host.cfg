SPECIFICATION MCSpec
CONSTANTS
  RomSize = 8
  Roms <- MCRoms
  MinRun = 2
  Vectors = {0, 4}
  MaxStack = 1
INVARIANTS ListingIsRight TablesAgree PictureIsRight
PROPERTIES ResultsAreRight
CHECK_DEADLOCK FALSE
