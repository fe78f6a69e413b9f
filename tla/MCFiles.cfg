SPECIFICATION FilesSpec
CONSTANTS
  MaxSaves = 3
  NoFile = NoFile
  Empty = Empty
  b1 = b1
  h1 = h1
  Blocks <- MCBlocks
  Holes <- MCHoles
  Links <- MCLinks
  Length <- MCLength
  Parked = Parked
  Nobody = Nobody
  Survive = TRUE
  MaxFuel = 3
  Limit = 3
  MaxRan = 3
INVARIANTS CleanIsOnDisk SavedIsKept ReadsTrue NothingLost
PROPERTY SliceEnds
CHECK_DEADLOCK FALSE
