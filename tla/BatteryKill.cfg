SPECIFICATION Spec
CONSTANTS
  MaxSaves = 3
  NoFile = NoFile
  Empty = Empty
INVARIANT SurvivesKill
