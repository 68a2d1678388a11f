SPECIFICATION DirectorySpec
CONSTANTS
  Sessions = {first, second}
  Kinds = {"json", "svg", "dxf"}
  Lossy = {"json", "dxf"}
  MaxSaved = 2
INVARIANTS
  DirectorySound
PROPERTIES
  HistoryKept
CHECK_DEADLOCK FALSE
