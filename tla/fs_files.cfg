SPECIFICATION Spec
CONSTANTS
  MaxFiles = 4
  SectorPages = 2
  TableSplit = 2
  Names = {log, cfg, tmp}
  Data = {a, b}
  Calls = {"create", "write", "append", "delete", "compact"}
  FlashSectors = 9
  MaxPages = 3
  MaxCalls = 7
  MaxFailures = 2
  Blank = Blank
  Mixed = Mixed
  Absent = Absent
  Unknown = Unknown
  NoName = NoName
SYMMETRY Interchangeable
INVARIANTS FSTypeOK ReadBack NeverOverprograms KnownApart
CHECK_DEADLOCK FALSE
