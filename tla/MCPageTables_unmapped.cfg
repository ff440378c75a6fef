SPECIFICATION Spec
CONSTANTS
  NumProcessors = 4
  UnitPages = 18
  UnitsPerGiga = 2
  Pml4Entries = 3
  PdpEntries = 5
  ContextPages = 1
  LapicPage <- MCLapicPage
  Ram <- MCRam
INVARIANT TablesUnmapped
CHECK_DEADLOCK FALSE
