SPECIFICATION FairSpec
CONSTANTS
  NumProcessors = 4
  UnitPages = 18
  UnitsPerGiga = 2
  Pml4Entries = 3
  PdpEntries = 5
  ContextPages = 1
  LapicPage <- MCLapicPage
  Ram <- MCRam
INVARIANTS
  TypeOK PagesAccounted LapicIntercepted GuestMemoryKept VmmUnmapped
  TablesProtected ProtectInv
PROPERTY Completes
CHECK_DEADLOCK FALSE
