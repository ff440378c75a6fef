SPECIFICATION Spec
CONSTANTS
  Insns = {"plain", "popf", "iret", "version", "lapic", "sysGp"}
  MaxDepth = 2
  VectoringInfo <- AllVectoring
  AsyncInStep = TRUE
  GuestBtf = FALSE
INVARIANTS TypeOK NoUninitialisedUse IInv ExitInv
PROPERTIES ExternalEventKept
