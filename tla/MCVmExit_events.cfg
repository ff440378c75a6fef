SPECIFICATION Spec
CONSTANTS
  Insns = {"plain", "iret", "version", "lapic", "cpuid", "msr", "ud", "sys", "sysGp", "vmrun"}
  MaxDepth = 2
  VectoringInfo <- AllVectoring
  AsyncInStep = FALSE
  GuestBtf = TRUE
INVARIANTS MappedIffStepping StepInv
PROPERTY ImplementsBareMetal
