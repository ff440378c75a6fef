SPECIFICATION Spec
CONSTANTS
  NumProcessors = 3
  Images <- MCImages
INVARIANTS
  SvmEnabled
CHECK_DEADLOCK FALSE
