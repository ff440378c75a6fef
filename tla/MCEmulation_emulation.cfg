SPECIFICATION Spec
CONSTANTS
  Processors <- MCProcessors
  Leaves <- MCLeaves
  Msrs <- MCMsrs
  Signatures = {0, 7}
  SysenterCs <- MCSysenterCs
  Queries <- MCQueries
INVARIANTS
  TypeOK
  PatCurrent
  SegmentsConsistent
  WriteBackNeutral
  MsrFaultsAccounted
  TopologyAgrees
  BusFrequencyConsistent
  DescriptorBestFit
CHECK_DEADLOCK FALSE
