\* The "do nothing if not found" contract of removeForwarder.
CONSTANTS
  e1 = e1
  e2 = e2
  Endpoints <- MCEndpoints
  MaxPackets <- MCMaxPackets
SPECIFICATION FwdSpec
SYMMETRY MCSymmetry
INVARIANT RemoveAbsentIsNoop
CHECK_DEADLOCK FALSE
