\* addForwarder, removeForwarder of a registered tuple and forwardPacketViaUDP,
\* with removeForwarder of an unregistered tuple aborting the process.
CONSTANTS
  e1 = e1
  e2 = e2
  Endpoints <- MCEndpoints
  MaxPackets <- MCMaxPackets
SPECIFICATION FwdSpec
SYMMETRY MCSymmetry
INVARIANT AtMostOnceDelivery
PROPERTY ImplementsForwarderSet
\* After an abort the process has stopped: no step is enabled.
CHECK_DEADLOCK FALSE
