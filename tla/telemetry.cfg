SPECIFICATION TelemetrySpec
CONSTANTS
  Pods = {"a", "b", "atk", "agent"}
  Attackers = {"atk"}
  HostPods = {"agent"}
  FileOrder <- MCFileOrder
  Addresses = {x1, x2}
  Bounds <- MCBounds
INVARIANTS
  TelemetryTypeOK
  EndpointsAreEntities
  EveryViewOnce
  RequestsArePairs
  LabelsAreTrue
SYMMETRY AddressSymmetry
CHECK_DEADLOCK FALSE
