SPECIFICATION TelemetrySpec
CONSTANTS
  Pods = {"a", "b", "atk", "agent"}
  Attackers = {"atk"}
  HostPods = {"agent"}
  FileOrder <- MCFileOrder
  Addresses = {x1, x2}
  Bounds <- MCBounds
INVARIANTS
  ControlPlaneIsDropped
SYMMETRY AddressSymmetry
CHECK_DEADLOCK FALSE
