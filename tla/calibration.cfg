SPECIFICATION CalSpec
CONSTANTS
  Types = {"Pod", "DNSName"}
  Top = 3
  Q = 3
  QBase = 4
  MaxVal = 4
  MaxWindows = 2
INVARIANTS
  AlertBudget
  AlertsFollowRawScores
  UnknownWorkloadsAlertUnlessCommon
CHECK_DEADLOCK FALSE
