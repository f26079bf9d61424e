SPECIFICATION BundleSpec
CONSTANTS
  Kinds = {"flash"}
  Extras <- MCExtras
  MaxTrainings = 3
  Crashes = FALSE
INVARIANTS
  RoundTrip
CHECK_DEADLOCK FALSE
