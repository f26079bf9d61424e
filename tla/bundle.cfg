SPECIFICATION BundleSpec
CONSTANTS
  Kinds = {"flash", "ppt"}
  Extras <- MCExtras
  MaxTrainings = 3
  Crashes = TRUE
INVARIANTS
  BundleTypeOK
  LoadsLastTraining
  NewerPartsFirst
PROPERTIES
  BundleIsRegister
CHECK_DEADLOCK FALSE
