SPECIFICATION DetectionSpec
CONSTANTS
  Entities <- MCEntities
  TypeOf <- MCTypeOf
  Looks <- MCLooks
  Kinds <- MCKinds
  Positions = {0, 1, 2}
  Ticks = 2
  MinTail = 1
  MaxRows = 3
  MemoryLen = 3
  FlowMemory = 1
  MaxEvents = 2
  Refused = {"dropped"}
  Layers = 2
  HoldOut = 1
  HoldBase = 10
  ExfilName = 9
  KubeApi = 5
  Injections = 2
  Others = {1, 5}
  Fields <- MCFields
  MaxRepeats = 2
  MaxTokens = 12
  TimeDim = 2
  PathDim = 2
  NameDim = 2
  ResDim = 2
INVARIANTS
  DetectionTypeOK
  DetectorsAgree
  HeldOutBothWays
  NothingLeaks
  ScoreSeesMemory
  VictimRowsComplete
  TruthIsScored
  SentenceTellsAll
  FeaturesTellApart
CHECK_DEADLOCK FALSE
