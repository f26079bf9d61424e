SPECIFICATION TrainingSpec
CONSTANTS
  Times = {1, 2, 3, 4, 5}
  D = 10
  Epochs <- MCEpochs
  Patience <- MCPatience
  MaxLoss = 2
  Delta = 1
INVARIANTS
  TrainingTypeOK
  SplitIsSound
PROPERTIES
  KeepsBest
  StopsInTime
  TrainingEnds
CHECK_DEADLOCK FALSE
