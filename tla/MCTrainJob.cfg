SPECIFICATION FairSpec
CONSTANTS
  WorldSize = 2
  Parts <- FusedAndTied
  Tied = TRUE
  FileOrders <- TwoOrders
  UseVMM = TRUE
  Strategies = {"zero2", "ddp"}
  NumTrain = 3
  BatchSize = 1
  NumEpochs = 4
  MaxSteps = 3
  SaveEvery = 2
  EvalEvery = 2
  SkipEval = FALSE
  MaxFailures = 2
  MaxSignals = 2
INVARIANTS
  TypeOK
  SameCollective
  ReadsTheModel
  CheckpointsAreTheModel
  NoStaleKV
  LeavesNoAgent
PROPERTIES
  JobEnds
  ImplementsDataParallel
