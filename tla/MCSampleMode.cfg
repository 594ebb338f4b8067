SPECIFICATION Spec
CONSTANTS
  MaxPackTokens = 7
  BucketSize = 4
  BackwardModes = {"sample"}
  ChunksPerSample = 2
  World <- TwoRanks
  RequestBatchSize = 2
  DataSet <- SevenExamples
  TestSet <- TwoTests
  TrainLimit = 6
  EvalLimit <- NoLimit
  ValidationSize = 1
  TooLong <- NoneOrSome
  PromptTokens <- OddOrEven
  GenerationBatchSize = 3
  MaxSteps = 3
  MaxResponse = 2
INVARIANT BackwardHasItsGraph
