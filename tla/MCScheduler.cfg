SPECIFICATION Spec
CONSTANTS
  Uid <- Uids3
  Prompts <- Overlapping
  ParamsOf <- OwnParams
  Limits = {2, 3}
  Token = {1, 9}
  Eos = 9
  PageSize = 1
  NumPages = 5
  MaxSeqLen = 5
  MaxRunning = 2
  PrefillBudget = 100
  Reserve = 1
  GraphSizes = {}
  Ragged = FALSE
  MaxRetries = 5
  Abortable = {}
INVARIANTS
  TypeOK
  PagesPartitioned
  SlotsPartitioned
  HandlesBalanced
  EachPromptOnce
  ResumesWhereItStopped
PROPERTY
  ImplementsRollout
