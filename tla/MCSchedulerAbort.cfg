SPECIFICATION Spec
CONSTANTS
  Uid <- Uids3
  Prompts <- Staggered
  ParamsOf <- OwnParams
  Limits = {2, 3}
  Token = {1, 9}
  Eos = 9
  PageSize = 4
  NumPages = 2
  MaxSeqLen = 8
  MaxRunning = 3
  PrefillBudget = 3
  Reserve = 1
  GraphSizes = {}
  Ragged = FALSE
  MaxRetries = 5
  Abortable = {}
INVARIANTS
  OwnedOnce
  EachPromptOnce
  ResumesWhereItStopped
