SPECIFICATION FairSpec
CONSTANTS
  Uid <- Uids3
  Prompts <- Disjoint
  ParamsOf <- OwnParams
  Limits = {2, 3}
  Token = {1, 9}
  Eos = 9
  PageSize = 1
  NumPages = 4
  MaxSeqLen = 4
  MaxRunning = 3
  PrefillBudget = 100
  Reserve = 1
  GraphSizes = {}
  Ragged = FALSE
  MaxRetries = 5
  Abortable = {}
PROPERTY
  Terminates
