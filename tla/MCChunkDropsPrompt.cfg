SPECIFICATION Spec
CONSTANTS
  Uid <- Uids4
  Prompts <- Threes
  ParamsOf <- OwnParams
  Limits = {2}
  Token = {1, 9}
  Eos = 9
  PageSize = 1
  NumPages = 20
  MaxSeqLen = 6
  MaxRunning = 4
  PrefillBudget = 2
  Reserve = 1
  GraphSizes = {}
  Ragged = FALSE
  MaxRetries = 5
  Abortable = {}
INVARIANT
  AllComplete
