SPECIFICATION Spec
CONSTANTS
  Uid <- Uids3
  Prompts <- Repeated
  ParamsOf <- OwnParams
  Limits = {3}
  Token = {1, 9}
  Eos = 9
  PageSize = 1
  NumPages = 6
  MaxSeqLen = 5
  MaxRunning = 3
  PrefillBudget = 100
  Reserve = 1
  GraphSizes = {1, 4}
  Ragged = FALSE
  MaxRetries = 5
  Abortable = {}
INVARIANT
  AttendsOwnPrefix
