SPECIFICATION Spec
CONSTANTS
  Uid <- Uids3
  Prompts <- Long
  ParamsOf <- OneParams
  Limits = {2, 3}
  Token = {1, 9}
  Eos = 9
  PageSize = 1
  NumPages = 20
  MaxSeqLen = 5
  MaxRunning = 3
  PrefillBudget = 2
  Reserve = 1
  GraphSizes = {1, 4}
  Ragged = TRUE
  MaxRetries = 5
  Abortable = {0}
INVARIANTS
  OwnedOnce
  AttendsOwnPrefix
  OutputIsWhatWasSampled
