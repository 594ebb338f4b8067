SPECIFICATION FairSpec
CONSTANTS
  Uid <- Uids3
  Prompts <- Disjoint
  ParamsOf <- OwnParams
  Limits = {2, 4}
  Token = {1, 9}
  Eos = 9
  PageSize = 3
  NumPages = 2
  MaxSeqLen = 6
  MaxRunning = 3
  PrefillBudget = 100
  Reserve = 1
  GraphSizes = {2}
  Ragged = FALSE
  MaxRetries = 0
  Abortable = {}
INVARIANTS
  PagesPartitioned
  AdmittedFits
  ResumesWhereItStopped
  AttendsOwnPrefix
PROPERTY
  Terminates
