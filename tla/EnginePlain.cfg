SPECIFICATION FairSpec
CONSTANTS
  Blocks = {b1, b2, b3}
  Tokens = {1, 2}
  Vocab = {1, 2}
  BlockSize = 2
  MaxLen = 5
  ChainHash <- IdealHash
  Junk = Junk
  NumRequests = 4
  RequestKinds <- MixedRequests
  NoRequest = NoRequest
  MaxBatch = 4
  PrefixCache = FALSE
  Sample <- Sampler
INVARIANTS
  QueuesExact
  OnlyRunningHold
PROPERTIES
  EveryRequestFinishes
  ImplementsServing
