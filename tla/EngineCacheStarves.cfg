SPECIFICATION FairSpec
CONSTANTS
  Blocks = {b1, b2, b3}
  Tokens = {1, 2}
  Vocab = {1, 2}
  BlockSize = 1
  MaxLen = 4
  ChainHash <- IdealHash
  Junk = Junk
  NumRequests = 3
  RequestKinds <- DistinctRequests
  NoRequest = NoRequest
  MaxBatch = 3
  PrefixCache = TRUE
  Sample <- Greedy
PROPERTIES
  EveryRequestFinishes
