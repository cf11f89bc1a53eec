SPECIFICATION FairSpec
CONSTANTS
  Tokens = {1, 2}
  NumRequests = 3
  RequestKinds <- OddRequests
  NoRequest = NoRequest
  Junk = Junk
  MaxBatch = 2
  Buffers = 2
  Memory = 16
  Faults = 2
  Sample <- Sampler
INVARIANTS
  QueuesExact
  CacheNeverFull
  LengthMatchesContext
PROPERTIES
  EveryRequestFinishes
  ImplementsServing
