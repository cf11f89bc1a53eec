SPECIFICATION Spec
CONSTANTS
  Tokens = {1, 2}
  NumRequests = 3
  RequestKinds <- PlainRequests
  NoRequest = NoRequest
  Junk = Junk
  MaxBatch = 2
  Buffers = 2
  Memory = 15
  Faults = 0
  Sample <- Sampler
INVARIANTS
  AllocationsOwned
