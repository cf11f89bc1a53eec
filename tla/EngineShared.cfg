SPECIFICATION Spec
CONSTANTS
  Blocks = {b1, b2, b3, b4}
  Tokens = {1, 2, 9}
  Vocab = {1, 2}
  BlockSize = 1
  MaxLen = 4
  ChainHash <- IdealHash
  Junk = Junk
  NumRequests = 4
  RequestKinds <- SharingRequests
  NoRequest = NoRequest
  MaxBatch = 3
  PrefixCache = TRUE
  Sample <- Sampler
SYMMETRY Symmetry
INVARIANTS
  RowsMatchContext
  ReserveFits
PROPERTIES
  ImplementsServing
