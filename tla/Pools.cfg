SPECIFICATION PoolsSpec
CONSTANTS
  Blocks = {b1, b2, b3}
  Seqs = {s1, s2}
  Tokens = {x, y}
  BlockSize = 2
  MaxLen = 4
  ChainHash <- IdealHash
  Junk = Junk
  GpuBlockSize = 1
  GpuMaxLen = 2
  Null = Null
  Faults = 2
SYMMETRY Symmetry
INVARIANTS
  PoolsTypeOK
  RefCountExact
  TailExclusive
  SeenIsOwnContext
PROPERTIES
  PoolsImplementStore
