SPECIFICATION MCSpec
CONSTANTS
  NumBlocks = 3
  MaxRef = 3
  NumLayers = 2
  Tokens = {1, 2}
  MaxLen = 7
  Junk = Junk
  BlockSize = 2
INVARIANTS
  FreeListExact
  NoSpareBlocks
  LogitsOfContext
PROPERTIES
  ImplementsPool
  ImplementsKVCache
