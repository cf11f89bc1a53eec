SPECIFICATION Spec
CONSTANTS
  SamplerWidths = {0, 1, 2, 3}
  SamplerLogits = {0, 1, 3}
  TopKs = {0, 1, 2, 3, 4}
  Underflow = 2
  Parts = 4
  Draws = 40
  RowWidths = {1, 3, 6}
  RowValues = {1, 2}
  NumThreads = 4
  BlockDim = 3
  MaxHeadDim = 2
  Launches <- SomeLaunches
  Span = 8
  TensorRows = {1, 2}
  In = {2, 3, 4}
  Out = {2, 4}
  ShardCounts = {1, 2, 3, 4}
  Files <- SomeFiles
  Word = 32
  MantBits = 10
  Widening = 13
  Names <- SomeNames
  Other = "norm"
  Rows = 2
  Cols = 2
  Matrices <- SomeMatrices
  Inputs <- SomeInputs
  Levels = 3
  Variables = {1, 2}
  NumLayers = 1
  Addresses = {1, 2, 3, 4, 5, 6, 7, 8, 9}
  Faults = 2
  Texts <- SomeTexts
  TextLayers = 2
  Unused = Unused
INVARIANTS
  DrawnFromNucleus
  Multinomial
  RaceFree
  MatchesTwin
  MatchesUnsharded
  AcceptsExactly
  WidensExactly
  TracksFp32
  OneOwner
  MatchesSingle
