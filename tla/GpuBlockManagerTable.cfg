SPECIFICATION Spec
CONSTANTS
  Blocks = {b1, b2, b3}
  Seqs = {s1, s2}
  Tokens = {x}
  BlockSize = 1
  MaxLen = 2
  Junk = Junk
  Null = Null
  Faults = 1
INVARIANT
  UploadHasTarget
