SPECIFICATION Spec
CONSTANTS
  Ascii = {"a"}
  Lead = {"l"}
  Trail = {"t"}
  Tokens <- SomeTokens
  MaxLen = 3
  Replacement = Replacement
INVARIANTS
  JoinMatchesPlain
