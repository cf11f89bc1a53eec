SPECIFICATION DecodingSpec
CONSTANTS
  Prompts <- SomePrompts
  Budgets = {0, 1, 4, 5}
  Greedy <- Target
  Tokens = {1, 2}
  Lookaheads = {0, 2, 3}
  MaxLen = 10
  EosIds = {0, 1, 2}
INVARIANTS
  RowOfNext
PROPERTIES
  ImplementsGreedy
  AnswersComplete
