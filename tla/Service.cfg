SPECIFICATION FairSpec
CONSTANTS
  Tokens = {1, 2}
  NumRequests = 3
  RequestKinds <- Requests
  NoRequest = NoRequest
  Sample <- Sampler
  StepThrows = TRUE
INVARIANTS
  QueuesPresent
  DoneIsComplete
  NoLostWakeup
PROPERTIES
  EveryClientServed
  ImplementsServing
