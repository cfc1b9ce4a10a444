SPECIFICATION FairSpec
CONSTANTS
  e1 = e1
  e2 = e2
  r1 = r1
  win = win
  lose = lose
  CANCELLED = CANCELLED
  UNAVAILABLE = UNAVAILABLE
  NotFound = NotFound
  NoConnectedApi = NoConnectedApi
  NoEndpoint = NoEndpoint
  NoBlock = NoBlock
  Endpoints <- TwoEndpoints
  Invocations <- OneInvocation
  MaxRetries = 5
  ErrorCodes <- Codes
  retryErrorCodes <- RetryCodes
  MaxHeight = 1
  Forks <- TwoForks
  FinalFork = win
INVARIANTS TypeOK PinnedAnswer RetriesAccounted
PROPERTY CallSettles
