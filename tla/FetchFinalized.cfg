SPECIFICATION Spec
CONSTANTS
  e1 = e1
  e2 = e2
  c1 = c1
  c2 = c2
  win = win
  lose = lose
  NoBlock = NoBlock
  Endpoints <- OneEndpoint
  Calls <- TwoCalls
  BatchSize = 2
  MaxHeight = 2
  Forks <- TwoForks
  FinalFork = win
  UnfinalizedBlocks = FALSE
INVARIANTS TypeOK ResolvedComplete DeliversCanonical
