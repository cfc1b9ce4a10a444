SPECIFICATION FairSpec
CONSTANTS
  e1 = e1
  e2 = e2
  c1 = c1
  c2 = c2
  win = win
  lose = lose
  NoBlock = NoBlock
  Endpoints <- TwoEndpoints
  Calls <- OneCall
  BatchSize = 1
  MaxHeight = 2
  Forks <- TwoForks
  FinalFork = win
  UnfinalizedBlocks = TRUE
INVARIANTS Coherent CanonicalWhenFinal
PROPERTY Settles
