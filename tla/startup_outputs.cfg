SPECIFICATION FairSpec
CONSTANTS
  a = a
  b = b
  c = c
  None = None
  Outputs = {a, b, c}
  WorkerCount <- TwoOneNone
INVARIANT TypeOK
INVARIANT NothingMissing
INVARIANT ReadyToReceive
PROPERTY ServerStarts
