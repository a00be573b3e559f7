SPECIFICATION PipelineFairSpec
CONSTANTS
  sh = sh
  app = app
  r1 = r1
  r2 = r2
  Binaries = {sh, app}
  Regexps <- TwoFilters
  Bad = {}
  Matching <- SecondMatch
  MaxAddrs = 2
  MaxFd = 2
  MaxImages = 2
  Datagrams = {1, 2}
  Outputs = {"file"}
  None = None
INVARIANT PipelineTypeOK
INVARIANT SocketAccounted
INVARIANT ReturnTellsConnected
INVARIANT OnlyTracedRecorded
INVARIANT RecordedTwiceOnlyIfDuplicated
PROPERTY DescriptorsLeft
PROPERTY HookReturns
