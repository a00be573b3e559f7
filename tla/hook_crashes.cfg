SPECIFICATION Spec
CONSTANTS
  sh = sh
  app = app
  r1 = r1
  r2 = r2
  Binaries = {sh, app}
  Regexps <- TwoFilters
  Bad = {}
  Matching <- SecondMatch
  MaxAddrs = 1
  MaxFd = 0
INVARIANT ProgramUninterrupted
