SPECIFICATION FairSpec
CONSTANTS
  l1 = l1
  l2 = l2
  wrap = wrap
  bin = bin
  usr = usr
  f1 = f1
  f2 = f2
  f3 = f3
  None = None
  Links = {l1, l2}
  Dirs = {wrap, bin, usr}
  Wrappers = {wrap}
  Linkers = {bin}
  Files = {f1, f2, f3}
  Paths <- AllPaths
INVARIANT TypeOK
INVARIANT SignaturesSound
PROPERTY PathDecides
