CONSTANTS
  NULL = NULL
  JUNK = JUNK
  Linked <- MCLinked
  Plugins <- MCPlugins
  SignatureOf <- MCSignature
  Unresolvable = {"vdso"}
  Processes <- MCProcesses
  Whitelist <- MCWhitelist
  PathMax = 6
SPECIFICATION Spec
INVARIANTS
  TypeOK
  UndefinedOnlyIfDisturbed
  RecordIsTrue
  ListsLoaded
  HeapBalanced
