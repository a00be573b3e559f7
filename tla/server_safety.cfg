SPECIFICATION Spec
CONSTANTS
  d1 = d1
  d2 = d2
  d3 = d3
  d4 = d4
  m1 = m1
  m2 = m2
  m3 = m3
  m4 = m4
  es = es
  es2 = es2
  tcp = tcp
  file = file
  w1 = w1
  w2 = w2
  w3 = w3
  Garbled = Garbled
  None = None
  Datagrams = {d1, d2, d3, d4}
  Messages = {m1, m2, m3, m4}
  MsgOf <- OneMessageEach
  MsgType <- OneOther
  MsgLen <- OneToThree
  BufCells = 2
  Outputs = {file, tcp}
  OutputType <- TypeByName
  Workers = {w1, w2, w3}
  OutputOf <- FileFileTcp
SYMMETRY WorkerSymmetry
INVARIANT TypeOK
INVARIANT DecodesOwnPayload
INVARIANT InOnePlace
INVARIANT RecordedOnce
PROPERTY TcpLossIsFinal
