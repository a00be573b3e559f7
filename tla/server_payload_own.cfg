SPECIFICATION Spec
CONSTANTS
  d1 = d1
  d2 = d2
  d3 = d3
  d4 = d4
  m1 = m1
  m2 = m2
  m3 = m3
  m4 = m4
  es = es
  es2 = es2
  tcp = tcp
  file = file
  w1 = w1
  w2 = w2
  w3 = w3
  Garbled = Garbled
  None = None
  Datagrams = {d1, d2}
  Messages = {m1, m2}
  MsgOf <- OneMessageEach
  MsgType <- AllInfo
  MsgLen <- OneCell
  BufCells = 1
  Outputs = {tcp}
  OutputType <- TypeByName
  Workers = {w1}
  OutputOf <- Tcp
INVARIANT PayloadIsOwn
