SPECIFICATION Spec
CONSTANTS
  u1 = u1
  u2 = u2
  NULL = NULL
  Stamps = {u1, u2}
  Objects <- AllObjects
  Strides <- AllStrides
INVARIANT TypeOK
INVARIANT SignatureIsAStamp
INVARIANT ReachedStampReported
