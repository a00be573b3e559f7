SPECIFICATION Spec
CONSTANTS
  w1 = w1
  w2 = w2
  j1 = j1
  j2 = j2
  i1 = i1
  i2 = i2
  i3 = i3
  i4 = i4
  i5 = i5
  None = None
  Writers = {w1, w2}
  Jobs = {j1, j2}
  Infos = {i1, i2, i3, i4, i5}
  JobOf <- TwoElsewhere
  Unreliable = {j2}
INVARIANT TypeOK
INVARIANT RecordsKept
INVARIANT ValidUnlessDisturbed
INVARIANT FileWellFormed
PROPERTY DamageIsPermanent
