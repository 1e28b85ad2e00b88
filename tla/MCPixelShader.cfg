CONSTANTS
  w1 = w1  w2 = w2  i1 = i1  i2 = i2  s1 = s1  s2 = s2
  t1 = t1  t2 = t2  p1 = p1  p2 = p2  p3 = p3
  Null = Null
  Workers = {w1, w2}
  Instances = {i1, i2}
  Slots = {s1}
  Triangles = {t1, t2}
  Pixels = {p1, p2, p3}
  Regs = {0, 1}
  Inst <- MCInst
  PixTri <- MCPixTri
  PixX <- MCPixX
  PixY <- MCPixY
  TriW <- MCTriW
  TriZ <- MCTriZ
  TriAttr <- MCTriAttr
  TriFF <- MCTriFF
  UserDepths <- MCUserDepths
INIT PSInit
NEXT PSNext
CHECK_DEADLOCK FALSE
INVARIANT PSTypeOK CallbacksReadOwnPixel DerivativeCorrect
PROPERTY ShadingRefinement
