SPECIFICATION Spec
CONSTANTS
  a1 = a1  a2 = a2  t1 = t1  t2 = t2  p1 = p1  p2 = p2  m1 = m1  m2 = m2
  b1 = b1  b2 = b2  b3 = b3  ES = ES  None = None
  Apps = {a1, a2}
  Tasks = {t1, t2}
  AppOf <- TwoApps
  External = {a1}
  Pipes = {p1, p2}
  Creator <- Creators
  Msgs = {m1}
  Buffers = {b1, b2}
  Payloads = {1, 2}
  Depth <- Depths
  MaxDepth = 2
  Limits = {1}
  MaxDests = 2
SYMMETRY Symmetric
INVARIANTS TypeOK RefCounted PipeAccounted
PROPERTY ImplementsBus
