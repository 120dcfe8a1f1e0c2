CONSTANTS
  t1 = t1
  t2 = t2
  p1 = p1
  p2 = p2
  p3 = p3
  p4 = p4
  p5 = p5
  k1 = k1
  k2 = k2
  UnknownKeyId = kx
  None = none
  Token = {t1, t2}
  KeyPair = {p1, p2, p3, p4, p5}
  KeyId = {k1, k2}
  DefaultKeyId = k1
  CodeToken = {t1, t2, none}
  EnvToken = {t1, t2, none}
  UseCache = FALSE
  Resends = TRUE
  MaxFaults = 4
SPECIFICATION Spec
SYMMETRY FullSymmetry
INVARIANTS TypeOK BoundIdentity DeliveredReadable KeyIdUsable
PROPERTY ImplementsBinding
