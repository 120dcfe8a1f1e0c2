CONSTANTS
  t1 = t1
  p1 = p1
  p2 = p2
  p3 = p3
  p4 = p4
  k1 = k1
  k2 = k2
  UnknownKeyId = kx
  None = none
  Token = {t1}
  KeyPair = {p1, p2, p3, p4}
  KeyId = {k1, k2}
  DefaultKeyId = k1
  CodeToken = {none}
  EnvToken = {t1}
  UseCache = FALSE
  Resends = TRUE
  MaxFaults = 0
SPECIFICATION Spec
INVARIANT EnvTokenBinds
