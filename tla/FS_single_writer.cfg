CONSTANTS
  key1 = key1
  key2 = key2
  v1 = v1
  v2 = v2
  w1 = w1
  r1 = r1
  r2 = r2
  None = none
  Key = {key1, key2}
  Value = {v1, v2}
  Writer = {w1}
  Reader = {r1, r2}
  EarlyReaders = FALSE
  MaxFaults = 2
SPECIFICATION Spec
SYMMETRY Symmetry
INVARIANT TypeOK
PROPERTIES GarbledByFaultOnly ImplementsStore
