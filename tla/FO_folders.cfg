CONSTANTS
  f1 = f1
  f2 = f2
  f3 = f3
  r1 = r1
  None = none
  Folder = {f1, f2, f3}
  Record = {r1}
SPECIFICATION CreationFairSpec
INVARIANTS CreationTypeOK KeysFound ReadableByAll RecordsReadable
PROPERTY DecodingEnds
CHECK_DEADLOCK FALSE
