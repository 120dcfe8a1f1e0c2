CONSTANTS
  h1 = h1
  e1 = e1
  e2 = e2
  f1 = f1
  None = none
  Handle = {h1}
  Edit = {e1, e2}
  File = {f1}
  Cache = TRUE
  MaxRevision = 2
SPECIFICATION FilesSpec
PROPERTY SaveSendsTheRecord
CHECK_DEADLOCK FALSE
