CONSTANTS
  a = a
  b = b
  None = none
  Object = object
  Text = {a, b}
  Shape <- MCShape
  FileRef <- MCFileRef
  MaxFields = 2
  MaxItems = 2
SPECIFICATION Spec
SYMMETRY Symmetry
INVARIANT TypeOK
PROPERTIES ReadBack OnlyThatField UploadKeepsReferences RemovesExactly
