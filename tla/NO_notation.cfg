CONSTANTS
  None = none
  Word <- MCWord
  Digits = {"0", "1", "9"}
  Uid = {"U1", "U2"}
  Text <- Title
  NumberOf <- MCNumberOf
  Contents <- MCContents
  Services <- MCServices
  Ask <- MCAsk
  Cache = TRUE
SPECIFICATION Spec
INVARIANTS TypeOK WrittenIsRead FoundIsAsked SameValue
CHECK_DEADLOCK FALSE
