CONSTANTS
  Missing = missing
  Unspecified = unspecified
  BlockSize = 2
  Base = 4
  WordSize = 5000
  DefaultLength = 4
  Data <- MCData
  Time = {0, 1, 29, 30, 31, 59, 60, 61, 119}
  Period <- MCPeriod
  Decimal = {0, 1, 3, 4, 15, 16, 17, 63, 64, 255, 256}
  Digits <- MCDigits
  Count <- MCCount
  Length <- MCLength
SPECIFICATION Spec
INVARIANTS RoundTrip OnlyPaddingRemoved CodeLastsTimeLeft CodeIsLastDigits PasswordAsAsked
