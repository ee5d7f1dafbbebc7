SPECIFICATION StringsSpec
CONSTANTS
  FileName <- MCFileName
  Config <- MCConfig
  PATH_MAX_LENGTH = 7
  HexText <- MCHexText
  ArraySize = 2
INVARIANTS NameAsDocumented ConfigAsDocumented DecodesAsDocumented OutputFits
PROPERTY Terminates
