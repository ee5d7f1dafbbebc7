SPECIFICATION Spec
CONSTANTS
  Delegated = TRUE
  MaxDepth = 4
  Amount <- Amounts
  Output = {empty, data}
  Empty = empty
INVARIANTS StaticIsInherited ResultComesBack
