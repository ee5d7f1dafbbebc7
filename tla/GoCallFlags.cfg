SPECIFICATION Spec
CONSTANTS
  Delegated = TRUE
  MaxDepth = 2
  Amount <- Amounts
  Output = {empty, data}
  Empty = empty
INVARIANT StaticOnlyIfRequested
