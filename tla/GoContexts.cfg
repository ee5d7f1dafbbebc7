SPECIFICATION FairSpec
CONSTANTS
  Frame = {f1, f2, f3}
  HostContext = {c1, c2}
  Nil = Nil
  MaxCallbacks = 1
  IdLimit = 3
INVARIANTS TypeOK CallbackFindsOwnContext LiveIdsDistinct RegisteredIsMapped NothingLeaks
PROPERTY ExecuteReturns
CHECK_DEADLOCK FALSE
