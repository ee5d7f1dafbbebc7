SPECIFICATION VMSpec
CONSTANTS
  Slot = {s1, s2, s3}
  Buffer = {b1, b2}
  Null = Null
  Instance = {i1, i2}
  Wrapper = {w1, w2}
  Call = {c1, c2}
SYMMETRY Symmetry
INVARIANTS ReleasedOnce NoOutputLeaks OneOwner CallsHaveInstance
CHECK_DEADLOCK FALSE
