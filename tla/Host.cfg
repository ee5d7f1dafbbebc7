SPECIFICATION Spec
CONSTANTS
  Value = {zero, x}
  Zero = zero
  WarmAccess = 1
  SSet = 20
  SReset = 5
  SClear = 4
  Address = {a1, p1}
  Precompile = {p1}
  Key = {k1}
  CodeSize <- CodeSizes
  CopyRange <- CopyRanges
  SizeModulus = 16
  InputSize <- NoValues
  LocalCapacity = 2
  MaxRecordedAccountAccesses = 2
  MaxRecordedCalls = 1
  MaxInputs = 0
  MaxRecords = 0
INVARIANTS CopyCodeInBounds
PROPERTIES WarmStaysWarm AccessStatusExact AccessStatusBeyondRecord
