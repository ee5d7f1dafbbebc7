SPECIFICATION Spec
CONSTANTS
  Value = {zero}
  Zero = zero
  WarmAccess = 1
  SSet = 20
  SReset = 5
  SClear = 4
  Address = {a1, a2}
  Precompile = {}
  Key = {}
  CodeSize <- NoValues
  CopyRange <- NoValues
  SizeModulus = 16
  InputSize <- InputSizes
  LocalCapacity = 2
  MaxRecordedAccountAccesses = 3
  MaxRecordedCalls = 2
  MaxInputs = 3
  MaxRecords = 1
INVARIANTS TypeOK RecordedInputsValid RecordedActorsAreAccessed
