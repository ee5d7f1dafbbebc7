SPECIFICATION GasSpec
CONSTANTS
  Value = {zero, x, y, z}
  Zero = zero
  WarmAccess = 1
  SSet = 200
  SReset = 29
  SClear = 150
  Address = {a1}
  Precompile = {}
  Key = {k1, k2}
  CodeSize <- NoValues
  CopyRange <- NoValues
  SizeModulus = 16
  InputSize <- NoValues
  LocalCapacity = 2
  MaxRecordedAccountAccesses = 1
  MaxRecordedCalls = 1
  MaxInputs = 0
  MaxRecords = 0
  MaxStores = 4
SYMMETRY Symmetry
INVARIANTS NetGasIsPathIndependent RefundNeverNegative StatusDeterminesGas StatusIsChecksum
