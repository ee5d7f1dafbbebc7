SPECIFICATION Spec
CONSTANTS
  Word = 8
  MemorySize = 4
  StackSize = 8
  BlockNumber = 13
  Program <- Programs
  Deployable <- DeployableCodes
  Input <- Inputs
  Gas <- Gases
  create_gas = 20
  MaxIterations = 2
INVARIANTS RegionsFit BeyondSizeIsZero WarnsOnlyAboutStorage GasUsedIsOfLimit
PROPERTY RunEnds
