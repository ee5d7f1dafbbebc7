SPECIFICATION Spec
CONSTANTS
  Option = {o1, o2}
  MaxOptions = 2
  MaxCalls = 3
INVARIANTS NoVMLeaks MessageIsCurrent FailedLoadCloses
PROPERTY LoaderPromise
