SPECIFICATION Spec
CONSTANTS
  FileName <- LongestFileName
  Config <- NoConfig
  PATH_MAX_LENGTH = 7
INVARIANT AcceptedNameAsDocumented
