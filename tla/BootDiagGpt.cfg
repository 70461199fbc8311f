CONSTANTS
  Images <- MCImages
  Win32 = TRUE
  MaxRetries = 1
SPECIFICATION Spec
INVARIANT ValidDiskPasses
CHECK_DEADLOCK FALSE
