SPECIFICATION Spec
CONSTANTS
  Objects <- Narrow
  Bytes <- FourBytes
  MaxLen = 1
INVARIANTS RightChecksum
