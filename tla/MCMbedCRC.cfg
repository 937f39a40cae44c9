\* Objects with a table and without, messages of up to four bytes in any parts.
SPECIFICATION Spec
CONSTANTS
  Objects <- WithAndWithout
  Bytes <- FourBytes
  MaxLen = 4
INVARIANTS TypeOK RightChecksum
PROPERTY DividesSerially
