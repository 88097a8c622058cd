SPECIFICATION Spec
CONSTANTS
  ByteBits = 3
  BufSize = 2
  UintRange = 64
  CacheBits = 4
  Fields <- MCFields
  MaxBits = 6
INVARIANT StoredInOrder
CHECK_DEADLOCK FALSE
