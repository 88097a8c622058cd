SPECIFICATION Spec
CONSTANTS
  ByteBits = 2
  BufSize = 4
  UintRange = 64
  CacheBits = 4
  HuffmanBits = 2
  MaxBytes = 5
  MaxChunk = 5
  MaxSkip = 3
  MaxOverread = 2
INVARIANTS TypeOK RewindableBitsKept CacheCoherent CursorsAgree
PROPERTIES ImplementsFifo AlignsToAnchor
CHECK_DEADLOCK FALSE
