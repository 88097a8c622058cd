SPECIFICATION Spec
CONSTANTS
  Streams <- AllStreams
  BufBits = 280
  MaxChunk = 45
  Misread <- MCMisread
INVARIANTS TypeOK SearchesAligned NotEnoughIsTrue
PROPERTIES NeverMovesBack ChunkIndependent ReportsLossOnce AllTaken
CHECK_DEADLOCK FALSE
