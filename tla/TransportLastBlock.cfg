SPECIFICATION Spec
CONSTANTS
  Streams <- MixedStreams
  BufBits = 280
  MaxChunk = 45
  Misread = {0}
INVARIANTS WaitsForItsFrame
CHECK_DEADLOCK FALSE
