SPECIFICATION Spec
CONSTANTS
  Lengths = {1, 2, 3}
  Supported = {2, 3}
  Delay <- MCDelay
  MaxSamples = 6
  MaxTroubles = 3
  Resumes = FALSE
INVARIANTS TypeOK EofMeansFlushed
PROPERTIES EncodesInOrder FlushEnds
CHECK_DEADLOCK FALSE
