SPECIFICATION Spec
CONSTANTS
  Attacks = {1, 2}
  MaxAttack = 2
  MaxChannels = 2
  MaxLevel = 2
  Thresholds = {0, 1}
  Scalings = {1, 2}
  MaxChanges = 2
INVARIANTS TypeOK MaximumIsRunning DelayIsExact
