SPECIFICATION Spec
CONSTANTS
  Configs <- AllConfigs
  PreRollConfigs <- WithPreRoll
  PreRolls <- MCPreRolls
  Scenarios <- PlayedScenarios
INVARIANTS TypeOK DecodesWithItsConfig FlushCompletes PreRollsFirst PlaysIntact
PROPERTIES CallsReturn
CHECK_DEADLOCK FALSE
