SPECIFICATION Spec
CONSTANTS
  Configs <- AllConfigs
  PreRollConfigs <- WithPreRoll
  PreRolls <- MCPreRolls
  Scenarios <- MissedScenarios
INVARIANTS DecodesWithItsConfig
CHECK_DEADLOCK FALSE
