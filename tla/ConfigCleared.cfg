SPECIFICATION Spec
CONSTANTS
  Configs <- AllConfigs
  PreRollConfigs <- WithPreRoll
  PreRolls <- MCPreRolls
  Scenarios <- ClearedScenarios
INVARIANTS PlaysIntact
CHECK_DEADLOCK FALSE
