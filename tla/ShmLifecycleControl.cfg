SPECIFICATION lifeSpec
CONSTANTS
  MaxGen = 2
  MaxQuits = 0
  Retries = 0
INVARIANT ControlInitialised
