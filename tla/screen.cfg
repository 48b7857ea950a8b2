SPECIFICATION FairSpec
CONSTANTS
  Counts = {2030, 2708, 3500}
  Spikes = {0, 4095}
  Minute = 2
  MaxChanges = 1
  Steps <- MCSteps
  Blinking = {0}
  IndexMod = 16
  MaxGlitches = 1
  Lockstep = TRUE
INVARIANTS SupplyAboveLowest ErrorsReal LevelShown
PROPERTIES HealthyKept ErrorShown Repaired
