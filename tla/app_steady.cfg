SPECIFICATION Spec
CONSTANTS
  MaxHours = 2
  MaxMessages = 3
  LcdReboots = TRUE
  SteadyKey = TRUE
  CalmOta = TRUE
PROPERTIES CutsAfterSave KeepsCount
