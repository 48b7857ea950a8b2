SPECIFICATION FairSpec
CONSTANTS
  MaxHours = 1
  MaxMessages = 0
  LcdReboots = TRUE
  SteadyKey = FALSE
  CalmOta = TRUE
PROPERTIES ShutdownServed
