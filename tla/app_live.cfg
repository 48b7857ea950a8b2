SPECIFICATION FairSpec
CONSTANTS
  MaxHours = 1
  MaxMessages = 3
  LcdReboots = FALSE
  SteadyKey = FALSE
  CalmOta = TRUE
INVARIANTS WaitsForWhatComes
PROPERTIES StartsUp ShutdownServed UpdateServed
