SPECIFICATION FairSpec
CONSTANTS
  Target = 3
  LastWave = 2
INVARIANTS WetOnlyTurning
PROPERTIES SpeedsUpAsWanted MotorsFollow
