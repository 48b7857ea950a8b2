SPECIFICATION FairSpec
CONSTANTS
  Debounce = 2
  CountMod = 4
INVARIANTS Debounced
PROPERTIES StartsSettled KnobTaken
