SPECIFICATION FairSpec
CONSTANTS
  Slots = 4
  Burst = 3
  Frames = {hand, info, junk}
  Valid = {hand, info}
  Empty = junk
  MaxAsks = 2
INVARIANTS WakesForFrames WakesForAsks
PROPERTIES KeepsFrames FramesHandled AsksServed
