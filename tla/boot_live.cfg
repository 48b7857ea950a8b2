SPECIFICATION FairSpec
CONSTANTS
  v1 = v1
  v2 = v2
  torn = torn
  tnd = tnd
  big = big
  blink = blink
  rbl = rbl
  alien = alien
  raw = raw
  NoFile = NoFile
  Erased = Erased
  Junk = Junk
  Format <- MCFormat
  Target <- MCTarget
  Size <- MCSize
  Sound <- MCSound
  Vector <- MCVector
  Files = {v2, tnd, rbl, big}
  Factory = {NoFile, v2}
  Blocks = 3
  IndexMod = 5
  MaxResets = 1
  Patient = TRUE
  Quiet = TRUE
INVARIANTS InOrder WritesInside
PROPERTIES PendingIsInstalled BootDecides PartOnlyByLoss SessionsAdvance SessionEnds
