SPECIFICATION Spec
CONSTANTS
  v1 = v1
  v2 = v2
  torn = torn
  tnd = tnd
  big = big
  blink = blink
  rbl = rbl
  alien = alien
  raw = raw
  NoFile = NoFile
  Erased = Erased
  Junk = Junk
  Format <- MCFormat
  Target <- MCTarget
  Size <- MCSize
  Sound <- MCSound
  Vector <- MCVector
  Files = {v1, v2}
  Factory = {v1}
  Blocks = 2
  IndexMod = 4
  MaxResets = 2
  Patient = FALSE
  Quiet = TRUE
INVARIANTS StartsOnlyComplete NeverWithoutFirmware WritesHitErased
PROPERTIES PendingKept UpdatesAtOnce
