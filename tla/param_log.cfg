SPECIFICATION FairSpec
CONSTANTS
  FLASH_SEG_INDEX_END = 1
  FLASH_PAGE_INDEX_END = 1
  MinPerHour = 2
  HoursLimit = 2
  MaxWrites = 5
  MaxResets = 1
INVARIANTS ProgramsErased RestsAtNewest
PROPERTIES SearchEnds SaveServed KeepsHours
