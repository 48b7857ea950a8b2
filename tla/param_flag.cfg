SPECIFICATION Spec
CONSTANTS
  FLASH_SEG_INDEX_END = 1
  FLASH_PAGE_INDEX_END = 1
  MinPerHour = 2
  HoursLimit = 3
  MaxWrites = 2
  MaxResets = 1
INVARIANT FlagMeansData
