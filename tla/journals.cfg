CONSTANTS
  Cells = 3
  Value = {0, 1}
  Unset = Unset
  Adjusted <- MCAdjusted
  MaxRecords = 2
  MaxBlocks = 2
  MaxBytes = 3
  Coalesce = TRUE
  Bulk = 2
  Touchable <- MCTouchable
  MaxFrame = 2
  MaxPoolRecords = 2
  MaxPoolFrame = 2
  Slots = 1
  Parts = 2
  PartValue = {0, 1}
  Missing = Missing
SPECIFICATION BothSpec
INVARIANTS
  NothingIsPutOffForEver
  JournalsAgree
PROPERTIES
  ImplementsSnapshots
  PoolImplementsSnapshots
