SPECIFICATION Spec
CONSTANTS
  NumItems = 2
  Hours = {0, 1, 12, 13}
  Values = {5, 6}
  MaxList = 2
  MaxBatch = 2
INVARIANTS TypeOK RowsRight BatchFate HoursKeptApart
CHECK_DEADLOCK FALSE
