SPECIFICATION Spec
CONSTANTS
  NULL = NULL
  Tenth = 1
  Mantissa = 1000000
  NewRows <- SixPercent
  Numbers <- MCNumbers
  Sums = {9}
  HoursGiven = {2}
  MaxRows = 1
INVARIANT VATAsLabelled
