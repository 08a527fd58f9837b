SPECIFICATION Spec
CONSTANTS
  NULL = NULL
  Tenth = 1
  Mantissa = 1000000
  NewRows <- MCRows
  Numbers <- MCNumbers
  Sums = {0, 9}
  HoursGiven = {2}
  MaxRows = 2
INVARIANT TypeOK
INVARIANT OneAmountToPay
INVARIANT VouchersBalance
INVARIANT PrintedAsShown
INVARIANT MaximumIsTheRebate
INVARIANT OfferedExportIsMade
INVARIANT FileAddsUp
