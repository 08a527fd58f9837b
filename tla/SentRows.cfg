SPECIFICATION HSpec
CONSTANTS
  NULL = NULL
  Absent = Absent
  Gone = Gone
  c1 = c1
  c2 = c2
  i1 = i1
  text = text
  h = h
  s = s
  Requests = {r1, r2}
  Companies = {c1}
  Customers = {k1}
  Invoices = {i1, i2}
  Rows = {w1}
  RutIds = {q1}
  Files = {}
  Texts = {text}
  Hours = {h}
  Sums = {s}
  FirstNumber <- MCFirstNumber
  Forms <- SentForms
  Faults = FALSE
SYMMETRY SentSymmetry
INVARIANT FlagsHaveDates
PROPERTY SentRowsStay
