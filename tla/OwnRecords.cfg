SPECIFICATION Spec
CONSTANTS
  NULL = NULL
  Absent = Absent
  Gone = Gone
  c1 = c1
  c2 = c2
  text = text
  h = h
  s = s
  Requests = {r1, r2}
  Companies = {c1, c2}
  Customers = {k1, k2}
  Invoices = {i1, i2}
  Rows = {}
  RutIds = {}
  Files = {f1}
  Texts = {text}
  Hours = {h}
  Sums = {s}
  FirstNumber <- MCFirstNumber
  Forms <- RecordForms
  Faults = TRUE
SYMMETRY Symmetry
INVARIANT OwnCustomers
INVARIANT FilesAttached
