SPECIFICATION Spec
CONSTANTS
  NULL = NULL
  Absent = Absent
  Gone = Gone
  c1 = c1
  c2 = c2
  text = text
  h = h
  s = s
  Requests = {r1, r2}
  Companies = {c1}
  Customers = {k1}
  Invoices = {i1}
  Rows = {w1}
  RutIds = {}
  Files = {}
  Texts = {text}
  Hours = {h}
  Sums = {s}
  FirstNumber <- MCFirstNumber
  Forms <- SendForms
  Faults = FALSE
SYMMETRY Symmetry
PROPERTY SentRowsFrozen
