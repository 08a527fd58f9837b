SPECIFICATION Spec
CONSTANTS
  NULL = NULL
  Absent = Absent
  Gone = Gone
  c1 = c1
  c2 = c2
  text = text
  h = h
  s = s
  Requests = {r1, r2}
  Companies = {c1, c2}
  Customers = {k1, k2}
  Invoices = {i1, i2, i3}
  Rows = {w1, w2, w3, w4}
  RutIds = {q1, q2}
  Files = {}
  Texts = {text}
  Hours = {h}
  Sums = {s}
  FirstNumber <- MCFirstNumber
  Forms <- BookForms
  Faults = FALSE
SYMMETRY Symmetry
PROPERTY ImplementsRegister
PROPERTY AppearsWhole
PROPERTY MadeFromAcceptedOffer
