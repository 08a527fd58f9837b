SPECIFICATION HSpec
CONSTANTS
  NULL = NULL
  Absent = Absent
  Gone = Gone
  c1 = c1
  c2 = c2
  i1 = i1
  text = text
  h = h
  s = s
  Requests = {r1, r2}
  Companies = {c1}
  Customers = {k1}
  Invoices = {i1}
  Rows = {w1}
  RutIds = {q1, q2}
  Files = {}
  Texts = {text}
  Hours = {h}
  Sums = {s}
  FirstNumber <- MCFirstNumber
  Forms <- RutForms
  Faults = FALSE
SYMMETRY Symmetry
INVARIANT TypeOK
INVARIANT OneRequestPerType
PROPERTY RequestedWhenPaid
PROPERTY PaymentDateKept
PROPERTY DeletedStays
PROPERTY SentRequestStays
