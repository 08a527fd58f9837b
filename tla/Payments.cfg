SPECIFICATION FairSpec
CONSTANTS
  NULL = NULL
  Absent = Absent
  Gone = Gone
  c1 = c1
  c2 = c2
  text = text
  h = h
  s = s
  Requests = {r1, r2}
  Companies = {c1}
  Customers = {k1}
  Invoices = {i1}
  Rows = {w1, w2}
  RutIds = {q1, q2}
  Files = {}
  Texts = {text}
  Hours = {h}
  Sums = {s}
  FirstNumber <- MCFirstNumber
  Forms <- PayForms
  Faults = TRUE
INVARIANT AskInvariant
PROPERTY EveryRequestEnds
PROPERTY EveryTypeRequested
PROPERTY NothingKeptOfAFailure
