SPECIFICATION Spec
CONSTANTS
  NULL = NULL
  Absent = Absent
  Gone = Gone
  ann = ann
  bob = bob
  empty = empty
  long = long
  other = other
  short = short
  text1 = text1
  text2 = text2
  Requests = {r1, r2}
  Users = {u1, u2}
  Companies = {c1}
  Sessions = {k1, k2}
  Names = {ann, bob, empty}
  Passwords = {long, other, short}
  Short = {short}
  Texts = {text1, text2}
  NoName = empty
  Forms <- Logins
  Faults = FALSE
SYMMETRY Symmetry
PROPERTY LoggedInByName
