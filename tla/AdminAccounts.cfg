SPECIFICATION Spec
CONSTANTS
  Admins = {ann, bea}
  Ids = {i1, i2}
  Passwords = {p1, p2}
  Secrets = {k1, k2}
  Tokens = {t1}
  Slots = {s1, s2}
  MaxFailures = 2
  None = None

SYMMETRY Symmetry
CHECK_DEADLOCK FALSE
INVARIANTS ChangesEndSessions LoginGuarded ApprovedByAnother
