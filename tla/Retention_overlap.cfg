SPECIFICATION Spec
CONSTANTS
  d1 = d1
  f1 = f1
  f2 = f2
  Documents = {d1}
  Admins = {a1, a2}
  Files = {f1, f2}
  Workers = {w1}
  Slots = {s1, s2}
  Approvals = {p1}
  Null = Null
  InitialFiles <- OneDocument
  Batch = 1
  MaxFaults = 0
SYMMETRY Symmetry
INVARIANTS TwoPersonDestruction
PROPERTIES HoldReleasedByTwo
CHECK_DEADLOCK FALSE
