SPECIFICATION LiveSpec
CONSTANTS
  d1 = d1
  f1 = f1
  f2 = f2
  Documents = {d1}
  Admins = {a1, a2}
  Files = {f1, f2, f3}
  Workers = {w1, w2}
  Slots = {s1}
  Approvals = {}
  Null = Null
  InitialFiles <- OneDocument
  Batch = 1
  MaxFaults = 2
INVARIANTS TypeOK RecordedFilesGone
PROPERTIES NoResurrection DestructionCompletes
CHECK_DEADLOCK FALSE
