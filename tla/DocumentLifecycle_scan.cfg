SPECIFICATION Spec
CONSTANTS
  Reviews = {r1}
  Slots = {s1, s2}
  MaxVersions = 2
  Dated = {1}
SYMMETRY Symmetry
INVARIANTS PublishedIsClean
