SPECIFICATION AccessSpec
CONSTANTS
  Categories = {c1, c2}
  Groups = {g1, g2}
  Tasks = {t1, t2}
  MaxRules = 2
  Root = Root
  Unset = Unset
  Gone = Gone
SYMMETRY Symmetry
INVARIANTS FilingSound NearestRuleDecides
PROPERTIES RemovalsSound
