SPECIFICATION Spec
CONSTANTS
  Signers = {g1, g2}
  Shares = {h1, h2}
  Limits = {None, 1, 2}
  Slots = {s1, s2}
  None = None
SYMMETRY Symmetry
INVARIANTS SignaturesSound LinksSound SharesSound NoPlainSensitive
PROPERTIES EndingsFinal
