SPECIFICATION Spec
CONSTANTS
  a1 = a1
  fr = fr
  en = en
  Locales = {fr, en}
  Attempts = {a1}
  LocaleOf <- OneLanguage
  NoReceipt = NoReceipt
  Names = {k1, k2, k3}
  Slots = {s1, s2}
  None = None
SYMMETRY Symmetry
CHECK_DEADLOCK FALSE
INVARIANTS FilesMatchVersions LabelsSound
PROPERTIES ExactlyOnce
