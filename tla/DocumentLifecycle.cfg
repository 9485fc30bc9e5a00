SPECIFICATION Spec
CONSTANTS
  Reviews = {r1, r2}
  Slots = {s1, s2}
  MaxVersions = 2
  Dated = {1}
SYMMETRY Symmetry
VIEW View
INVARIANTS TypeOK PublishedWasScanned TrashIsUnpublished OnePublicationReview OneOpenAnnualReview
PROPERTIES DecisionsAreFinal
