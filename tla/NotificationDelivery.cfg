SPECIFICATION LiveSpec
CONSTANTS
  Events = {e1}
  Recipients = {r1, r2}
  Workers = {w1}
  Nobody = Nobody
  MaxAttempts = 2
  MaxFaults = 2
INVARIANTS TypeOK DuplicatesNeedFault SentMeansMailed
PROPERTIES EventuallySettled
