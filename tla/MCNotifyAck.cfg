CONSTANTS
  a1 = a1
  a2 = a2
  k1 = k1
  k2 = k2
  bad = bad
  None = None
  Accounts = {a1, a2}
  Keys = {k1, bad}
  BadKeys = {bad}
SPECIFICATION Spec
INVARIANT
  SentMeansAcked
